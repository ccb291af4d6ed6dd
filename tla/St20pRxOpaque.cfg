SPECIFICATION Spec
CONSTANTS
    N = 2
    u1 = u1
    u2 = u2
    c1 = c1
    c2 = c2
    Users <- MCUsers
    Converters <- MCConverters
    Tasklet = Tasklet
    None = None
    Sessions <- MCOpaque
CHECK_DEADLOCK FALSE
INVARIANTS
    OpaqueMatches
