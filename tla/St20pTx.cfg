\* Safety of the transmit pipeline in ten kinds of sessions; a freed session stops.
CONSTANTS
    u1 = u1
    u2 = u2
    c1 = c1
    c2 = c2
    Tasklet = Tasklet
    Freer = Freer
    None = None
    N = 2
    SeqSpan = 6
    MaxBatch = 2
    Users <- MCUsers
    Converters <- MCConverters
    Sessions <- MCSessions
SPECIFICATION Spec
CHECK_DEADLOCK FALSE
INVARIANTS
    TypeOK
    Exclusive
    ReportedOnce
    ParkedUntilReleased
    NoLostWakeup
PROPERTIES
    TransmitInOrder
