\* A report of notify_frame_done is lost.
CONSTANTS
    u1 = u1
    u2 = u2
    c1 = c1
    c2 = c2
    Tasklet = Tasklet
    Freer = Freer
    None = None
    N = 2
    SeqSpan = 6
    MaxBatch = 2
    Users <- MCUsers
    Converters <- MCConverters
    Sessions <- MCDoneRace
SPECIFICATION Spec
INVARIANTS
    DoneOnce
