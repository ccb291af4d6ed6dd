\* A frame that was put is taken.
CONSTANTS
    u1 = u1
    u2 = u2
    c1 = c1
    c2 = c2
    Tasklet = Tasklet
    Freer = Freer
    None = None
    N = 2
    SeqSpan = 6
    MaxBatch = 2
    Users <- MCUsers
    Converters <- MCConverters
    Sessions <- MCLive
SPECIFICATION FairSpec
PROPERTIES
    FrameIsTaken
