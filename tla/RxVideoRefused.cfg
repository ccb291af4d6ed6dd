SPECIFICATION Spec
CONSTANTS
    NFrames = 2
    Pkts = 3
    Ports = {"P", "R"}
    MaxFrames = 4
    TsMod = 16
    SeqMod = 16
    Threshold = 2
    MaxExtras = 2
    None = None
    Sessions <- MCRefused
CHECK_DEADLOCK FALSE
INVARIANTS
    FrameBalance
