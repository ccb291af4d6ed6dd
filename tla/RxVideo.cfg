SPECIFICATION Spec
CONSTANTS
    NFrames = 2
    Pkts = 2
    Ports = {"P", "R"}
    MaxFrames = 4
    TsMod = 16
    SeqMod = 16
    Threshold = 2
    MaxExtras = 2
    None = None
    Sessions <- MCSessions
CHECK_DEADLOCK FALSE
INVARIANTS
    TypeOK FrameBalance CompleteIsWhole StatusHonest LossCharged
PROPERTY NeverTouchHeld
