\* The gate: three callers that may sleep for ever, two racing frees; a freed handle stops.
CONSTANTS
    Callers = {c1, c2, c3}
    Freers = {f1, f2}
    NoThread = NoThread
SPECIFICATION FairSpec
CHECK_DEADLOCK FALSE
INVARIANTS TypeOK RefcntExact TeardownAlone FreedAfterRelease OneDestroyer
PROPERTIES
    GateImplemented
    FreeCompletes
