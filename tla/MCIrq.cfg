SPECIFICATION IrqSpec
CONSTANTS
    CntMod = 4
    InFlight = 2
    Tcrs <- MCTcrs
    FreeOps = {}
    Refill = 3
    Returns = {FALSE}
INVARIANTS
    InterruptsAgree
PROPERTIES
    Served
    MatchTaken
