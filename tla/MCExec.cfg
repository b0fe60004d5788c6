SPECIFICATION Spec
CONSTANTS
    W = 4
    K = 1
    J = 2
    LNK = 2
    Regs = {0, 1, 2}
    VECT_W = 3
    Vector <- MCVector
    RM = 3
    IRE = 2
    IMME = 1
    DMME = 0
    SRs = {"SR0"}
    Tags = {0, 1, 2, 3}
    SETS = 2
    WAYS = 2
    OFFS = 1
    Heap = {1}
    NotTaken = NotTaken
    Predictions <- MCPredictions
    MemBytes = {0, 1, 2, 3, 4, 5, 6, 7}
    Mixes <- MCMixes
    Junk = {13}
INVARIANTS
    SameRegs
    SamePc
    SameMem
