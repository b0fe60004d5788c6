SPECIFICATION Spec
CONSTANTS
    PCS = 4
    FW = 2
    IW = 2
    Depth = 2
    Predictions <- MCPredictions
    Refusable = {0, 1, 3}
    Targets = {0, 3}
    MaxFlush = 1
INVARIANTS
    DecodesPath
PROPERTY
    Supplies
