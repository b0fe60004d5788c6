SPECIFICATION Spec
CONSTANTS
    Depth = 2
    N = 4
    LRegs = {1}
    Kinds <- MCKinds
INVARIANTS
    CommittedWritten
    ExecutedOnce
    OperandsWritten
PROPERTY Leaves
