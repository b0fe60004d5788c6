SPECIFICATION Spec
CONSTANTS
    Line = 4
    Vals = {0, 1}
    Access <- AllAccess
INVARIANTS
    BeatsConserved
    AssertionsHold
    ReadsBack
PROPERTY
    AccessesEnd
