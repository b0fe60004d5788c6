SPECIFICATION Spec
CONSTANTS
    PCS = 4
    Width = 2
    ROBMax = 2
    Vector <- MCVector
    Programs <- MCPrograms
    Predictions <- MCPredictions
    LsuFaults = {{}, {"EALIGN"}, {"EDTM"}, {"EDPF"}}
    Ops = {"alu", "b", "ls", "psr", "epc", "epsr", "tlb", "icinv", "dcop", "rmsr", "syscall", "undef"}
    Handler = {"rete", "ls"}
INVARIANTS
    AccessOnce
PROPERTIES
    ImplementsIsa
    Finishes
