SPECIFICATION MmuSpec
CONSTANTS
    ISets = 2
    DSets = 1
    Pages = 16
    UncachedSeg = TRUE
    FetchVpns = {0, 1}
    DataVpns = {0, 8}
    ItlbLs <- MCItlbLs
    DtlbLs <- MCTlbLs
    ItlbHs <- MCItlbHs
    DtlbHs <- MCDtlbHs
    Psrs <- MCPsrs
    Depth = 2
INVARIANTS
    FetchTranslated
    AccessTranslated
