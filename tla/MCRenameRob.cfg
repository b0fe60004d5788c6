SPECIFICATION MCSpec
CONSTANTS
    N_PRF = 4
    N_LRF = 2
    SrcPorts = {1}
    MaxInflight = 4
    DEPTH_WIDTH = 1
    Data = {alu, bru}
    Flushing = {bru}
    NoData = none
INVARIANTS
    TypeOK
    PhysicalRegistersPartitioned
    RatIsReplay
    UnwrittenIsBusy
    SourcesStayLive
    CommitsOwnResult
PROPERTY
    ImplementsInOrder
