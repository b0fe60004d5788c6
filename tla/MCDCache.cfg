SPECIFICATION Spec
CONSTANTS
    Tags = {0, 1}
    SETS = 1
    WAYS = 2
    WORDS = 2
    Lanes = {0, 1}
    Masks <- MCMasks
    Watched <- MCWatched
INVARIANTS
    LoadsLastStore
    NothingLost
    FlushReachesMemory
PROPERTIES
    ReturnsToIdle
