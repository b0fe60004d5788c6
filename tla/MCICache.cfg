SPECIFICATION Spec
CONSTANTS
    Tags = {0, 1}
    SETS = 1
    WAYS = 2
    WORDS = 2
    Fetch <- MCFetch
    Stored <- MCStored
    MaxVersion = 1
INVARIANTS
    DeliversWordAsked
    FetchesAreFresh
PROPERTY
    ReturnsToIdle
