\* Two patterns, two lost connections.
CONSTANTS
    p1 = p1
    p2 = p2
    None = None
    Patterns <- MCPatterns
    Builds <- MCBuilds
    MaxLosses = 2
    MaxCalls = 4
    AttemptCap = 3
SPECIFICATION FairSpec
INVARIANTS
    TypeOK
    AtMostOneMore
    BackoffGrows
    Restored
    OnlyOvertakenReturn
PROPERTIES
    ComesBack
    Stops
CHECK_DEADLOCK FALSE
