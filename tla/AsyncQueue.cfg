\* Two partitions with queues of one, three calls, two callers of Close.
CONSTANTS
    c1 = c1
    c2 = c2
    c3 = c3
    k1 = k1
    k2 = k2
    None = None
    Tick = Tick
    Calls <- MCCalls
    MayAsk <- MCMayAsk
    Topics <- MCTopics
    Keys <- MCKeys
    Hash <- MCHash
    Partitions = 2
    QueueSize = 1
    CounterLimit = 4
    Builds <- MCBuilds
    Closers <- MCClosers
SPECIFICATION FairSpec
INVARIANTS
    TypeOK
    AcceptedInCustody
    SettledByOutcome
    ClosedMeansDrained
PROPERTIES
    KeepsLanes
    AcceptedSettles
    CloseReturns
CHECK_DEADLOCK FALSE
