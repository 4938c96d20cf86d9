\* A call that passed IsClosed sends after the workers have drained and gone.
CONSTANTS
    c1 = c1
    c2 = c2
    c3 = c3
    k1 = k1
    k2 = k2
    None = None
    Tick = Tick
    Calls <- MCCalls
    MayAsk <- MCMayAsk
    Topics <- MCTopics
    Keys <- MCKeys
    Hash <- MCHash
    Partitions = 2
    QueueSize = 1
    CounterLimit = 4
    Builds <- MCHandling
    Closers <- MCClosers
SPECIFICATION Spec
INVARIANT CloseProcessesAll
CHECK_DEADLOCK FALSE
