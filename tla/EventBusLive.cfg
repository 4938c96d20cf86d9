CONSTANTS
    c1 = c1
    c2 = c2
    c3 = c3
    worker = worker
    batcher = batcher
    tap = tap
    None = None
    Calls <- MCCalls3
    MayAsk <- MCLiveMayAsk
    Subscribers <- MCSubscribers
    Topics <- MCTopics
    Reserved <- MCReserved
    UndeliverableTopic = "$undeliverable"
    Patterns <- MCPatterns
    Matches <- MCMatches
    Disposition <- MCDisposition
    BufferSize = 1
    Undeliverable = FALSE
SPECIFICATION FairSpec
PROPERTIES
    CallsReturn
    AutoSettles
    StopReturns
CHECK_DEADLOCK FALSE
