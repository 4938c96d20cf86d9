CONSTANTS
    c1 = c1
    c2 = c2
    c3 = c3
    worker = worker
    batcher = batcher
    tap = tap
    None = None
    Calls <- MCCalls2
    MayAsk <- MCStopMayAsk
    Subscribers <- MCSubscribers
    Topics <- MCTopics
    Reserved <- MCReserved
    UndeliverableTopic = "$undeliverable"
    Patterns <- MCPatterns
    Matches <- MCMatches
    Disposition <- MCDisposition
    BufferSize = 2
    Undeliverable = FALSE
SPECIFICATION FairSpec
PROPERTIES
    AcceptedFinished
CHECK_DEADLOCK FALSE
