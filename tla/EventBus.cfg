CONSTANTS
    c1 = c1
    c2 = c2
    c3 = c3
    worker = worker
    batcher = batcher
    tap = tap
    None = None
    Calls <- MCCalls3
    MayAsk <- MCMayAsk
    Subscribers <- MCSubscribers
    Topics <- MCTopics
    Reserved <- MCReserved
    UndeliverableTopic = "$undeliverable"
    Patterns <- MCPatterns
    Matches <- MCMatches
    Disposition <- MCDisposition
    BufferSize = 2
    Undeliverable = TRUE
SYMMETRY CallSymmetry
SPECIFICATION Spec
INVARIANTS
    VerdictJustified
    AutoInCustody
    OneAnswer
    SyncVerdict
    RefusedHasNoEffect
    SubscribedHears
    UnsubscribedSilent
    UndeliverableEnds
CHECK_DEADLOCK FALSE
