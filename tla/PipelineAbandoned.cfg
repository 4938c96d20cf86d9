\* A transform that drops a message in front of a queue, and a queue around an
\* observer, on a bus where nobody else takes it up.
CONSTANTS
    d1 = d1
    d2 = d2
    front = front
    back = back
    side = side
    queue = queue
    None = None
    Topics <- MCTopics
    Deliveries <- MCOne
    MayArrive <- MCAbandoned
    Buses <- MCBuses
    Queues <- MCQueues
    Capacity <- MCCapacity
    Undeliverable <- MCUndeliverable
    Subscribers <- MCSubscribers
    End <- MCEnd
    Passage <- MCPassage
    Disposition <- MCDisposition
    Wants <- MCWants
    Feeds <- MCFeedsAbandoned
    Behind <- MCBehindObserved
SPECIFICATION Spec
INVARIANT DeferralHonoured
CHECK_DEADLOCK FALSE
