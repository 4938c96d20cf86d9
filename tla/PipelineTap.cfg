\* A handler that asks a bus on which an observer may fail.
CONSTANTS
    d1 = d1
    d2 = d2
    front = front
    back = back
    side = side
    queue = queue
    None = None
    Topics <- MCTopics
    Deliveries <- MCOne
    MayArrive <- MCAsked
    Buses <- MCBuses
    Queues <- MCQueues
    Capacity <- MCCapacity
    Undeliverable <- MCUndeliverable
    Subscribers <- MCSubscribers
    End <- MCEnd
    Passage <- MCPassage
    Disposition <- MCDisposition
    Wants <- MCWants
    Feeds <- MCFeedsTapped
    Behind <- MCBehind
SPECIFICATION Spec
INVARIANT TapsUnheard
CHECK_DEADLOCK FALSE
