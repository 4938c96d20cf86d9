\* Three buses and a queue with room for one message each, two deliveries.
CONSTANTS
    d1 = d1
    d2 = d2
    front = front
    back = back
    side = side
    queue = queue
    None = None
    Topics <- MCTopics
    Deliveries <- MCTwo
    MayArrive <- MCMayArrive
    Buses <- MCBuses
    Queues <- MCQueues
    Capacity <- MCCapacity
    Undeliverable <- MCUndeliverable
    Subscribers <- MCSubscribers
    End <- MCEnd
    Passage <- MCPassage
    Disposition <- MCDisposition
    Wants <- MCWants
    Feeds <- MCFeeds
    Behind <- MCBehind
SPECIFICATION FairSpec
INVARIANTS
    TypeOK
    FollowsTheWork
    SomebodyHasIt
PROPERTIES
    TapsChangeNothing
    DeliveriesSettle
CHECK_DEADLOCK FALSE
