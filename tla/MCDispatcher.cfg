SPECIFICATION FairSpec

CONSTANTS
    w1 = w1
    w2 = w2
    Writers = {w1, w2}
    Listeners = {1, 2}
    Ops = {"set", "delete"}
    OpsOf <- AllAndDeletes
    MaxDepth = 2
    MaxWrites = 2
    MaxOwn = 1

INVARIANTS
    DeliveredInOrder
    NoRecordMissed
    QuietAfterClose
    StormIsBounded

PROPERTIES
    QueueDrains
    SilentOnceUnsubscribed

\* Once MaxWrites mutations are made and the queue is empty, everyone may rest.
CHECK_DEADLOCK FALSE
