CONSTANTS
    Events = {e1, e2, e3}
    Workers = {w1, w2}
    NoEvent = NoEvent
    MaxOutages = 2
SPECIFICATION FairQueueSpec
INVARIANTS
    OnePlacePerMessage
    AckedMeansHandled
    DuplicatesNeedOutages
PROPERTY EveryEventIsSettled
CHECK_DEADLOCK FALSE
