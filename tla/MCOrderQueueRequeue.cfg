CONSTANTS
    Events = {e1, e2}
    Workers = {w1, w2}
    NoEvent = NoEvent
    MaxOutages = 2
SPECIFICATION QueueSpec
PROPERTY FailedMessagesReturn
CHECK_DEADLOCK FALSE
