CONSTANTS
    NPorts = 2
    QCnt = 2
    UseqCnt = 2
    Weight = 2
    DequeueType <- PQFirst
    Sizes = {1, 2}
    QToP <- OwnPriority
    EnqueueMethod = "PUSHOUT"
    DropType <- NoHeadDrop
    MaxBuffer = 3
    StaticBuffer = 0
    AlphaNum <- Alike
    AlphaDen = 1
    MaxToken = 2
    Refill = 2
    CeilSize = 1
    TokenFloor = 0
    IntervalBytes = 2
    Word = 64
SPECIFICATION Spec
INVARIANTS
    Capacity
    IdleDeficitsClear
    PushOutSucceeds
PROPERTIES
    SharesBuffer
CHECK_DEADLOCK FALSE
