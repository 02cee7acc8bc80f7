CONSTANTS
    NPorts = 2
    QCnt = 1
    UseqCnt = 1
    Weight = 2
    DequeueType <- EachDRR
    Sizes = {1, 2}
    QToP <- OwnPriority
    EnqueueMethod = "PUSHOUT"
    DropType <- NoHeadDrop
    MaxBuffer = 3
    StaticBuffer = 2
    AlphaNum <- Alike
    AlphaDen = 1
    MaxToken = 2
    Refill = 2
    CeilSize = 1
    TokenFloor = 0
    IntervalBytes = 2
    Word = 64
SPECIFICATION Spec
INVARIANTS
    StaticAccounting
CHECK_DEADLOCK FALSE
