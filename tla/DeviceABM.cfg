CONSTANTS
    NPorts = 2
    QCnt = 1
    UseqCnt = 1
    Weight = 2
    DequeueType <- EachRR
    Sizes = {1, 2}
    QToP <- OwnPriority
    EnqueueMethod = "ABM"
    DropType <- NoHeadDrop
    MaxBuffer = 4
    StaticBuffer = 0
    AlphaNum <- Alike
    AlphaDen = 1
    MaxToken = 2
    Refill = 2
    CeilSize = 1
    TokenFloor = 0
    IntervalBytes = 2
    Word = 64
SPECIFICATION Spec
INVARIANTS
    SaturatedCounted
    Isolated
CHECK_DEADLOCK FALSE
