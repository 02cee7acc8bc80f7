CONSTANTS
    NPorts = 2
    QCnt = 2
    UseqCnt = 2
    Weight = 2
    DequeueType <- EachRR
    Sizes = {1, 2}
    QToP <- OwnPriority
    EnqueueMethod = "MULTILAYER_DT"
    DropType <- BothDrops
    MaxBuffer = 3
    StaticBuffer = 0
    AlphaNum <- Growing
    AlphaDen = 1
    MaxToken = 1
    Refill = 1
    CeilSize = 1
    TokenFloor = 0
    IntervalBytes = 2
    Word = 64
SPECIFICATION FairSpec
INVARIANTS
    TypeOK
    Isolated
    WorkConserved
    Accounting
PROPERTIES
    Drains
CHECK_DEADLOCK FALSE
