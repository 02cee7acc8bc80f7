CONSTANTS
    QCnt = 3
    UseqCnt = 2
    Weight = 1
    PCType = "PCPQ"
    MaxSent = 4
SPECIFICATION Spec
INVARIANTS
    NothingLost
    FreshInOrder
PROPERTIES
    Delivered
CHECK_DEADLOCK FALSE
