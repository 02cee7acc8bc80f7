CONSTANTS
    QCnt = 1
    UseqCnt = 1
    Weight = 1
    PCType = "PCNONE"
    MaxSent = 3
SPECIFICATION Spec
PROPERTIES
    PassesThrough
CHECK_DEADLOCK FALSE
