CONSTANTS
    QCnt = 2
    UseqCnt = 2
    Weight = 3
    DequeueType = "DRR"
    Sizes = {1, 3}
    MaxPackets = 3
SPECIFICATION FairnessSpec
INVARIANTS
    ByteFair
CHECK_DEADLOCK FALSE
