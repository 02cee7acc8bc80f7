CONSTANTS
    MaxBlocks = 2
    Reads = {1, 9}
    MaxBytes = 7
SPECIFICATION ReceiverSpec
INVARIANTS
    RxExact
    SackTruthful
CHECK_DEADLOCK FALSE
