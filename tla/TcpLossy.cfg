CONSTANTS
    SegmentSize = 2
    DupAckThresh = 2
    MaxBlocks = 4
    NoDelay = TRUE
    DataRetries = 1
    DelAckMax = 2
    CWnds = {4}
    Writes = {1, 2}
    Reads = {9}
    MaxBytes = 4
    MaxInFlight = 2
SPECIFICATION FairSpec
INVARIANTS
    CountsExact
    SackedHeld
    HeadUnsacked
    TimerArmed
    HighestPlaced
    DupAcksMatchState
PROPERTIES
    OneSegmentAfterTimeout
    ReliableStream
    Arrives
CHECK_DEADLOCK FALSE
