CONSTANTS
    NPorts = 2
    NPrior = 2
    Sizes = {1, 2}
    IpHeader = 1
    TotalBuffer = 8
    StatWrap = 9
    ChildMax = 9
    RoundRobin <- FirstRoundRobin
    AlphaNum <- Growing
    AlphaUnsched = 4
    AlphaDen = 2
    Sat = 1
    RateUnit = 2
    Flows = {f1}
    FlowThreshold = 2
    EnableDPP = TRUE
    AfdFloor = 2
    Configs <- Pairs
    Quota = 3
    DevUnit <- PacketsFirst
    DevMax <- SmallDevices
    Mtu = 3
    PppHeader = 1
SPECIFICATION FairSpec
INVARIANTS
    LeakBounded
    PriorityExact
    SaturationCounted
    Isolated
    NotStranded
PROPERTIES
    Drains
CHECK_DEADLOCK FALSE
