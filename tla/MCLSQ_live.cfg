SPECIFICATION LSQFairSpec
CONSTANTS
    cvuTableSize = 2
    VAddr = {1, 2}
    PAddr = {1, 2}
    Index = {0}
    Data <- OneByteData
    zero <- OneByteZero
    MaxQueued = 0
    MaxInsts = 3
    MaxBarriers = 1
    MaxStreams = 2
    Ops <- LiveOps
    Byte = {0, 1}
    translate <- Identity
    lineWidth = 4
    requestsSize = 1
    transfersSize = 1
    numSlots = 2
    storeLimitPerCycle = 2
    inMemorySystemLimit = 1
    thresholdLCT = 3
    DelayedTLB = TRUE
    TLBFaults = {FALSE}
    Predicates = {TRUE}

    
PROPERTIES
    EventuallyQuiet
CHECK_DEADLOCK FALSE
