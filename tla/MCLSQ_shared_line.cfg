SPECIFICATION LSQSpec
CONSTANTS
    cvuTableSize = 2
    VAddr = {1, 2}
    PAddr = {1, 2}
    Index = {0}
    Data <- OneByteData
    zero <- OneByteZero
    MaxQueued = 0
    MaxInsts = 3
    MaxBarriers = 0
    MaxStreams = 1
    Ops <- SharedLineOps
    Byte = {0, 1}
    translate <- Identity
    lineWidth = 4
    requestsSize = 1
    transfersSize = 2
    numSlots = 2
    storeLimitPerCycle = 2
    inMemorySystemLimit = 2
    thresholdLCT = 3
    DelayedTLB = FALSE
    TLBFaults = {FALSE}
    Predicates = {TRUE}
INVARIANTS
    StoresKeepData
CHECK_DEADLOCK FALSE
