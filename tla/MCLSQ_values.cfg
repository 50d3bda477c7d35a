SPECIFICATION LSQSpec
CONSTANTS
    cvuTableSize = 2
    VAddr = {0, 2, 3, 6}
    PAddr = {0, 2, 3, 6}
    Index = {0}
    Data <- TwoByteData
    zero <- TwoByteZero
    MaxQueued = 0
    MaxInsts = 3
    MaxBarriers = 0
    MaxStreams = 1
    Ops <- ValueOps
    Byte = {0, 1}
    translate <- Identity
    lineWidth = 4
    requestsSize = 2
    transfersSize = 2
    numSlots = 2
    storeLimitPerCycle = 2
    inMemorySystemLimit = 2
    thresholdLCT = 3
    DelayedTLB = FALSE
    TLBFaults = {FALSE}
    Predicates = {TRUE}
INVARIANTS
    UnflaggedReadLatest 
CHECK_DEADLOCK FALSE
