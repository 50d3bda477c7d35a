SPECIFICATION LSQSpec
CONSTANTS
    cvuTableSize = 2
    VAddr = {2, 3}
    PAddr = {2, 3}
    Index = {0}
    Data <- TwoByteData
    zero <- TwoByteZero
    MaxQueued = 0
    MaxInsts = 3
    MaxBarriers = 0
    MaxStreams = 2
    Ops <- OrderedOps
    Byte = {0, 1}
    translate <- Identity
    lineWidth = 4
    requestsSize = 1
    transfersSize = 2
    numSlots = 2
    storeLimitPerCycle = 2
    inMemorySystemLimit = 2
    thresholdLCT = 3
    DelayedTLB = TRUE
    TLBFaults = {FALSE, TRUE}
    Predicates = {FALSE, TRUE}
INVARIANTS
    LSQTypeOK NoPanic CountersAgree QueuesBounded  InProgramOrder MemoryCatchesUp
PROPERTIES
    IssuedNeverDropped
CHECK_DEADLOCK FALSE
