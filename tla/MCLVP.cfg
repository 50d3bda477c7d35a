SPECIFICATION LVPFairSpec
CONSTANTS
    cvuTableSize = 3
    VAddr = {1, 2}
    PAddr = {1}
    Index = {0, 1, 2, 3, 4, 5, 6, 7}
    Data = {0, 1}
    zero = 0
    MaxQueued = 0
    tableSize = 8
    threshold = 2
    maxValue = 2
    PC = {0, 4, 6}
    lines <- TwoLoads
    translate <- Synonym
    MaxInFlight = 2
    MaxStores = 1
    MaxBranches = 1
INVARIANTS LVPTypeOK 
 
