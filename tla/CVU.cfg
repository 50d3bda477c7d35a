CONSTANTS
    cvuTableSize = 2
    VAddr = {1, 2}
    PAddr = {1, 2}
    Index = {0}
    Data = {0, 1}
    zero = 0
    MaxQueued = 6
SPECIFICATION CVUSpec
INVARIANTS CVUTypeOK FreeSlotsQueued OneEntryPerKey
PROPERTY RemembersFacts
CHECK_DEADLOCK FALSE
