CONSTANTS
    tableSize = 8
    threshold = 2
    maxValue = 3
    PC = {0, 1, 4, 8, 17}
    Value = {0, 1}
    Addr = {1}
    zero = 0
SPECIFICATION LVPTSpec
INVARIANT LVPTTypeOK
PROPERTY PredictsLastValue
