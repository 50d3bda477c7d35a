SPECIFICATION Spec
CONSTANTS
    Thread <- TwoThreads
    RegId <- Registers
    Index <- Entries
    untracked = 0
    Flattening <- UserOnly
    resetMode <- User
    Op <- LoadsAndMoves
    FUIndex <- ZeroOne
    noCostFUIndex = 3
    Cycles = {0, 1, 2, 3, 4, 5}
    MaxInsts = 4
    MaxStreams = 1
    ThreadOp <- TwoThreadOps
    description <- LongUnits
    threadPolicy = "RoundRobin"
    inputBufferSize = 2
    issueLimit = 2
    memoryIssueLimit = 1
    commitLimit = 2
    memoryCommitLimit = 1
    requestsSize = 1
    transfersSize = 2
    storeBufferSize = 1
    allowEarlyMemIssue = TRUE
    processMoreThanOneInput = TRUE
INVARIANT ReadsAfterWrites
