SPECIFICATION Spec
CONSTANTS
    Thread <- OneThread
    RegId <- Registers
    Index <- Entries
    untracked = 0
    Flattening <- BothFlattenings
    resetMode <- User
    Op <- Ops
    FUIndex <- ZeroOne
    noCostFUIndex = 3
    Cycles = {0, 1, 2, 3, 4}
    MaxInsts = 3
    MaxStreams = 2
    ThreadOp <- OneThreadOps
    description <- Units
    threadPolicy = "RoundRobin"
    inputBufferSize = 2
    issueLimit = 2
    memoryIssueLimit = 1
    commitLimit = 2
    memoryCommitLimit = 1
    requestsSize = 1
    transfersSize = 2
    storeBufferSize = 1
    allowEarlyMemIssue = TRUE
    processMoreThanOneInput = TRUE
INVARIANTS
    ScoreboardExact
    ReadsAfterWrites
    UnitsKeepInsts
    MemRefsInOrder
PROPERTIES
    ScoreboardSpec
    
