SPECIFICATION FetchFairSpec
CONSTANTS
    AddrSpace = 4
    lineWidth = 2
    targets <- Branches
    fetchLimit = 2
    inputBufferSize = 2
    outputWidth = 2
    processMoreThanOneInput = TRUE
    MaxInsts = 2
    Budgets <- FewEvents
INVARIANTS FetchTypeOK CommitsProgram RoomForEveryLine SuspendedNeverCommits RetryFindsRequest
PROPERTIES KeepsCommitting DrainFinishes
