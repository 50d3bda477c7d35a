SPECIFICATION Spec
CONSTANTS
    Thread <- Threads
    MaxInsts <- MCMaxInsts
    Groups <- MCGroups
    threadPolicy = "RoundRobin"
    capacity <- MCCapacity
    delay <- MCDelay
    outputWidth <- MCWidth
    processMoreThanOneInput <- MCMore
INVARIANTS
    StagesTypeOK
    ReservationsExact
    DrainedEmpty
    StopsOnlyIdle
PROPERTIES
    QueueSpec
    DrainCompletes
