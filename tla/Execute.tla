------------------------------ MODULE Execute ------------------------------
(***************************************************************************)
(* The Execute stage (src/cpu/myminor/execute.cc) without the data path:   *)
(* issue into the functional units (func_unit.cc, SelfStallingPipeline in  *)
(* buffers.hh), early issue of memory references to the LSQ, in-order      *)
(* commit, discarding of wrong streams, interrupts, PC events, draining,   *)
(* and the decision to tick again.  LSQ.tla models what the LSQ does with  *)
(* the references; here it answers in order after any delay.               *)
(*                                                                         *)
(* A cycle of Execute::evaluate is                                         *)
(*                                                                         *)
(*   between -> commit -> issue -> advance -> between                      *)
(*                                                                         *)
(* with a step for each iteration of the loops of commit and issue.        *)
(* executeInputWidth is 1.  An instruction is <<thread, execSeqNum>>.      *)
(***************************************************************************)
EXTENDS Scoreboard, SequencesExt

CONSTANTS
    MaxInsts,       \* bound on the instructions of a thread
    MaxStreams,     \* bound on the stream changes of a thread
    ThreadOp,       \* thread -> what each of its instructions may be
    description,    \* functional unit -> its MyMinorFU and MyMinorFUTiming
    threadPolicy,   \* "SingleThreaded", "RoundRobin" or "Random"
    inputBufferSize, issueLimit, memoryIssueLimit, commitLimit,
    memoryCommitLimit, requestsSize, transfersSize, storeBufferSize,
    allowEarlyMemIssue, processMoreThanOneInput

ASSUME ExecuteAssumption ==
    /\ {MaxInsts, MaxStreams} \subseteq Nat
    /\ {inputBufferSize, issueLimit, memoryIssueLimit, commitLimit,
        memoryCommitLimit, requestsSize, transfersSize, storeBufferSize}
         \subseteq Nat \ {0}
    /\ {allowEarlyMemIssue, processMoreThanOneInput} \subseteq BOOLEAN
    /\ FUIndex = 0 .. Cardinality(FUIndex) - 1
    /\ Thread = 0 .. Cardinality(Thread) - 1
    /\ \A f \in FUIndex : description[f].opLat \in Nat \ {0}
    /\ \A t \in Thread : \A n \in 1 .. MaxInsts : ThreadOp[t][n] \subseteq Op
    /\ \A op \in Op : op.kind \in {"alu", "nocost", "fault", "load", "store",
                                   "barrier"}

VARIABLES
    queued,             \* execSeqNum -> the rest of what an instruction carries
    arriving,           \* stream of the last instruction to arrive
    streamSeqNum, lastCommitWasEndOfMacroop, drainState, inFUMemInsts,
    interrupt,          \* the interrupt controller has an interrupt
    commitPriority, issuePriority,
    funcUnits,
    requests, transfers, \* the LSQ's queues
    responded,          \* answered transfers
    storeBuffer,        \* committed stores and barriers
    lastMemBarrier,
    cycle,              \* where Execute::evaluate is, and its locals
    active              \* Execute ticks next cycle

threadVars == <<queued, arriving, streamSeqNum, lastCommitWasEndOfMacroop,
                drainState, inFUMemInsts, interrupt>>
lsqVars == <<requests, transfers, responded, storeBuffer, lastMemBarrier>>
vars == <<scoreboardVars, threadVars, commitPriority, issuePriority, funcUnits,
          lsqVars, cycle, active>>

bubble == <<>>
between == [phase |-> "between", tid |-> 0, again |-> FALSE, changed |-> FALSE,
            insts |-> 0, memRefs |-> 0, wakeup |-> FALSE]

Init ==
    /\ ScoreboardInit
    /\ queued = [t \in Thread |-> <<>>]
    /\ arriving = [t \in Thread |-> 1]
    /\ streamSeqNum = [t \in Thread |-> 1]
    /\ lastCommitWasEndOfMacroop = [t \in Thread |-> TRUE]
    /\ drainState = [t \in Thread |-> "NotDraining"]
    /\ inFUMemInsts = [t \in Thread |-> <<>>]
    /\ interrupt = [t \in Thread |-> FALSE]
    /\ commitPriority = 0 /\ issuePriority = 0
    /\ funcUnits = [f \in FUIndex |->
          [pipe |-> [k \in 0 .. description[f].opLat |-> bubble],
           stalled |-> FALSE, occupancy |-> 0, nextInsertCycle |-> 0]]
    /\ requests = <<>> /\ transfers = <<>> /\ responded = {}
    /\ storeBuffer = <<>>
    /\ lastMemBarrier = [t \in Thread |-> 0]
    /\ cycle = between /\ active = FALSE

----------------------------------------------------------------------------
\* Instructions, units and queues.

inst(e) == insts[e[1]][e[2]]
carried(e) == queued[e[1]][e[2]]
kind(e) == inst(e).op.kind
rightStream(t, e) == carried(e).stream = streamSeqNum[t]
head(t) == <<t, headInst(t)>>

front(f) == funcUnits[f].pipe[description[f].opLat]
alreadyPushed(f) == funcUnits[f].pipe[0] # bubble
unstall(e) == funcUnits' = [funcUnits EXCEPT ![carried(e).fuIndex].stalled = FALSE]

canRequest == Len(requests) < requestsSize
findResponse(e) == transfers # <<>> /\ Head(transfers) = e /\ e \in responded
accessesInFlight ==
    \/ \E k \in DOMAIN transfers : transfers[k] \notin responded
    \/ storeBuffer # <<>> /\ Head(storeBuffer).kind = "store"
isInbetweenInsts(t) == lastCommitWasEndOfMacroop[t] /\ ~accessesInFlight
hasInterrupt(t) == drainState[t] = "NotDraining" /\ interrupt[t]

\* What a thread policy may choose from the threads in S.
chosen(priority, S) ==
    CASE threadPolicy = "SingleThreaded" -> {0}
      [] threadPolicy = "Random" -> S
      [] OTHER ->
           LET distance(t) == (t - priority - 1) % Cardinality(Thread)
           IN  {t \in S : \A u \in S : distance(t) <= distance(u)}

\* Variant: the unit of the youngest reference, not of the oldest.
youngestUnit(t) == front(carried(Last(inFUMemInsts[t])).fuIndex)

\* The reference at the end of the unit of the oldest one still in the units
\* that may go to the LSQ ahead of the head, for all that commit asks of it.
earlyInst(t) == front(carried(Head(inFUMemInsts[t])).fuIndex)

\* Variant: a reference that faulted early is tried early again.
retriesEarly(t) ==
    /\ inFUMemInsts[t] # <<>> /\ canRequest
    /\ earlyInst(t) # bubble
    /\ ~inst(earlyInst(t)).inLSQ /\ inst(earlyInst(t)).op.memRef
    /\ rightStream(t, earlyInst(t))
    /\ headInst(t) > inst(earlyInst(t)).instToWaitFor

issuesEarly(t) ==
    /\ inFUMemInsts[t] # <<>> /\ canRequest
    /\ earlyInst(t) # bubble
    /\ ~inst(earlyInst(t)).inLSQ /\ inst(earlyInst(t)).canEarlyIssue
    /\ rightStream(t, earlyInst(t))
    /\ headInst(t) > inst(earlyInst(t)).instToWaitFor

\* getCommittingThread asks the same, but of the thread and not of the stream.
canTransferMemInst(t) ==
    /\ inFUMemInsts[t] # <<>> /\ canRequest
    /\ earlyInst(t) # bubble
    /\ earlyInst(t)[1] = t
    /\ ~inst(earlyInst(t)).inLSQ /\ inst(earlyInst(t)).canEarlyIssue
    /\ headInst(t) > inst(earlyInst(t)).instToWaitFor
canCommitInsts(t) ==
    /\ inFlightInsts[t] # <<>>
    /\ IF inst(head(t)).inLSQ THEN findResponse(head(t))
       ELSE \/ canTransferMemInst(t)
            \/ kind(head(t)) = "nocost"
            \/ front(carried(head(t)).fuIndex) = head(t)
getCommittingThread ==
    chosen(commitPriority, {t \in Thread : canCommitInsts(t)})
getIssuingThread ==
    chosen(issuePriority, {t \in Thread : inputBuffer[t] # <<>>})

----------------------------------------------------------------------------
\* Between cycles: ExecuteDummy, the interrupt controller, the LSQ, drain().

Arrive(t, op, stream) ==
    /\ cycle = between
    /\ Len(inputBuffer[t]) < inputBufferSize
    /\ op.kind = "fault" => streamSeqNum[t] < MaxStreams
    /\ drainState[t] = "DrainAllInsts" => stream < streamSeqNum[t]
    /\ arrive(t, op)
    /\ queued' = [queued EXCEPT ![t] =
          [n \in DOMAIN insts'[t] |->
             IF n \in DOMAIN @ THEN @[n]
             ELSE [stream |-> stream, fuIndex |-> 0, extraCommitDelay |-> 0,
                   minimumCommitCycle |-> 0]]]
    /\ arriving' = [arriving EXCEPT ![t] = stream]
    /\ active' = TRUE
    /\ UNCHANGED <<streamSeqNum, lastCommitWasEndOfMacroop, drainState,
                   inFUMemInsts, interrupt, commitPriority, issuePriority,
                   funcUnits, lsqVars, cycle>>

Interrupt(t) ==
    /\ cycle = between /\ ~interrupt[t] /\ streamSeqNum[t] < MaxStreams
    /\ interrupt' = [interrupt EXCEPT ![t] = TRUE]
    /\ active' = TRUE
    /\ UNCHANGED <<scoreboardVars, queued, arriving, streamSeqNum,
                   lastCommitWasEndOfMacroop, drainState, inFUMemInsts,
                   commitPriority, issuePriority, funcUnits, lsqVars, cycle>>

\* drain(), and drainResume() once fetching has halted and Execute is drained.
Drain ==
    /\ cycle = between
    /\ \A t \in Thread : /\ drainState[t] = "NotDraining"
                         /\ streamSeqNum[t] < MaxStreams
    /\ drainState' = [t \in Thread |->
          IF isInbetweenInsts(t) THEN "DrainHaltFetch" ELSE "DrainCurrentInst"]
    /\ active' = TRUE
    /\ UNCHANGED <<scoreboardVars, queued, arriving, streamSeqNum,
                   lastCommitWasEndOfMacroop, inFUMemInsts, interrupt,
                   commitPriority, issuePriority, funcUnits, lsqVars, cycle>>
isDrained ==
    /\ requests = <<>> /\ transfers = <<>> /\ storeBuffer = <<>>
    /\ \A t \in Thread : inputBuffer[t] = <<>> /\ inFlightInsts[t] = <<>>
DrainResume ==
    /\ cycle = between /\ isDrained
    /\ \A t \in Thread : drainState[t] = "DrainAllInsts"
    /\ drainState' = [t \in Thread |-> "NotDraining"]
    /\ active' = TRUE
    /\ UNCHANGED <<scoreboardVars, queued, arriving, streamSeqNum,
                   lastCommitWasEndOfMacroop, inFUMemInsts, interrupt,
                   commitPriority, issuePriority, funcUnits, lsqVars, cycle>>

\* The LSQ: it sends its requests on and answers them, in any order, and works
\* off its store buffer; all of it wakes Execute.
Transfer ==
    /\ requests # <<>> /\ Len(transfers) < transfersSize
    /\ transfers' = Append(transfers, Head(requests))
    /\ requests' = Tail(requests)
    /\ UNCHANGED <<responded, storeBuffer, lastMemBarrier>>
Respond(e) ==
    /\ e \notin responded
    /\ responded' = responded \cup {e}
    /\ UNCHANGED <<requests, transfers, storeBuffer, lastMemBarrier>>
clearMemBarrier(t, n) ==
    lastMemBarrier' = [lastMemBarrier EXCEPT ![t] = IF n >= @ THEN 0 ELSE @]
StoreBufferStep ==
    /\ storeBuffer # <<>>
    /\ storeBuffer' = Tail(storeBuffer)
    /\ LET e == Head(storeBuffer)
       IN  IF e.kind = "barrier" THEN clearMemBarrier(e.id[1], e.id[2])
           ELSE UNCHANGED lastMemBarrier
    /\ UNCHANGED <<requests, transfers, responded>>
LSQStep ==
    /\ cycle = between
    /\ \/ Transfer
       \/ \E k \in DOMAIN transfers : Respond(transfers[k])
       \/ StoreBufferStep
    /\ active' = TRUE
    /\ UNCHANGED <<scoreboardVars, threadVars, commitPriority, issuePriority,
                   funcUnits, cycle>>

----------------------------------------------------------------------------
\* Execute::evaluate.

changeStream(t, change) ==
    /\ streamSeqNum' =
          IF change THEN [streamSeqNum EXCEPT ![t] = @ + 1] ELSE streamSeqNum
    /\ IF change THEN changeMode(t) ELSE UNCHANGED regMap
mayChangeStream(t) == {FALSE, streamSeqNum[t] < MaxStreams}

\* Go to the issue loop, with the thread getIssuingThread finds, if any.
toIssue(wakeup) ==
    IF getIssuingThread = {}
    THEN /\ cycle' = [between EXCEPT !.phase = "advance", !.wakeup = wakeup]
         /\ UNCHANGED issuePriority
    ELSE \E t \in getIssuingThread :
           /\ cycle' = [between EXCEPT !.phase = "issue", !.tid = t,
                                       !.again = TRUE, !.wakeup = wakeup]
           /\ issuePriority' = t

TakeInterrupt(t) ==
    /\ cycle = between
    /\ hasInterrupt(t) /\ isInbetweenInsts(t)
    /\ interrupt' = [interrupt EXCEPT ![t] = FALSE]
    /\ changeStream(t, TRUE)
    /\ cycle' = [between EXCEPT !.phase = "advance", !.wakeup = TRUE]
    /\ UNCHANGED <<flowVars, insts, resultVars, queued, arriving,
                   lastCommitWasEndOfMacroop, drainState, inFUMemInsts,
                   commitPriority, issuePriority, funcUnits, lsqVars, active>>

noInterruptTaken ==
    cycle = between /\ \A t \in Thread : ~(hasInterrupt(t) /\ isInbetweenInsts(t))

StartCommit(t) ==
    /\ noInterruptTaken
    /\ t \in getCommittingThread
    /\ commitPriority' = t
    /\ cycle' = [between EXCEPT !.phase = "commit", !.tid = t,
                                !.again = drainState[t] # "DrainHaltFetch"]
    /\ IF drainState[t] = "DrainAllInsts"
       THEN discardInputs(t, Len(inputBuffer[t]))
       ELSE UNCHANGED scoreboardVars
    /\ UNCHANGED <<threadVars, issuePriority, funcUnits, lsqVars, active>>

NoCommit ==
    /\ noInterruptTaken
    /\ getCommittingThread = {}
    /\ toIssue(FALSE)
    /\ UNCHANGED <<scoreboardVars, threadVars, commitPriority, funcUnits,
                   lsqVars, active>>

\* The condition of the loop of commit.
committing(t) ==
    /\ cycle.phase = "commit" /\ cycle.tid = t
    /\ inFlightInsts[t] # <<>>
    /\ ~cycle.changed /\ cycle.again /\ cycle.insts # commitLimit

onlyCommitMicroops(t) ==
    drainState[t] = "DrainCurrentInst" \/ hasInterrupt(t)

\* Where an iteration of the loop finds an instruction to complete.
source(t) ==
    CASE /\ inst(head(t)).inLSQ /\ findResponse(head(t))
         /\ cycle.memRefs < memoryCommitLimit -> "LSQ"
      [] onlyCommitMicroops(t) /\ lastCommitWasEndOfMacroop[t] -> "none"
      [] issuesEarly(t) -> "early"
      [] kind(head(t)) = "nocost" -> "nocost"
      [] ~inst(head(t)).inLSQ /\ front(carried(head(t)).fuIndex) = head(t) -> "FU"
      [] OTHER -> "none"
candidate(t) == IF source(t) = "early" THEN earlyInst(t) ELSE head(t)

discards(t, e) == ~rightStream(t, e) \/ drainState[t] = "DrainAllInsts"

popFUMemInst(t, e) ==
    inFUMemInsts' = [inFUMemInsts EXCEPT ![t] =
        IF @ # <<>> /\ Head(@) = e THEN Tail(@) ELSE @]

\* e is completed and does not wait for the LSQ: committed, and so in the store
\* buffer if it is a store or a barrier, or not.
complete(t, e, committed, change) ==
    /\ completeInst(t, inst(e))
    /\ changeStream(t, change)
    /\ popFUMemInst(t, e)
    /\ lastCommitWasEndOfMacroop' = [lastCommitWasEndOfMacroop EXCEPT ![t] =
          kind(e) = "fault" \/ inst(e).op.lastMicroop]
    /\ storeBuffer' =
          IF committed /\ kind(e) \in {"store", "barrier"}
          THEN Append(storeBuffer, [kind |-> kind(e), id |-> e])
          ELSE storeBuffer
    /\ IF ~committed /\ kind(e) = "barrier" THEN clearMemBarrier(t, e[2])
       ELSE UNCHANGED lastMemBarrier
    /\ cycle' = [cycle EXCEPT
          !.changed = change,
          !.insts = IF committed /\ kind(e) # "nocost" THEN @ + 1 ELSE @,
          !.memRefs = IF committed /\ source(t) = "LSQ" THEN @ + 1 ELSE @]
    /\ UNCHANGED <<queued, arriving, drainState, interrupt, commitPriority,
                   issuePriority, requests, active>>

CommitResponse(t) ==
    /\ committing(t) /\ source(t) = "LSQ"
    /\ \E change \in mayChangeStream(t) :
         /\ discards(t, head(t)) => ~change
         /\ complete(t, head(t), ~discards(t, head(t)), change)
    /\ transfers' = Tail(transfers)
    /\ responded' = responded \ {head(t)}
    /\ UNCHANGED funcUnits

\* The rest of the iterations look at the ends of the units.
trying(t, e) ==
    /\ committing(t) /\ source(t) \in {"early", "nocost", "FU"}
    /\ e = candidate(t)
    /\ UNCHANGED <<transfers, responded>>
leavesUnit(e) ==
    IF kind(e) = "nocost" THEN UNCHANGED funcUnits ELSE unstall(e)

Discard(t, e) ==
    /\ trying(t, e) /\ discards(t, e)
    /\ complete(t, e, FALSE, FALSE)
    /\ leavesUnit(e)

mustWait(t, e) ==
    \/ inst(e).op.memRef /\ lastMemBarrier[t] < e[2] /\ lastMemBarrier[t] # 0
    \/ carried(e).extraCommitDelay # 0 \/ carried(e).minimumCommitCycle # 0
    \/ inst(e).op.memRef /\ ~canRequest
    \/ kind(e) = "barrier" /\ Len(storeBuffer) >= storeBufferSize

Wait(t, e) ==
    /\ trying(t, e) /\ ~discards(t, e) /\ mustWait(t, e)
    /\ LET delay == carried(e).extraCommitDelay
       IN  queued' = IF delay = 0 THEN queued
             ELSE [queued EXCEPT ![e[1]][e[2]] =
                     [@ EXCEPT !.extraCommitDelay = 0,
                               !.minimumCommitCycle = delay]]
    /\ cycle' = [cycle EXCEPT !.again = FALSE]
    /\ UNCHANGED <<scoreboardVars, arriving, streamSeqNum,
                   lastCommitWasEndOfMacroop, drainState, inFUMemInsts,
                   interrupt, commitPriority, issuePriority, funcUnits,
                   requests, storeBuffer, lastMemBarrier, active>>

\* commitInst, for what is neither a memory reference nor a fault ...
CommitInst(t, e) ==
    /\ trying(t, e) /\ ~discards(t, e) /\ ~mustWait(t, e)
    /\ ~inst(e).op.memRef /\ kind(e) # "fault"
    /\ \E change \in mayChangeStream(t) : complete(t, e, TRUE, change)
    /\ leavesUnit(e)

\* ... for a fault, or a reference that faults in initiateAcc at the head ...
CommitFault(t, e) ==
    /\ trying(t, e) /\ ~discards(t, e) /\ ~mustWait(t, e)
    /\ \/ kind(e) = "fault"
       \/ /\ inst(e).op.memRef /\ source(t) = "FU"
          /\ streamSeqNum[t] < MaxStreams
    /\ complete(t, e, FALSE, TRUE)
    /\ unstall(e)

\* ... or on its way there early ...
FaultEarly(t, e) ==
    /\ trying(t, e) /\ ~discards(t, e) /\ ~mustWait(t, e)
    /\ inst(e).op.memRef /\ source(t) = "early"
    /\ streamSeqNum[t] < MaxStreams
    /\ faultEarly(e[1], e[2])
    /\ cycle' = [cycle EXCEPT !.again = FALSE]
    /\ UNCHANGED <<threadVars, commitPriority, issuePriority, funcUnits,
                   requests, storeBuffer, lastMemBarrier, active>>

\* ... and for one that does not.
IssueToLSQ(t, e) ==
    /\ trying(t, e) /\ ~discards(t, e) /\ ~mustWait(t, e)
    /\ inst(e).op.memRef
    /\ accessMemory(e[1], e[2])
    /\ requests' = Append(requests, e)
    /\ popFUMemInst(t, e)
    /\ unstall(e)
    /\ queued' = [queued EXCEPT ![e[1]][e[2]].fuIndex = 0]
    /\ UNCHANGED <<arriving, streamSeqNum, lastCommitWasEndOfMacroop,
                   drainState, interrupt, commitPriority, issuePriority,
                   storeBuffer, lastMemBarrier, cycle, active>>

\* tryPCEvents found an event at the next PC.
PCEvent(t) ==
    /\ committing(t) /\ isInbetweenInsts(t)
    /\ streamSeqNum[t] < MaxStreams
    /\ changeStream(t, TRUE)
    /\ cycle' = [cycle EXCEPT !.changed = TRUE]
    /\ UNCHANGED <<flowVars, insts, resultVars, queued, arriving,
                   lastCommitWasEndOfMacroop, drainState, inFUMemInsts,
                   interrupt, commitPriority, issuePriority, funcUnits,
                   lsqVars, active>>

\* The loop of commit ends, and a drain goes on to its next state.
EndCommit(t) ==
    /\ cycle.phase = "commit" /\ cycle.tid = t
    /\ committing(t) => source(t) = "none"
    /\ LET halts == \/ drainState[t] = "DrainHaltFetch"
                    \/ drainState[t] = "DrainCurrentInst" /\ isInbetweenInsts(t)
           branches == cycle.changed /\ drainState[t] # "DrainCurrentInst"
       IN  /\ drainState' = [drainState EXCEPT ![t] =
                 IF halts THEN "DrainAllInsts" ELSE @]
           /\ streamSeqNum' = [streamSeqNum EXCEPT ![t] =
                 IF halts THEN @ + 1 ELSE @]
           /\ toIssue(halts \/ branches)
    /\ UNCHANGED <<scoreboardVars, queued, arriving, lastCommitWasEndOfMacroop,
                   inFUMemInsts, interrupt, commitPriority, funcUnits, lsqVars,
                   active>>

\* The condition of the loop of issue.
issuing(t) ==
    /\ cycle.phase = "issue" /\ cycle.tid = t
    /\ inputBuffer[t] # <<>> /\ cycle.again
    /\ cycle.insts # issueLimit /\ cycle.memRefs # memoryIssueLimit
next(t) == <<t, Head(inputBuffer[t])>>

\* A fault may go to any unit and has no extra timing.
isFault(e) == kind(e) = "fault"
provides(f, e) == isFault(e) \/ inst(e).op.opClass \in description[f].opClasses
timing(f, e) ==
    IF isFault(e) THEN [lats |-> <<>>, extraCommitLat |-> 0,
                        extraAssumedLat |-> 0, suppress |-> FALSE]
    ELSE description[f].timing

\* Variant: a unit may be given two instructions in one cycle.
acceptsTwo(f, t, e) ==
    /\ provides(f, e)
    /\ ~funcUnits[f].stalled
    /\ funcUnits[f].nextInsertCycle = 0
    /\ ~timing(f, e).suppress
    /\ canInstIssue(t, inst(e).op, timing(f, e).lats,
                    description[f].cantForward, 0)

accepts(f, t, e) ==
    /\ provides(f, e) /\ ~alreadyPushed(f)
    /\ ~funcUnits[f].stalled
    /\ funcUnits[f].nextInsertCycle = 0
    /\ ~timing(f, e).suppress
    /\ canInstIssue(t, inst(e).op, timing(f, e).lats,
                    description[f].cantForward, 0)

IssueDiscard(t) ==
    /\ issuing(t) /\ ~rightStream(t, next(t))
    /\ discardInputs(t, 1)
    /\ cycle' = [cycle EXCEPT !.again = processMoreThanOneInput]
    /\ UNCHANGED <<threadVars, commitPriority, issuePriority, funcUnits,
                   lsqVars, active>>

markBarrier(t, e) ==
    lastMemBarrier' = [lastMemBarrier EXCEPT ![t] =
        IF kind(e) = "barrier" THEN e[2] ELSE @]

IssueNoCost(t) ==
    /\ issuing(t) /\ rightStream(t, next(t)) /\ kind(next(t)) = "nocost"
    /\ issueInst(t, noCostFUIndex, 0, FALSE, FALSE, 0)
    /\ queued' = [queued EXCEPT ![t][next(t)[2]].fuIndex = noCostFUIndex]
    /\ cycle' = [cycle EXCEPT !.again = processMoreThanOneInput,
                              !.insts = @ + 1]
    /\ UNCHANGED <<arriving, streamSeqNum, lastCommitWasEndOfMacroop,
                   drainState, inFUMemInsts, interrupt, commitPriority,
                   issuePriority, funcUnits, lsqVars, active>>

IssueToFU(t, f) ==
    LET e == next(t)
        time == timing(f, e)
        memRef == inst(e).op.memRef
    IN  /\ issuing(t) /\ rightStream(t, e) /\ kind(e) # "nocost"
        /\ accepts(f, t, e) /\ \A g \in 0 .. f - 1 : ~accepts(g, t, e)
        /\ issueInst(t, f,
              description[f].opLat + time.extraCommitLat + time.extraAssumedLat,
              memRef /\ time.extraAssumedLat = 0,
              memRef /\ allowEarlyMemIssue, lastMemBarrier[t])
        /\ markBarrier(t, e)
        /\ inFUMemInsts' = [inFUMemInsts EXCEPT ![t] =
              IF memRef THEN Append(@, e) ELSE @]
        /\ queued' = [queued EXCEPT ![t][e[2]] =
              [@ EXCEPT !.fuIndex = f, !.extraCommitDelay = time.extraCommitLat]]
        /\ funcUnits' = [funcUnits EXCEPT ![f].pipe[0] = e, ![f].occupancy = @ + 1]
        /\ cycle' = [cycle EXCEPT
              !.again = processMoreThanOneInput /\ f + 1 # Cardinality(FUIndex),
              !.insts = @ + 1, !.memRefs = IF memRef THEN @ + 1 ELSE @]
        /\ UNCHANGED <<arriving, streamSeqNum, lastCommitWasEndOfMacroop,
                       drainState, interrupt, commitPriority, issuePriority,
                       requests, transfers, responded, storeBuffer, active>>

EndIssue(t) ==
    /\ cycle.phase = "issue" /\ cycle.tid = t
    /\ issuing(t) => /\ rightStream(t, next(t)) /\ kind(next(t)) # "nocost"
                     /\ \A f \in FUIndex : ~accepts(f, t, next(t))
    /\ cycle' = [cycle EXCEPT !.phase = "advance", !.memRefs = 0]
    /\ UNCHANGED <<scoreboardVars, threadVars, commitPriority, issuePriority,
                   funcUnits, lsqVars, active>>

countDown(n) == IF n = 0 THEN 0 ELSE n - 1

\* A unit after FUPipeline::advance and the end of the cycle.
advance(f) ==
    LET fu == funcUnits[f]
        last == description[f].opLat
        moved == [k \in 0 .. last |-> IF k = 0 THEN bubble ELSE fu.pipe[k - 1]]
    IN  [pipe |-> IF fu.stalled THEN fu.pipe ELSE moved,
         stalled |-> fu.stalled \/ moved[last] # bubble,
         occupancy |-> IF ~fu.stalled /\ front(f) # bubble
                       THEN fu.occupancy - 1 ELSE fu.occupancy,
         nextInsertCycle |->
             IF alreadyPushed(f) THEN description[f].issueLat - 1
             ELSE IF fu.stalled THEN fu.nextInsertCycle
             ELSE countDown(fu.nextInsertCycle)]

\* What becomes of delays and of completed instructions as a cycle passes.
age(q, left) ==
    [n \in left |-> [q[n] EXCEPT !.minimumCommitCycle = countDown(@)]]
endOfCycle ==
    /\ passTime
    /\ queued' = [t \in Thread |-> age(queued[t], waiting(t) \cup inFlight(t))]

\* Reasons for Execute to tick again, the units being fus by now.
becomingStalled(fus) ==
    \A f \in FUIndex : fus[f].occupancy = 0 \/ fus[f].stalled
canIssueNext(fus) ==
    \E t \in Thread :
        /\ inputBuffer[t] # <<>>
        /\ \/ isFault(next(t))
           \/ \E f \in FUIndex :
                /\ ~fus[f].stalled /\ provides(f, next(t))
                /\ canInstIssue(t, inst(next(t)).op, <<>>, {}, 1)
headInstMightCommit(fus) ==
    \E t \in Thread :
        /\ inFlightInsts[t] # <<>>
        /\ \/ kind(head(t)) = "nocost"
           \/ LET f == carried(head(t)).fuIndex
              IN  fus[f].stalled /\ fus[f].pipe[description[f].opLat] = head(t)
           \/ findResponse(head(t))

\* Variant: an instruction held at the end of its unit is not waited for.
ticksWhileMoving(fus) ==
    \/ cycle.insts # 0
    \/ ~becomingStalled(fus)
    \/ canIssueNext(fus)
    \/ \E t \in Thread : hasInterrupt(t)

needToTick(fus) ==
    \/ cycle.insts # 0
    \/ ~becomingStalled(fus)
    \/ canIssueNext(fus)
    \/ headInstMightCommit(fus)
    \/ \E t \in Thread : hasInterrupt(t)

EndCycle ==
    /\ cycle.phase = "advance"
    /\ funcUnits' = [f \in FUIndex |-> advance(f)]
    /\ active' = (cycle.wakeup \/ needToTick(funcUnits'))
    /\ endOfCycle
    /\ cycle' = between
    /\ UNCHANGED <<arriving, streamSeqNum, lastCommitWasEndOfMacroop,
                   drainState, inFUMemInsts, interrupt, commitPriority,
                   issuePriority, lsqVars>>

\* The processor sleeps through a cycle.
SleepCycle ==
    /\ cycle = between /\ ~active
    /\ endOfCycle
    /\ funcUnits' = [f \in FUIndex |->
          [funcUnits[f] EXCEPT !.nextInsertCycle = countDown(@)]]
    /\ UNCHANGED <<arriving, streamSeqNum, lastCommitWasEndOfMacroop,
                   drainState, inFUMemInsts, interrupt, commitPriority,
                   issuePriority, lsqVars, cycle, active>>

----------------------------------------------------------------------------
Environment ==
    \/ \E t \in Thread : /\ execSeqNum[t] < MaxInsts
                         /\ \E op \in ThreadOp[t][execSeqNum[t] + 1],
                               stream \in arriving[t] .. streamSeqNum[t] :
                              Arrive(t, op, stream)
    \/ \E t \in Thread : Interrupt(t)
    \/ Drain
    \/ DrainResume

StartCycle ==
    \/ \E t \in Thread : TakeInterrupt(t) \/ StartCommit(t)
    \/ NoCommit

CycleStep ==
    \/ \E t \in Thread :
         \/ CommitResponse(t) \/ PCEvent(t) \/ EndCommit(t)
         \/ IssueDiscard(t) \/ IssueNoCost(t) \/ EndIssue(t)
    \/ \E t \in Thread : committing(t) /\ LET e == candidate(t) IN
         \/ Discard(t, e) \/ Wait(t, e) \/ CommitInst(t, e)
         \/ CommitFault(t, e) \/ FaultEarly(t, e) \/ IssueToLSQ(t, e)
    \/ \E t \in Thread, f \in FUIndex : IssueToFU(t, f)
    \/ EndCycle

Next == Environment \/ LSQStep \/ StartCycle \/ CycleStep \/ SleepCycle

\* A cycle that was started ends; the processor ticks while Execute is active;
\* the memory system answers.  Nothing makes Execute tick otherwise.
Spec ==
    /\ Init /\ [][Next]_vars
    /\ WF_vars(CycleStep)
    /\ WF_vars(StartCycle /\ active)
    /\ SF_vars(LSQStep)

----------------------------------------------------------------------------
\* Properties.

\* An instruction issued to a unit stays in it, in one slot, until commit
\* completes it or sends it to the LSQ, and stalled units hold their head: the
\* pipelines lose no data ("we've lost data", buffers.hh:363), no push
\* overwrites one, and occupancy is the number of instructions in the unit.
UnitsKeepInsts ==
    \A f \in FUIndex :
        LET slots(e) == {k \in 0 .. description[f].opLat :
                           funcUnits[f].pipe[k] = e}
        IN  /\ funcUnits[f].occupancy
                 = description[f].opLat + 1 - Cardinality(slots(bubble))
            /\ \A t \in Thread : \A n \in inFlight(t) :
                 /\ kind(<<t, n>>) # "nocost" /\ ~insts[t][n].inLSQ
                 /\ carried(<<t, n>>).fuIndex = f
                 => Cardinality(slots(<<t, n>>)) = 1

\* inFUMemInsts is exactly the in-flight memory references that are still in
\* the units, in program order, and the LSQ gets them in that order ("to ensure
\* in-order issue to the LSQ", execute.cc:833).
MemRefsInOrder ==
    \A t \in Thread :
        LET inUnits(n) == insts[t][n].op.memRef /\ ~insts[t][n].inLSQ
            sent == SelectSeq(transfers \o requests, LAMBDA e : e[1] = t)
        IN  /\ inFUMemInsts[t] =
                 [k \in 1 .. Len(SelectSeq(inFlightInsts[t], inUnits)) |->
                    <<t, SelectSeq(inFlightInsts[t], inUnits)[k]>>]
            /\ \A j, k \in DOMAIN sent : j < k => sent[j][2] < sent[k][2]
            /\ \A j \in DOMAIN sent, k \in DOMAIN inFUMemInsts[t] :
                 sent[j][2] < inFUMemInsts[t][k][2]

\* Execute always gets rid of what it was given: every instruction that arrives
\* is committed or discarded in the end, whatever stalls, interrupts or drains
\* come in between.  need_to_tick never lets Execute sleep on work it can do.
EventuallyEmpty ==
    []<>(\A t \in Thread : inputBuffer[t] = <<>> /\ inFlightInsts[t] = <<>>)
=============================================================================
