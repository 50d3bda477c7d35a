------------------------------- MODULE Fetch -------------------------------
(***************************************************************************)
(* The front end of MyMinorCPU: Fetch1, Fetch2, Fetch2's input buffer and  *)
(* the latches f1ToF2, f2ToF1 and eToF1, driven by Pipeline::evaluate.     *)
(* Decode, ExecuteDummy and Execute are the queue insts, from which        *)
(* instructions are committed in order; of Execute the sequence numbers,   *)
(* the branches it sends and its drain states are modelled.  One thread,   *)
(* latches with a delay of one cycle, instructions of one address unit.    *)
(*                                                                         *)
(* Addresses are 0 .. AddrSpace-1 and wrap around.  targets[pc] is the set *)
(* of places to which the instruction at pc may jump; it is empty unless   *)
(* the instruction is a control instruction.                               *)
(***************************************************************************)
EXTENDS Integers, Sequences, FiniteSetsExt

CONSTANTS
    AddrSpace,                \* number of addresses, a multiple of lineWidth
    lineWidth,                \* fetch1LineWidth and fetch1LineSnapWidth
    targets,                  \* [Addr -> SUBSET Addr]
    fetchLimit,               \* fetch1FetchLimit
    inputBufferSize,          \* fetch2InputBufferSize
    outputWidth,              \* decodeInputWidth
    processMoreThanOneInput,  \* fetch2CycleInput
    MaxInsts,                 \* bound: groups stop when the back end holds this many
    Budgets                   \* bounds: how often the rarer events may happen

Addr == 0 .. AddrSpace - 1

ASSUME FetchAssumption ==
    /\ lineWidth \in Nat \ {0} /\ AddrSpace \in Nat \ {0}
    /\ AddrSpace % lineWidth = 0
    /\ targets \in [Addr -> SUBSET Addr]
    /\ fetchLimit \in Nat \ {0}
    /\ inputBufferSize \in Nat \ {0}
    /\ outputWidth \in Nat \ {0}
    /\ processMoreThanOneInput \in BOOLEAN
    /\ MaxInsts \in Nat \ {0}
    /\ Budgets \subseteq [{"streams", "predictions", "faults", "suspends",
                     "drains"} -> Nat]

VARIABLES
    fetch1,       \* Fetch1ThreadInfo
    requests, transfers, icacheState,
    fetch2,       \* Fetch2ThreadInfo
    inputBuffer, numReservedSlots,
    f1ToF2, f2ToF1, eToF1,
    execute,      \* ExecuteThreadInfo and the thread's PC and status
    insts,        \* what Fetch2 has passed on and Execute has not finished
    phase,        \* where in Pipeline::evaluate, or "between" two cycles
    active,       \* ActivityRecorder: something happened since the last cycle
    running,      \* Ticked: there will be a next cycle
    needToSignalDrained,
    budget

fetch1Vars == <<fetch1, requests, transfers, icacheState>>
fetch2Vars == <<fetch2, inputBuffer, numReservedSlots>>
latchVars == <<f1ToF2, f2ToF1, eToF1>>
executeVars == <<execute, insts>>
pipelineVars == <<phase, active, running, needToSignalDrained>>
vars == <<fetch1Vars, fetch2Vars, latchVars, executeVars, pipelineVars, budget>>

firstSeqNum == 1

handler == 0    \* where faults and interrupts go

advancePC(pc) == (pc + 1) % AddrSpace

lineBase(pc) == pc - (pc % lineWidth)

(***************************************************************************)
(* A latch element that is not written is a bubble.                        *)
(***************************************************************************)
noBranch == [reason |-> "NoBranch"]

noLine == [bubble |-> TRUE]

BranchData(reason, stream, prediction, target) ==
    [reason |-> reason, newStreamSeqNum |-> stream,
     newPredictionSeqNum |-> prediction, target |-> target]

isStreamChange(branch) ==
    branch.reason \notin {"NoBranch", "CorrectlyPredictedBranch"}

emptyLatch == [in |-> noBranch, out |-> noBranch]

advanced(latch) == [in |-> noBranch, out |-> latch.in]

(***************************************************************************)
(* After MyMinorCPU::startup, which wakes Fetch1 up.                       *)
(***************************************************************************)
FetchInit ==
    /\ fetch1 = [state |-> "FetchRunning", pc |-> 0, fetchAddr |-> 0,
                 streamSeqNum |-> firstSeqNum,
                 predictionSeqNum |-> firstSeqNum, wakeupGuard |-> TRUE]
    /\ requests = <<>> /\ transfers = <<>>
    /\ icacheState = "IcacheRunning"
    /\ fetch2 = [pc |-> 0, havePC |-> FALSE, inputIndex |-> 0,
                 lastStreamSeqNum |-> firstSeqNum,
                 expectedStreamSeqNum |-> firstSeqNum,
                 predictionSeqNum |-> firstSeqNum, output_index |-> 0]
    /\ inputBuffer = <<>> /\ numReservedSlots = 0
    /\ f1ToF2 = noLine /\ f2ToF1 = emptyLatch /\ eToF1 = emptyLatch
    /\ execute = [streamSeqNum |-> firstSeqNum,
                  lastPredictionSeqNum |-> firstSeqNum, pc |-> 0,
                  suspended |-> FALSE, drainState |-> "NotDraining"]
    /\ insts = <<>>
    /\ phase = "between" /\ active = TRUE /\ running = TRUE
    /\ needToSignalDrained = FALSE
    /\ budget \in Budgets

wakeupOnEvent == active' = TRUE /\ running' = TRUE

spend(what) ==
    /\ budget[what] > 0
    /\ budget' = [budget EXCEPT ![what] = @ - 1]

-----------------------------------------------------------------------------
(***************************************************************************)
(* Fetch1: requests are in translation or translated, transfers have been  *)
(* sent to the instruction cache or need not be.                           *)
(***************************************************************************)
isDiscardable(request) ==
    /\ request.state \notin {"InTranslation", "RequestIssuing"}
    /\ \/ request.streamSeqNum # fetch1.streamSeqNum
       \/ request.predictionSeqNum # fetch1.predictionSeqNum

(***************************************************************************)
(* Variant: the request keeps its state.                                   *)
(***************************************************************************)
moveUnmarked(reqs, state) ==
    /\ requests' = Tail(reqs)
    /\ transfers' = Append(transfers, Head(reqs))

moveFromRequestsToTransfers(reqs, state) ==
    /\ requests' = Tail(reqs)
    /\ transfers' = Append(transfers, [Head(reqs) EXCEPT !.state = state])

(***************************************************************************)
(* Variant: a refused request is moved on, to be sent again later.         *)
(***************************************************************************)
sendAnyway(reqs, icache) ==
    /\ moveFromRequestsToTransfers(reqs, "RequestIssuing")
    /\ icacheState' \in {icache, "IcacheNeedsRetry"}

(***************************************************************************)
(* The instruction cache accepts the packet or asks for a retry; icache is *)
(* the state of the port if it accepts.                                    *)
(***************************************************************************)
tryToSend(reqs, icache) ==
    \/ /\ moveFromRequestsToTransfers(reqs, "RequestIssuing")
       /\ icacheState' = icache
    \/ /\ icacheState' = "IcacheNeedsRetry"
       /\ requests' = reqs
       /\ UNCHANGED transfers

(***************************************************************************)
(* tryToSendToTransfers for the i-th of reqs.  wakes says whether the      *)
(* caller wakes the pipeline up whatever happens.                          *)
(***************************************************************************)
tryToSendToTransfers(reqs, i, wakes) ==
    LET request == reqs[i]
        stays == i # 1 \/ request.state = "InTranslation"
        done == isDiscardable(request) \/ request.fault
    IN  /\ \/ /\ stays
              /\ requests' = reqs
              /\ UNCHANGED <<transfers, icacheState>>
           \/ /\ ~stays /\ done
              /\ moveFromRequestsToTransfers(reqs, "Complete")
              /\ UNCHANGED icacheState
           \/ /\ ~stays /\ ~done
              /\ tryToSend(reqs, icacheState)
        /\ IF wakes \/ (~stays /\ done) THEN wakeupOnEvent
                                       ELSE UNCHANGED <<active, running>>

(***************************************************************************)
(* FetchRequest::finish: the ITLB has translated the i-th request.         *)
(***************************************************************************)
finish(i) ==
    /\ requests[i].state = "InTranslation"
    /\ \/ /\ UNCHANGED budget
          /\ tryToSendToTransfers(
                [requests EXCEPT ![i].state = "Translated"], i, TRUE)
       \/ /\ spend("faults")
          /\ tryToSendToTransfers(
                [requests EXCEPT ![i].state = "Translated",
                                 ![i].fault = TRUE], i, TRUE)

TLBResponse ==
    /\ phase = "between"
    /\ \E i \in DOMAIN requests : finish(i)
    /\ UNCHANGED <<fetch1, fetch2Vars, latchVars, executeVars, phase,
                   needToSignalDrained>>

recvTimingResp ==
    /\ phase = "between"
    /\ \E i \in DOMAIN transfers :
         /\ transfers[i].state = "RequestIssuing"
         /\ transfers' = [transfers EXCEPT ![i].state = "Complete"]
    /\ wakeupOnEvent
    /\ UNCHANGED <<fetch1, requests, icacheState, fetch2Vars, latchVars,
                   executeVars, phase, needToSignalDrained, budget>>

recvReqRetry ==
    /\ phase = "between"
    /\ icacheState = "IcacheNeedsRetry"
    /\ requests # <<>>
    /\ tryToSend(requests, "IcacheRunning")
    /\ UNCHANGED <<fetch1, fetch2Vars, latchVars, executeVars, pipelineVars,
                   budget>>

(***************************************************************************)
(* The thread's context is activated, or the CPU resumes after a drain:    *)
(* Fetch1 starts again at the thread's PC, in the stream it is in.         *)
(***************************************************************************)
wakeupFetch ==
    /\ fetch1' = [fetch1 EXCEPT !.state = "FetchRunning", !.pc = execute.pc,
                                !.fetchAddr = execute.pc,
                                !.wakeupGuard = TRUE]
    /\ wakeupOnEvent

-----------------------------------------------------------------------------
(***************************************************************************)
(* Execute.  ex is the thread's state but for the new stream number.       *)
(***************************************************************************)
updateBranchData(ex, reason, prediction, target) ==
    LET change == reason \notin {"NoBranch", "CorrectlyPredictedBranch"}
        stream == ex.streamSeqNum + (IF change THEN 1 ELSE 0)
    IN  IF reason = "NoBranch"
          THEN execute' = ex /\ UNCHANGED eToF1
          ELSE /\ execute' = [ex EXCEPT !.streamSeqNum = stream]
               /\ eToF1' = [eToF1 EXCEPT
                     !.in = BranchData(reason, stream, prediction, target)]

(***************************************************************************)
(* tryToBranch: how the prediction made for inst compares with where it    *)
(* goes.  forced: the instruction serialises or squashes what follows it.  *)
(***************************************************************************)
branchReason(inst, next, forced) ==
    LET must == next # advancePC(inst.pc) \/ forced
    IN  CASE inst.predictedTaken /\ ~forced /\ ~must -> "BadlyPredictedBranch"
          [] inst.predictedTaken /\ ~forced /\ must ->
               IF inst.predictedTarget = next THEN "CorrectlyPredictedBranch"
                                              ELSE "BadlyPredictedBranchTarget"
          [] OTHER -> IF must THEN "UnpredictedBranch" ELSE "NoBranch"

StartCycle ==
    /\ phase = "between" /\ running
    /\ phase' = "execute"
    /\ UNCHANGED <<fetch1Vars, fetch2Vars, latchVars, executeVars, active,
                   running, needToSignalDrained, budget>>

(***************************************************************************)
(* An interrupt is taken instead of committing.  It has woken the thread.  *)
(***************************************************************************)
takeInterrupt ==
    /\ phase = "between" /\ running
    /\ execute.drainState = "NotDraining" /\ ~execute.suspended
    /\ spend("streams")
    /\ updateBranchData([execute EXCEPT !.pc = handler], "Interrupt",
                        execute.lastPredictionSeqNum, handler)
    /\ active' = TRUE
    /\ phase' = "fetch2"
    /\ UNCHANGED <<fetch1Vars, fetch2Vars, f1ToF2, f2ToF1, insts, running,
                   needToSignalDrained>>

(***************************************************************************)
(* The head of the back end is committed: a fetch fault goes to a handler  *)
(* or is fixed and tried again, an instruction goes on to a place of the   *)
(* program, a quiesce suspends the thread.  Before a drain only the rest   *)
(* of an instruction and memory accesses under way are committed.          *)
(***************************************************************************)
CommitFault(inst, ex) ==
    /\ inst.fault /\ ex.drainState = "NotDraining"
    /\ \E target \in {handler, inst.pc} :
         updateBranchData([ex EXCEPT !.pc = target], "UnpredictedBranch",
                          inst.predictionSeqNum, target)
    /\ UNCHANGED budget

CommitInst(inst, ex) ==
    /\ ~inst.fault
    /\ \E next \in {advancePC(inst.pc)} \cup targets[inst.pc],
          forced \in BOOLEAN :
         LET reason == branchReason(inst, next, forced)
         IN  /\ updateBranchData([ex EXCEPT !.pc = next], reason,
                                 inst.predictionSeqNum, next)
             /\ IF isStreamChange([reason |-> reason]) THEN spend("streams")
                                                       ELSE UNCHANGED budget

(***************************************************************************)
(* Variant: a quiesce commits after a branch in the same cycle.            *)
(***************************************************************************)
CommitQuiesceAfterBranch(inst, ex) ==
    /\ ~inst.fault /\ ex.drainState = "NotDraining"
    /\ targets[inst.pc] = {}
    /\ spend("suspends")
    /\ LET next == advancePC(inst.pc)
           reason == IF eToF1.in = noBranch THEN "SuspendThread" ELSE "NoBranch"
       IN  updateBranchData([ex EXCEPT !.pc = next, !.suspended = TRUE],
                            reason, inst.predictionSeqNum, next)

CommitQuiesce(inst, ex) ==
    /\ ~inst.fault /\ ex.drainState = "NotDraining"
    /\ targets[inst.pc] = {}
    /\ eToF1.in = noBranch
    /\ spend("suspends")
    /\ LET next == advancePC(inst.pc)
       IN  updateBranchData([ex EXCEPT !.pc = next, !.suspended = TRUE],
                            "SuspendThread", inst.predictionSeqNum, next)

Commit ==
    /\ phase = "execute"
    /\ insts # <<>>
    /\ execute.drainState \in {"NotDraining", "DrainCurrentInst"}
    /\ ~isStreamChange(eToF1.in)
    /\ LET inst == Head(insts)
           ex == [execute EXCEPT !.lastPredictionSeqNum = inst.predictionSeqNum]
       IN  /\ inst.streamSeqNum = execute.streamSeqNum
           /\ \/ CommitFault(inst, ex)
              \/ CommitInst(inst, ex)
              \/ CommitQuiesce(inst, ex)
    /\ insts' = Tail(insts)
    /\ UNCHANGED <<fetch1Vars, fetch2Vars, f1ToF2, f2ToF1, pipelineVars>>

(***************************************************************************)
(* Instructions of an old stream, and all of them in DrainAllInsts, are    *)
(* discarded, when they are issued or when they would be committed.        *)
(***************************************************************************)
Discard ==
    /\ phase = "execute"
    /\ insts # <<>>
    /\ \/ Head(insts).streamSeqNum # execute.streamSeqNum
       \/ execute.drainState = "DrainAllInsts"
    /\ \E committing \in BOOLEAN :
         execute' = IF committing
                      THEN [execute EXCEPT !.lastPredictionSeqNum =
                                               Head(insts).predictionSeqNum]
                      ELSE execute
    /\ insts' = Tail(insts)
    /\ UNCHANGED <<fetch1Vars, fetch2Vars, latchVars, pipelineVars, budget>>

(***************************************************************************)
(* The end of Execute::evaluate.  While an instruction is being finished   *)
(* for a drain its branch is discarded; then Fetch1 is told to halt.       *)
(***************************************************************************)
HaltFetch ==
    /\ execute.drainState \in {"DrainCurrentInst", "DrainHaltFetch"}
    /\ updateBranchData([execute EXCEPT !.drainState = "DrainAllInsts"],
                        "HaltFetch", execute.lastPredictionSeqNum, execute.pc)
    /\ wakeupOnEvent

KeepDraining ==
    /\ execute.drainState = "DrainCurrentInst"
    /\ eToF1' = [eToF1 EXCEPT !.in = noBranch]
    /\ UNCHANGED <<execute, active, running>>

CarryOn ==
    /\ execute.drainState \in {"NotDraining", "DrainAllInsts"}
    /\ active' = (active \/ eToF1.in # noBranch)
    /\ UNCHANGED <<execute, eToF1, running>>

EndExecute ==
    /\ phase = "execute"
    /\ HaltFetch \/ KeepDraining \/ CarryOn
    /\ phase' = "fetch2"
    /\ UNCHANGED <<fetch1Vars, fetch2Vars, f1ToF2, f2ToF1, insts,
                   needToSignalDrained, budget>>

-----------------------------------------------------------------------------
(***************************************************************************)
(* Fetch2.                                                                 *)
(***************************************************************************)
(***************************************************************************)
(* Variant: an older prediction of the stream is as good as the last.      *)
(***************************************************************************)
neverWrong(line) == FALSE

wrongPrediction(line) ==
    /\ fetch2.expectedStreamSeqNum = line.streamSeqNum
    /\ fetch2.predictionSeqNum # line.predictionSeqNum

(***************************************************************************)
(* The lines that are left once those at the front with an old prediction  *)
(* have been discarded: only one of them if a cycle looks at one line.     *)
(***************************************************************************)
withoutWrong(lines) ==
    LET right == {i \in DOMAIN lines : ~wrongPrediction(lines[i])}
    IN  IF lines = <<>> \/ ~wrongPrediction(Head(lines)) THEN lines
        ELSE IF ~processMoreThanOneInput THEN Tail(lines)
        ELSE IF right = {} THEN <<>> ELSE SubSeq(lines, Min(right), Len(lines))

freed(n) == IF n = 0 THEN 0 ELSE n - 1

(***************************************************************************)
(* The beginning of evaluate: take the line, dump everything if Execute    *)
(* changes the stream, discard lines of old predictions, look for room in  *)
(* Decode.  Decode may be full before the back end is, not if it is empty. *)
(***************************************************************************)
StartFetch2 ==
    /\ phase = "fetch2"
    /\ LET arrived == IF f1ToF2 = noLine THEN inputBuffer
                                         ELSE Append(inputBuffer, f1ToF2)
           dumped == isStreamChange(eToF1.out)
           lines == IF dumped THEN <<>> ELSE withoutWrong(arrived)
           lost == dumped \/ Len(lines) < Len(arrived)
       IN  /\ inputBuffer' = lines
           /\ numReservedSlots' = IF f1ToF2 = noLine
                                    THEN numReservedSlots
                                    ELSE freed(numReservedSlots)
           /\ fetch2' = [fetch2 EXCEPT
                 !.inputIndex = IF lost THEN 0 ELSE @,
                 !.havePC = @ /\ ~lost]
           /\ \E blocked \in BOOLEAN :
                /\ Len(insts) >= MaxInsts => blocked
                /\ insts = <<>> => ~blocked
                /\ phase' = IF lines # <<>> /\ ~blocked THEN "lines"
                                                       ELSE "fetch2 end"
    /\ f1ToF2' = noLine
    /\ UNCHANGED <<fetch1Vars, f2ToF1, eToF1, executeVars, active, running,
                   needToSignalDrained, budget>>

notTaken == -1

newInst(line, pc, addr, target) ==
    [pc |-> pc, addr |-> addr, fault |-> line.fault,
     streamSeqNum |-> line.streamSeqNum,
     predictionSeqNum |-> fetch2.predictionSeqNum,
     predictedTaken |-> target # notTaken, predictedTarget |-> target]

(***************************************************************************)
(* predictBranch: what may be predicted for the instruction at pc.         *)
(***************************************************************************)
predictedTargets(pc) ==
    {notTaken} \cup (IF budget["predictions"] > 0 THEN targets[pc] ELSE {})

moreInput ==
    /\ inputBuffer # <<>>
    /\ Head(inputBuffer).fault \/ fetch2.inputIndex < lineWidth
    /\ fetch2.output_index < outputWidth
    /\ f2ToF1.in = noBranch

nextLine == IF processMoreThanOneInput THEN "lines" ELSE "fetch2 end"

(***************************************************************************)
(* A turn of the loop that passes on a fault: the other lines are dumped.  *)
(***************************************************************************)
PassFault(line, f) ==
    /\ line.fault
    /\ insts' = Append(insts, newInst(line, f.pc, f.pc, notTaken))
    /\ fetch2' = [f EXCEPT !.havePC = FALSE, !.inputIndex = 0,
                           !.output_index = @ + 1]
    /\ inputBuffer' = <<>>
    /\ phase' = nextLine
    /\ UNCHANGED <<f2ToF1, budget>>

(***************************************************************************)
(* A turn that decodes the bytes at inputIndex as the instruction at pc.   *)
(* If it is predicted to be taken the other lines are dumped and Fetch1 is *)
(* told; at the end of the line the line is popped and the PC kept.        *)
(***************************************************************************)
DecodeInst(line, f) ==
    /\ ~line.fault
    /\ \E target \in predictedTargets(f.pc) :
         LET taken == target # notTaken
             addr == (line.lineBaseAddr + f.inputIndex) % AddrSpace
             index == f.inputIndex + 1
             endOfLine == index = lineWidth
             decoded == [f EXCEPT !.pc = advancePC(@),
                                  !.output_index = @ + 1]
         IN  /\ insts' = Append(insts, newInst(line, f.pc, addr, target))
             /\ IF taken
                  THEN /\ fetch2' = [decoded EXCEPT
                             !.havePC = FALSE, !.inputIndex = 0,
                             !.expectedStreamSeqNum = line.streamSeqNum,
                             !.predictionSeqNum = @ + 1]
                       /\ f2ToF1' = [f2ToF1 EXCEPT
                             !.in = BranchData("BranchPrediction",
                                       line.streamSeqNum,
                                       f.predictionSeqNum + 1, target)]
                       /\ inputBuffer' = <<>>
                       /\ phase' = nextLine
                       /\ spend("predictions")
                  ELSE /\ fetch2' = [decoded EXCEPT !.inputIndex =
                                        IF endOfLine THEN 0 ELSE index]
                       /\ inputBuffer' = IF endOfLine THEN Tail(inputBuffer)
                                                      ELSE inputBuffer
                       /\ phase' = IF endOfLine THEN nextLine ELSE phase
                       /\ UNCHANGED <<f2ToF1, budget>>

(***************************************************************************)
(* The PC is taken from the line after a change of stream or when there is *)
(* none.  A line of an old prediction that the discarding loop has left is *)
(* popped.                                                                 *)
(***************************************************************************)
ProcessLine ==
    /\ phase = "lines" /\ moreInput
    /\ LET line == Head(inputBuffer)
           setPC == ~fetch2.havePC
                      \/ fetch2.lastStreamSeqNum # line.streamSeqNum
           index == (line.pc - line.lineBaseAddr) % AddrSpace
           f == [fetch2 EXCEPT
                    !.lastStreamSeqNum = line.streamSeqNum,
                    !.havePC = TRUE,
                    !.pc = IF setPC THEN line.pc ELSE @,
                    !.inputIndex = IF setPC THEN index ELSE @]
       IN  IF wrongPrediction(line)
             THEN /\ fetch2' = [fetch2 EXCEPT
                        !.lastStreamSeqNum = line.streamSeqNum,
                        !.havePC = FALSE, !.inputIndex = 0]
                  /\ inputBuffer' = Tail(inputBuffer)
                  /\ phase' = nextLine
                  /\ UNCHANGED <<insts, f2ToF1, budget>>
             ELSE PassFault(line, f) \/ DecodeInst(line, f)
    /\ UNCHANGED <<fetch1Vars, numReservedSlots, f1ToF2, eToF1, execute,
                   active, running, needToSignalDrained>>

EndFetch2 ==
    /\ phase = "fetch2 end" \/ (phase = "lines" /\ ~moreInput)
    /\ active' = (active \/ fetch2.output_index > 0
                    \/ (inputBuffer # <<>> /\ Len(insts) < MaxInsts))
    /\ fetch2' = [fetch2 EXCEPT !.output_index = 0]
    /\ phase' = "fetch1"
    /\ UNCHANGED <<fetch1Vars, inputBuffer, numReservedSlots, latchVars,
                   executeVars, running, needToSignalDrained, budget>>

-----------------------------------------------------------------------------
(***************************************************************************)
(* Fetch1::evaluate.                                                       *)
(***************************************************************************)
changeStream(branch) ==
    [fetch1 EXCEPT
        !.streamSeqNum = branch.newStreamSeqNum,
        !.predictionSeqNum = branch.newPredictionSeqNum,
        !.pc = branch.target,
        !.fetchAddr = branch.target,
        !.state = CASE branch.reason = "SuspendThread" ->
                         IF fetch1.wakeupGuard THEN @ ELSE "FetchWaitingForPC"
                    [] branch.reason = "HaltFetch" -> "FetchHalted"
                    [] OTHER -> "FetchRunning"]

(***************************************************************************)
(* Branches from Execute come first; a prediction counts only in the       *)
(* stream in which it was made; a halted Fetch1 listens to neither.        *)
(***************************************************************************)
redirected ==
    LET prediction == f2ToF1.out
    IN  IF fetch1.state = "FetchHalted" THEN fetch1
        ELSE IF isStreamChange(eToF1.out) THEN changeStream(eToF1.out)
        ELSE IF prediction # noBranch
                  /\ prediction.newStreamSeqNum = fetch1.streamSeqNum
               THEN changeStream(prediction)
        ELSE fetch1

(***************************************************************************)
(* Variant: only the lines that have arrived count.                        *)
(***************************************************************************)
hasSpace == Len(inputBuffer) < inputBufferSize

canReserve == Len(inputBuffer) + numReservedSlots < inputBufferSize

StartFetch1 ==
    /\ phase = "fetch1"
    /\ LET f == redirected
           fetching == /\ Len(requests) + Len(transfers) < fetchLimit
                       /\ ~execute.suspended
                       /\ f.state = "FetchRunning"
                       /\ canReserve
           request == [streamSeqNum |-> f.streamSeqNum,
                       predictionSeqNum |-> f.predictionSeqNum,
                       lineBaseAddr |-> lineBase(f.fetchAddr),
                       state |-> "InTranslation", fault |-> FALSE]
       IN  IF fetching
             THEN /\ requests' = Append(requests, request)
                  /\ numReservedSlots' = numReservedSlots + 1
                  /\ fetch1' = [f EXCEPT !.fetchAddr =
                                   (lineBase(@) + lineWidth) % AddrSpace]
                  /\ phase' = "translate"
             ELSE /\ fetch1' = f
                  /\ phase' = "queues"
                  /\ UNCHANGED <<requests, numReservedSlots>>
    /\ UNCHANGED <<transfers, icacheState, fetch2, inputBuffer, latchVars,
                   executeVars, active, running, needToSignalDrained, budget>>

(***************************************************************************)
(* The ITLB answers at once, within fetchLine, or later.                   *)
(***************************************************************************)
TranslateNow ==
    /\ phase = "translate"
    /\ finish(Len(requests))
    /\ phase' = "queues"
    /\ UNCHANGED <<fetch1, fetch2Vars, latchVars, executeVars,
                   needToSignalDrained>>

TranslateLater ==
    /\ phase = "translate"
    /\ phase' = "queues"
    /\ UNCHANGED <<fetch1Vars, fetch2Vars, latchVars, executeVars, active,
                   running, needToSignalDrained, budget>>

stepQueues ==
    /\ phase = "queues"
    /\ IF icacheState = "IcacheRunning" /\ requests # <<>>
         THEN tryToSendToTransfers(requests, 1, FALSE)
         ELSE UNCHANGED <<requests, transfers, icacheState, active, running>>
    /\ phase' = "deliver"
    /\ UNCHANGED <<fetch1, fetch2Vars, latchVars, executeVars,
                   needToSignalDrained, budget>>

(***************************************************************************)
(* The line at the front of transfers, if it is there, is discarded or     *)
(* passed on with the PC of the last change of stream.                     *)
(***************************************************************************)
processResponse(response) ==
    /\ f1ToF2' = [streamSeqNum |-> response.streamSeqNum,
                  predictionSeqNum |-> response.predictionSeqNum,
                  pc |-> fetch1.pc, lineBaseAddr |-> response.lineBaseAddr,
                  fault |-> response.fault]
    /\ fetch1' = [fetch1 EXCEPT
          !.state = IF response.fault THEN "FetchWaitingForPC" ELSE @,
          !.wakeupGuard = FALSE]

Deliver ==
    /\ phase = "deliver"
    /\ IF transfers # <<>> /\ Head(transfers).state = "Complete"
         THEN /\ IF isDiscardable(Head(transfers))
                   THEN /\ numReservedSlots' = freed(numReservedSlots)
                        /\ fetch1' = [fetch1 EXCEPT !.wakeupGuard = FALSE]
                        /\ UNCHANGED f1ToF2
                   ELSE /\ processResponse(Head(transfers))
                        /\ UNCHANGED numReservedSlots
              /\ active' = TRUE
              /\ transfers' = Tail(transfers)
         ELSE /\ fetch1' = [fetch1 EXCEPT !.wakeupGuard = FALSE]
              /\ UNCHANGED <<transfers, f1ToF2, numReservedSlots, active>>
    /\ phase' = "end"
    /\ UNCHANGED <<requests, icacheState, fetch2, inputBuffer, f2ToF1, eToF1,
                   executeVars, running, needToSignalDrained, budget>>

-----------------------------------------------------------------------------
(***************************************************************************)
(* Variant: a halted Fetch1 is not drained.                                *)
(***************************************************************************)
haltedNotDrained ==
    /\ requests = <<>> /\ transfers = <<>>
    /\ fetch1.state = "FetchWaitingForPC"

(***************************************************************************)
(* The stages' isDrained.  A line that Fetch1 sends is in f1ToF2; lsqDrained*)
(* is the answer of LSQ::isDrained.                                        *)
(***************************************************************************)
fetch1Drained ==
    /\ requests = <<>> /\ transfers = <<>>
    /\ fetch1.state # "FetchRunning"

fetch2Drained == inputBuffer = <<>>

executeDrained(lsqDrained) == lsqDrained /\ insts = <<>>

(***************************************************************************)
(* Pipeline::isDrained, for the latch f2ToF1 as given.  It does not look at*)
(* eToF1.                                                                  *)
(***************************************************************************)
isDrained(predictionLatch, lsqDrained) ==
    /\ fetch1Drained /\ fetch2Drained /\ executeDrained(lsqDrained)
    /\ f1ToF2 = noLine /\ predictionLatch = emptyLatch

(***************************************************************************)
(* The latches advance; the pipeline idles if nothing was recorded and     *)
(* stops when it signals that it is drained.  Stages of the back end are   *)
(* active while they hold instructions.  An instruction that is still      *)
(* being finished is in Execute or in the LSQ.                             *)
(***************************************************************************)
EndCycle ==
    /\ phase = "end"
    /\ f2ToF1' = advanced(f2ToF1)
    /\ eToF1' = advanced(eToF1)
    /\ active' = FALSE
    /\ \E lsqDrained \in BOOLEAN :
         /\ execute.drainState = "DrainCurrentInst" => ~executeDrained(lsqDrained)
         /\ IF needToSignalDrained /\ isDrained(advanced(f2ToF1), lsqDrained)
              THEN needToSignalDrained' = FALSE /\ running' = FALSE
              ELSE /\ running' = (active \/ insts # <<>> \/ needToSignalDrained)
                   /\ UNCHANGED needToSignalDrained
    /\ phase' = "between"
    /\ UNCHANGED <<fetch1Vars, fetch2Vars, f1ToF2, executeVars, budget>>

(***************************************************************************)
(* With nothing in Execute and the LSQ no instruction is half done, and    *)
(* fetching is halted at once.                                             *)
(***************************************************************************)
Drain ==
    /\ phase = "between"
    /\ execute.drainState = "NotDraining"
    /\ spend("drains")
    /\ \E state \in {"DrainCurrentInst", "DrainHaltFetch"}, lsqDrained \in BOOLEAN :
         /\ executeDrained(lsqDrained) => state = "DrainHaltFetch"
         /\ execute' = [execute EXCEPT !.drainState = state]
         /\ needToSignalDrained' = ~isDrained(f2ToF1, lsqDrained)
    /\ wakeupOnEvent
    /\ UNCHANGED <<fetch1Vars, fetch2Vars, latchVars, insts, phase>>

drainResume ==
    /\ phase = "between"
    /\ execute.drainState # "NotDraining" /\ ~needToSignalDrained
    /\ execute' = [execute EXCEPT !.drainState = "NotDraining",
                                  !.suspended = FALSE]
    /\ wakeupFetch
    /\ UNCHANGED <<requests, transfers, icacheState, fetch2Vars, latchVars,
                   insts, phase, needToSignalDrained, budget>>

(***************************************************************************)
(* Variant: Fetch1 is woken and the thread stays suspended.                *)
(***************************************************************************)
wakeupFetchOnly ==
    /\ phase = "between"
    /\ execute.suspended
    /\ wakeupFetch
    /\ UNCHANGED <<requests, transfers, icacheState, fetch2Vars, latchVars,
                   executeVars, phase, needToSignalDrained, budget>>

activateContext ==
    /\ phase = "between"
    /\ execute.suspended
    /\ execute' = [execute EXCEPT !.suspended = FALSE]
    /\ wakeupFetch
    /\ UNCHANGED <<requests, transfers, icacheState, fetch2Vars, latchVars,
                   insts, phase, needToSignalDrained, budget>>

-----------------------------------------------------------------------------
FetchCycle ==
    \/ StartCycle \/ Commit \/ Discard \/ EndExecute
    \/ StartFetch2 \/ ProcessLine \/ EndFetch2
    \/ StartFetch1 \/ TranslateNow \/ TranslateLater \/ stepQueues \/ Deliver
    \/ EndCycle

FetchNext ==
    \/ FetchCycle \/ takeInterrupt
    \/ TLBResponse \/ recvTimingResp \/ recvReqRetry
    \/ Drain \/ drainResume \/ activateContext

FetchSpec == FetchInit /\ [][FetchNext]_vars

(***************************************************************************)
(* The instruction cache and the ITLB answer, and a packet is not refused  *)
(* for ever; the data accesses that hold up a drain end.                   *)
(***************************************************************************)
MemoryAnswers ==
    \/ TLBResponse \/ recvTimingResp
    \/ recvReqRetry /\ icacheState' = "IcacheRunning"

DrainGoesOn ==
    \/ EndExecute /\ execute'.drainState # execute.drainState
    \/ EndCycle /\ needToSignalDrained # needToSignalDrained'

(***************************************************************************)
(* A cycle is finished once it has begun, and begins while the pipeline    *)
(* runs.  Instructions are executed; a suspended thread is woken and a     *)
(* drained CPU resumed.                                                    *)
(***************************************************************************)
FetchFairSpec ==
    /\ FetchSpec
    /\ WF_vars(FetchCycle) /\ WF_vars(activateContext \/ drainResume)
    /\ SF_vars(Commit \/ Discard) /\ SF_vars(MemoryAnswers)
    /\ SF_vars(DrainGoesOn)

-----------------------------------------------------------------------------
SeqNum == Nat \ {0}

(***************************************************************************)
(* The type invariant.                                                     *)
(***************************************************************************)
FetchTypeOK ==
    /\ fetch1.state \in {"FetchHalted", "FetchWaitingForPC", "FetchRunning"}
    /\ {fetch1.pc, fetch1.fetchAddr, fetch2.pc, execute.pc} \subseteq Addr
    /\ {fetch1.streamSeqNum, fetch1.predictionSeqNum,
        fetch2.predictionSeqNum, execute.streamSeqNum} \subseteq SeqNum
    /\ \A i \in DOMAIN requests :
           requests[i].state \in {"InTranslation", "Translated"}
    /\ \A i \in DOMAIN transfers :
           transfers[i].state \in {"RequestIssuing", "Complete"}
    /\ icacheState \in {"IcacheRunning", "IcacheNeedsRetry"}
    /\ numReservedSlots \in Nat
    /\ {active, running, needToSignalDrained, execute.suspended,
        fetch1.wakeupGuard, fetch2.havePC} \subseteq BOOLEAN

(***************************************************************************)
(* What Execute commits next is the instruction at the thread's PC, and    *)
(* was decoded from the bytes at that PC: whatever lines and predictions   *)
(* were in flight when the stream changed, the discards by stream and      *)
(* prediction number in Fetch1, Fetch2 and Execute leave no other.         *)
(***************************************************************************)
CommitsProgram ==
    insts # <<>> /\ Head(insts).streamSeqNum = execute.streamSeqNum =>
        Head(insts).pc = execute.pc /\ Head(insts).addr = execute.pc

(***************************************************************************)
(* There is room in Fetch2's input buffer for every line that is requested *)
(* or on its way, and no slot stays reserved for a line that was thrown    *)
(* away: Queue::push never has to push anyway (buffers.hh).                *)
(***************************************************************************)
RoomForEveryLine ==
    /\ numReservedSlots = Len(requests) + Len(transfers)
                            + (IF f1ToF2 = noLine THEN 0 ELSE 1)
    /\ Len(inputBuffer) + numReservedSlots <= inputBufferSize

(***************************************************************************)
(* The panic of Execute::commitInst: nothing is committed for a suspended  *)
(* thread, because the suspension has changed the stream.                  *)
(***************************************************************************)
SuspendedNeverCommits ==
    execute.suspended =>
        \A i \in DOMAIN insts :
            insts[i].streamSeqNum # execute.streamSeqNum

(***************************************************************************)
(* When the instruction cache calls recvReqRetry the request it refused is *)
(* at the front of requests (the assertions of Fetch1::recvReqRetry).      *)
(***************************************************************************)
RetryFindsRequest ==
    icacheState = "IcacheNeedsRetry" =>
        requests # <<>> /\ Head(requests).state = "Translated"

(***************************************************************************)
(* The program goes on for ever: no lost wakeup, reservation, retry or     *)
(* branch leaves the front end waiting.                                    *)
(***************************************************************************)
KeepsCommitting == []<>(execute.pc = 0) /\ []<>(execute.pc # 0)

(***************************************************************************)
(* A drain that has begun is signalled.                                    *)
(***************************************************************************)
DrainFinishes == []<>~needToSignalDrained

=============================================================================
