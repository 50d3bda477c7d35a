---------------------------- MODULE FetchEffects ----------------------------
(***************************************************************************)
(* What each action of Fetch does, as far as the proofs need to know: the  *)
(* changes to the queues, the numbers and the program counters.            *)
(***************************************************************************)
EXTENDS FetchInvariants

(***************************************************************************)
(* What the translations, the instruction cache and stepQueues do to       *)
(* requests and transfers: lines change their state, and the first request *)
(* may move to the end of transfers.                                       *)
(***************************************************************************)
SameLine(r, s) ==
    /\ r.streamSeqNum = s.streamSeqNum
    /\ r.predictionSeqNum = s.predictionSeqNum
    /\ r.lineBaseAddr = s.lineBaseAddr

SameLines(q, r) ==
    Len(q) = Len(r) /\ \A i \in 1 .. Len(q) : SameLine(q[i], r[i])

Shifted(q, r) ==
    /\ Len(r) = Len(q) + 1
    /\ \A i \in 1 .. Len(q) : SameLine(q[i], r[i + 1])

Extended(q, r, x) ==
    /\ Len(q) = Len(r) + 1
    /\ \A i \in 1 .. Len(r) : q[i] = r[i]
    /\ SameLine(q[Len(q)], x)

Moving ==
    /\ requests' \in Seq(Request) /\ transfers' \in Seq(Transfer)
    /\ icacheState' \in {"IcacheRunning", "IcacheNeedsRetry"}
    /\ \/ SameLines(requests', requests) /\ SameLines(transfers', transfers)
       \/ /\ requests # <<>>
          /\ Shifted(requests', requests)
          /\ Extended(transfers', transfers, requests[1])

(***************************************************************************)
(* The steps in which lines only move within Fetch1.                       *)
(***************************************************************************)
Quiet ==
    /\ Moving /\ RetryFindsRequest'
    /\ UNCHANGED <<fetch1, fetch2Vars, latchVars, executeVars,
                   needToSignalDrained>>
    /\ active' \in BOOLEAN /\ running' \in BOOLEAN /\ budget' \in Budget
    /\ \/ phase = "between" /\ phase' \in {"between", "execute"}
       \/ phase = "translate" /\ phase' = "queues"
       \/ phase = "queues" /\ phase' = "deliver"

(***************************************************************************)
(* The three ways to commit the head of insts.  Only a change of stream    *)
(* keeps Execute from going on to where the instruction was predicted to   *)
(* go.                                                                     *)
(***************************************************************************)
Commits(inst) ==
    /\ execute' \in ExecuteInfo /\ eToF1' \in Latch /\ eToF1'.out = eToF1.out
    /\ execute'.drainState = execute.drainState
    /\ execute'.lastPredictionSeqNum = inst.predictionSeqNum
    /\ budget' \in Budget
    /\ \/ /\ isStreamChange(eToF1'.in)
          /\ execute'.streamSeqNum = execute.streamSeqNum + 1
          /\ eToF1'.in.newStreamSeqNum = execute'.streamSeqNum
          /\ eToF1'.in.newPredictionSeqNum = inst.predictionSeqNum
          /\ eToF1'.in.target = execute'.pc
       \/ /\ ~inst.fault /\ ~isStreamChange(eToF1'.in)
          /\ execute'.streamSeqNum = execute.streamSeqNum
          /\ execute'.pc = nextPC(inst)
          /\ execute'.suspended = execute.suspended
          /\ eToF1'.in = eToF1.in
               \/ eToF1'.in.newPredictionSeqNum = inst.predictionSeqNum

(***************************************************************************)
(* What Commit does.                                                       *)
(***************************************************************************)
CommitEffect ==
    /\ phase = "execute" /\ insts # <<>>
    /\ execute.drainState \in {"NotDraining", "DrainCurrentInst"}
    /\ ~isStreamChange(eToF1.in)
    /\ Head(insts) \in Inst
    /\ Head(insts).streamSeqNum = execute.streamSeqNum
    /\ Commits(Head(insts))
    /\ insts' = Tail(insts)
    /\ UNCHANGED <<fetch1Vars, fetch2Vars, f1ToF2, f2ToF1, pipelineVars>>

(***************************************************************************)
(* An instruction that is discarded leaves Execute in its stream.          *)
(***************************************************************************)
DiscardEffect ==
    /\ phase = "execute" /\ insts # <<>> /\ insts' = Tail(insts)
    /\ Head(insts) \in Inst
    /\ \/ Head(insts).streamSeqNum # execute.streamSeqNum
       \/ execute.drainState = "DrainAllInsts"
    /\ execute' \in ExecuteInfo
    /\ execute'.streamSeqNum = execute.streamSeqNum
    /\ execute'.pc = execute.pc
    /\ execute'.suspended = execute.suspended
    /\ execute'.drainState = execute.drainState
    /\ execute'.lastPredictionSeqNum \in
         {execute.lastPredictionSeqNum, Head(insts).predictionSeqNum}
    /\ UNCHANGED <<fetch1Vars, fetch2Vars, latchVars, pipelineVars, budget>>

(***************************************************************************)
(* An interrupt changes the stream.                                        *)
(***************************************************************************)
InterruptEffect ==
    /\ phase = "between" /\ phase' = "fetch2"
    /\ execute.drainState = "NotDraining" /\ ~execute.suspended
    /\ execute' \in ExecuteInfo /\ eToF1' \in Latch
    /\ execute'.streamSeqNum = execute.streamSeqNum + 1
    /\ execute'.suspended = execute.suspended
    /\ execute'.drainState = execute.drainState
    /\ execute'.lastPredictionSeqNum = execute.lastPredictionSeqNum
    /\ isStreamChange(eToF1'.in) /\ eToF1'.out = eToF1.out
    /\ eToF1'.in.newStreamSeqNum = execute'.streamSeqNum
    /\ eToF1'.in.newPredictionSeqNum = execute.lastPredictionSeqNum
    /\ eToF1'.in.target = execute'.pc
    /\ active' = TRUE /\ budget' \in Budget
    /\ UNCHANGED <<fetch1Vars, fetch2Vars, f1ToF2, f2ToF1, insts,
                   running, needToSignalDrained>>

(***************************************************************************)
(* The end of Execute::evaluate: fetching is halted by a change of stream, *)
(* or the branch is thrown away, or nothing happens.                       *)
(***************************************************************************)
Halts ==
    /\ execute.drainState \in {"DrainCurrentInst", "DrainHaltFetch"}
    /\ execute'.streamSeqNum = execute.streamSeqNum + 1
    /\ execute'.pc = execute.pc /\ execute'.suspended = execute.suspended
    /\ execute'.drainState = "DrainAllInsts"
    /\ execute'.lastPredictionSeqNum = execute.lastPredictionSeqNum
    /\ isStreamChange(eToF1'.in) /\ eToF1'.in.reason = "HaltFetch"
    /\ eToF1'.in.newStreamSeqNum = execute'.streamSeqNum
    /\ eToF1'.in.newPredictionSeqNum = execute.lastPredictionSeqNum
    /\ eToF1'.in.target = execute'.pc

(***************************************************************************)
(* What EndExecute does: it may go on with a drain.                        *)
(***************************************************************************)
EndExecuteEffect ==
    /\ phase = "execute" /\ phase' = "fetch2"
    /\ execute' \in ExecuteInfo /\ eToF1' \in Latch
    /\ eToF1'.out = eToF1.out
    /\ active' \in BOOLEAN /\ running' \in BOOLEAN
    /\ \/ Halts
       \/ /\ execute.drainState = "DrainCurrentInst"
          /\ execute' = execute /\ eToF1'.in = noBranch
       \/ /\ execute.drainState \in {"NotDraining", "DrainAllInsts"}
          /\ execute' = execute /\ eToF1' = eToF1
    /\ UNCHANGED <<fetch1Vars, fetch2Vars, f1ToF2, f2ToF1, insts,
                   needToSignalDrained, budget>>

(***************************************************************************)
(* The lines that withoutWrong leaves are the last ones, all if the first  *)
(* is not of an old prediction; those that go are, and if a cycle may look *)
(* at several lines the first that stays is not.                           *)
(***************************************************************************)
Suffix(q, r, k) ==
    /\ k \in 0 .. Len(r) /\ Len(q) = Len(r) - k
    /\ \A i \in 1 .. Len(q) : q[i] = r[i + k]

(***************************************************************************)
(* The beginning of Fetch2::evaluate.  The line that arrives is put behind *)
(* the others; lines are lost at the front, and then the PC with them.     *)
(***************************************************************************)
arrived == IF f1ToF2 = noLine THEN inputBuffer ELSE Append(inputBuffer, f1ToF2)

KeepsFetch2 ==
    /\ fetch2' \in Fetch2Info
    /\ fetch2'.pc = fetch2.pc
    /\ fetch2'.lastStreamSeqNum = fetch2.lastStreamSeqNum
    /\ fetch2'.expectedStreamSeqNum = fetch2.expectedStreamSeqNum
    /\ fetch2'.predictionSeqNum = fetch2.predictionSeqNum

(***************************************************************************)
(* What StartFetch2 does.                                                  *)
(***************************************************************************)
StartFetch2Effect ==
    /\ phase = "fetch2" /\ phase' \in {"lines", "fetch2 end"}
    /\ arrived \in Seq(Line) /\ inputBuffer' \in Seq(Line)
    /\ KeepsFetch2
    /\ f1ToF2' = noLine
    /\ numReservedSlots' = IF f1ToF2 = noLine THEN numReservedSlots
                                              ELSE freed(numReservedSlots)
    /\ isStreamChange(eToF1.out) =>
         inputBuffer' = <<>> /\ fetch2'.havePC = FALSE
    /\ ~isStreamChange(eToF1.out) =>
         \E k \in Nat :
           /\ Suffix(inputBuffer', arrived, k)
           /\ \A i \in 1 .. k : wrongPrediction(arrived[i])
           /\ k = 0 => /\ fetch2'.havePC = fetch2.havePC
                       /\ fetch2'.inputIndex = fetch2.inputIndex
           /\ k # 0 => fetch2'.havePC = FALSE
    /\ UNCHANGED <<fetch1Vars, f2ToF1, eToF1, executeVars, active, running,
                   needToSignalDrained, budget>>

(***************************************************************************)
(* A turn of Fetch2's loop.  setsPC: the PC is taken from the line.        *)
(***************************************************************************)
setsPC(line) ==
    ~fetch2.havePC \/ fetch2.lastStreamSeqNum # line.streamSeqNum

pcOf(line) == IF setsPC(line) THEN line.pc ELSE fetch2.pc

indexOf(line) ==
    IF setsPC(line) THEN (line.pc - line.lineBaseAddr) % AddrSpace
                    ELSE fetch2.inputIndex

PopsWrong(line) ==
    /\ wrongPrediction(line)
    /\ fetch2'.expectedStreamSeqNum = fetch2.expectedStreamSeqNum
    /\ fetch2'.predictionSeqNum = fetch2.predictionSeqNum
    /\ fetch2'.havePC = FALSE
    /\ inputBuffer' = Tail(inputBuffer)
    /\ UNCHANGED <<insts, f2ToF1>>

Passes(line, x) ==
    /\ ~wrongPrediction(line)
    /\ x \in Inst /\ insts' = Append(insts, x)
    /\ x.pc = pcOf(line) /\ x.streamSeqNum = line.streamSeqNum
    /\ x.predictionSeqNum = fetch2.predictionSeqNum
    /\ x.fault = line.fault

PassesFault(line, x) ==
    /\ x.fault /\ x.addr = x.pc
    /\ fetch2'.expectedStreamSeqNum = fetch2.expectedStreamSeqNum
    /\ fetch2'.predictionSeqNum = fetch2.predictionSeqNum
    /\ fetch2'.havePC = FALSE
    /\ inputBuffer' = <<>>
    /\ UNCHANGED f2ToF1

PassesTaken(line, x) ==
    /\ ~x.fault /\ x.addr = (line.lineBaseAddr + indexOf(line)) % AddrSpace
    /\ x.predictedTaken
    /\ fetch2'.expectedStreamSeqNum = line.streamSeqNum
    /\ fetch2'.predictionSeqNum = fetch2.predictionSeqNum + 1
    /\ fetch2'.havePC = FALSE
    /\ inputBuffer' = <<>>
    /\ f2ToF1'.out = f2ToF1.out /\ f2ToF1'.in \in Branch
    /\ f2ToF1'.in.reason = "BranchPrediction"
    /\ f2ToF1'.in.newStreamSeqNum = line.streamSeqNum
    /\ f2ToF1'.in.newPredictionSeqNum = fetch2'.predictionSeqNum
    /\ f2ToF1'.in.target = x.predictedTarget

PassesOn(line, x) ==
    /\ ~x.fault /\ x.addr = (line.lineBaseAddr + indexOf(line)) % AddrSpace
    /\ ~x.predictedTaken
    /\ fetch2'.expectedStreamSeqNum = fetch2.expectedStreamSeqNum
    /\ fetch2'.predictionSeqNum = fetch2.predictionSeqNum
    /\ fetch2'.havePC /\ fetch2'.pc = advancePC(pcOf(line))
    /\ \/ /\ indexOf(line) + 1 = lineWidth /\ fetch2'.inputIndex = 0
          /\ inputBuffer' = Tail(inputBuffer)
       \/ /\ fetch2'.inputIndex = indexOf(line) + 1
          /\ inputBuffer' = inputBuffer
    /\ UNCHANGED f2ToF1

(***************************************************************************)
(* What ProcessLine does, one case for each way a turn can end.            *)
(***************************************************************************)
ProcessLineEffect ==
    LET line == Head(inputBuffer)
    IN  /\ phase = "lines" /\ phase' \in {"lines", "fetch2 end"}
        /\ inputBuffer # <<>> /\ f2ToF1.in = noBranch
        /\ line \in Line /\ line = inputBuffer[1]
        /\ fetch2' \in Fetch2Info /\ f2ToF1' \in Latch
        /\ budget' \in Budget
        /\ fetch2'.lastStreamSeqNum = line.streamSeqNum
        /\ \/ PopsWrong(line)
           \/ \E x \in Inst :
                /\ Passes(line, x)
                /\ PassesFault(line, x) \/ PassesTaken(line, x)
                     \/ PassesOn(line, x)
        /\ UNCHANGED <<fetch1Vars, numReservedSlots, f1ToF2, eToF1, execute,
                       active, running, needToSignalDrained>>

(***************************************************************************)
(* EndFetch2 leaves Fetch2's numbers and PC as they are.                   *)
(***************************************************************************)
EndFetch2Effect ==
    /\ phase \in {"lines", "fetch2 end"} /\ phase' = "fetch1"
    /\ fetch2' \in Fetch2Info /\ active' \in BOOLEAN
    /\ fetch2'.pc = fetch2.pc /\ fetch2'.havePC = fetch2.havePC
    /\ fetch2'.inputIndex = fetch2.inputIndex
    /\ fetch2'.lastStreamSeqNum = fetch2.lastStreamSeqNum
    /\ fetch2'.expectedStreamSeqNum = fetch2.expectedStreamSeqNum
    /\ fetch2'.predictionSeqNum = fetch2.predictionSeqNum
    /\ UNCHANGED <<fetch1Vars, inputBuffer, numReservedSlots, latchVars,
                   executeVars, running, needToSignalDrained, budget>>

(***************************************************************************)
(* Fetch1 after it has followed a branch.                                  *)
(***************************************************************************)
Follows(r, branch) ==
    /\ branch \in Branch
    /\ r.streamSeqNum = branch.newStreamSeqNum
    /\ r.predictionSeqNum = branch.newPredictionSeqNum
    /\ r.pc = branch.target /\ r.fetchAddr = branch.target
    /\ branch.reason = "HaltFetch" => r.state = "FetchHalted"
    /\ branch.reason = "SuspendThread" =>
         r.state \in {fetch1.state, "FetchWaitingForPC"}
    /\ branch.reason \notin {"HaltFetch", "SuspendThread"} =>
         r.state = "FetchRunning"

(***************************************************************************)
(* Where Fetch1 goes on.                                                   *)
(***************************************************************************)
Redirects(r) ==
    \/ fetch1.state = "FetchHalted" /\ r = fetch1
    \/ /\ fetch1.state # "FetchHalted"
       /\ isStreamChange(eToF1.out) /\ Follows(r, eToF1.out)
    \/ /\ fetch1.state # "FetchHalted" /\ ~isStreamChange(eToF1.out)
       /\ f2ToF1.out # noBranch
       /\ f2ToF1.out.newStreamSeqNum = fetch1.streamSeqNum
       /\ Follows(r, f2ToF1.out)
    \/ /\ fetch1.state # "FetchHalted" /\ ~isStreamChange(eToF1.out)
       /\ f2ToF1.out = noBranch
            \/ f2ToF1.out.newStreamSeqNum # fetch1.streamSeqNum
       /\ r = fetch1

(***************************************************************************)
(* Fetch1 requests the line at fetchAddr, or does not.                     *)
(***************************************************************************)
Fetches(r, x) ==
    /\ ~execute.suspended /\ r.state = "FetchRunning" /\ canReserve
    /\ x \in Request
    /\ x.streamSeqNum = r.streamSeqNum /\ x.predictionSeqNum = r.predictionSeqNum
    /\ x.lineBaseAddr = lineBase(r.fetchAddr) /\ x.state = "InTranslation"
    /\ requests' = Append(requests, x)
    /\ numReservedSlots' = numReservedSlots + 1
    /\ fetch1'.state = r.state /\ fetch1'.pc = r.pc
    /\ fetch1'.streamSeqNum = r.streamSeqNum
    /\ fetch1'.predictionSeqNum = r.predictionSeqNum
    /\ fetch1'.fetchAddr = nextBase(lineBase(r.fetchAddr))
    /\ phase' = "translate"

NotFetches(r) ==
    /\ fetch1' = r /\ phase' = "queues"
    /\ UNCHANGED <<requests, numReservedSlots>>

(***************************************************************************)
(* What StartFetch1 does.                                                  *)
(***************************************************************************)
StartFetch1Effect ==
    /\ phase = "fetch1" /\ fetch1' \in Fetch1Info
    /\ \E r \in Fetch1Info :
         /\ Redirects(r)
         /\ NotFetches(r) \/ \E x \in Request : Fetches(r, x)
    /\ UNCHANGED <<transfers, icacheState, fetch2, inputBuffer, latchVars,
                   executeVars, active, running, needToSignalDrained,
                   budget>>

(***************************************************************************)
(* Deliver: nothing is there, or the first transfer is discarded with its  *)
(* reservation, or passed on to Fetch2.                                    *)
(***************************************************************************)
StaysPut == UNCHANGED <<transfers, f1ToF2, numReservedSlots>>

Drops(t) ==
    /\ transfers # <<>> /\ t = Head(transfers) /\ t \in Transfer
    /\ t.streamSeqNum # F \/ t.predictionSeqNum # P1
    /\ transfers' = Tail(transfers)
    /\ numReservedSlots' = freed(numReservedSlots)
    /\ UNCHANGED f1ToF2

Sends(t, line) ==
    /\ transfers # <<>> /\ t = Head(transfers) /\ t \in Transfer
    /\ t.streamSeqNum = F /\ t.predictionSeqNum = P1
    /\ transfers' = Tail(transfers)
    /\ f1ToF2' = line /\ line \in Line
    /\ line.streamSeqNum = t.streamSeqNum
    /\ line.predictionSeqNum = t.predictionSeqNum
    /\ line.lineBaseAddr = t.lineBaseAddr
    /\ line.pc = fetch1.pc /\ line.fault = t.fault
    /\ UNCHANGED numReservedSlots

(***************************************************************************)
(* What Deliver does.                                                      *)
(***************************************************************************)
DeliverEffect ==
    /\ phase = "deliver" /\ phase' = "end"
    /\ fetch1' \in Fetch1Info /\ active' \in BOOLEAN
    /\ fetch1'.pc = fetch1.pc /\ fetch1'.fetchAddr = fetch1.fetchAddr
    /\ fetch1'.streamSeqNum = F /\ fetch1'.predictionSeqNum = P1
    /\ \/ /\ StaysPut \/ \E t \in Transfer : Drops(t)
          /\ fetch1'.state = fetch1.state
       \/ \E t \in Transfer, line \in Line :
            /\ Sends(t, line)
            /\ fetch1'.state = IF line.fault THEN "FetchWaitingForPC"
                                             ELSE fetch1.state
    /\ UNCHANGED <<requests, icacheState, fetch2, inputBuffer, f2ToF1,
                   eToF1, executeVars, running, needToSignalDrained,
                   budget>>

(***************************************************************************)
(* EndCycle only moves the branches on in their latches.                   *)
(***************************************************************************)
EndCycleEffect ==
    /\ phase = "end" /\ phase' = "between"
    /\ f2ToF1' \in Latch /\ eToF1' \in Latch
    /\ f2ToF1'.in = noBranch /\ f2ToF1'.out = f2ToF1.in
    /\ eToF1'.in = noBranch /\ eToF1'.out = eToF1.in
    /\ active' \in BOOLEAN /\ running' \in BOOLEAN
    /\ needToSignalDrained' \in BOOLEAN
    /\ needToSignalDrained' # needToSignalDrained =>
         /\ needToSignalDrained /\ ~needToSignalDrained'
         /\ \E lsqDrained \in BOOLEAN :
              /\ isDrained(advanced(f2ToF1), lsqDrained)
              /\ execute.drainState = "DrainCurrentInst" =>
                   ~executeDrained(lsqDrained)
    /\ UNCHANGED <<fetch1Vars, fetch2Vars, f1ToF2, executeVars, budget>>

(***************************************************************************)
(* Drain only asks for it.                                                 *)
(***************************************************************************)
DrainEffect ==
    /\ phase = "between" /\ execute.drainState = "NotDraining"
    /\ execute' \in ExecuteInfo /\ budget' \in Budget
    /\ execute'.streamSeqNum = E /\ execute'.pc = execute.pc
    /\ execute'.suspended = execute.suspended
    /\ execute'.lastPredictionSeqNum = execute.lastPredictionSeqNum
    /\ active' \in BOOLEAN /\ running' \in BOOLEAN
    /\ needToSignalDrained' \in BOOLEAN
    /\ \E state \in {"DrainCurrentInst", "DrainHaltFetch"},
          lsqDrained \in BOOLEAN :
         /\ executeDrained(lsqDrained) => state = "DrainHaltFetch"
         /\ execute'.drainState = state
         /\ needToSignalDrained' = ~isDrained(f2ToF1, lsqDrained)
    /\ UNCHANGED <<fetch1Vars, fetch2Vars, latchVars, insts, phase>>

(***************************************************************************)
(* Fetch1 is woken: drainResume and activateContext.                       *)
(***************************************************************************)
Wakes ==
    /\ phase = "between"
    /\ fetch1' \in Fetch1Info /\ fetch1'.state = "FetchRunning"
    /\ fetch1'.pc = execute.pc /\ fetch1'.fetchAddr = execute.pc
    /\ fetch1'.streamSeqNum = F /\ fetch1'.predictionSeqNum = P1
    /\ execute' \in ExecuteInfo
    /\ execute'.streamSeqNum = E /\ execute'.pc = execute.pc
    /\ execute'.suspended = FALSE
    /\ execute'.lastPredictionSeqNum = execute.lastPredictionSeqNum
    /\ active' = TRUE /\ running' = TRUE
    /\ UNCHANGED <<requests, transfers, icacheState, fetch2Vars, latchVars,
                   insts, phase, needToSignalDrained, budget>>

(***************************************************************************)
(* drainResume also ends the drain.                                        *)
(***************************************************************************)
ResumeEffect ==
    /\ Wakes /\ execute'.drainState = "NotDraining"
    /\ execute.drainState # "NotDraining" /\ ~needToSignalDrained

(***************************************************************************)
(* activateContext leaves the drain state as it is.                        *)
(***************************************************************************)
ActivateEffect ==
    /\ Wakes /\ execute.suspended
    /\ execute'.drainState = execute.drainState

(***************************************************************************)
(* What an action does, unless it is activateContext.                      *)
(***************************************************************************)
FetchEffect ==
    \/ Quiet \/ CommitEffect \/ DiscardEffect \/ InterruptEffect
    \/ EndExecuteEffect \/ StartFetch2Effect \/ ProcessLineEffect
    \/ EndFetch2Effect \/ StartFetch1Effect \/ DeliverEffect \/ EndCycleEffect
    \/ DrainEffect \/ ResumeEffect
=============================================================================
