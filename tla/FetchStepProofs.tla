--------------------------- MODULE FetchStepProofs --------------------------
(***************************************************************************)
(* That the actions of Fetch have the effects that FetchEffects lists, and *)
(* that these keep Base: the types, the reservations of the input buffer   *)
(* and the request a retry needs.                                          *)
(***************************************************************************)
EXTENDS FetchLineProofs, WellFoundedInduction

(***************************************************************************)
(* A request, translated or not, is a request, and one that is sent or     *)
(* needs not be is a transfer.                                             *)
(***************************************************************************)
LEMMA RequestStates ==
    ASSUME NEW r \in Request
    PROVE  /\ [r EXCEPT !.state = "Translated"] \in Request
           /\ [r EXCEPT !.state = "Translated", !.fault = TRUE] \in Request
           /\ SameLine([r EXCEPT !.state = "Translated"], r)
           /\ SameLine([r EXCEPT !.state = "Translated", !.fault = TRUE], r)
           /\ [r EXCEPT !.state = "Translated"].state = "Translated"
           /\ [r EXCEPT !.state = "Translated", !.fault = TRUE].state = "Translated"
           /\ \A s \in {"RequestIssuing", "Complete"} :
                /\ [r EXCEPT !.state = s] \in Transfer
                /\ SameLine([r EXCEPT !.state = s], r)
BY Zenon DEF Request, Transfer, Requests, SameLine

(***************************************************************************)
(* A transfer stays one when its line arrives.                             *)
(***************************************************************************)
LEMMA TransferCompletes ==
    ASSUME NEW r \in Transfer
    PROVE  /\ [r EXCEPT !.state = "Complete"] \in Transfer
           /\ SameLine([r EXCEPT !.state = "Complete"], r)
BY DEF Transfer, Requests, SameLine

(***************************************************************************)
(* moveFromRequestsToTransfers moves the first of reqs.                    *)
(***************************************************************************)
LEMMA MoveOK ==
    ASSUME Types, NEW reqs \in Seq(Request), reqs # <<>>,
           SameLines(reqs, requests),
           NEW s \in {"RequestIssuing", "Complete"},
           moveFromRequestsToTransfers(reqs, s)
    PROVE  /\ requests' \in Seq(Request) /\ transfers' \in Seq(Transfer)
           /\ requests # <<>>
           /\ Shifted(requests', requests)
           /\ Extended(transfers', transfers, requests[1])
<1> DEFINE x == [Head(reqs) EXCEPT !.state = s]
<1>1. Head(reqs) \in Request /\ Head(reqs) = reqs[1] /\ Len(reqs) \in Nat \ {0}
  OBVIOUS
<1>2. x \in Transfer /\ SameLine(x, Head(reqs))
  BY Zenon, <1>1, RequestStates
<1>3. requests \in Seq(Request) /\ transfers \in Seq(Transfer)
  BY DEF Types
<1>4. SameLine(reqs[1], requests[1]) /\ requests # <<>>
  BY <1>1, <1>3 DEF SameLines
<1>5. requests' = Tail(reqs) /\ transfers' = Append(transfers, x)
  BY DEF moveFromRequestsToTransfers
<1> HIDE DEF x
<1>6. /\ requests' \in Seq(Request) /\ Len(requests') = Len(reqs) - 1
      /\ \A i \in 1 .. Len(requests') : requests'[i] = reqs[i + 1]
  BY <1>1, <1>5
<1>7. /\ transfers' \in Seq(Transfer) /\ Len(transfers') = Len(transfers) + 1
      /\ \A i \in 1 .. Len(transfers) : transfers'[i] = transfers[i]
      /\ transfers'[Len(transfers')] = x
  BY <1>2, <1>3, <1>5
<1>8. Shifted(requests', requests)
  BY <1>1, <1>3, <1>6 DEF Shifted, SameLines
<1>9. Extended(transfers', transfers, requests[1])
  BY <1>1, <1>2, <1>4, <1>7 DEF Extended, SameLine
<1> QED BY <1>4, <1>6, <1>7, <1>8, <1>9

(***************************************************************************)
(* tryToSend and tryToSendToTransfers move lines, and what is refused is   *)
(* at the front and translated.                                            *)
(***************************************************************************)
LEMMA SendOK ==
    ASSUME Types, NEW reqs \in Seq(Request), reqs # <<>>,
           SameLines(reqs, requests), Head(reqs).state = "Translated",
           NEW icache, icache = "IcacheRunning", tryToSend(reqs, icache)
    PROVE  Moving /\ RetryFindsRequest'
<1>1. CASE moveFromRequestsToTransfers(reqs, "RequestIssuing")
             /\ icacheState' = icache
  BY <1>1, MoveOK DEF Moving, RetryFindsRequest
<1>2. CASE icacheState' = "IcacheNeedsRetry" /\ requests' = reqs
             /\ UNCHANGED transfers
  <2>1. SameLines(transfers', transfers) /\ transfers' \in Seq(Transfer)
    BY <1>2 DEF Types, SameLines, SameLine
  <2> QED BY <1>2, <2>1 DEF Moving, RetryFindsRequest
<1> QED BY <1>1, <1>2 DEF tryToSend

(***************************************************************************)
(* Sending a request moves it, if anything, and leaves no line behind.     *)
(***************************************************************************)
LEMMA SendToTransfersOK ==
    ASSUME Types, NEW reqs \in Seq(Request), SameLines(reqs, requests),
           NEW i \in DOMAIN reqs, NEW wakes \in BOOLEAN,
           i = 1 => icacheState = "IcacheRunning",
           icacheState = "IcacheNeedsRetry" => Head(reqs).state = "Translated",
           tryToSendToTransfers(reqs, i, wakes)
    PROVE  Moving /\ RetryFindsRequest' /\ active' \in BOOLEAN /\ running' \in BOOLEAN
<1> DEFINE stays == i # 1 \/ reqs[i].state = "InTranslation"
           done == isDiscardable(reqs[i]) \/ reqs[i].fault
<1>1. reqs # <<>> /\ Head(reqs) = reqs[1] /\ reqs[i] \in Request
  OBVIOUS
<1>2. active' \in BOOLEAN /\ running' \in BOOLEAN
  BY Zenon DEF tryToSendToTransfers, wakeupOnEvent, Types
<1>3. CASE stays /\ requests' = reqs /\ UNCHANGED <<transfers, icacheState>>
  <2>1. SameLines(transfers', transfers) /\ transfers' \in Seq(Transfer)
    BY <1>3 DEF Types, SameLines, SameLine
  <2>2. Moving
    BY <1>3, <2>1 DEF Moving, Types
  <2>3. RetryFindsRequest'
    BY <1>1, <1>3 DEF RetryFindsRequest
  <2> QED BY <1>2, <2>2, <2>3
<1>4. CASE ~stays /\ moveFromRequestsToTransfers(reqs, "Complete")
             /\ UNCHANGED icacheState
  <2>1. icacheState' = "IcacheRunning"
    BY <1>4
  <2> QED BY <1>1, <1>2, <1>4, <2>1, MoveOK DEF Moving, RetryFindsRequest
<1>5. CASE ~stays /\ tryToSend(reqs, icacheState)
  <2>1. i = 1 /\ icacheState = "IcacheRunning" /\ Head(reqs).state = "Translated"
    BY <1>1, <1>5 DEF Request, Requests
  <2> QED BY <1>1, <1>2, <1>5, <2>1, SendOK
<1> QED BY <1>3, <1>4, <1>5 DEF tryToSendToTransfers

(***************************************************************************)
(* A request that is translated where it is.                               *)
(***************************************************************************)
LEMMA TranslatedInPlace ==
    ASSUME Types, RetryFindsRequest, NEW i \in DOMAIN requests, NEW x \in Request,
           SameLine(x, requests[i]), x.state = "Translated",
           NEW r, r = [requests EXCEPT ![i] = x]
    PROVE  /\ r \in Seq(Request) /\ SameLines(r, requests) /\ i \in DOMAIN r
           /\ icacheState = "IcacheNeedsRetry" => Head(r).state = "Translated"
<1>1. requests \in Seq(Request)
  BY DEF Types
<1>2. r \in Seq(Request) /\ Len(r) = Len(requests) /\ DOMAIN r = DOMAIN requests
  BY <1>1
<1>3. \A j \in 1 .. Len(r) : r[j] = IF j = i THEN x ELSE requests[j]
  BY <1>1, <1>2
<1>4. SameLines(r, requests)
  BY <1>2, <1>3 DEF SameLines, SameLine
<1>5. ASSUME icacheState = "IcacheNeedsRetry" PROVE Head(r).state = "Translated"
  <2>1. requests # <<>> /\ requests[1].state = "Translated"
    BY <1>1, <1>5 DEF RetryFindsRequest
  <2>2. 1 \in 1 .. Len(r) /\ Head(r) = r[1]
    BY <1>1, <1>2, <2>1
  <2> QED BY <1>3, <2>1, <2>2
<1> QED BY <1>2, <1>4, <1>5

(***************************************************************************)
(* So does FetchRequest::finish, for a translation and for a fault.        *)
(***************************************************************************)
LEMMA FinishOK ==
    ASSUME Types, RetryFindsRequest, NEW i \in DOMAIN requests, finish(i)
    PROVE  /\ Moving /\ RetryFindsRequest'
           /\ active' \in BOOLEAN /\ running' \in BOOLEAN
           /\ budget' \in [{"streams", "predictions", "faults", "suspends",
                            "drains"} -> Nat]
<1> DEFINE r == [requests EXCEPT ![i].state = "Translated"]
           f == [requests EXCEPT ![i].state = "Translated", ![i].fault = TRUE]
<1>1. requests \in Seq(Request) /\ requests[i] \in Request
  BY DEF Types
<1>2. requests[i].state = "InTranslation"
  BY DEF finish
<1>3. i = 1 => icacheState = "IcacheRunning"
  BY <1>1, <1>2 DEF RetryFindsRequest, Types
<1>4. /\ r \in Seq(Request) /\ SameLines(r, requests) /\ i \in DOMAIN r
      /\ icacheState = "IcacheNeedsRetry" => Head(r).state = "Translated"
  <2>1. PICK x \in Request :
          /\ x = [requests[i] EXCEPT !.state = "Translated"]
          /\ SameLine(x, requests[i]) /\ x.state = "Translated"
    BY Zenon, <1>1, RequestStates
  <2>2. r = [requests EXCEPT ![i] = x]
    BY <2>1
  <2> HIDE DEF r
  <2> QED BY Zenon, <2>1, <2>2, TranslatedInPlace
<1>5. /\ f \in Seq(Request) /\ SameLines(f, requests) /\ i \in DOMAIN f
      /\ icacheState = "IcacheNeedsRetry" => Head(f).state = "Translated"
  <2>1. PICK x \in Request :
          /\ x = [requests[i] EXCEPT !.state = "Translated", !.fault = TRUE]
          /\ SameLine(x, requests[i]) /\ x.state = "Translated"
    BY Zenon, <1>1, RequestStates
  <2>2. f = [requests EXCEPT ![i] = x]
    BY Zenon, <2>1
  <2> HIDE DEF f
  <2> QED BY Zenon, <2>1, <2>2, TranslatedInPlace
<1>6. CASE UNCHANGED budget /\ tryToSendToTransfers(r, i, TRUE)
  BY Zenon, <1>3, <1>4, <1>6, SendToTransfersOK DEF Types
<1>7. CASE spend("faults") /\ tryToSendToTransfers(f, i, TRUE)
  <2>1. budget' \in [{"streams", "predictions", "faults", "suspends", "drains"}
                       -> Nat]
    BY <1>7 DEF spend, Types
  <2> QED BY Zenon, <1>3, <1>5, <1>7, <2>1, SendToTransfersOK
<1> QED BY Zenon, <1>6, <1>7 DEF finish

(***************************************************************************)
(* The steps in which lines only move within Fetch1.                       *)
(***************************************************************************)
quietStep ==
    \/ StartCycle \/ TLBResponse \/ recvTimingResp \/ recvReqRetry
    \/ TranslateNow \/ TranslateLater \/ stepQueues

(***************************************************************************)
(* Nothing moves in a step that leaves both queues alone.                  *)
(***************************************************************************)
LEMMA NothingMoves ==
    ASSUME Types, RetryFindsRequest,
           UNCHANGED <<requests, transfers, icacheState>>
    PROVE  Moving /\ RetryFindsRequest'
BY DEF Types, RetryFindsRequest, Moving, SameLines, SameLine

(***************************************************************************)
(* What the quiet steps have in common.                                    *)
(***************************************************************************)
LEMMA QuietOK ==
    ASSUME Types, RetryFindsRequest, Requested, quietStep
    PROVE  Quiet
<1> budget \in Budget /\ active \in BOOLEAN /\ running \in BOOLEAN
  BY DEF Types, Budget
<1> requests \in Seq(Request) /\ transfers \in Seq(Transfer)
  BY DEF Types
<1>1. CASE StartCycle
  BY <1>1, NothingMoves DEF StartCycle, fetch1Vars, Quiet
<1>2. CASE TLBResponse
  BY <1>2, FinishOK DEF TLBResponse, Quiet, Budget
<1>3. CASE recvTimingResp
  <2>1. PICK i \in DOMAIN transfers :
          transfers' = [transfers EXCEPT ![i].state = "Complete"]
    BY Zenon, <1>3 DEF recvTimingResp
  <2>2. PICK x \in Transfer :
          x = [transfers[i] EXCEPT !.state = "Complete"] /\ SameLine(x, transfers[i])
    <3>1. transfers[i] \in Transfer
      OBVIOUS
    <3> QED BY Zenon, <3>1, TransferCompletes
  <2>3. transfers' = [transfers EXCEPT ![i] = x]
    BY <2>1, <2>2
  <2>4. transfers' \in Seq(Transfer) /\ Len(transfers') = Len(transfers)
    BY <2>3
  <2>5. \A j \in 1 .. Len(transfers) :
          transfers'[j] = IF j = i THEN x ELSE transfers[j]
    BY <2>3
  <2>6. SameLines(transfers', transfers)
    BY Zenon, <2>2, <2>4, <2>5 DEF SameLines, SameLine
  <2>7. UNCHANGED <<requests, icacheState>> /\ SameLines(requests', requests)
    BY <1>3 DEF recvTimingResp, SameLines, SameLine
  <2>8. Moving /\ RetryFindsRequest'
    BY <2>4, <2>6, <2>7 DEF Moving, RetryFindsRequest, Types
  <2> QED BY <1>3, <2>8 DEF recvTimingResp, wakeupOnEvent, Quiet
<1>4. CASE recvReqRetry
  <2>1. Head(requests).state = "Translated" /\ requests # <<>>
    BY <1>4 DEF recvReqRetry, RetryFindsRequest
  <2>2. SameLines(requests, requests)
    BY DEF SameLines, SameLine
  <2>3. Moving /\ RetryFindsRequest'
    BY <1>4, <2>1, <2>2, SendOK DEF recvReqRetry
  <2> QED BY <1>4, <2>3 DEF recvReqRetry, pipelineVars, Quiet
<1>5. CASE TranslateNow
  <2>1. Len(requests) \in DOMAIN requests
    BY <1>5 DEF TranslateNow, Requested
  <2> QED BY <1>5, <2>1, FinishOK DEF TranslateNow, Quiet, Budget
<1>6. CASE TranslateLater
  BY <1>6, NothingMoves DEF TranslateLater, fetch1Vars, Quiet
<1>7. CASE stepQueues
  <2>1. CASE icacheState = "IcacheRunning" /\ requests # <<>>
    <3>1. SameLines(requests, requests) /\ 1 \in DOMAIN requests
      BY <2>1 DEF SameLines, SameLine
    <3>2. tryToSendToTransfers(requests, 1, FALSE)
      BY Zenon, <1>7, <2>1 DEF stepQueues
    <3>3. Moving /\ RetryFindsRequest' /\ active' \in BOOLEAN /\ running' \in BOOLEAN
      BY Zenon, <2>1, <3>1, <3>2, SendToTransfersOK
    <3> QED BY <1>7, <3>3 DEF stepQueues, Quiet
  <2>2. CASE ~(icacheState = "IcacheRunning" /\ requests # <<>>)
    <3>1. UNCHANGED <<requests, transfers, icacheState, active, running>>
      BY Zenon, <1>7, <2>2 DEF stepQueues
    <3> QED BY <1>7, <3>1, NothingMoves DEF stepQueues, Quiet
  <2> QED BY <2>1, <2>2
<1> QED BY <1>1, <1>2, <1>3, <1>4, <1>5, <1>6, <1>7 DEF quietStep

(***************************************************************************)
(* The quiet steps keep them: a line that moves keeps its reservation.     *)
(***************************************************************************)
LEMMA BaseQuiet == ASSUME Base, Quiet PROVE Base'
<1>1. /\ requests \in Seq(Request) /\ transfers \in Seq(Transfer)
      /\ requests' \in Seq(Request) /\ transfers' \in Seq(Transfer)
  BY DEF Base, Types, Quiet, Moving
<1>2. Len(requests') + Len(transfers') = Len(requests) + Len(transfers)
  <2>1. CASE SameLines(requests', requests) /\ SameLines(transfers', transfers)
    BY <1>1, <2>1 DEF SameLines
  <2>2. CASE Shifted(requests', requests)
               /\ Extended(transfers', transfers, requests[1])
    BY <1>1, <2>2 DEF Shifted, Extended
  <2> QED BY <2>1, <2>2 DEF Quiet, Moving
<1>3. Types'
  BY Zenon
     DEF Base, Types, Quiet, Moving, fetch2Vars, latchVars, executeVars, Budget, Phase
<1>4. LatchTaken' /\ Requested'
  BY DEF Base, LatchTaken, Requested, Quiet, latchVars
<1>5. RoomForEveryLine'
  BY <1>1, <1>2 DEF Base, RoomForEveryLine, Quiet, latchVars, fetch2Vars
<1> QED BY <1>3, <1>4, <1>5 DEF Base, Quiet

(***************************************************************************)
(* updateBranchData: what is in eToF1 afterwards and where Execute is.     *)
(***************************************************************************)
LEMMA BranchSent ==
    ASSUME eToF1 \in Latch, NEW ex \in ExecuteInfo,
           NEW reason \in Reason \cup {"NoBranch"},
           NEW prediction \in SeqNum, NEW target \in Addr,
           updateBranchData(ex, reason, prediction, target)
    PROVE  /\ execute' \in ExecuteInfo /\ eToF1' \in Latch
           /\ execute'.pc = ex.pc /\ execute'.suspended = ex.suspended
           /\ execute'.drainState = ex.drainState
           /\ execute'.lastPredictionSeqNum = ex.lastPredictionSeqNum
           /\ eToF1'.out = eToF1.out
           /\ reason = "NoBranch" => eToF1' = eToF1 /\ execute' = ex
           /\ reason = "CorrectlyPredictedBranch" =>
                /\ execute'.streamSeqNum = ex.streamSeqNum
                /\ ~isStreamChange(eToF1'.in)
                /\ eToF1'.in.newPredictionSeqNum = prediction
           /\ reason \notin {"NoBranch", "CorrectlyPredictedBranch"} =>
                /\ execute'.streamSeqNum = ex.streamSeqNum + 1
                /\ isStreamChange(eToF1'.in)
                /\ eToF1'.in.reason = reason
                /\ eToF1'.in.newStreamSeqNum = ex.streamSeqNum + 1
                /\ eToF1'.in.newPredictionSeqNum = prediction
                /\ eToF1'.in.target = target
<1> DEFINE change == reason \notin {"NoBranch", "CorrectlyPredictedBranch"}
           stream == ex.streamSeqNum + (IF change THEN 1 ELSE 0)
           branch == BranchData(reason, stream, prediction, target)
<1>1. CASE reason = "NoBranch"
  BY <1>1 DEF updateBranchData
<1>2. CASE reason # "NoBranch"
  <2>1. /\ execute' = [ex EXCEPT !.streamSeqNum = stream]
        /\ eToF1' = [eToF1 EXCEPT !.in = branch]
    BY <1>2 DEF updateBranchData
  <2>2. stream \in SeqNum /\ reason \in Reason
    BY <1>2 DEF ExecuteInfo, SeqNum
  <2>3. stream = IF reason = "CorrectlyPredictedBranch" THEN ex.streamSeqNum
                                                         ELSE ex.streamSeqNum + 1
    BY <1>2 DEF ExecuteInfo, SeqNum
  <2> HIDE DEF stream
  <2>4. branch \in Branch /\ branch.reason = reason /\ branch.target = target
          /\ branch.newStreamSeqNum = stream
          /\ branch.newPredictionSeqNum = prediction
    BY <2>2 DEF Branch, BranchData
  <2> HIDE DEF branch
  <2>5. eToF1' \in Latch /\ eToF1'.in = branch /\ eToF1'.out = eToF1.out
    BY <2>1, <2>4 DEF Latch
  <2>6. /\ execute' \in ExecuteInfo /\ execute'.pc = ex.pc
        /\ execute'.suspended = ex.suspended
        /\ execute'.drainState = ex.drainState
        /\ execute'.lastPredictionSeqNum = ex.lastPredictionSeqNum
        /\ execute'.streamSeqNum = stream
    BY <2>1, <2>2 DEF ExecuteInfo
  <2>7. isStreamChange(eToF1'.in) <=> reason # "CorrectlyPredictedBranch"
    BY <1>2, <2>4, <2>5 DEF isStreamChange
  <2> QED BY <1>2, <2>3, <2>4, <2>5, <2>6, <2>7
<1> QED BY <1>1, <1>2

(***************************************************************************)
(* What branchReason answers.                                              *)
(***************************************************************************)
LEMMA BranchReasons ==
    ASSUME NEW inst, NEW next, NEW forced \in BOOLEAN,
           inst.predictedTaken \in BOOLEAN
    PROVE  /\ branchReason(inst, next, forced) \in Reason \cup {"NoBranch"}
           /\ branchReason(inst, next, forced) = "NoBranch" =>
                ~inst.predictedTaken /\ next = advancePC(inst.pc)
           /\ branchReason(inst, next, forced) = "CorrectlyPredictedBranch" =>
                inst.predictedTaken /\ next = inst.predictedTarget
<1>1. CASE inst.predictedTaken /\ ~forced /\ next = advancePC(inst.pc)
  BY <1>1 DEF branchReason, Reason
<1>2. CASE inst.predictedTaken /\ ~forced /\ next # advancePC(inst.pc)
  BY <1>2 DEF branchReason, Reason
<1>3. CASE ~inst.predictedTaken \/ forced
  BY <1>3 DEF branchReason, Reason
<1> QED BY <1>1, <1>2, <1>3

(***************************************************************************)
(* A change of stream is one of the ways.                                  *)
(***************************************************************************)
LEMMA SendsChange ==
    ASSUME Types, NEW inst \in Inst, NEW ex \in ExecuteInfo, NEW target \in Addr,
           ex.streamSeqNum = execute.streamSeqNum, ex.pc = target,
           ex.drainState = execute.drainState,
           ex.lastPredictionSeqNum = inst.predictionSeqNum,
           budget' \in Budget,
           NEW reason \in Reason \ {"CorrectlyPredictedBranch"},
           updateBranchData(ex, reason, inst.predictionSeqNum, target)
    PROVE  Commits(inst)
<1>1. eToF1 \in Latch /\ inst.predictionSeqNum \in SeqNum /\ reason # "NoBranch"
  BY DEF Types, Inst, Reason
<1> QED BY <1>1, BranchSent DEF Commits

(***************************************************************************)
(* Commit does what CommitEffect says.                                     *)
(***************************************************************************)
LEMMA CommitOK == ASSUME Types, Commit PROVE CommitEffect
<1> USE DEF CommitEffect
<1> DEFINE inst == Head(insts)
           ex == [execute EXCEPT !.lastPredictionSeqNum = inst.predictionSeqNum]
<1>1. /\ phase = "execute" /\ insts # <<>>
      /\ execute.drainState \in {"NotDraining", "DrainCurrentInst"}
      /\ ~isStreamChange(eToF1.in) /\ inst.streamSeqNum = execute.streamSeqNum
      /\ CommitFault(inst, ex) \/ CommitInst(inst, ex) \/ CommitQuiesce(inst, ex)
      /\ insts' = Tail(insts)
      /\ UNCHANGED <<fetch1Vars, fetch2Vars, f1ToF2, f2ToF1, pipelineVars>>
  BY DEF Commit
<1>2. inst \in Inst
  BY <1>1 DEF Types
<1>3. /\ inst.predictionSeqNum \in SeqNum /\ inst.pc \in Addr
      /\ inst.predictedTaken \in BOOLEAN /\ inst.fault \in BOOLEAN
  BY <1>2 DEF Inst
<1>4. /\ ex \in ExecuteInfo /\ ex.streamSeqNum = execute.streamSeqNum
      /\ ex.drainState = execute.drainState /\ ex.suspended = execute.suspended
      /\ ex.lastPredictionSeqNum = inst.predictionSeqNum
  BY Zenon, <1>3 DEF Types, ExecuteInfo
<1>5. budget \in Budget /\ eToF1 \in Latch
  BY DEF Types, Budget
<1> HIDE DEF ex, inst
<1>6. \A pc \in Addr, s \in BOOLEAN :
        /\ [ex EXCEPT !.pc = pc] \in ExecuteInfo
        /\ [ex EXCEPT !.pc = pc, !.suspended = s] \in ExecuteInfo
  BY Zenon, <1>4 DEF ExecuteInfo
<1>7. 0 \in Addr /\ advancePC(inst.pc) \in Addr /\ targets[inst.pc] \subseteq Addr
  <2>1. 0 \in Addr
    BY FetchAssumption DEF Addr
  <2>2. advancePC(inst.pc) \in Addr
    BY <1>3, AddressOps
  <2>3. targets[inst.pc] \subseteq Addr
    BY <1>3, FetchAssumption
  <2> QED BY <2>1, <2>2, <2>3
<1>8. \A what \in {"streams", "suspends"} : spend(what) => budget' \in Budget
  BY <1>5 DEF spend, Budget
<1>9. CASE CommitFault(inst, ex)
  <2>1. PICK target \in {handler, inst.pc} :
          updateBranchData([ex EXCEPT !.pc = target], "UnpredictedBranch",
                           inst.predictionSeqNum, target)
    BY <1>9 DEF CommitFault
  <2>2. target \in Addr
    BY <1>3, <1>7 DEF handler
  <2>3. PICK e \in ExecuteInfo : e = [ex EXCEPT !.pc = target]
    BY Zenon, <1>6, <2>2
  <2>4. /\ e.streamSeqNum = execute.streamSeqNum /\ e.pc = target
        /\ e.drainState = execute.drainState
        /\ e.lastPredictionSeqNum = inst.predictionSeqNum
    BY <1>4, <2>3 DEF ExecuteInfo
  <2>5. budget' \in Budget
    BY <1>5, <1>9 DEF CommitFault
  <2>6. "UnpredictedBranch" \in Reason \ {"CorrectlyPredictedBranch"}
    BY DEF Reason
  <2>7. updateBranchData(e, "UnpredictedBranch", inst.predictionSeqNum, target)
    BY <2>1, <2>3
  <2>8. Commits(inst)
    BY <1>2, <2>2, <2>4, <2>5, <2>6, <2>7, SendsChange
  <2> QED BY <1>1, <1>2, <2>8 DEF inst
<1>10. CASE CommitInst(inst, ex)
  <2>1. PICK next \in {advancePC(inst.pc)} \cup targets[inst.pc],
             forced \in BOOLEAN :
          /\ updateBranchData([ex EXCEPT !.pc = next],
                              branchReason(inst, next, forced),
                              inst.predictionSeqNum, next)
          /\ IF isStreamChange([reason |-> branchReason(inst, next, forced)])
               THEN spend("streams") ELSE UNCHANGED budget
    BY Zenon, <1>10 DEF CommitInst
  <2>2. next \in Addr
    BY <1>7
  <2>3. PICK reason \in Reason \cup {"NoBranch"} :
          /\ reason = branchReason(inst, next, forced)
          /\ reason = "NoBranch" =>
               ~inst.predictedTaken /\ next = advancePC(inst.pc)
          /\ reason = "CorrectlyPredictedBranch" =>
               inst.predictedTaken /\ next = inst.predictedTarget
    BY <1>3, BranchReasons
  <2>4. PICK e \in ExecuteInfo : e = [ex EXCEPT !.pc = next]
    BY Zenon, <1>6, <2>2
  <2>5. /\ e.streamSeqNum = execute.streamSeqNum /\ e.pc = next
        /\ e.drainState = execute.drainState /\ e.suspended = execute.suspended
        /\ e.lastPredictionSeqNum = inst.predictionSeqNum
    BY <1>4, <2>4 DEF ExecuteInfo
  <2>6. budget' \in Budget
    BY <1>5, <1>8, <2>1
  <2>7. updateBranchData(e, reason, inst.predictionSeqNum, next)
    BY <2>1, <2>3, <2>4
  <2>8. CASE reason \in {"NoBranch", "CorrectlyPredictedBranch"}
    <3>1. ~inst.fault
      BY <1>10 DEF CommitInst
    <3>2. next = nextPC(inst)
      BY <2>3, <2>8 DEF nextPC
    <3>3. Commits(inst)
      BY <1>1, <1>3, <1>5, <2>2, <2>5, <2>6, <2>7, <2>8, <3>1, <3>2, BranchSent
      DEF Commits
    <3> QED BY <1>1, <1>2, <3>3 DEF inst
  <2>9. CASE reason \in Reason \ {"CorrectlyPredictedBranch"}
    <3>1. Commits(inst)
      BY <1>2, <2>2, <2>5, <2>6, <2>7, <2>9, SendsChange
    <3> QED BY <1>1, <1>2, <3>1 DEF inst
  <2> QED BY <2>8, <2>9
<1>11. CASE CommitQuiesce(inst, ex)
  <2>1. PICK next \in Addr : next = advancePC(inst.pc)
    BY <1>7
  <2>2. PICK e \in ExecuteInfo : e = [ex EXCEPT !.pc = next, !.suspended = TRUE]
    BY Zenon, <1>6
  <2>3. updateBranchData(e, "SuspendThread", inst.predictionSeqNum, next)
    BY <1>11, <2>1, <2>2 DEF CommitQuiesce
  <2>4. /\ e.streamSeqNum = execute.streamSeqNum /\ e.pc = next
        /\ e.drainState = execute.drainState
        /\ e.lastPredictionSeqNum = inst.predictionSeqNum
    BY <1>4, <2>2 DEF ExecuteInfo
  <2>5. budget' \in Budget
    BY <1>8, <1>11 DEF CommitQuiesce
  <2>6. "SuspendThread" \in Reason \ {"CorrectlyPredictedBranch"}
    BY DEF Reason
  <2>7. Commits(inst)
    BY <1>2, <2>3, <2>4, <2>5, <2>6, SendsChange
  <2> QED BY <1>1, <1>2, <2>7 DEF inst
<1> QED BY <1>1, <1>9, <1>10, <1>11

(***************************************************************************)
(* Base is kept by a step that leaves the queues, the latch f1ToF2 and the *)
(* reservations alone.                                                     *)
(***************************************************************************)
LEMMA BaseElsewhere ==
    ASSUME Base, Types',
           UNCHANGED <<requests, transfers, icacheState, inputBuffer,
                       numReservedSlots, f1ToF2>>,
           phase' = phase \/ phase' \in {"execute", "fetch2", "between"}
             \/ (phase \in {"lines", "fetch2 end"} /\ phase' = "fetch1")
    PROVE  Base'
BY Zenon DEF Base, LatchTaken, Requested, RoomForEveryLine, RetryFindsRequest

(***************************************************************************)
(* Commit keeps Base.                                                      *)
(***************************************************************************)
LEMMA BaseCommit == ASSUME Base, CommitEffect PROVE Base'
<1>1. Types
  BY DEF Base
<1>2. /\ Commits(Head(insts)) /\ insts # <<>> /\ insts' = Tail(insts)
      /\ UNCHANGED <<fetch1Vars, fetch2Vars, f1ToF2, f2ToF1, pipelineVars>>
  BY <1>1 DEF CommitEffect
<1>3. insts' \in Seq(Inst)
  BY <1>1, <1>2 DEF Types
<1>4. Types'
  BY <1>1, <1>2, <1>3
  DEF Types, Commits, fetch1Vars, fetch2Vars, pipelineVars, Budget
<1> QED BY <1>2, <1>4, BaseElsewhere DEF fetch1Vars, fetch2Vars, pipelineVars

(***************************************************************************)
(* Discard does what DiscardEffect says.                                   *)
(***************************************************************************)
LEMMA DiscardOK == ASSUME Types, Discard PROVE DiscardEffect
<1> USE DEF DiscardEffect
<1>1. insts # <<>> /\ insts \in Seq(Inst)
  BY DEF Types, Discard
<1>2. Head(insts) \in Inst /\ Head(insts).predictionSeqNum \in SeqNum
  <2>1. Head(insts) \in Inst
    BY <1>1
  <2> QED BY <2>1 DEF Inst
<1>3. PICK committing \in BOOLEAN :
         execute' = IF committing
                      THEN [execute EXCEPT !.lastPredictionSeqNum =
                                               Head(insts).predictionSeqNum]
                      ELSE execute
  BY DEF Discard
<1>4. /\ execute' \in ExecuteInfo
      /\ execute'.streamSeqNum = execute.streamSeqNum
      /\ execute'.pc = execute.pc
      /\ execute'.suspended = execute.suspended
      /\ execute'.drainState = execute.drainState
      /\ execute'.lastPredictionSeqNum \in
                {execute.lastPredictionSeqNum, Head(insts).predictionSeqNum}
  BY Zenon, <1>2, <1>3 DEF Types, ExecuteInfo
<1> QED BY <1>1, <1>2, <1>4 DEF Discard

(***************************************************************************)
(* So does Discard.                                                        *)
(***************************************************************************)
LEMMA BaseDiscard == ASSUME Base, DiscardEffect PROVE Base'
<1>1. Types
  BY DEF Base
<1>2. /\ insts # <<>> /\ insts' = Tail(insts) /\ execute' \in ExecuteInfo
      /\ UNCHANGED <<fetch1Vars, fetch2Vars, latchVars, pipelineVars, budget>>
  BY <1>1 DEF DiscardEffect
<1>3. insts' \in Seq(Inst)
  BY <1>1, <1>2 DEF Types
<1>4. Types'
  BY <1>1, <1>2, <1>3 DEF Types, fetch1Vars, fetch2Vars, latchVars, pipelineVars
<1> QED BY <1>2, <1>4, BaseElsewhere
           DEF fetch1Vars, fetch2Vars, latchVars, pipelineVars

(***************************************************************************)
(* takeInterrupt does what InterruptEffect says.                           *)
(***************************************************************************)
LEMMA InterruptOK == ASSUME Types, takeInterrupt PROVE InterruptEffect
<1> USE DEF InterruptEffect
<1>1. 0 \in Addr
  BY FetchAssumption DEF Addr
<1>2. PICK e \in ExecuteInfo :
        /\ e = [execute EXCEPT !.pc = handler]
        /\ e.streamSeqNum = execute.streamSeqNum /\ e.pc = handler
        /\ e.suspended = execute.suspended
        /\ e.drainState = execute.drainState
        /\ e.lastPredictionSeqNum = execute.lastPredictionSeqNum
  <2>1. execute \in ExecuteInfo /\ handler \in Addr
    BY <1>1 DEF Types, handler
  <2>2. [execute EXCEPT !.pc = handler] \in ExecuteInfo
    BY <2>1 DEF ExecuteInfo
  <2> QED BY <2>1, <2>2 DEF ExecuteInfo
<1>3. updateBranchData(e, "Interrupt", execute.lastPredictionSeqNum, handler)
  BY <1>2 DEF takeInterrupt
<1>4. /\ execute.lastPredictionSeqNum \in SeqNum /\ handler \in Addr
      /\ "Interrupt" \in Reason /\ eToF1 \in Latch
  BY <1>1 DEF Types, ExecuteInfo, handler, Reason
<1>5. budget' \in Budget
  BY DEF takeInterrupt, spend, Types, Budget
<1>6. /\ execute' \in ExecuteInfo /\ eToF1' \in Latch
      /\ execute'.streamSeqNum = e.streamSeqNum + 1 /\ execute'.pc = e.pc
      /\ execute'.suspended = e.suspended
      /\ execute'.drainState = e.drainState
      /\ execute'.lastPredictionSeqNum = e.lastPredictionSeqNum
      /\ isStreamChange(eToF1'.in) /\ eToF1'.out = eToF1.out
      /\ eToF1'.in.newStreamSeqNum = e.streamSeqNum + 1
      /\ eToF1'.in.newPredictionSeqNum = execute.lastPredictionSeqNum
      /\ eToF1'.in.target = handler
  BY <1>3, <1>4, BranchSent
<1> QED BY <1>2, <1>5, <1>6 DEF takeInterrupt

(***************************************************************************)
(* So does an interrupt.                                                   *)
(***************************************************************************)
LEMMA BaseInterrupt == ASSUME Base, InterruptEffect PROVE Base'
<1>1. Types
  BY DEF Base
<1>2. Types'
  BY <1>1 DEF InterruptEffect, Types, fetch1Vars, fetch2Vars, Budget, Phase
<1> QED BY <1>1, <1>2, BaseElsewhere DEF InterruptEffect, fetch1Vars, fetch2Vars

(***************************************************************************)
(* EndExecute does what EndExecuteEffect says.                             *)
(***************************************************************************)
LEMMA EndExecuteOK == ASSUME Types, EndExecute PROVE EndExecuteEffect
<1> USE DEF EndExecuteEffect
<1>1. /\ execute \in ExecuteInfo /\ eToF1 \in Latch
      /\ active \in BOOLEAN /\ running \in BOOLEAN
  BY DEF Types
<1>2. CASE HaltFetch
  <2>1. PICK e \in ExecuteInfo :
          /\ e = [execute EXCEPT !.drainState = "DrainAllInsts"]
          /\ e.streamSeqNum = execute.streamSeqNum /\ e.pc = execute.pc
          /\ e.suspended = execute.suspended
          /\ e.drainState = "DrainAllInsts"
          /\ e.lastPredictionSeqNum = execute.lastPredictionSeqNum
    <3>1. [execute EXCEPT !.drainState = "DrainAllInsts"] \in ExecuteInfo
      BY <1>1 DEF ExecuteInfo
    <3> QED BY <1>1, <3>1 DEF ExecuteInfo
  <2>2. /\ execute.lastPredictionSeqNum \in SeqNum /\ execute.pc \in Addr
        /\ "HaltFetch" \in Reason
    BY <1>1 DEF ExecuteInfo, Reason
  <2>3. updateBranchData(e, "HaltFetch", execute.lastPredictionSeqNum, execute.pc)
    BY <1>2, <2>1 DEF HaltFetch
  <2>4. /\ execute' \in ExecuteInfo /\ eToF1' \in Latch
        /\ execute'.streamSeqNum = e.streamSeqNum + 1 /\ execute'.pc = e.pc
        /\ execute'.suspended = e.suspended
        /\ execute'.drainState = e.drainState
        /\ execute'.lastPredictionSeqNum = e.lastPredictionSeqNum
        /\ isStreamChange(eToF1'.in) /\ eToF1'.out = eToF1.out
        /\ eToF1'.in.reason = "HaltFetch"
        /\ eToF1'.in.newStreamSeqNum = e.streamSeqNum + 1
        /\ eToF1'.in.newPredictionSeqNum = execute.lastPredictionSeqNum
        /\ eToF1'.in.target = execute.pc
    BY <1>1, <2>2, <2>3, BranchSent
  <2>5. Halts
    BY <1>2, <2>1, <2>4 DEF Halts, HaltFetch
  <2> QED BY <1>2, <2>4, <2>5 DEF EndExecute, HaltFetch, wakeupOnEvent
<1>3. CASE KeepDraining
  <2>1. eToF1' \in Latch /\ eToF1'.in = noBranch /\ eToF1'.out = eToF1.out
    BY <1>1, <1>3 DEF KeepDraining, Latch
  <2> QED BY <1>1, <1>3, <2>1 DEF EndExecute, KeepDraining
<1>4. CASE CarryOn
  BY <1>1, <1>4 DEF EndExecute, CarryOn
<1> QED BY <1>2, <1>3, <1>4 DEF EndExecute

(***************************************************************************)
(* EndExecute keeps Base.                                                  *)
(***************************************************************************)
LEMMA BaseEndExecute == ASSUME Base, EndExecuteEffect PROVE Base'
<1>1. Types
  BY DEF Base
<1>2. Types'
  BY <1>1 DEF EndExecuteEffect, Types, fetch1Vars, fetch2Vars, Phase
<1> QED BY <1>1, <1>2, BaseElsewhere DEF EndExecuteEffect, fetch1Vars, fetch2Vars

(***************************************************************************)
(* A set of numbers that is not empty has a least element.                 *)
(***************************************************************************)
LEMMA Least ==
    ASSUME NEW S \in SUBSET Nat, S # {}
    PROVE  \E m \in S : \A i \in S : m <= i
<1>1. IsWellFoundedOn(OpToRel(<, Nat), Nat)
  BY Zenon, NatLessThanWellFounded
<1>2. PICK m \in S : \A i \in S : ~(<<i, m>> \in OpToRel(<, Nat))
  BY <1>1, WFMin, Zenon
<1>3. ASSUME NEW i \in S PROVE m <= i
  <2>1. ~(i < m)
    BY Zenon, <1>2 DEF OpToRel
  <2> QED BY <2>1
<1> QED BY <1>3

(***************************************************************************)
(* The lines withoutWrong leaves are the last ones.                        *)
(***************************************************************************)
LEMMA WithoutWrong ==
    ASSUME NEW lns \in Seq(Line)
    PROVE  /\ withoutWrong(lns) \in Seq(Line)
           /\ \E k \in Nat :
                /\ Suffix(withoutWrong(lns), lns, k)
                /\ \A i \in 1 .. k : wrongPrediction(lns[i])
<1> DEFINE right == {i \in DOMAIN lns : ~wrongPrediction(lns[i])}
<1>1. CASE lns = <<>> \/ ~wrongPrediction(Head(lns))
  <2>1. withoutWrong(lns) = lns
    BY <1>1 DEF withoutWrong
  <2>2. Suffix(lns, lns, 0)
    BY DEF Suffix
  <2> QED BY <2>1, <2>2
<1>2. CASE lns # <<>> /\ wrongPrediction(Head(lns)) /\ ~processMoreThanOneInput
  <2>1. withoutWrong(lns) = Tail(lns)
    BY <1>2 DEF withoutWrong
  <2>2. Tail(lns) \in Seq(Line) /\ Suffix(Tail(lns), lns, 1)
    BY <1>2, TailFacts DEF Suffix
  <2>3. \A i \in 1 .. 1 : wrongPrediction(lns[i])
    BY <1>2, TailFacts
  <2> QED BY <2>1, <2>2, <2>3
<1>3. CASE lns # <<>> /\ wrongPrediction(Head(lns)) /\ processMoreThanOneInput
             /\ right = {}
  <2>1. withoutWrong(lns) = <<>>
    BY <1>3 DEF withoutWrong
  <2>2. <<>> \in Seq(Line) /\ Len(lns) \in Nat /\ Suffix(<<>>, lns, Len(lns))
    BY DEF Suffix
  <2>3. \A i \in 1 .. Len(lns) : wrongPrediction(lns[i])
    BY <1>3
  <2> QED BY <2>1, <2>2, <2>3
<1>4. CASE lns # <<>> /\ wrongPrediction(Head(lns)) /\ processMoreThanOneInput
             /\ right # {}
  <2>1. PICK m \in right : \A i \in right : m <= i
    <3>1. right \subseteq Nat /\ right # {}
      BY <1>4
    <3> HIDE DEF right
    <3> QED BY <3>1, Least
  <2>2. Min(right) \in right /\ \A i \in right : Min(right) <= i
    BY <2>1 DEF Min
  <2>3. PICK n : n = Min(right)
    OBVIOUS
  <2>4. n \in 1 .. Len(lns) /\ \A i \in 1 .. (n - 1) : wrongPrediction(lns[i])
    <3>1. n \in 1 .. Len(lns) /\ Len(lns) \in Nat
      BY <2>2, <2>3
    <3>2. ASSUME NEW i \in 1 .. (n - 1) PROVE wrongPrediction(lns[i])
      <4>1. i \in DOMAIN lns /\ ~(n <= i)
        BY <3>1
      <4>2. i \notin right
        BY <2>2, <2>3, <4>1
      <4> QED BY <4>1, <4>2
    <3> QED BY <3>1, <3>2
  <2>5. withoutWrong(lns) = SubSeq(lns, n, Len(lns))
    BY Zenon, <1>4, <2>3 DEF withoutWrong
  <2>6. /\ SubSeq(lns, n, Len(lns)) \in Seq(Line)
        /\ Suffix(SubSeq(lns, n, Len(lns)), lns, n - 1)
    BY <2>4 DEF Suffix
  <2> QED BY <2>4, <2>5, <2>6
<1> QED BY <1>1, <1>2, <1>3, <1>4

(***************************************************************************)
(* StartFetch2 does what StartFetch2Effect says.                           *)
(***************************************************************************)
LEMMA StartFetch2OK == ASSUME Types, StartFetch2 PROVE StartFetch2Effect
<1> USE DEF StartFetch2Effect
<1> DEFINE dumped == isStreamChange(eToF1.out)
           left == IF dumped THEN <<>> ELSE withoutWrong(arrived)
           lost == dumped \/ Len(left) < Len(arrived)
<1>1. arrived \in Seq(Line)
  BY AppendFacts DEF arrived, Types
<1>2. PICK k \in Nat :
        /\ withoutWrong(arrived) \in Seq(Line)
        /\ Suffix(withoutWrong(arrived), arrived, k)
        /\ \A i \in 1 .. k : wrongPrediction(arrived[i])
  BY <1>1, WithoutWrong
<1>3. /\ phase = "fetch2" /\ phase' \in {"lines", "fetch2 end"}
      /\ inputBuffer' = left
      /\ fetch2' = [fetch2 EXCEPT !.inputIndex = IF lost THEN 0 ELSE @,
                                  !.havePC = @ /\ ~lost]
      /\ f1ToF2' = noLine
      /\ numReservedSlots' = IF f1ToF2 = noLine THEN numReservedSlots
                                                ELSE freed(numReservedSlots)
      /\ UNCHANGED <<fetch1Vars, f2ToF1, eToF1, executeVars, active, running,
                     needToSignalDrained, budget>>
  BY Zenon DEF StartFetch2, arrived
<1>4. left \in Seq(Line) /\ lost \in BOOLEAN
  BY <1>2
<1>5. ~dumped => left = withoutWrong(arrived) /\ (lost <=> k # 0)
  BY <1>1, <1>2 DEF Suffix
<1> HIDE DEF left, lost
<1>6. /\ KeepsFetch2
      /\ fetch2'.inputIndex = IF lost THEN 0 ELSE fetch2.inputIndex
      /\ fetch2'.havePC = (fetch2.havePC /\ ~lost)
  <2>1. fetch2 \in Fetch2Info
    BY DEF Types
  <2>2. PICK l \in BOOLEAN : l = lost
    BY <1>4
  <2>3. fetch2' = [fetch2 EXCEPT !.inputIndex = IF l THEN 0 ELSE fetch2.inputIndex,
                                 !.havePC = fetch2.havePC /\ ~l]
    BY Zenon, <1>3, <2>2
  <2>4. /\ KeepsFetch2
        /\ fetch2'.inputIndex = IF l THEN 0 ELSE fetch2.inputIndex
        /\ fetch2'.havePC = (fetch2.havePC /\ ~l)
    BY Zenon, <2>1, <2>3 DEF KeepsFetch2, Fetch2Info
  <2> QED BY <2>2, <2>4
<1>7. dumped => left = <<>> /\ lost
  BY DEF left, lost
<1>8. dumped => inputBuffer' = <<>> /\ fetch2'.havePC = FALSE
  BY Zenon, <1>3, <1>6, <1>7
<1>9. ~dumped => /\ Suffix(inputBuffer', arrived, k)
                 /\ k = 0 => /\ fetch2'.havePC = fetch2.havePC
                             /\ fetch2'.inputIndex = fetch2.inputIndex
                 /\ k # 0 => fetch2'.havePC = FALSE
  <2>1. fetch2.havePC \in BOOLEAN
    BY DEF Types, Fetch2Info
  <2> QED BY Zenon, <1>2, <1>3, <1>5, <1>6, <2>1
<1> QED BY Zenon, <1>1, <1>2, <1>3, <1>4, <1>6, <1>8, <1>9

(***************************************************************************)
(* StartFetch2 keeps Base: the line in the latch finds its slot.           *)
(***************************************************************************)
LEMMA BaseStartFetch2 == ASSUME Base, StartFetch2Effect PROVE Base'
<1>1. Types
  BY DEF Base
<1>2. numReservedSlots \in Nat /\ freed(numReservedSlots) \in Nat
  BY <1>1 DEF Types, freed
<1>3. Types'
  BY Zenon, <1>1, <1>2
     DEF StartFetch2Effect, Types, KeepsFetch2, fetch1Vars, executeVars, Phase
<1>4. /\ arrived \in Seq(Line) /\ inputBuffer' \in Seq(Line)
      /\ f1ToF2' = noLine /\ UNCHANGED <<requests, transfers>>
      /\ numReservedSlots' = IF f1ToF2 = noLine THEN numReservedSlots
                                                ELSE freed(numReservedSlots)
      /\ \/ inputBuffer' = <<>>
         \/ \E k \in Nat : Suffix(inputBuffer', arrived, k)
  BY Zenon, <1>1 DEF StartFetch2Effect, fetch1Vars
<1>5. RoomForEveryLine'
  <2>1. /\ Len(requests) \in Nat /\ Len(transfers) \in Nat
        /\ Len(inputBuffer) \in Nat /\ inputBufferSize \in Nat
    BY <1>1, FetchAssumption DEF Types
  <2>2. Len(inputBuffer') \in Nat /\ Len(arrived) \in Nat
    BY <1>4
  <2>3. Len(inputBuffer') <= Len(arrived)
    <3>1. CASE inputBuffer' = <<>>
      BY <2>2, <3>1
    <3>2. CASE \E k \in Nat : Suffix(inputBuffer', arrived, k)
      BY <2>2, <3>2 DEF Suffix
    <3> QED BY <1>4, <3>1, <3>2
  <2>4. CASE f1ToF2 = noLine
    <3>1. arrived = inputBuffer /\ numReservedSlots' = numReservedSlots
      BY <1>4, <2>4 DEF arrived
    <3> QED BY <1>2, <1>4, <2>1, <2>2, <2>3, <2>4, <3>1 DEF Base, RoomForEveryLine
  <2>5. CASE f1ToF2 # noLine
    <3>1. Len(arrived) = Len(inputBuffer) + 1
      BY <1>1, <2>5, AppendFacts DEF Types, arrived
    <3>2. numReservedSlots = Len(requests) + Len(transfers) + 1
      BY <2>5 DEF Base, RoomForEveryLine
    <3>3. numReservedSlots' = numReservedSlots - 1
      BY <1>4, <2>1, <2>5, <3>2 DEF freed
    <3> QED BY <1>2, <1>4, <2>1, <2>2, <2>3, <3>1, <3>2, <3>3
        DEF Base, RoomForEveryLine
  <2> QED BY <2>4, <2>5
<1>6. LatchTaken' /\ Requested' /\ RetryFindsRequest'
  BY Zenon, <1>1
     DEF StartFetch2Effect, LatchTaken, Requested, RetryFindsRequest, fetch1Vars, Base
<1> QED BY <1>3, <1>5, <1>6 DEF Base

(***************************************************************************)
(* What is put into a latch.                                               *)
(***************************************************************************)
LEMMA BranchMade ==
    ASSUME NEW r \in Reason, NEW s \in SeqNum, NEW p \in SeqNum, NEW t \in Addr
    PROVE  /\ BranchData(r, s, p, t) \in Branch
           /\ BranchData(r, s, p, t).reason = r
           /\ BranchData(r, s, p, t).newStreamSeqNum = s
           /\ BranchData(r, s, p, t).newPredictionSeqNum = p
           /\ BranchData(r, s, p, t).target = t
BY DEF Branch, BranchData

(***************************************************************************)
(* ProcessLine does what ProcessLineEffect says.                           *)
(***************************************************************************)
LEMMA ProcessLineOK == ASSUME Types, ProcessLine PROVE ProcessLineEffect
<1> USE DEF ProcessLineEffect
<1> DEFINE line == Head(inputBuffer)
           f == [fetch2 EXCEPT
                    !.lastStreamSeqNum = line.streamSeqNum,
                    !.havePC = TRUE,
                    !.pc = pcOf(line),
                    !.inputIndex = indexOf(line)]
<1>1. /\ phase = "lines" /\ inputBuffer # <<>> /\ f2ToF1.in = noBranch
      /\ UNCHANGED <<fetch1Vars, numReservedSlots, f1ToF2, eToF1, execute,
                     active, running, needToSignalDrained>>
  BY DEF ProcessLine, moreInput
<1>2. /\ line \in Line /\ line = inputBuffer[1]
      /\ fetch2 \in Fetch2Info /\ f2ToF1 \in Latch /\ budget \in Budget
  BY <1>1, TailFacts DEF Types, Budget
<1>3. /\ line.streamSeqNum \in SeqNum /\ line.pc \in Addr
      /\ line.lineBaseAddr \in Addr /\ line.fault \in BOOLEAN
  BY <1>2 DEF Line
<1>4. pcOf(line) \in Addr /\ indexOf(line) \in Nat
  <2>1. fetch2.pc \in Addr /\ fetch2.inputIndex \in Nat
    BY <1>2 DEF Fetch2Info
  <2> QED BY Zenon, <1>3, <2>1, IndexOfPC DEF pcOf, indexOf
<1>5. \/ /\ wrongPrediction(line)
         /\ fetch2' = [fetch2 EXCEPT !.lastStreamSeqNum = line.streamSeqNum,
                                     !.havePC = FALSE, !.inputIndex = 0]
         /\ inputBuffer' = Tail(inputBuffer)
         /\ phase' = nextLine
         /\ UNCHANGED <<insts, f2ToF1, budget>>
      \/ /\ ~wrongPrediction(line)
         /\ PassFault(line, f) \/ DecodeInst(line, f)
  <2>1. f = [fetch2 EXCEPT
                !.lastStreamSeqNum = line.streamSeqNum,
                !.havePC = TRUE,
                !.pc = IF setsPC(line) THEN line.pc ELSE @,
                !.inputIndex = IF setsPC(line)
                                 THEN (line.pc - line.lineBaseAddr) % AddrSpace
                                 ELSE @]
    BY DEF pcOf, indexOf
  <2> HIDE DEF f
  <2> QED BY <2>1 DEF ProcessLine, setsPC
<1>6. nextLine \in {"lines", "fetch2 end"}
  BY DEF nextLine
<1>7. /\ f \in Fetch2Info /\ f.pc = pcOf(line) /\ f.inputIndex = indexOf(line)
      /\ f.lastStreamSeqNum = line.streamSeqNum /\ f.havePC = TRUE
      /\ f.expectedStreamSeqNum = fetch2.expectedStreamSeqNum
      /\ f.predictionSeqNum = fetch2.predictionSeqNum
      /\ f.output_index \in Nat /\ f.predictionSeqNum \in SeqNum
  BY Zenon, <1>2, <1>3, <1>4 DEF Fetch2Info
<1> HIDE DEF line, f
<1>8. ASSUME NEW a \in Addr, NEW target \in Addr \cup {notTaken}
      PROVE  /\ newInst(line, pcOf(line), a, target) \in Inst
             /\ newInst(line, pcOf(line), a, target).pc = pcOf(line)
             /\ newInst(line, pcOf(line), a, target).addr = a
             /\ newInst(line, pcOf(line), a, target).fault = line.fault
             /\ newInst(line, pcOf(line), a, target).streamSeqNum = line.streamSeqNum
             /\ newInst(line, pcOf(line), a, target).predictionSeqNum
                  = fetch2.predictionSeqNum
             /\ newInst(line, pcOf(line), a, target).predictedTaken
                  = (target # notTaken)
             /\ newInst(line, pcOf(line), a, target).predictedTarget = target
  <2>1. fetch2.predictionSeqNum \in SeqNum
    BY <1>2 DEF Fetch2Info
  <2> QED BY <1>3, <1>4, <2>1 DEF newInst, Inst
<1>9. CASE /\ wrongPrediction(line)
           /\ fetch2' = [fetch2 EXCEPT !.lastStreamSeqNum = line.streamSeqNum,
                                       !.havePC = FALSE, !.inputIndex = 0]
           /\ inputBuffer' = Tail(inputBuffer)
           /\ phase' = nextLine
           /\ UNCHANGED <<insts, f2ToF1, budget>>
  <2>1. /\ fetch2' \in Fetch2Info /\ fetch2'.lastStreamSeqNum = line.streamSeqNum
        /\ fetch2'.expectedStreamSeqNum = fetch2.expectedStreamSeqNum
        /\ fetch2'.predictionSeqNum = fetch2.predictionSeqNum
        /\ fetch2'.havePC = FALSE
    BY Zenon, <1>2, <1>3, <1>9 DEF Fetch2Info
  <2>2. PopsWrong(line)
    BY <1>9, <2>1 DEF PopsWrong
  <2> QED BY Zenon, <1>1, <1>2, <1>6, <1>9, <2>1, <2>2 DEF line
<1>10. CASE ~wrongPrediction(line) /\ PassFault(line, f)
  <2>1. PICK x \in Inst : /\ x = newInst(line, pcOf(line), pcOf(line), notTaken)
                          /\ x.pc = pcOf(line) /\ x.addr = x.pc
                          /\ x.fault = line.fault
                          /\ x.streamSeqNum = line.streamSeqNum
                          /\ x.predictionSeqNum = fetch2.predictionSeqNum
    BY <1>4, <1>8
  <2>2. /\ line.fault /\ insts' = Append(insts, x) /\ inputBuffer' = <<>>
        /\ phase' = nextLine /\ UNCHANGED <<f2ToF1, budget>>
        /\ fetch2' = [f EXCEPT !.havePC = FALSE, !.inputIndex = 0,
                               !.output_index = @ + 1]
    BY <1>7, <1>10, <2>1 DEF PassFault
  <2>3. /\ fetch2' \in Fetch2Info /\ fetch2'.lastStreamSeqNum = line.streamSeqNum
        /\ fetch2'.expectedStreamSeqNum = fetch2.expectedStreamSeqNum
        /\ fetch2'.predictionSeqNum = fetch2.predictionSeqNum
        /\ fetch2'.havePC = FALSE
    <3>1. PICK n \in Nat : n = f.output_index + 1
      BY <1>7
    <3>2. fetch2' = [f EXCEPT !.havePC = FALSE, !.inputIndex = 0,
                              !.output_index = n]
      BY <2>2, <3>1
    <3> QED BY Zenon, <1>7, <3>2 DEF Fetch2Info
  <2>4. Passes(line, x) /\ PassesFault(line, x)
    BY <1>10, <2>1, <2>2, <2>3 DEF Passes, PassesFault
  <2> QED BY Zenon, <1>1, <1>2, <1>6, <2>2, <2>3, <2>4 DEF line
<1>11. CASE ~wrongPrediction(line) /\ DecodeInst(line, f)
  <2> DEFINE addr == (line.lineBaseAddr + f.inputIndex) % AddrSpace
             index == f.inputIndex + 1
             decoded == [f EXCEPT !.pc = advancePC(@), !.output_index = @ + 1]
  <2>1. PICK target \in predictedTargets(f.pc) :
          /\ insts' = Append(insts, newInst(line, f.pc, addr, target))
          /\ IF target # notTaken
               THEN /\ fetch2' = [decoded EXCEPT
                          !.havePC = FALSE, !.inputIndex = 0,
                          !.expectedStreamSeqNum = line.streamSeqNum,
                          !.predictionSeqNum = @ + 1]
                    /\ f2ToF1' = [f2ToF1 EXCEPT
                          !.in = BranchData("BranchPrediction",
                                    line.streamSeqNum,
                                    f.predictionSeqNum + 1, target)]
                    /\ inputBuffer' = <<>>
                    /\ phase' = nextLine
                    /\ spend("predictions")
               ELSE /\ fetch2' = [decoded EXCEPT !.inputIndex =
                                     IF index = lineWidth THEN 0 ELSE index]
                    /\ inputBuffer' = IF index = lineWidth THEN Tail(inputBuffer)
                                                           ELSE inputBuffer
                    /\ phase' = IF index = lineWidth THEN nextLine ELSE phase
                    /\ UNCHANGED <<f2ToF1, budget>>
    BY <1>11 DEF DecodeInst
  <2>2. ~line.fault
    BY <1>11 DEF DecodeInst
  <2>3. target \in Addr \cup {notTaken}
    <3>1. targets[f.pc] \subseteq Addr
      BY <1>4, <1>7, FetchAssumption
    <3> QED BY <3>1 DEF predictedTargets
  <2>4. addr \in Addr /\ addr = (line.lineBaseAddr + indexOf(line)) % AddrSpace
    BY Zenon, <1>3, <1>4, <1>7, IndexOfPC
  <2>5. /\ decoded \in Fetch2Info /\ decoded.pc = advancePC(pcOf(line))
        /\ decoded.lastStreamSeqNum = line.streamSeqNum
        /\ decoded.havePC = TRUE
        /\ decoded.expectedStreamSeqNum = fetch2.expectedStreamSeqNum
        /\ decoded.predictionSeqNum = fetch2.predictionSeqNum
        /\ fetch2.predictionSeqNum \in SeqNum
    <3>1. PICK n \in Nat : n = f.output_index + 1
      BY <1>7
    <3>2. PICK a \in Addr : a = advancePC(f.pc) /\ a = advancePC(pcOf(line))
      BY <1>4, <1>7, AddressOps
    <3>3. decoded = [f EXCEPT !.pc = a, !.output_index = n]
      BY <3>1, <3>2
    <3> HIDE DEF decoded
    <3> QED BY Zenon, <1>7, <3>2, <3>3 DEF Fetch2Info
  <2> HIDE DEF addr, decoded
  <2>6. PICK x \in Inst : /\ x = newInst(line, pcOf(line), addr, target)
                          /\ x.pc = pcOf(line) /\ x.addr = addr
                          /\ x.fault = line.fault
                          /\ x.streamSeqNum = line.streamSeqNum
                          /\ x.predictionSeqNum = fetch2.predictionSeqNum
                          /\ x.predictedTaken = (target # notTaken)
                          /\ x.predictedTarget = target
    BY <1>8, <2>3, <2>4
  <2>7. Passes(line, x)
    BY <1>7, <1>11, <2>1, <2>6 DEF Passes
  <2>8. CASE target # notTaken
    <3>1. PICK n \in SeqNum : /\ n = fetch2.predictionSeqNum + 1
                              /\ n = f.predictionSeqNum + 1
                              /\ n = decoded.predictionSeqNum + 1
      BY <1>7, <2>5 DEF SeqNum
    <3>a. fetch2' = [decoded EXCEPT
                        !.havePC = FALSE, !.inputIndex = 0,
                        !.expectedStreamSeqNum = line.streamSeqNum,
                        !.predictionSeqNum = n]
      BY Zenon, <2>1, <2>8, <3>1
    <3>b. target \in Addr
      BY <2>3, <2>8
    <3>2. /\ fetch2' \in Fetch2Info /\ fetch2'.lastStreamSeqNum = line.streamSeqNum
          /\ fetch2'.expectedStreamSeqNum = line.streamSeqNum
          /\ fetch2'.predictionSeqNum = fetch2.predictionSeqNum + 1
          /\ fetch2'.havePC = FALSE
      BY Zenon, <1>3, <2>5, <3>1, <3>a DEF Fetch2Info
    <3>3. PICK b \in Branch :
            /\ b = BranchData("BranchPrediction", line.streamSeqNum, n, target)
            /\ b.reason = "BranchPrediction"
            /\ b.newStreamSeqNum = line.streamSeqNum
            /\ b.newPredictionSeqNum = n
            /\ b.target = target
      <4>1. "BranchPrediction" \in Reason
        BY DEF Reason
      <4> QED BY <1>3, <3>b, <4>1, BranchMade
    <3>4. f2ToF1' \in Latch /\ f2ToF1'.in = b /\ f2ToF1'.out = f2ToF1.out
      <4>1. f2ToF1' = [f2ToF1 EXCEPT !.in = b]
        BY <2>1, <2>8, <3>1, <3>3
      <4> QED BY <1>2, <4>1 DEF Latch
    <3>5. budget' \in Budget
      BY <1>2, <2>1, <2>8 DEF spend, Budget
    <3>6. inputBuffer' = <<>> /\ phase' = nextLine
      BY <2>1, <2>8
    <3>7. PassesTaken(line, x)
      BY Zenon, <2>2, <2>4, <2>6, <2>8, <3>1, <3>2, <3>3, <3>4, <3>6 DEF PassesTaken
    <3> QED BY Zenon, <1>1, <1>2, <1>6, <2>7, <3>2, <3>4, <3>5, <3>6, <3>7 DEF line
  <2>9. CASE target = notTaken
    <3>1. index \in Nat /\ index = indexOf(line) + 1
      BY <1>4, <1>7
    <3>2. PICK n \in Nat : n = IF index = lineWidth THEN 0 ELSE index
      BY <3>1
    <3>3. fetch2' = [decoded EXCEPT !.inputIndex = n]
      BY <2>1, <2>9, <3>2
    <3>4. /\ fetch2' \in Fetch2Info /\ fetch2'.lastStreamSeqNum = line.streamSeqNum
          /\ fetch2'.expectedStreamSeqNum = fetch2.expectedStreamSeqNum
          /\ fetch2'.predictionSeqNum = fetch2.predictionSeqNum
          /\ fetch2'.havePC /\ fetch2'.pc = advancePC(pcOf(line))
          /\ fetch2'.inputIndex = n
      BY <2>5, <3>3 DEF Fetch2Info
    <3>5. /\ inputBuffer' = IF index = lineWidth THEN Tail(inputBuffer)
                                                 ELSE inputBuffer
          /\ phase' \in {"lines", "fetch2 end"}
          /\ UNCHANGED <<f2ToF1, budget>>
      BY Zenon, <1>1, <1>6, <2>1, <2>9
    <3>6. PassesOn(line, x)
      BY Zenon, <2>2, <2>4, <2>6, <2>9, <3>1, <3>2, <3>4, <3>5 DEF PassesOn
    <3> QED BY Zenon, <1>1, <1>2, <2>7, <3>4, <3>5, <3>6 DEF line
  <2> QED BY Zenon, <2>8, <2>9
<1> QED BY Zenon, <1>5, <1>9, <1>10, <1>11

(***************************************************************************)
(* ProcessLine only takes lines out of the input buffer.                   *)
(***************************************************************************)
LEMMA BaseProcessLine == ASSUME Base, ProcessLineEffect PROVE Base'
<1>1. Types /\ inputBuffer \in Seq(Line) /\ insts \in Seq(Inst)
  BY DEF Base, Types
<1>2. /\ phase = "lines" /\ phase' \in {"lines", "fetch2 end"}
      /\ inputBuffer # <<>>
      /\ fetch2' \in Fetch2Info /\ f2ToF1' \in Latch /\ budget' \in Budget
      /\ UNCHANGED <<fetch1Vars, numReservedSlots, f1ToF2, eToF1, execute,
                     active, running, needToSignalDrained>>
  BY Zenon, <1>1 DEF ProcessLineEffect
<1>3. /\ inputBuffer' \in {inputBuffer, Tail(inputBuffer), <<>>}
      /\ insts' = insts \/ \E x \in Inst : insts' = Append(insts, x)
  BY Zenon, <1>1
     DEF ProcessLineEffect, PopsWrong, Passes, PassesFault, PassesTaken, PassesOn
<1>4. insts' \in Seq(Inst)
  BY <1>1, <1>3
<1>5. inputBuffer' \in Seq(Line) /\ Len(inputBuffer') <= Len(inputBuffer)
  <2>1. CASE inputBuffer' = inputBuffer
    BY <1>1, <2>1
  <2>2. CASE inputBuffer' = Tail(inputBuffer)
    <3>1. /\ Tail(inputBuffer) \in Seq(Line) /\ Len(inputBuffer) \in Nat
          /\ Len(Tail(inputBuffer)) = Len(inputBuffer) - 1
      BY Zenon, <1>1, <1>2, TailFacts
    <3> QED BY <2>2, <3>1
  <2>3. CASE inputBuffer' = <<>>
    BY <1>1, <2>3
  <2> QED BY <1>3, <2>1, <2>2, <2>3
<1>6. Types'
  BY Zenon, <1>1, <1>2, <1>4, <1>5 DEF Types, fetch1Vars, Budget, Phase
<1>7. RoomForEveryLine'
  <2>1. /\ Len(inputBuffer') \in Nat /\ Len(inputBuffer) \in Nat
        /\ numReservedSlots \in Nat /\ inputBufferSize \in Nat
    BY <1>1, <1>5, FetchAssumption DEF Types
  <2>2. UNCHANGED <<requests, transfers, numReservedSlots, f1ToF2>>
    BY Zenon, <1>2 DEF fetch1Vars
  <2> QED BY <1>5, <2>1, <2>2 DEF Base, RoomForEveryLine
<1>8. LatchTaken' /\ Requested' /\ RetryFindsRequest'
  BY Zenon, <1>2 DEF Base, LatchTaken, Requested, RetryFindsRequest, fetch1Vars
<1> QED BY <1>6, <1>7, <1>8 DEF Base

(***************************************************************************)
(* EndFetch2 does what EndFetch2Effect says.                               *)
(***************************************************************************)
LEMMA EndFetch2OK == ASSUME Types, EndFetch2 PROVE EndFetch2Effect
<1> USE DEF EndFetch2Effect
<1>1. fetch2 \in Fetch2Info /\ active \in BOOLEAN
  BY DEF Types
<1>2. fetch2' = [fetch2 EXCEPT !.output_index = 0]
  BY Zenon DEF EndFetch2
<1>3. /\ fetch2' \in Fetch2Info
      /\ fetch2'.pc = fetch2.pc /\ fetch2'.havePC = fetch2.havePC
      /\ fetch2'.inputIndex = fetch2.inputIndex
      /\ fetch2'.lastStreamSeqNum = fetch2.lastStreamSeqNum
      /\ fetch2'.expectedStreamSeqNum = fetch2.expectedStreamSeqNum
      /\ fetch2'.predictionSeqNum = fetch2.predictionSeqNum
  BY <1>1, <1>2 DEF Fetch2Info
<1> QED BY Zenon, <1>1, <1>3 DEF EndFetch2

(***************************************************************************)
(* So Base is kept.                                                        *)
(***************************************************************************)
LEMMA BaseEndFetch2 == ASSUME Base, EndFetch2Effect PROVE Base'
<1>1. Types
  BY DEF Base
<1>2. Types'
  BY Zenon, <1>1 DEF EndFetch2Effect, Types, fetch1Vars, latchVars, executeVars, Phase
<1> QED BY Zenon, <1>1, <1>2, BaseElsewhere DEF EndFetch2Effect, fetch1Vars, latchVars

(***************************************************************************)
(* changeStream follows the branch.                                        *)
(***************************************************************************)
LEMMA ChangeStreamOK ==
    ASSUME Types, NEW branch \in Branch
    PROVE  changeStream(branch) \in Fetch1Info /\ Follows(changeStream(branch), branch)
<1>1. /\ branch.newStreamSeqNum \in SeqNum /\ branch.newPredictionSeqNum \in SeqNum
      /\ branch.target \in Addr
  BY DEF Branch
<1>2. fetch1 \in Fetch1Info
  BY DEF Types
<1> DEFINE s == CASE branch.reason = "SuspendThread" ->
                       IF fetch1.wakeupGuard THEN fetch1.state
                                             ELSE "FetchWaitingForPC"
                  [] branch.reason = "HaltFetch" -> "FetchHalted"
                  [] OTHER -> "FetchRunning"
<1>3. /\ s \in {"FetchHalted", "FetchWaitingForPC", "FetchRunning"}
      /\ branch.reason = "HaltFetch" => s = "FetchHalted"
      /\ branch.reason = "SuspendThread" => s \in {fetch1.state, "FetchWaitingForPC"}
      /\ branch.reason \notin {"HaltFetch", "SuspendThread"} => s = "FetchRunning"
  BY <1>2 DEF Fetch1Info
<1>4. changeStream(branch) =
        [fetch1 EXCEPT !.streamSeqNum = branch.newStreamSeqNum,
                       !.predictionSeqNum = branch.newPredictionSeqNum,
                       !.pc = branch.target, !.fetchAddr = branch.target,
                       !.state = s]
  BY DEF changeStream
<1> HIDE DEF s
<1>5. /\ changeStream(branch) \in Fetch1Info
      /\ changeStream(branch).streamSeqNum = branch.newStreamSeqNum
      /\ changeStream(branch).predictionSeqNum = branch.newPredictionSeqNum
      /\ changeStream(branch).pc = branch.target
      /\ changeStream(branch).fetchAddr = branch.target
      /\ changeStream(branch).state = s
  BY Zenon, <1>1, <1>2, <1>3, <1>4 DEF Fetch1Info
<1> QED BY <1>3, <1>5 DEF Follows

(***************************************************************************)
(* redirected is one of these.                                             *)
(***************************************************************************)
LEMMA RedirectedOK ==
    ASSUME Types
    PROVE  redirected \in Fetch1Info /\ Redirects(redirected)
<1>1. /\ fetch1 \in Fetch1Info
      /\ f2ToF1.out # noBranch => f2ToF1.out \in Branch
      /\ isStreamChange(eToF1.out) => eToF1.out \in Branch
  BY DEF Types, Latch, isStreamChange, noBranch
<1>2. CASE fetch1.state = "FetchHalted"
  BY <1>1, <1>2 DEF redirected, Redirects
<1>3. CASE fetch1.state # "FetchHalted" /\ isStreamChange(eToF1.out)
  <2>1. redirected = changeStream(eToF1.out)
    BY <1>3 DEF redirected
  <2> QED BY <1>1, <1>3, <2>1, ChangeStreamOK DEF Redirects
<1>4. CASE /\ fetch1.state # "FetchHalted" /\ ~isStreamChange(eToF1.out)
           /\ f2ToF1.out # noBranch
           /\ f2ToF1.out.newStreamSeqNum = fetch1.streamSeqNum
  <2>1. redirected = changeStream(f2ToF1.out)
    BY <1>4 DEF redirected
  <2> QED BY <1>1, <1>4, <2>1, ChangeStreamOK DEF Redirects
<1>5. CASE /\ fetch1.state # "FetchHalted" /\ ~isStreamChange(eToF1.out)
           /\ f2ToF1.out = noBranch
                \/ f2ToF1.out.newStreamSeqNum # fetch1.streamSeqNum
  <2>1. redirected = fetch1
    BY <1>5 DEF redirected
  <2> QED BY <1>1, <1>5, <2>1 DEF Redirects
<1> QED BY <1>2, <1>3, <1>4, <1>5

(***************************************************************************)
(* StartFetch1 does what StartFetch1Effect says.                           *)
(***************************************************************************)
LEMMA StartFetch1OK == ASSUME Types, StartFetch1 PROVE StartFetch1Effect
<1> USE DEF StartFetch1Effect
<1>1. PICK r \in Fetch1Info : r = redirected /\ Redirects(r)
  BY RedirectedOK
<1> DEFINE fetching == /\ Len(requests) + Len(transfers) < fetchLimit
                       /\ ~execute.suspended
                       /\ r.state = "FetchRunning"
                       /\ canReserve
           request == [streamSeqNum |-> r.streamSeqNum,
                       predictionSeqNum |-> r.predictionSeqNum,
                       lineBaseAddr |-> lineBase(r.fetchAddr),
                       state |-> "InTranslation", fault |-> FALSE]
<1>2. /\ r.streamSeqNum \in SeqNum /\ r.predictionSeqNum \in SeqNum
      /\ r.fetchAddr \in Addr
  BY DEF Fetch1Info
<1>3. /\ phase = "fetch1"
      /\ IF fetching
           THEN /\ requests' = Append(requests, request)
                /\ numReservedSlots' = numReservedSlots + 1
                /\ fetch1' = [r EXCEPT !.fetchAddr =
                                 (lineBase(@) + lineWidth) % AddrSpace]
                /\ phase' = "translate"
           ELSE NotFetches(r)
      /\ UNCHANGED <<transfers, icacheState, fetch2, inputBuffer, latchVars,
                     executeVars, active, running, needToSignalDrained, budget>>
  BY <1>1 DEF StartFetch1, NotFetches
<1>4. CASE ~fetching
  <2>1. NotFetches(r) /\ fetch1' = r
    BY <1>3, <1>4 DEF NotFetches
  <2> HIDE DEF fetching
  <2> QED BY <1>1, <1>3, <2>1
<1>5. CASE fetching
  <2>1. lineBase(r.fetchAddr) \in Addr /\ nextBase(lineBase(r.fetchAddr)) \in Addr
    BY <1>2, AddressOps, NextBaseAligned
  <2>2. PICK x \in Request :
          /\ x = request
          /\ x.streamSeqNum = r.streamSeqNum
          /\ x.predictionSeqNum = r.predictionSeqNum
          /\ x.lineBaseAddr = lineBase(r.fetchAddr) /\ x.state = "InTranslation"
    <3>1. request \in Request
      BY <1>2, <2>1 DEF Request, Requests
    <3> QED BY <3>1
  <2>3. PICK a \in Addr : a = nextBase(lineBase(r.fetchAddr))
    BY <2>1
  <2>4. fetch1' = [r EXCEPT !.fetchAddr = a]
    BY <1>3, <1>5, <2>3 DEF nextBase
  <2>5. /\ fetch1' \in Fetch1Info
        /\ fetch1'.state = r.state /\ fetch1'.pc = r.pc
        /\ fetch1'.streamSeqNum = r.streamSeqNum
        /\ fetch1'.predictionSeqNum = r.predictionSeqNum
        /\ fetch1'.fetchAddr = a
    BY <2>4 DEF Fetch1Info
  <2>6. Fetches(r, x)
    BY <1>3, <1>5, <2>2, <2>3, <2>5 DEF Fetches
  <2> HIDE DEF fetching, request
  <2> QED BY <1>1, <1>3, <2>5, <2>6
<1> QED BY <1>4, <1>5

(***************************************************************************)
(* A request is made only with a slot reserved for its line.               *)
(***************************************************************************)
LEMMA BaseStartFetch1 == ASSUME Base, StartFetch1Effect PROVE Base'
<1>1. Types
  BY DEF Base
<1>2. /\ phase = "fetch1" /\ fetch1' \in Fetch1Info
      /\ UNCHANGED <<transfers, icacheState, fetch2, inputBuffer, latchVars,
                     executeVars, active, running, needToSignalDrained, budget>>
  BY <1>1 DEF StartFetch1Effect
<1>3. /\ requests \in Seq(Request) /\ numReservedSlots \in Nat
      /\ Len(requests) \in Nat /\ Len(transfers) \in Nat
      /\ Len(inputBuffer) \in Nat /\ inputBufferSize \in Nat
  BY <1>1, FetchAssumption DEF Types
<1>4. CASE \E r \in Fetch1Info : NotFetches(r)
  <2>1. phase' = "queues" /\ UNCHANGED <<requests, numReservedSlots>>
    BY <1>4 DEF NotFetches
  <2>2. Types'
    BY <1>1, <1>2, <2>1 DEF Types, latchVars, executeVars, Phase
  <2> QED BY <1>2, <2>1, <2>2
      DEF Base, LatchTaken, Requested, RoomForEveryLine, RetryFindsRequest, latchVars
<1>5. CASE \E r \in Fetch1Info, x \in Request : Fetches(r, x)
  <2>1. PICK x \in Request :
          /\ canReserve /\ phase' = "translate"
          /\ requests' = Append(requests, x)
          /\ numReservedSlots' = numReservedSlots + 1
    BY <1>5 DEF Fetches
  <2>2. /\ requests' \in Seq(Request) /\ Len(requests') = Len(requests) + 1
        /\ requests' # <<>>
        /\ requests # <<>> => Head(requests') = Head(requests)
    BY <1>3, <2>1
  <2>3. Types'
    BY <1>1, <1>2, <1>3, <2>1, <2>2 DEF Types, latchVars, executeVars, Phase
  <2>4. RoomForEveryLine'
    BY <1>2, <1>3, <2>1, <2>2 DEF Base, RoomForEveryLine, canReserve, latchVars
  <2>5. LatchTaken' /\ Requested' /\ RetryFindsRequest'
    BY <1>2, <2>1, <2>2
    DEF Base, LatchTaken, Requested, RetryFindsRequest, latchVars
  <2> QED BY <2>3, <2>4, <2>5 DEF Base
<1> QED BY <1>1, <1>4, <1>5 DEF StartFetch1Effect

(***************************************************************************)
(* Deliver does what DeliverEffect says.                                   *)
(***************************************************************************)
LEMMA DeliverOK == ASSUME Types, Deliver PROVE DeliverEffect
<1> USE DEF DeliverEffect
<1>1. /\ fetch1 \in Fetch1Info /\ active \in BOOLEAN
      /\ transfers \in Seq(Transfer)
  BY DEF Types
<1>2. /\ phase = "deliver" /\ phase' = "end"
      /\ UNCHANGED <<requests, icacheState, fetch2, inputBuffer, f2ToF1, eToF1,
                     executeVars, running, needToSignalDrained, budget>>
  BY DEF Deliver
<1>3. ASSUME NEW s \in {"FetchHalted", "FetchWaitingForPC", "FetchRunning"},
             fetch1' = [fetch1 EXCEPT !.state = s, !.wakeupGuard = FALSE]
      PROVE  /\ fetch1' \in Fetch1Info /\ fetch1'.state = s
             /\ fetch1'.pc = fetch1.pc /\ fetch1'.fetchAddr = fetch1.fetchAddr
             /\ fetch1'.streamSeqNum = F /\ fetch1'.predictionSeqNum = P1
  BY Zenon, <1>1, <1>3 DEF Fetch1Info, F, P1
<1>4. ASSUME fetch1' = [fetch1 EXCEPT !.wakeupGuard = FALSE]
      PROVE  /\ fetch1' \in Fetch1Info /\ fetch1'.state = fetch1.state
             /\ fetch1'.pc = fetch1.pc /\ fetch1'.fetchAddr = fetch1.fetchAddr
             /\ fetch1'.streamSeqNum = F /\ fetch1'.predictionSeqNum = P1
  BY Zenon, <1>1, <1>4 DEF Fetch1Info, F, P1
<1>5. CASE ~(transfers # <<>> /\ Head(transfers).state = "Complete")
  <2>1. /\ fetch1' = [fetch1 EXCEPT !.wakeupGuard = FALSE]
        /\ StaysPut /\ active' = active
    BY <1>5 DEF Deliver, StaysPut
  <2> QED BY <1>1, <1>2, <1>4, <2>1
<1>6. CASE transfers # <<>> /\ Head(transfers).state = "Complete"
  <2>1. PICK t \in Transfer : t = Head(transfers) /\ t.state = "Complete"
    BY <1>1, <1>6, TailFacts
  <2>2. active' = TRUE /\ transfers' = Tail(transfers)
    BY <1>6 DEF Deliver
  <2>3. CASE isDiscardable(Head(transfers))
    <3>1. /\ numReservedSlots' = freed(numReservedSlots) /\ UNCHANGED f1ToF2
          /\ fetch1' = [fetch1 EXCEPT !.wakeupGuard = FALSE]
      BY <1>6, <2>3 DEF Deliver
    <3>2. Drops(t)
      BY <1>6, <2>1, <2>2, <2>3, <3>1 DEF Drops, isDiscardable, F, P1
    <3> QED BY <1>2, <1>4, <2>2, <3>1, <3>2
  <2>4. CASE ~isDiscardable(Head(transfers))
    <3>1. UNCHANGED numReservedSlots /\ processResponse(t)
      BY <1>6, <2>1, <2>4 DEF Deliver
    <3>2. t.streamSeqNum = F /\ t.predictionSeqNum = P1
      BY <2>1, <2>4 DEF isDiscardable, F, P1
    <3>3. f1ToF2' \in Line
      BY <1>1, <3>1 DEF processResponse, Line, Transfer, Requests, Fetch1Info
    <3>4. PICK line \in Line :
            /\ f1ToF2' = line
            /\ line.streamSeqNum = t.streamSeqNum
            /\ line.predictionSeqNum = t.predictionSeqNum
            /\ line.lineBaseAddr = t.lineBaseAddr
            /\ line.pc = fetch1.pc /\ line.fault = t.fault
      BY <3>1, <3>3 DEF processResponse
    <3>5. Sends(t, line)
      BY <1>6, <2>1, <2>2, <3>1, <3>2, <3>4 DEF Sends
    <3>6. PICK s \in {"FetchHalted", "FetchWaitingForPC", "FetchRunning"} :
            s = IF line.fault THEN "FetchWaitingForPC" ELSE fetch1.state
      BY <1>1 DEF Fetch1Info
    <3>7. fetch1' = [fetch1 EXCEPT !.state = s, !.wakeupGuard = FALSE]
      BY <3>1, <3>4, <3>6 DEF processResponse
    <3> QED BY Zenon, <1>2, <1>3, <2>2, <3>5, <3>6, <3>7
  <2> QED BY <2>3, <2>4
<1> QED BY <1>5, <1>6

(***************************************************************************)
(* The reservation goes with the line, or is given back.                   *)
(***************************************************************************)
LEMMA BaseDeliver == ASSUME Base, DeliverEffect PROVE Base'
<1>1. Types
  BY DEF Base
<1>2. /\ phase = "deliver" /\ phase' = "end"
      /\ fetch1' \in Fetch1Info /\ active' \in BOOLEAN
      /\ UNCHANGED <<requests, icacheState, fetch2, inputBuffer, f2ToF1, eToF1,
                     executeVars, running, needToSignalDrained, budget>>
  BY <1>1 DEF DeliverEffect
<1>3. /\ requests \in Seq(Request) /\ numReservedSlots \in Nat
      /\ transfers \in Seq(Transfer) /\ f1ToF2 = noLine
      /\ Len(requests) \in Nat /\ Len(transfers) \in Nat
      /\ Len(inputBuffer) \in Nat /\ inputBufferSize \in Nat
  BY <1>1, <1>2, FetchAssumption DEF Types, Base, LatchTaken
<1>4. numReservedSlots = Len(requests) + Len(transfers)
  BY <1>3 DEF Base, RoomForEveryLine
<1>5. LatchTaken' /\ Requested' /\ RetryFindsRequest'
  BY <1>2 DEF Base, LatchTaken, Requested, RetryFindsRequest
<1>6. CASE StaysPut
  <2>1. Types' /\ RoomForEveryLine'
    BY <1>1, <1>2, <1>6
       DEF Types, executeVars, Phase, StaysPut, Base, RoomForEveryLine
  <2> QED BY <1>5, <2>1 DEF Base
<1>7. CASE \E t \in Transfer : Drops(t)
  <2>1. /\ transfers # <<>> /\ transfers' = Tail(transfers)
        /\ numReservedSlots' = freed(numReservedSlots) /\ f1ToF2' = noLine
    BY <1>3, <1>7 DEF Drops
  <2>2. /\ transfers' \in Seq(Transfer) /\ Len(transfers') = Len(transfers) - 1
        /\ Len(transfers) # 0
    BY <1>3, <2>1, TailFacts
  <2>3. numReservedSlots' = numReservedSlots - 1 /\ numReservedSlots' \in Nat
    BY <1>3, <1>4, <2>1, <2>2 DEF freed
  <2>4. Types'
    BY <1>1, <1>2, <2>1, <2>2, <2>3 DEF Types, executeVars, Phase
  <2>5. RoomForEveryLine'
    BY <1>2, <1>3, <1>4, <2>1, <2>2, <2>3 DEF Base, RoomForEveryLine
  <2> QED BY <1>5, <2>4, <2>5 DEF Base
<1>8. CASE \E t \in Transfer, line \in Line : Sends(t, line)
  <2>1. /\ transfers # <<>> /\ transfers' = Tail(transfers)
        /\ numReservedSlots' = numReservedSlots /\ f1ToF2' \in Line
    BY <1>3, <1>8 DEF Sends
  <2>2. /\ transfers' \in Seq(Transfer) /\ Len(transfers') = Len(transfers) - 1
        /\ f1ToF2' # noLine
    BY <1>3, <2>1, TailFacts, LineNotBubble
  <2>3. Types'
    BY <1>1, <1>2, <2>1, <2>2 DEF Types, executeVars, Phase
  <2>4. RoomForEveryLine'
    BY <1>2, <1>3, <1>4, <2>1, <2>2 DEF Base, RoomForEveryLine
  <2> QED BY <1>5, <2>3, <2>4 DEF Base
<1> QED BY <1>1, <1>6, <1>7, <1>8 DEF DeliverEffect

(***************************************************************************)
(* EndCycle does what EndCycleEffect says.                                 *)
(***************************************************************************)
LEMMA EndCycleOK == ASSUME Types, EndCycle PROVE EndCycleEffect
<1> USE DEF EndCycleEffect
<1>1. /\ f2ToF1 \in Latch /\ eToF1 \in Latch /\ active \in BOOLEAN
      /\ needToSignalDrained \in BOOLEAN /\ running \in BOOLEAN
  BY DEF Types
<1>2. /\ f2ToF1' = advanced(f2ToF1) /\ eToF1' = advanced(eToF1)
      /\ active' = FALSE /\ phase = "end" /\ phase' = "between"
      /\ UNCHANGED <<fetch1Vars, fetch2Vars, f1ToF2, executeVars, budget>>
  BY DEF EndCycle
<1>3. PICK lsqDrained \in BOOLEAN :
         /\ execute.drainState = "DrainCurrentInst" => ~executeDrained(lsqDrained)
         /\ IF needToSignalDrained /\ isDrained(advanced(f2ToF1), lsqDrained)
              THEN needToSignalDrained' = FALSE /\ running' = FALSE
              ELSE /\ running' = (active \/ insts # <<>> \/ needToSignalDrained)
                   /\ UNCHANGED needToSignalDrained
  BY DEF EndCycle
<1>4. /\ f2ToF1' \in Latch /\ eToF1' \in Latch
      /\ f2ToF1'.in = noBranch /\ f2ToF1'.out = f2ToF1.in
      /\ eToF1'.in = noBranch /\ eToF1'.out = eToF1.in
  BY <1>1, <1>2 DEF advanced, Latch
<1>5. running' \in BOOLEAN /\ needToSignalDrained' \in BOOLEAN
  BY Zenon, <1>1, <1>3
<1>6. ASSUME needToSignalDrained' # needToSignalDrained
      PROVE  /\ needToSignalDrained /\ ~needToSignalDrained'
             /\ isDrained(advanced(f2ToF1), lsqDrained)
  BY <1>1, <1>3, <1>6
<1> QED BY Zenon, <1>2, <1>3, <1>4, <1>5, <1>6

(***************************************************************************)
(* So Base is kept.                                                        *)
(***************************************************************************)
LEMMA BaseEndCycle == ASSUME Base, EndCycleEffect PROVE Base'
<1>1. Types
  BY DEF Base
<1>2. Types'
  BY <1>1 DEF EndCycleEffect, Types, fetch1Vars, fetch2Vars, executeVars, Phase
<1> QED BY <1>1, <1>2, BaseElsewhere DEF EndCycleEffect, fetch1Vars, fetch2Vars

(***************************************************************************)
(* Drain does what DrainEffect says.                                       *)
(***************************************************************************)
LEMMA DrainOK == ASSUME Types, Drain PROVE DrainEffect
<1> USE DEF DrainEffect
<1>1. execute \in ExecuteInfo /\ budget \in Budget
  BY DEF Types, Budget
<1>2. PICK state \in {"DrainCurrentInst", "DrainHaltFetch"},
           lsqDrained \in BOOLEAN :
         /\ executeDrained(lsqDrained) => state = "DrainHaltFetch"
         /\ execute' = [execute EXCEPT !.drainState = state]
         /\ needToSignalDrained' = ~isDrained(f2ToF1, lsqDrained)
  BY DEF Drain
<1>3. /\ phase = "between" /\ execute.drainState = "NotDraining"
      /\ UNCHANGED <<fetch1Vars, fetch2Vars, latchVars, insts, phase>>
      /\ active' \in BOOLEAN /\ running' \in BOOLEAN
  BY DEF Drain, wakeupOnEvent
<1>4. /\ execute' \in ExecuteInfo /\ execute'.drainState = state
      /\ execute'.streamSeqNum = E /\ execute'.pc = execute.pc
      /\ execute'.suspended = execute.suspended
      /\ execute'.lastPredictionSeqNum = execute.lastPredictionSeqNum
  BY <1>1, <1>2 DEF ExecuteInfo, E
<1>5. budget' \in Budget
  BY <1>1 DEF Drain, spend, Budget
<1>6. needToSignalDrained' \in BOOLEAN
  BY <1>2
<1> QED BY <1>2, <1>3, <1>4, <1>5, <1>6

(***************************************************************************)
(* So Base is kept.                                                        *)
(***************************************************************************)
LEMMA BaseDrain == ASSUME Base, DrainEffect PROVE Base'
<1>1. Types
  BY DEF Base
<1>2. Types'
  BY <1>1 DEF DrainEffect, Types, fetch1Vars, fetch2Vars, latchVars, Budget
<1> QED BY Zenon, <1>1, <1>2, BaseElsewhere
           DEF DrainEffect, fetch1Vars, fetch2Vars, latchVars

(***************************************************************************)
(* What wakeupFetch does.                                                  *)
(***************************************************************************)
LEMMA WakeupOK ==
    ASSUME Types, wakeupFetch
    PROVE  /\ fetch1' \in Fetch1Info /\ fetch1'.state = "FetchRunning"
           /\ fetch1'.pc = execute.pc /\ fetch1'.fetchAddr = execute.pc
           /\ fetch1'.streamSeqNum = F /\ fetch1'.predictionSeqNum = P1
           /\ active' = TRUE /\ running' = TRUE
<1>1. fetch1 \in Fetch1Info /\ execute.pc \in Addr
  BY DEF Types, ExecuteInfo
<1>2. /\ fetch1' = [fetch1 EXCEPT !.state = "FetchRunning", !.pc = execute.pc,
                                  !.fetchAddr = execute.pc, !.wakeupGuard = TRUE]
      /\ active' = TRUE /\ running' = TRUE
  BY DEF wakeupFetch, wakeupOnEvent
<1> QED BY Zenon, <1>1, <1>2 DEF Fetch1Info, F, P1

(***************************************************************************)
(* drainResume does what ResumeEffect says.                                *)
(***************************************************************************)
LEMMA ResumeOK == ASSUME Types, drainResume PROVE ResumeEffect
<1> USE DEF ResumeEffect
<1>1. execute \in ExecuteInfo
  BY DEF Types
<1>2. /\ execute' = [execute EXCEPT !.drainState = "NotDraining",
                                    !.suspended = FALSE]
      /\ execute.drainState # "NotDraining" /\ ~needToSignalDrained
      /\ phase = "between" /\ wakeupFetch
      /\ UNCHANGED <<requests, transfers, icacheState, fetch2Vars, latchVars,
                     insts, phase, needToSignalDrained, budget>>
  BY DEF drainResume
<1>3. /\ execute' \in ExecuteInfo
      /\ execute'.streamSeqNum = E /\ execute'.pc = execute.pc
      /\ execute'.suspended = FALSE /\ execute'.drainState = "NotDraining"
      /\ execute'.lastPredictionSeqNum = execute.lastPredictionSeqNum
  BY Zenon, <1>1, <1>2 DEF ExecuteInfo, E
<1> QED BY <1>2, <1>3, WakeupOK DEF Wakes

(***************************************************************************)
(* activateContext does what ActivateEffect says.                          *)
(***************************************************************************)
LEMMA ActivateOK == ASSUME Types, activateContext PROVE ActivateEffect
<1> USE DEF ActivateEffect
<1>1. execute \in ExecuteInfo
  BY DEF Types
<1>2. /\ execute' = [execute EXCEPT !.suspended = FALSE]
      /\ phase = "between" /\ wakeupFetch /\ execute.suspended
      /\ UNCHANGED <<requests, transfers, icacheState, fetch2Vars, latchVars,
                     insts, phase, needToSignalDrained, budget>>
  BY DEF activateContext
<1>3. /\ execute' \in ExecuteInfo
      /\ execute'.streamSeqNum = E /\ execute'.pc = execute.pc
      /\ execute'.suspended = FALSE /\ execute'.drainState = execute.drainState
      /\ execute'.lastPredictionSeqNum = execute.lastPredictionSeqNum
  BY Zenon, <1>1, <1>2 DEF ExecuteInfo, E
<1> QED BY <1>2, <1>3, WakeupOK DEF Wakes

(***************************************************************************)
(* Base is kept by both.                                                   *)
(***************************************************************************)
LEMMA BaseWakes == ASSUME Base, Wakes PROVE Base'
<1>1. Types
  BY DEF Base
<1>2. Types'
  BY <1>1 DEF Types, Wakes, fetch2Vars, latchVars
<1> QED BY Zenon, <1>2, BaseElsewhere DEF Wakes, fetch2Vars, latchVars

(***************************************************************************)
(* The steps, by what they do.                                             *)
(***************************************************************************)
LEMMA FetchSteps ==
    ASSUME Base, [FetchNext]_vars
    PROVE  FetchEffect \/ (activateContext /\ ActivateEffect) \/ UNCHANGED vars
<1>1. Types /\ Requested /\ RetryFindsRequest
  BY DEF Base
<1>2. \/ quietStep \/ Commit \/ Discard \/ EndExecute \/ takeInterrupt
      \/ StartFetch2 \/ ProcessLine \/ EndFetch2 \/ StartFetch1 \/ Deliver
      \/ EndCycle \/ Drain \/ drainResume \/ activateContext \/ UNCHANGED vars
  BY DEF FetchNext, FetchCycle, quietStep
<1> QED BY <1>1, <1>2, QuietOK, CommitOK, DiscardOK, EndExecuteOK, InterruptOK,
           StartFetch2OK, ProcessLineOK, EndFetch2OK, StartFetch1OK, DeliverOK,
           EndCycleOK, DrainOK, ResumeOK, ActivateOK DEF FetchEffect

(***************************************************************************)
(* Base holds at first.                                                    *)
(***************************************************************************)
LEMMA InitBase == ASSUME FetchInit PROVE Base
<1>1. 0 \in Addr /\ 1 \in SeqNum /\ 0 \in Nat
  BY FetchAssumption DEF Addr, SeqNum
<1>2. fetch1 \in Fetch1Info /\ fetch2 \in Fetch2Info /\ execute \in ExecuteInfo
  BY <1>1 DEF FetchInit, Fetch1Info, Fetch2Info, ExecuteInfo, firstSeqNum
<1>3. f2ToF1 \in Latch /\ eToF1 \in Latch
  BY DEF FetchInit, emptyLatch, Latch
<1>4. budget \in Budget
  BY FetchAssumption DEF FetchInit, Budget
<1>5. Types
  <2>1. /\ requests \in Seq(Request) /\ transfers \in Seq(Transfer)
        /\ inputBuffer \in Seq(Line) /\ insts \in Seq(Inst)
    <3>1. requests = <<>> /\ transfers = <<>> /\ inputBuffer = <<>> /\ insts = <<>>
      BY DEF FetchInit
    <3> QED BY <3>1
  <2>2. /\ icacheState = "IcacheRunning" /\ numReservedSlots = 0
        /\ f1ToF2 = noLine /\ phase = "between" /\ active = TRUE
        /\ running = TRUE /\ needToSignalDrained = FALSE
    BY DEF FetchInit
  <2> QED BY Zenon, <1>2, <1>3, <1>4, <2>1, <2>2 DEF Types, Budget, Phase
<1>6. LatchTaken /\ Requested /\ RetryFindsRequest
  BY DEF FetchInit, LatchTaken, Requested, RetryFindsRequest
<1>7. RoomForEveryLine
  <2>1. /\ requests = <<>> /\ transfers = <<>> /\ inputBuffer = <<>>
        /\ f1ToF2 = noLine /\ numReservedSlots = 0
    BY DEF FetchInit
  <2> QED BY <2>1, FetchAssumption DEF RoomForEveryLine
<1> QED BY <1>5, <1>6, <1>7 DEF Base

(***************************************************************************)
(* Every step keeps Base.                                                  *)
(***************************************************************************)
LEMMA StepBase ==
    ASSUME Base, FetchEffect \/ ActivateEffect \/ UNCHANGED vars
    PROVE  Base'
<1>1. CASE UNCHANGED vars
  BY <1>1
  DEF vars, fetch1Vars, fetch2Vars, latchVars, executeVars, pipelineVars, Base,
      Types, LatchTaken, Requested, RoomForEveryLine, RetryFindsRequest
<1>2. CASE ResumeEffect \/ ActivateEffect
  BY <1>2, BaseWakes DEF ResumeEffect, ActivateEffect
<1> QED BY <1>1, <1>2, BaseQuiet, BaseCommit, BaseDiscard, BaseEndExecute,
           BaseInterrupt, BaseStartFetch2, BaseProcessLine, BaseEndFetch2,
           BaseStartFetch1, BaseDeliver, BaseEndCycle, BaseDrain DEF FetchEffect
=============================================================================
