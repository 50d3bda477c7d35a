--------------------------- MODULE FetchInvariants --------------------------
(***************************************************************************)
(* The inductive invariant of Fetch, in four parts that rest on each       *)
(* other: Base (the types, and that every line has its slot), Streams (the *)
(* stream numbers), Numbers (the prediction numbers) and Program (that     *)
(* what is fetched continues what has been committed).                     *)
(***************************************************************************)
EXTENDS Fetch

(***************************************************************************)
(* The types of the variables.                                             *)
(***************************************************************************)
Reason == {"CorrectlyPredictedBranch", "BranchPrediction",
           "BadlyPredictedBranch", "BadlyPredictedBranchTarget",
           "UnpredictedBranch", "Interrupt", "SuspendThread", "HaltFetch"}

Branch == [reason : Reason, newStreamSeqNum : SeqNum,
           newPredictionSeqNum : SeqNum, target : Addr]

Latch == [in : Branch \cup {noBranch}, out : Branch \cup {noBranch}]

Fetch1Info ==
    [state : {"FetchHalted", "FetchWaitingForPC", "FetchRunning"},
     pc : Addr, fetchAddr : Addr, streamSeqNum : SeqNum,
     predictionSeqNum : SeqNum, wakeupGuard : BOOLEAN]

Requests(States) ==
    [streamSeqNum : SeqNum, predictionSeqNum : SeqNum, lineBaseAddr : Addr,
     state : States, fault : BOOLEAN]

Request == Requests({"InTranslation", "Translated"})

Transfer == Requests({"RequestIssuing", "Complete"})

Line == [streamSeqNum : SeqNum, predictionSeqNum : SeqNum, pc : Addr,
         lineBaseAddr : Addr, fault : BOOLEAN]

Fetch2Info ==
    [pc : Addr, havePC : BOOLEAN, inputIndex : Nat,
     lastStreamSeqNum : SeqNum, expectedStreamSeqNum : SeqNum,
     predictionSeqNum : SeqNum, output_index : Nat]

ExecuteInfo ==
    [streamSeqNum : SeqNum, lastPredictionSeqNum : SeqNum, pc : Addr,
     suspended : BOOLEAN,
     drainState : {"NotDraining", "DrainCurrentInst", "DrainHaltFetch",
                   "DrainAllInsts"}]

Inst == [pc : Addr, addr : Addr, fault : BOOLEAN, streamSeqNum : SeqNum,
         predictionSeqNum : SeqNum, predictedTaken : BOOLEAN,
         predictedTarget : Addr \cup {notTaken}]

Phase == {"between", "execute", "fetch2", "lines", "fetch2 end", "fetch1",
          "translate", "queues", "deliver", "end"}

Budget == [{"streams", "predictions", "faults", "suspends", "drains"} -> Nat]

Types ==
    /\ fetch1 \in Fetch1Info
    /\ requests \in Seq(Request) /\ transfers \in Seq(Transfer)
    /\ icacheState \in {"IcacheRunning", "IcacheNeedsRetry"}
    /\ fetch2 \in Fetch2Info
    /\ inputBuffer \in Seq(Line) /\ numReservedSlots \in Nat
    /\ f1ToF2 \in Line \cup {noLine}
    /\ f2ToF1 \in Latch /\ eToF1 \in Latch
    /\ execute \in ExecuteInfo
    /\ insts \in Seq(Inst)
    /\ phase \in Phase /\ active \in BOOLEAN /\ running \in BOOLEAN
    /\ needToSignalDrained \in BOOLEAN
    /\ budget \in [{"streams", "predictions", "faults", "suspends", "drains"}
                     -> Nat]

(***************************************************************************)
(* From Fetch2, which takes the line, until Fetch1 sends the next one      *)
(* there is no line in the latch.                                          *)
(***************************************************************************)
LatchTaken ==
    phase \notin {"between", "execute", "fetch2", "end"} => f1ToF2 = noLine

(***************************************************************************)
(* While fetchLine is under way there is the request it has made.          *)
(***************************************************************************)
Requested == phase = "translate" => requests # <<>>

(***************************************************************************)
(* Types, and the promises that rest on little more.                       *)
(***************************************************************************)
Base == Types /\ LatchTaken /\ Requested /\ RoomForEveryLine /\ RetryFindsRequest

-----------------------------------------------------------------------------
(***************************************************************************)
(* The stream and prediction numbers of Execute, Fetch1 and Fetch2.        *)
(***************************************************************************)
E == execute.streamSeqNum

F == fetch1.streamSeqNum

P1 == fetch1.predictionSeqNum

P2 == fetch2.predictionSeqNum

(***************************************************************************)
(* The stream numbers.  Fetch1 lags behind Execute and everything in the   *)
(* front end and on its way to Execute behind Fetch1.  A change of stream  *)
(* in eToF1 is ahead of Fetch1 until Fetch1 has seen it.                   *)
(***************************************************************************)
beforeFetch1 ==
    phase \in {"between", "execute", "fetch2", "lines", "fetch2 end", "fetch1"}

Behind ==
    /\ F <= E
    /\ fetch2.lastStreamSeqNum <= F /\ fetch2.expectedStreamSeqNum <= F
    /\ \A i \in DOMAIN inputBuffer : inputBuffer[i].streamSeqNum = F
    /\ f1ToF2 # noLine => f1ToF2.streamSeqNum = F
    /\ \A i \in DOMAIN transfers : transfers[i].streamSeqNum <= F
    /\ \A i \in DOMAIN requests : requests[i].streamSeqNum <= F
    /\ \A i \in DOMAIN insts : insts[i].streamSeqNum <= F
    /\ f2ToF1.in # noBranch => f2ToF1.in.newStreamSeqNum <= F
    /\ f2ToF1.out # noBranch => f2ToF1.out.newStreamSeqNum <= F

Ahead ==
    /\ isStreamChange(eToF1.in) =>
         /\ eToF1.in.newStreamSeqNum = E /\ F < E
         /\ eToF1.in.target = execute.pc
    /\ isStreamChange(eToF1.out) /\ beforeFetch1 =>
         /\ F < eToF1.out.newStreamSeqNum /\ eToF1.out.newStreamSeqNum <= E
         /\ isStreamChange(eToF1.in) => eToF1.out.newStreamSeqNum < E
         /\ eToF1.out.newStreamSeqNum = E => eToF1.out.target = execute.pc

(***************************************************************************)
(* Fetch2 has thrown its lines away by the time Fetch1 changes the stream. *)
(***************************************************************************)
Dumped ==
    phase \in {"lines", "fetch2 end", "fetch1"} /\ isStreamChange(eToF1.out)
        => inputBuffer = <<>>

(***************************************************************************)
(* Nothing of the stream Execute is in has been requested yet.             *)
(***************************************************************************)
NoneInstd == \A i \in DOMAIN insts : insts[i].streamSeqNum # E

NoneFetched ==
    /\ \A i \in DOMAIN inputBuffer : inputBuffer[i].streamSeqNum # E
    /\ f1ToF2 # noLine => f1ToF2.streamSeqNum # E
    /\ \A i \in DOMAIN transfers : transfers[i].streamSeqNum # E
    /\ \A i \in DOMAIN requests : requests[i].streamSeqNum # E

pendingIn == f2ToF1.in # noBranch /\ f2ToF1.in.newStreamSeqNum = E

pendingOut ==
    /\ beforeFetch1
    /\ f2ToF1.out # noBranch /\ f2ToF1.out.newStreamSeqNum = E

pending == pendingIn \/ pendingOut

following == fetch2.havePC /\ fetch2.lastStreamSeqNum = E

Fresh == NoneInstd /\ NoneFetched /\ ~pending /\ ~following

SuspendedFresh == execute.suspended => Fresh

(***************************************************************************)
(* The invariant of the streams.                                           *)
(***************************************************************************)
Streams == Behind /\ Ahead /\ Dumped /\ SuspendedFresh

-----------------------------------------------------------------------------
(***************************************************************************)
(* The predictions and their numbers.                                      *)
(***************************************************************************)
Predicts ==
    /\ f2ToF1.in # noBranch => f2ToF1.in.reason = "BranchPrediction"
    /\ f2ToF1.out # noBranch => f2ToF1.out.reason = "BranchPrediction"

NoneAfterP2 ==
    /\ P1 <= P2
    /\ execute.lastPredictionSeqNum <= P2
    /\ \A i \in DOMAIN insts : insts[i].predictionSeqNum <= P2
    /\ eToF1.in # noBranch => eToF1.in.newPredictionSeqNum <= P2
    /\ eToF1.out # noBranch => eToF1.out.newPredictionSeqNum <= P2
    /\ f2ToF1.in # noBranch => f2ToF1.in.newPredictionSeqNum <= P2
    /\ f2ToF1.out # noBranch => f2ToF1.out.newPredictionSeqNum <= P2

(***************************************************************************)
(* No prediction number is ahead of Fetch2's.                              *)
(***************************************************************************)
Numbers == Predicts /\ NoneAfterP2

-----------------------------------------------------------------------------
nextBase(b) == (b + lineWidth) % AddrSpace

(***************************************************************************)
(* Where inst was predicted to go.                                         *)
(***************************************************************************)
nextPC(inst) ==
    IF inst.predictedTaken THEN inst.predictedTarget ELSE advancePC(inst.pc)

(***************************************************************************)
(* The lines of Fetch1's and Fetch2's queues, oldest first.                *)
(***************************************************************************)
lineAt(i) ==
    LET b == Len(inputBuffer)
        f == b + (IF f1ToF2 = noLine THEN 0 ELSE 1)
        t == f + Len(transfers)
    IN  IF i <= b THEN inputBuffer[i]
        ELSE IF i <= f THEN f1ToF2
        ELSE IF i <= t THEN transfers[i - f]
        ELSE requests[i - t]

numLines == Len(inputBuffer) + (IF f1ToF2 = noLine THEN 0 ELSE 1)
              + Len(transfers) + Len(requests)

lines ==
    [i \in 1 .. numLines |->
       [s |-> lineAt(i).streamSeqNum, p |-> lineAt(i).predictionSeqNum,
        b |-> lineAt(i).lineBaseAddr]]

(***************************************************************************)
(* From the first line with numbers s and p on all lines have them, and    *)
(* follow each other; next follows the last.                               *)
(***************************************************************************)
Flow(v, n, s, p, next) ==
    \A i \in 1 .. n :
        v[i].s = s /\ v[i].p = p =>
            /\ v[i].b % lineWidth = 0
            /\ \A j \in i .. n : v[j].s = s /\ v[j].p = p
            /\ IF i = n THEN next = nextBase(v[i].b)
                        ELSE v[i + 1].b = nextBase(v[i].b)

Numbered ==
    F = E =>
      /\ \A i \in 1 .. numLines : lines[i].s = E => lines[i].p <= P1
      /\ fetch2.expectedStreamSeqNum # E =>
           ~pending /\ \A i \in 1 .. numLines : lines[i].s = E => lines[i].p = P1
      /\ fetch2.expectedStreamSeqNum = E =>
           IF pending THEN P1 < P2 ELSE P1 = P2
      /\ pendingIn => ~pendingOut /\ f2ToF1.in.newPredictionSeqNum = P2
      /\ pendingOut => f2ToF1.out.newPredictionSeqNum = P2
      /\ pending => ~following

(***************************************************************************)
(* What Execute has still to commit.                                       *)
(***************************************************************************)
faultBefore(n) ==
    \E i \in 1 .. n : insts[i].streamSeqNum = E /\ insts[i].fault

faulted == faultBefore(Len(insts))

InstsInOrder ==
    \A i \in DOMAIN insts : insts[i].streamSeqNum = E =>
      /\ \A j \in i .. Len(insts) : insts[j].streamSeqNum = E
      /\ ~faultBefore(i - 1) =>
           /\ insts[i].addr = insts[i].pc
           /\ IF i = 1 \/ insts[i - 1].streamSeqNum # E
                THEN insts[i].pc = execute.pc
                ELSE insts[i].pc = nextPC(insts[i - 1])

lastPC ==
    IF insts # <<>> /\ insts[Len(insts)].streamSeqNum = E
      THEN nextPC(insts[Len(insts)]) ELSE execute.pc

(***************************************************************************)
(* The lines in flight continue where the instructions end.                *)
(***************************************************************************)
LinesFollow ==
    F = E =>
      /\ ~pending =>
           /\ Flow(lines, numLines, E, P1, fetch1.fetchAddr)
           /\ \A i \in DOMAIN inputBuffer :
                inputBuffer[i].predictionSeqNum = P1 => inputBuffer[i].pc = fetch1.pc
           /\ f1ToF2 # noLine =>
                (f1ToF2.predictionSeqNum = P1 => f1ToF2.pc = fetch1.pc)
      /\ following =>
           /\ \A i \in 1 .. numLines : lines[i].s = E /\ lines[i].p = P1
           /\ IF numLines = 0
                THEN /\ fetch1.fetchAddr = fetch2.pc /\ fetch2.inputIndex = 0
                     /\ fetch1.fetchAddr % lineWidth = 0
                ELSE (lines[1].b + fetch2.inputIndex) % AddrSpace = fetch2.pc

LinesContinue ==
    F = E /\ ~faulted =>
      /\ pendingIn => f2ToF1.in.target = lastPC
      /\ pendingOut => f2ToF1.out.target = lastPC
      /\ ~pending => lastPC = IF following THEN fetch2.pc ELSE fetch1.pc

(***************************************************************************)
(* Draining.                                                               *)
(***************************************************************************)
Draining ==
    /\ execute.drainState = "DrainAllInsts" =>
         /\ Fresh
         /\ F = E => fetch1.state = "FetchHalted"
         /\ isStreamChange(eToF1.in) => eToF1.in.reason = "HaltFetch"
         /\ isStreamChange(eToF1.out) /\ beforeFetch1
              /\ eToF1.out.newStreamSeqNum = E => eToF1.out.reason = "HaltFetch"
    /\ execute.drainState = "DrainHaltFetch" =>
         /\ phase \in {"between", "execute"}
         /\ ~needToSignalDrained => Fresh
    /\ execute.drainState = "DrainCurrentInst" => needToSignalDrained
    /\ fetch1.state = "FetchHalted" /\ F = E => Fresh
    /\ fetch1.state = "FetchWaitingForPC" /\ F = E =>
         \/ Fresh \/ faulted \/ pending
         \/ \E i \in DOMAIN inputBuffer :
              inputBuffer[i].fault /\ inputBuffer[i].predictionSeqNum = P1
         \/ f1ToF2 # noLine /\ f1ToF2.fault /\ f1ToF2.predictionSeqNum = P1

(***************************************************************************)
(* The invariant of the program: what is in flight continues what has been *)
(* committed.                                                              *)
(***************************************************************************)
Program == InstsInOrder /\ Numbered /\ LinesFollow /\ LinesContinue /\ Draining
=============================================================================
