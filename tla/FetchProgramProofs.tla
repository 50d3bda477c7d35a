------------------------- MODULE FetchProgramProofs -------------------------
(***************************************************************************)
(* That the effects of the actions keep Program: what is fetched continues *)
(* what has been committed.  The two actions that look at the contents of  *)
(* a line or choose the next one, ProcessLine and StartFetch1, are in      *)
(* FetchProofs.                                                            *)
(***************************************************************************)
EXTENDS FetchLineProofs

(***************************************************************************)
(* When nothing of its stream has been requested Execute goes on at the    *)
(* thread's PC and there is no line to follow.                             *)
(***************************************************************************)
LEMMA FreshFacts ==
    Types /\ Fresh =>
      /\ InstsInOrder /\ ~faulted /\ lastPC = execute.pc
      /\ ~pending /\ ~pendingIn /\ ~pendingOut /\ ~following
      /\ \A i \in 1 .. numLines : lines[i].s # E
      /\ Flow(lines, numLines, E, P1, fetch1.fetchAddr)
<1> SUFFICES ASSUME Types, Fresh
             PROVE  /\ InstsInOrder /\ ~faulted /\ lastPC = execute.pc
                    /\ ~pending /\ ~pendingIn /\ ~pendingOut /\ ~following
                    /\ \A i \in 1 .. numLines : lines[i].s # E
                    /\ Flow(lines, numLines, E, P1, fetch1.fetchAddr)
  OBVIOUS
<1>1. InstsInOrder /\ ~faulted /\ lastPC = execute.pc
  BY NoInsts DEF Fresh
<1>2. \A i \in 1 .. numLines : lines[i].s # E
  BY NoneFetchedLines DEF Fresh
<1>3. Flow(lines, numLines, E, P1, fetch1.fetchAddr)
  BY <1>2 DEF Flow
<1> QED BY <1>1, <1>2, <1>3 DEF Fresh, pending

(***************************************************************************)
(* So it is while Fetch1 is behind.                                        *)
(***************************************************************************)
LEMMA BehindProgram ==
    Types /\ Behind /\ F # E =>
      Fresh /\ InstsInOrder /\ Numbered /\ LinesFollow /\ LinesContinue
BY BehindFresh, FreshFacts DEF Numbered, LinesFollow, LinesContinue

(***************************************************************************)
(* The steps that leave the lines in order and continue the instructions   *)
(* as before; at the end of the cycle the prediction is passed on.         *)
(***************************************************************************)
SameFetch ==
    /\ E' = E /\ F' = F /\ P1' = P1 /\ P2' = P2
    /\ fetch1'.pc = fetch1.pc /\ fetch1'.fetchAddr = fetch1.fetchAddr
    /\ fetch2'.pc = fetch2.pc /\ fetch2'.havePC = fetch2.havePC
    /\ fetch2'.inputIndex = fetch2.inputIndex
    /\ fetch2'.lastStreamSeqNum = fetch2.lastStreamSeqNum
    /\ fetch2'.expectedStreamSeqNum = fetch2.expectedStreamSeqNum

SamePredictions ==
    /\ f2ToF1' = f2ToF1
    /\ (pendingIn' <=> pendingIn) /\ (pendingOut' <=> pendingOut)

PassedPredictions ==
    /\ f2ToF1'.out = f2ToF1.in
    /\ ~pendingIn' /\ (pendingOut' <=> pendingIn) /\ ~pendingOut

(***************************************************************************)
(* Such a step keeps what is in flight on the program.                     *)
(***************************************************************************)
LEMMA SameFlight ==
    ASSUME Numbered, LinesFollow, LinesContinue, SameFetch,
           inputBuffer' = inputBuffer,
           f1ToF2' # noLine => f1ToF2' = f1ToF2 \/ f1ToF2'.pc = fetch1.pc,
           numLines' = numLines, lines' = lines,
           faulted' <=> faulted, lastPC' = lastPC,
           SamePredictions \/ PassedPredictions
    PROVE  Numbered' /\ LinesFollow' /\ LinesContinue' /\ (pending' <=> pending)
<1>1. pending' <=> pending
  BY DEF pending, SamePredictions, PassedPredictions
<1>2. following' <=> following
  BY DEF following, SameFetch
<1>3. Numbered'
  <2> SUFFICES ASSUME F = E
               PROVE  Numbered'
    BY DEF Numbered, SameFetch
  <2>1. /\ \A i \in 1 .. numLines : lines[i].s = E => lines[i].p <= P1
        /\ fetch2.expectedStreamSeqNum # E =>
             ~pending /\ \A i \in 1 .. numLines : lines[i].s = E => lines[i].p = P1
        /\ fetch2.expectedStreamSeqNum = E =>
             IF pending THEN P1 < P2 ELSE P1 = P2
        /\ pending => ~following
    BY DEF Numbered
  <2>2. /\ pendingIn' => ~pendingOut' /\ f2ToF1'.in.newPredictionSeqNum = P2
        /\ pendingOut' => f2ToF1'.out.newPredictionSeqNum = P2
    BY DEF Numbered, SamePredictions, PassedPredictions
  <2> QED BY <1>1, <1>2, <2>1, <2>2 DEF Numbered, SameFetch
<1>4. LinesFollow'
  BY <1>1, <1>2 DEF LinesFollow, SameFetch
<1>5. LinesContinue'
  <2> SUFFICES ASSUME F = E, ~faulted PROVE LinesContinue'
    BY DEF LinesContinue, SameFetch
  <2>1. /\ pendingIn' => f2ToF1'.in.target = lastPC
        /\ pendingOut' => f2ToF1'.out.target = lastPC
        /\ ~pending => lastPC = IF following THEN fetch2.pc ELSE fetch1.pc
    BY DEF LinesContinue, SamePredictions, PassedPredictions
  <2> QED BY <1>1, <1>2, <2>1 DEF LinesContinue, SameFetch
<1> QED BY <1>1, <1>3, <1>4, <1>5

(***************************************************************************)
(* The steps that leave the drain as it is.                                *)
(***************************************************************************)
LEMMA SameDraining ==
    ASSUME Draining, Fresh => Fresh', E' = E, F' = F, P1' = P1,
           fetch1'.state = fetch1.state,
           execute'.drainState = execute.drainState,
           UNCHANGED <<needToSignalDrained, inputBuffer, f1ToF2>>,
           eToF1'.in = eToF1.in \/ ~isStreamChange(eToF1'.in),
           eToF1'.out = eToF1.out, beforeFetch1' => beforeFetch1,
           faulted' <=> faulted, pending' <=> pending,
           execute.drainState = "DrainHaltFetch" => phase' \in {"between", "execute"}
    PROVE  Draining'
<1>1. execute.drainState = "DrainAllInsts" =>
        /\ Fresh'
        /\ F = E => fetch1.state = "FetchHalted"
        /\ isStreamChange(eToF1'.in) => eToF1'.in.reason = "HaltFetch"
        /\ isStreamChange(eToF1'.out) /\ beforeFetch1'
             /\ eToF1'.out.newStreamSeqNum = E => eToF1'.out.reason = "HaltFetch"
  BY DEF Draining
<1>2. execute.drainState = "DrainHaltFetch" =>
        /\ phase' \in {"between", "execute"}
        /\ ~needToSignalDrained => Fresh'
  BY DEF Draining
<1>3. /\ execute.drainState = "DrainCurrentInst" => needToSignalDrained
      /\ fetch1.state = "FetchHalted" /\ F = E => Fresh'
      /\ fetch1.state = "FetchWaitingForPC" /\ F = E =>
           \/ Fresh' \/ faulted' \/ pending'
           \/ \E i \in DOMAIN inputBuffer :
                inputBuffer[i].fault /\ inputBuffer[i].predictionSeqNum = P1
           \/ f1ToF2 # noLine /\ f1ToF2.fault /\ f1ToF2.predictionSeqNum = P1
  BY DEF Draining
<1> QED BY <1>1, <1>2, <1>3 DEF Draining

(***************************************************************************)
(* Steps outside of what the invariant is about.                           *)
(***************************************************************************)
LEMMA ProgramElsewhere ==
    ASSUME Program, Fresh => Fresh', beforeFetch1' <=> beforeFetch1,
           numLines' = numLines, lines' = lines,
           execute.drainState = "DrainHaltFetch" => phase' \in {"between", "execute"},
           UNCHANGED <<fetch1, fetch2, inputBuffer, f1ToF2, f2ToF1, eToF1, execute,
                       insts, needToSignalDrained>>
    PROVE  Program'
<1>1. SameFetch
  BY DEF SameFetch, E, F, P1, P2
<1>2. SamePredictions
  BY <1>1 DEF SamePredictions, SameFetch, pendingIn, pendingOut
<1>3. InstsInOrder' /\ (faulted' <=> faulted) /\ lastPC' = lastPC
  BY <1>1, SameInsts DEF Program, SameFetch
<1>4. Numbered' /\ LinesFollow' /\ LinesContinue' /\ (pending' <=> pending)
  BY <1>1, <1>2, <1>3, SameFlight DEF Program
<1>5. Draining'
  BY <1>1, <1>3, <1>4, SameDraining DEF Program, SameFetch
<1> QED BY <1>3, <1>4, <1>5 DEF Program

(***************************************************************************)
(* The memory answers, the queues move.                                    *)
(***************************************************************************)
LEMMA ProgramQuiet ==
    ASSUME Types, Types', Streams, Program, Quiet PROVE Program'
<1>1. Fresh => Fresh'
  BY StreamsQuiet
<1>2. /\ Moving
      /\ UNCHANGED <<fetch1, fetch2, inputBuffer, f1ToF2, f2ToF1, eToF1, execute,
                     insts, needToSignalDrained>>
      /\ \/ phase = "between" /\ phase' \in {"between", "execute"}
         \/ phase = "translate" /\ phase' = "queues"
         \/ phase = "queues" /\ phase' = "deliver"
  BY DEF Quiet, fetch2Vars, latchVars, executeVars
<1>3. numLines' = numLines /\ lines' = lines
  BY <1>2, LinesMoving
<1>4. beforeFetch1' <=> beforeFetch1
  BY Zenon, <1>2 DEF beforeFetch1
<1>5. execute.drainState = "DrainHaltFetch" => phase' \in {"between", "execute"}
  BY <1>2 DEF Program, Draining
<1> QED BY <1>1, <1>2, <1>3, <1>4, <1>5, ProgramElsewhere

(***************************************************************************)
(* Fetch2 ends its turn.                                                   *)
(***************************************************************************)
LEMMA ProgramEndFetch2 ==
    ASSUME Types, Streams, Program, EndFetch2Effect PROVE Program'
<1>1. Fresh => Fresh'
  BY StreamsEndFetch2
<1>2. /\ phase \in {"lines", "fetch2 end"} /\ phase' = "fetch1"
      /\ fetch2'.pc = fetch2.pc /\ fetch2'.havePC = fetch2.havePC
      /\ fetch2'.inputIndex = fetch2.inputIndex
      /\ fetch2'.lastStreamSeqNum = fetch2.lastStreamSeqNum
      /\ fetch2'.expectedStreamSeqNum = fetch2.expectedStreamSeqNum
      /\ fetch2'.predictionSeqNum = fetch2.predictionSeqNum
      /\ UNCHANGED <<fetch1, requests, transfers, inputBuffer, f1ToF2, f2ToF1,
                     eToF1, execute, insts, needToSignalDrained>>
  BY Zenon DEF EndFetch2Effect, fetch1Vars, latchVars, executeVars
<1>3. numLines' = numLines /\ lines' = lines
  BY Zenon, <1>2 DEF numLines, lines, lineAt
<1>4. (beforeFetch1' <=> beforeFetch1) /\ execute.drainState # "DrainHaltFetch"
  BY Zenon, <1>2 DEF beforeFetch1, Program, Draining
<1>5. SameFetch
  BY Zenon, <1>2 DEF SameFetch, E, F, P1, P2
<1>6. SamePredictions
  BY Zenon, <1>2, <1>4, <1>5 DEF SamePredictions, SameFetch, pendingIn, pendingOut
<1>7. InstsInOrder' /\ (faulted' <=> faulted) /\ lastPC' = lastPC
  BY Zenon, <1>2, <1>5, SameInsts DEF Program, SameFetch
<1>8. Numbered' /\ LinesFollow' /\ LinesContinue' /\ (pending' <=> pending)
  BY Zenon, <1>2, <1>3, <1>5, <1>6, <1>7, SameFlight DEF Program
<1>9. Draining'
  BY Zenon, <1>1, <1>2, <1>4, <1>5, <1>7, <1>8, SameDraining DEF Program, SameFetch
<1> QED BY <1>7, <1>8, <1>9 DEF Program

(***************************************************************************)
(* Execute discards an instruction of an old stream: while it drains there *)
(* is no other.                                                            *)
(***************************************************************************)
LEMMA ProgramDiscard ==
    ASSUME Types, Streams, Program, DiscardEffect PROVE Program'
<1>1. Fresh => Fresh'
  BY StreamsDiscard
<1>2. /\ phase = "execute" /\ insts # <<>> /\ insts' = Tail(insts)
      /\ \/ Head(insts).streamSeqNum # execute.streamSeqNum
         \/ execute.drainState = "DrainAllInsts"
      /\ execute'.streamSeqNum = execute.streamSeqNum
      /\ execute'.pc = execute.pc /\ execute'.drainState = execute.drainState
      /\ UNCHANGED <<fetch1, requests, transfers, fetch2, inputBuffer, f1ToF2,
                     f2ToF1, eToF1, phase, needToSignalDrained>>
  BY DEF DiscardEffect, fetch1Vars, fetch2Vars, latchVars, pipelineVars
<1>3. numLines' = numLines /\ lines' = lines
  BY <1>2 DEF numLines, lines, lineAt
<1>4. insts[1].streamSeqNum # E
  <2>1. Head(insts) = insts[1] /\ 1 \in DOMAIN insts
    <3>1. insts \in Seq(Inst)
      BY DEF Types
    <3> QED BY <1>2, <3>1, HeadFacts
  <2> QED BY <1>2, <2>1 DEF Program, Draining, Fresh, NoneInstd, E
<1>5. SameFetch
  BY <1>2 DEF SameFetch, E, F, P1, P2
<1>6. SamePredictions
  BY <1>2, <1>5 DEF SamePredictions, SameFetch, pendingIn, pendingOut, beforeFetch1
<1>7. InstsInOrder' /\ (faulted' <=> faulted) /\ lastPC' = lastPC
  BY <1>2, <1>4, <1>5, TailInsts DEF Program, SameFetch
<1>8. Numbered' /\ LinesFollow' /\ LinesContinue' /\ (pending' <=> pending)
  BY <1>2, <1>3, <1>5, <1>6, <1>7, SameFlight DEF Program
<1>9. beforeFetch1' <=> beforeFetch1
  BY <1>2 DEF beforeFetch1
<1>10. Draining'
  BY <1>1, <1>2, <1>5, <1>7, <1>8, <1>9, SameDraining DEF Program, SameFetch
<1> QED BY <1>7, <1>8, <1>10 DEF Program

(***************************************************************************)
(* The streams of Fetch1 and Execute are numbers.                          *)
(***************************************************************************)
LEMMA StreamsAreNumbers == Types => F \in Nat /\ E \in Nat
BY StreamNumbers

(***************************************************************************)
(* Execute begins a new stream: nothing is of it, and if it drains Fetch1  *)
(* is told to halt.                                                        *)
(***************************************************************************)
LEMMA ProgramNewStream ==
    ASSUME Types', Streams', isStreamChange(eToF1'.in),
           execute'.drainState = "DrainAllInsts" => eToF1'.in.reason = "HaltFetch",
           execute'.drainState # "DrainHaltFetch",
           execute'.drainState = "DrainCurrentInst" => needToSignalDrained'
    PROVE  Program'
<1>1. /\ Behind' /\ F' < E'
      /\ isStreamChange(eToF1'.out) /\ beforeFetch1' =>
           eToF1'.out.newStreamSeqNum < E'
  BY DEF Streams, Ahead
<1>2. (Types => F \in Nat /\ E \in Nat)'
  BY StreamsAreNumbers, PTL
<1>3. F' # E' /\ E' \in Nat
  BY <1>1, <1>2
<1>4. Fresh' /\ InstsInOrder' /\ Numbered' /\ LinesFollow' /\ LinesContinue'
  <2>1. (Types /\ Behind /\ F # E =>
           Fresh /\ InstsInOrder /\ Numbered /\ LinesFollow /\ LinesContinue)'
    BY BehindProgram, PTL
  <2> QED BY <1>1, <1>3, <2>1
<1>5. isStreamChange(eToF1'.out) /\ beforeFetch1' => eToF1'.out.newStreamSeqNum # E'
  BY <1>1, <1>3
<1>6. Draining'
  BY <1>3, <1>4, <1>5 DEF Draining
<1> QED BY <1>4, <1>6 DEF Program

(***************************************************************************)
(* Execute commits the head and goes where it was predicted to go, or      *)
(* changes the stream.                                                     *)
(***************************************************************************)
LEMMA ProgramCommit ==
    ASSUME Types, Types', Streams', Program, CommitEffect PROVE Program'
<1>1. /\ phase = "execute" /\ insts # <<>> /\ insts' = Tail(insts)
      /\ execute.drainState \in {"NotDraining", "DrainCurrentInst"}
      /\ Head(insts).streamSeqNum = execute.streamSeqNum
      /\ Commits(Head(insts))
      /\ UNCHANGED <<fetch1, requests, transfers, fetch2, inputBuffer, f1ToF2,
                     f2ToF1, phase, needToSignalDrained>>
  BY DEF CommitEffect, fetch1Vars, fetch2Vars, pipelineVars
<1>2. Head(insts) = insts[1] /\ 1 \in DOMAIN insts
  <2>1. insts \in Seq(Inst)
    BY DEF Types
  <2> QED BY <1>1, <2>1, HeadFacts
<1>3. /\ execute'.drainState = execute.drainState /\ eToF1'.out = eToF1.out
      /\ \/ isStreamChange(eToF1'.in)
         \/ /\ ~insts[1].fault /\ ~isStreamChange(eToF1'.in)
            /\ execute'.streamSeqNum = execute.streamSeqNum
            /\ execute'.pc = nextPC(insts[1])
  BY <1>1, <1>2 DEF Commits
<1>4. CASE isStreamChange(eToF1'.in)
  <2>1. execute'.drainState = "DrainCurrentInst" => needToSignalDrained'
    BY <1>1, <1>3 DEF Program, Draining
  <2> QED BY <1>1, <1>3, <1>4, <2>1, ProgramNewStream
<1>5. CASE ~isStreamChange(eToF1'.in)
  <2>1. numLines' = numLines /\ lines' = lines
    BY <1>1 DEF numLines, lines, lineAt
  <2>2. SameFetch
    BY <1>1, <1>3, <1>5 DEF SameFetch, E, F, P1, P2
  <2>3. SamePredictions
    BY <1>1, <2>2 DEF SamePredictions, SameFetch, pendingIn, pendingOut, beforeFetch1
  <2>4. InstsInOrder' /\ (faulted' <=> faulted) /\ lastPC' = lastPC
    <3>1. InstsInOrder /\ E' = E /\ insts[1].streamSeqNum = E
      BY <1>1, <1>2, <2>2 DEF Program, SameFetch, E
    <3> QED BY <1>1, <1>3, <1>5, <3>1, TailInsts
  <2>5. Numbered' /\ LinesFollow' /\ LinesContinue' /\ (pending' <=> pending)
    BY <1>1, <2>1, <2>2, <2>3, <2>4, SameFlight DEF Program
  <2>6. ~Fresh /\ (beforeFetch1' <=> beforeFetch1)
    BY <1>1, <1>2 DEF Fresh, NoneInstd, beforeFetch1, E
  <2>7. Draining'
    BY <1>1, <1>3, <1>5, <2>2, <2>4, <2>5, <2>6, SameDraining DEF Program, SameFetch
  <2> QED BY <2>4, <2>5, <2>7 DEF Program
<1> QED BY <1>4, <1>5

(***************************************************************************)
(* It takes an interrupt.                                                  *)
(***************************************************************************)
LEMMA ProgramInterrupt ==
    ASSUME Types, Types', Streams', InterruptEffect PROVE Program'
<1>1. /\ execute'.drainState = "NotDraining" /\ isStreamChange(eToF1'.in)
  BY DEF InterruptEffect
<1> QED BY <1>1, ProgramNewStream

(***************************************************************************)
(* It ends its turn, or tells Fetch1 to halt.                              *)
(***************************************************************************)
LEMMA ProgramEndExecute ==
    ASSUME Types, Types', Streams, Streams', Program, EndExecuteEffect PROVE Program'
<1>1. /\ phase = "execute" /\ phase' = "fetch2" /\ eToF1'.out = eToF1.out
      /\ \/ Halts
         \/ /\ execute.drainState = "DrainCurrentInst"
            /\ execute' = execute /\ eToF1'.in = noBranch
         \/ /\ execute.drainState \in {"NotDraining", "DrainAllInsts"}
            /\ execute' = execute /\ eToF1' = eToF1
      /\ UNCHANGED <<fetch1, requests, transfers, fetch2, inputBuffer, f1ToF2,
                     f2ToF1, insts, needToSignalDrained>>
  BY DEF EndExecuteEffect, fetch1Vars, fetch2Vars
<1>2. CASE Halts
  BY <1>2, ProgramNewStream DEF Halts
<1>3. CASE /\ execute' = execute /\ execute.drainState # "DrainHaltFetch"
           /\ eToF1'.in = noBranch \/ eToF1' = eToF1
  <2>1. numLines' = numLines /\ lines' = lines
    BY <1>1 DEF numLines, lines, lineAt
  <2>2. SameFetch
    BY <1>1, <1>3 DEF SameFetch, E, F, P1, P2
  <2>3. SamePredictions
    BY <1>1, <2>2 DEF SamePredictions, SameFetch, pendingIn, pendingOut, beforeFetch1
  <2>4. InstsInOrder' /\ (faulted' <=> faulted) /\ lastPC' = lastPC
    BY <1>1, <1>3, <2>2, SameInsts DEF Program, SameFetch
  <2>5. Numbered' /\ LinesFollow' /\ LinesContinue' /\ (pending' <=> pending)
    BY <1>1, <2>1, <2>2, <2>3, <2>4, SameFlight DEF Program
  <2>6. ~isStreamChange(noBranch)
    BY DEF isStreamChange, noBranch
  <2>7. (Fresh => Fresh') /\ (beforeFetch1' <=> beforeFetch1)
    BY <1>1, StreamsEndExecute DEF beforeFetch1
  <2>8. Draining'
    BY <1>1, <1>3, <2>2, <2>4, <2>5, <2>6, <2>7, SameDraining DEF Program, SameFetch
  <2> QED BY <2>4, <2>5, <2>8 DEF Program
<1> QED BY <1>1, <1>2, <1>3

(***************************************************************************)
(* The latches advance.                                                    *)
(***************************************************************************)
LEMMA ProgramEndCycle ==
    ASSUME Types, Streams, Program, EndCycleEffect PROVE Program'
<1>1. /\ phase = "end" /\ phase' = "between"
      /\ f2ToF1'.in = noBranch /\ f2ToF1'.out = f2ToF1.in
      /\ eToF1'.in = noBranch /\ eToF1'.out = eToF1.in
      /\ needToSignalDrained' # needToSignalDrained =>
           \E lsqDrained \in BOOLEAN :
             /\ isDrained(advanced(f2ToF1), lsqDrained)
             /\ execute.drainState = "DrainCurrentInst" =>
                  ~executeDrained(lsqDrained)
      /\ UNCHANGED <<fetch1, requests, transfers, fetch2, inputBuffer, f1ToF2,
                     execute, insts>>
  BY DEF EndCycleEffect, fetch1Vars, fetch2Vars, executeVars
<1>2. numLines' = numLines /\ lines' = lines
  BY <1>1 DEF numLines, lines, lineAt
<1>3. SameFetch
  BY <1>1 DEF SameFetch, E, F, P1, P2
<1>4. PassedPredictions
  BY <1>1, <1>3 DEF PassedPredictions, SameFetch, pendingIn, pendingOut, beforeFetch1
<1>5. InstsInOrder' /\ (faulted' <=> faulted) /\ lastPC' = lastPC
  BY <1>1, <1>3, SameInsts DEF Program, SameFetch
<1>6. Numbered' /\ LinesFollow' /\ LinesContinue' /\ (pending' <=> pending)
  BY <1>1, <1>2, <1>3, <1>4, <1>5, SameFlight DEF Program
<1>7. /\ Fresh => Fresh'
      /\ E' = E /\ F' = F /\ P1' = P1
      /\ ~isStreamChange(eToF1'.in)
      /\ execute.drainState # "DrainHaltFetch"
      /\ execute.drainState = "DrainCurrentInst" => needToSignalDrained'
  <2>1. Fresh => Fresh'
    BY StreamsEndCycle
  <2>2. ~isStreamChange(eToF1'.in)
    BY <1>1 DEF isStreamChange, noBranch
  <2>3. execute.drainState # "DrainHaltFetch"
    BY <1>1 DEF Program, Draining
  <2>4. execute.drainState = "DrainCurrentInst" =>
          needToSignalDrained /\ needToSignalDrained' = needToSignalDrained
    BY Zenon, <1>1 DEF Program, Draining, isDrained
  <2> QED BY <1>3, <2>1, <2>2, <2>3, <2>4 DEF SameFetch
<1>8. Draining'
  <2>1. execute.drainState = "DrainAllInsts" =>
          /\ Fresh'
          /\ F = E => fetch1.state = "FetchHalted"
          /\ isStreamChange(eToF1'.out) => eToF1'.out.reason = "HaltFetch"
    BY <1>1, <1>7 DEF Program, Draining
  <2>2. /\ fetch1.state = "FetchHalted" /\ F = E => Fresh'
        /\ fetch1.state = "FetchWaitingForPC" /\ F = E =>
             \/ Fresh' \/ faulted' \/ pending'
             \/ \E i \in DOMAIN inputBuffer :
                  inputBuffer[i].fault /\ inputBuffer[i].predictionSeqNum = P1
             \/ f1ToF2 # noLine /\ f1ToF2.fault /\ f1ToF2.predictionSeqNum = P1
    BY <1>5, <1>6, <1>7 DEF Program, Draining
  <2> QED BY <1>1, <1>7, <2>1, <2>2 DEF Draining
<1> QED BY <1>5, <1>6, <1>8 DEF Program

(***************************************************************************)
(* A drained pipeline holds nothing of Execute's stream.                   *)
(***************************************************************************)
LEMMA DrainedFresh ==
    ASSUME Types, Behind, Program, NEW lsqDrained \in BOOLEAN,
           isDrained(f2ToF1, lsqDrained)
    PROVE  Fresh
<1> SUFFICES ASSUME F = E PROVE Fresh
  BY BehindFresh
<1>1. /\ fetch1.state # "FetchRunning" /\ inputBuffer = <<>> /\ insts = <<>>
      /\ f1ToF2 = noLine /\ f2ToF1 = emptyLatch
  BY DEF isDrained, fetch1Drained, fetch2Drained, executeDrained
<1>2. ~pending
  BY <1>1 DEF pending, pendingIn, pendingOut, emptyLatch
<1>3. ~faulted
  BY <1>1 DEF faulted, faultBefore
<1>4. fetch1.state \in {"FetchHalted", "FetchWaitingForPC"}
  BY <1>1 DEF Types, Fetch1Info
<1>5. DOMAIN inputBuffer = {}
  BY <1>1
<1> QED BY <1>1, <1>2, <1>3, <1>4, <1>5 DEF Program, Draining

(***************************************************************************)
(* A drain begins.                                                         *)
(***************************************************************************)
LEMMA ProgramDrain ==
    ASSUME Types, Streams, Program, DrainEffect PROVE Program'
<1>1. /\ phase = "between" /\ execute.drainState = "NotDraining"
      /\ execute'.streamSeqNum = E /\ execute'.pc = execute.pc
      /\ \E state \in {"DrainCurrentInst", "DrainHaltFetch"}, lsqDrained \in BOOLEAN :
           /\ executeDrained(lsqDrained) => state = "DrainHaltFetch"
           /\ execute'.drainState = state
           /\ needToSignalDrained' = ~isDrained(f2ToF1, lsqDrained)
      /\ UNCHANGED <<fetch1, requests, transfers, fetch2, inputBuffer, f1ToF2,
                     f2ToF1, eToF1, insts, phase>>
  BY DEF DrainEffect, fetch1Vars, fetch2Vars, latchVars
<1>2. numLines' = numLines /\ lines' = lines
  BY <1>1 DEF numLines, lines, lineAt
<1>3. SameFetch
  BY <1>1 DEF SameFetch, E, F, P1, P2
<1>4. SamePredictions
  BY <1>1, <1>3 DEF SamePredictions, SameFetch, pendingIn, pendingOut, beforeFetch1
<1>5. InstsInOrder' /\ (faulted' <=> faulted) /\ lastPC' = lastPC
  BY <1>1, <1>3, SameInsts DEF Program, SameFetch
<1>6. Numbered' /\ LinesFollow' /\ LinesContinue' /\ (pending' <=> pending)
  BY <1>1, <1>2, <1>3, <1>4, <1>5, SameFlight DEF Program
<1>7. Fresh => Fresh'
  BY StreamsDrain
<1>8. /\ execute'.drainState \in {"DrainCurrentInst", "DrainHaltFetch"}
      /\ ~needToSignalDrained' => Fresh'
      /\ execute'.drainState = "DrainCurrentInst" => needToSignalDrained'
  <2>1. PICK state \in {"DrainCurrentInst", "DrainHaltFetch"}, lsqDrained \in BOOLEAN :
          /\ executeDrained(lsqDrained) => state = "DrainHaltFetch"
          /\ execute'.drainState = state
          /\ needToSignalDrained' = ~isDrained(f2ToF1, lsqDrained)
    BY <1>1
  <2>2. ~needToSignalDrained' => isDrained(f2ToF1, lsqDrained)
    BY Zenon, <2>1
  <2>3. isDrained(f2ToF1, lsqDrained) => Fresh
    BY DrainedFresh DEF Streams
  <2>4. isDrained(f2ToF1, lsqDrained) => executeDrained(lsqDrained)
    BY DEF isDrained
  <2> QED BY <1>7, <2>1, <2>2, <2>3, <2>4
<1>9. Draining'
  <2>1. /\ fetch1.state = "FetchHalted" /\ F = E => Fresh'
        /\ fetch1.state = "FetchWaitingForPC" /\ F = E =>
             \/ Fresh' \/ faulted' \/ pending'
             \/ \E i \in DOMAIN inputBuffer :
                  inputBuffer[i].fault /\ inputBuffer[i].predictionSeqNum = P1
             \/ f1ToF2 # noLine /\ f1ToF2.fault /\ f1ToF2.predictionSeqNum = P1
    BY <1>5, <1>6, <1>7 DEF Program, Draining
  <2> QED BY <1>1, <1>3, <1>8, <2>1 DEF Draining, SameFetch
<1> QED BY <1>5, <1>6, <1>9 DEF Program

(***************************************************************************)
(* Fetch1 is woken when nothing of Execute's stream has been requested: it *)
(* goes on where Execute is.                                               *)
(***************************************************************************)
LEMMA ProgramWakes ==
    ASSUME Types, Types', Streams, Streams', Program, Wakes, Fresh,
           \/ execute'.drainState = "NotDraining"
           \/ /\ execute'.drainState = execute.drainState
              /\ execute.drainState # "DrainAllInsts"
    PROVE  Program'
<1>1. /\ fetch1'.state = "FetchRunning" /\ fetch1'.pc = execute'.pc
      /\ E' = E /\ F' = F /\ P1' = P1 /\ P2' = P2
      /\ UNCHANGED <<requests, transfers, fetch2, inputBuffer, f1ToF2, f2ToF1,
                     eToF1, insts, phase, needToSignalDrained>>
  BY DEF Wakes, fetch2Vars, latchVars, E, F, P1, P2
<1>2. Fresh'
  BY Zenon, <1>1 DEF Fresh, NoneInstd, NoneFetched, pending, pendingIn, pendingOut,
              following, beforeFetch1
<1>3. Draining'
  BY <1>1, <1>2 DEF Program, Draining
<1>4. CASE F' # E'
  <2>1. (Types /\ Behind /\ F # E =>
           Fresh /\ InstsInOrder /\ Numbered /\ LinesFollow /\ LinesContinue)'
    BY BehindProgram, PTL
  <2> QED BY <1>3, <1>4, <2>1 DEF Streams, Program
<1>5. CASE F' = E'
  <2>1. (Types /\ Fresh =>
          /\ InstsInOrder /\ ~faulted /\ lastPC = execute.pc
          /\ ~pending /\ ~pendingIn /\ ~pendingOut /\ ~following
          /\ \A i \in 1 .. numLines : lines[i].s # E
          /\ Flow(lines, numLines, E, P1, fetch1.fetchAddr))'
    BY FreshFacts, PTL
  <2>2. /\ InstsInOrder' /\ ~faulted' /\ lastPC' = execute'.pc
        /\ ~pending' /\ ~pendingIn' /\ ~pendingOut' /\ ~following'
        /\ \A i \in 1 .. numLines' : lines'[i].s # E'
        /\ Flow(lines', numLines', E', P1', fetch1'.fetchAddr)
    BY <1>2, <2>1
  <2>3. fetch2.expectedStreamSeqNum = E => P1 = P2
    <3>1. ~pending /\ F = E
      BY <1>1, <1>5 DEF Fresh
    <3> QED BY <3>1 DEF Program, Numbered
  <2>4. Numbered'
    BY <1>1, <2>2, <2>3 DEF Numbered
  <2>5. /\ \A i \in DOMAIN inputBuffer' : FALSE
        /\ f1ToF2' = noLine
    <3>1. /\ \A i \in DOMAIN inputBuffer' : inputBuffer'[i].streamSeqNum = F'
          /\ f1ToF2' # noLine => f1ToF2'.streamSeqNum = F'
      BY DEF Streams, Behind
    <3>2. /\ \A i \in DOMAIN inputBuffer' : inputBuffer'[i].streamSeqNum # E'
          /\ f1ToF2' # noLine => f1ToF2'.streamSeqNum # E'
      BY <1>2 DEF Fresh, NoneFetched
    <3> QED BY <1>5, <3>1, <3>2
  <2>6. LinesFollow'
    BY <2>2, <2>5 DEF LinesFollow
  <2>7. LinesContinue'
    BY <1>1, <2>2 DEF LinesContinue
  <2> QED BY <1>3, <2>2, <2>4, <2>6, <2>7 DEF Program
<1> QED BY <1>4, <1>5

(***************************************************************************)
(* The steps of Fetch1 and Fetch2 while Fetch1 is behind.                  *)
(***************************************************************************)
LEMMA ProgramBehind ==
    ASSUME Types', Streams', Draining, F' # E', E' = E,
           execute'.drainState = execute.drainState,
           execute.drainState # "DrainHaltFetch",
           UNCHANGED <<eToF1, needToSignalDrained>>,
           beforeFetch1' => beforeFetch1
    PROVE  Program'
<1>1. Fresh' /\ InstsInOrder' /\ Numbered' /\ LinesFollow' /\ LinesContinue'
  <2>1. (Types /\ Behind /\ F # E =>
           Fresh /\ InstsInOrder /\ Numbered /\ LinesFollow /\ LinesContinue)'
    BY BehindProgram, PTL
  <2> QED BY <2>1 DEF Streams
<1>2. /\ execute.drainState = "DrainAllInsts" =>
           /\ isStreamChange(eToF1.in) => eToF1.in.reason = "HaltFetch"
           /\ isStreamChange(eToF1.out) /\ beforeFetch1'
                /\ eToF1.out.newStreamSeqNum = E => eToF1.out.reason = "HaltFetch"
      /\ execute.drainState = "DrainCurrentInst" => needToSignalDrained
  BY DEF Draining
<1>3. Draining'
  BY <1>1, <1>2 DEF Draining
<1> QED BY <1>1, <1>3 DEF Program

(***************************************************************************)
(* Lines that are lost leave the others numbered.                          *)
(***************************************************************************)
LEMMA NumberedAmong ==
    ASSUME Numbered, E' = E, F' = F, P1' = P1, P2' = P2, SamePredictions,
           fetch2'.expectedStreamSeqNum = fetch2.expectedStreamSeqNum,
           pending => ~following',
           \A i \in 1 .. numLines' : \E j \in 1 .. numLines : lines'[i] = lines[j]
    PROVE  Numbered' /\ (pending' <=> pending)
<1>1. pending' <=> pending
  BY DEF pending, SamePredictions
<1>2. CASE F # E
  BY <1>1, <1>2 DEF Numbered
<1>3. CASE F = E
  <2>1. /\ \A i \in 1 .. numLines : lines[i].s = E => lines[i].p <= P1
        /\ fetch2.expectedStreamSeqNum # E =>
             ~pending /\ \A i \in 1 .. numLines : lines[i].s = E => lines[i].p = P1
        /\ fetch2.expectedStreamSeqNum = E =>
             IF pending THEN P1 < P2 ELSE P1 = P2
        /\ pendingIn => ~pendingOut /\ f2ToF1.in.newPredictionSeqNum = P2
        /\ pendingOut => f2ToF1.out.newPredictionSeqNum = P2
    BY <1>3 DEF Numbered
  <2>2. \A i \in 1 .. numLines' :
          /\ lines'[i].s = E => lines'[i].p <= P1
          /\ fetch2.expectedStreamSeqNum # E =>
               (lines'[i].s = E => lines'[i].p = P1)
    BY <2>1
  <2> QED BY <1>1, <2>1, <2>2 DEF Numbered, SamePredictions
<1> QED BY <1>2, <1>3

(***************************************************************************)
(* Fetch1 drops a line with other numbers than its own, or sends one with  *)
(* its PC.                                                                 *)
(***************************************************************************)
LEMMA ProgramDeliver ==
    ASSUME Types, Types', LatchTaken, Streams, Streams', Program, DeliverEffect
    PROVE  Program'
<1>1. /\ phase = "deliver" /\ phase' = "end"
      /\ fetch1'.pc = fetch1.pc /\ fetch1'.fetchAddr = fetch1.fetchAddr
      /\ fetch1'.streamSeqNum = F /\ fetch1'.predictionSeqNum = P1
      /\ \/ /\ StaysPut \/ \E t \in Transfer : Drops(t)
            /\ fetch1'.state = fetch1.state
         \/ \E t \in Transfer, line \in Line :
              /\ Sends(t, line)
              /\ fetch1'.state = IF line.fault THEN "FetchWaitingForPC"
                                               ELSE fetch1.state
      /\ UNCHANGED <<requests, fetch2, inputBuffer, f2ToF1, eToF1, execute, insts,
                     needToSignalDrained>>
  BY Zenon DEF DeliverEffect, executeVars
<1>2. /\ f1ToF2 = noLine /\ ~beforeFetch1 /\ ~beforeFetch1'
      /\ execute.drainState # "DrainHaltFetch"
      /\ Fresh => Fresh'
  BY Zenon, <1>1, StreamsDeliver DEF LatchTaken, beforeFetch1, Program, Draining
<1>3. SameFetch
  BY Zenon, <1>1 DEF SameFetch, E, F, P1, P2
<1>4. SamePredictions
  BY Zenon, <1>1, <1>2, <1>3 DEF SamePredictions, SameFetch, pendingIn, pendingOut
<1>5. InstsInOrder' /\ (faulted' <=> faulted) /\ lastPC' = lastPC
  BY Zenon, <1>1, <1>3, SameInsts DEF Program, SameFetch
<1>6. CASE StaysPut /\ fetch1'.state = fetch1.state
  <2>1. numLines' = numLines /\ lines' = lines /\ f1ToF2' = f1ToF2
    BY Zenon, <1>1, <1>6 DEF numLines, lines, lineAt, StaysPut
  <2>2. Numbered' /\ LinesFollow' /\ LinesContinue' /\ (pending' <=> pending)
    BY ZenonT(30), <1>1, <1>3, <1>4, <1>5, <2>1, SameFlight DEF Program
  <2>3. Draining'
    BY <1>1, <1>2, <1>3, <1>5, <1>6, <2>1, <2>2, SameDraining DEF Program, SameFetch
  <2> QED BY <1>5, <2>2, <2>3 DEF Program
<1>7. ASSUME NEW t \in Transfer, Drops(t), fetch1'.state = fetch1.state
      PROVE  Program'
  <2>1. /\ transfers # <<>> /\ t = Head(transfers) /\ transfers' = Tail(transfers)
        /\ t.streamSeqNum # F \/ t.predictionSeqNum # P1
        /\ f1ToF2' = f1ToF2
    BY <1>7 DEF Drops
  <2>2. Head(transfers) = transfers[1]
    <3>1. transfers \in Seq(Transfer)
      BY DEF Types
    <3> QED BY <2>1, <3>1, HeadFacts
  <2>3. PICK k \in 1 .. numLines :
          /\ numLines \in Nat /\ numLines' = numLines - 1
          /\ \A i \in 1 .. k - 1 : lines'[i] = lines[i]
          /\ \A i \in k .. numLines - 1 : lines'[i] = lines[i + 1]
          /\ lines[k].s = transfers[1].streamSeqNum
          /\ lines[k].p = transfers[1].predictionSeqNum
    BY <1>1, <1>2, <2>1, LinesRemoved
  <2>4. lines[k].s # F \/ lines[k].p # P1
    BY <2>1, <2>2, <2>3
  <2>5. ASSUME NEW i \in 1 .. numLines'
        PROVE  \E j \in 1 .. numLines : lines'[i] = lines[j]
    <3>1. i \in 1 .. numLines - 1
      BY <2>3
    <3>2. \/ i \in 1 .. k - 1 /\ i \in 1 .. numLines
          \/ i \in k .. numLines - 1 /\ i + 1 \in 1 .. numLines
      BY <2>3, <3>1
    <3> QED BY <2>3, <3>2
  <2>6. F = E => ~following
    BY <2>4 DEF Program, LinesFollow
  <2>7. following' <=> following
    BY <1>3 DEF following, SameFetch
  <2>8. F = E => (pending => ~following')
    BY <2>6, <2>7
  <2>9. CASE F # E
    <3>1. F' # E' /\ E' = E /\ execute'.drainState = execute.drainState
      BY <1>1, <1>3, <2>9 DEF SameFetch
    <3> QED BY <1>1, <1>2, <3>1, ProgramBehind DEF Program
  <2>10. CASE F = E
    <3>1. Numbered' /\ (pending' <=> pending)
      BY <1>3, <1>4, <2>5, <2>8, <2>10, NumberedAmong DEF Program, SameFetch
    <3>2. ASSUME ~pending
          PROVE  /\ Flow(lines', numLines', E', P1', fetch1'.fetchAddr)
                 /\ \A i \in DOMAIN inputBuffer' :
                      inputBuffer'[i].predictionSeqNum = P1' =>
                        inputBuffer'[i].pc = fetch1'.pc
      <4>1. /\ Flow(lines, numLines, E, P1, fetch1.fetchAddr)
            /\ \A i \in DOMAIN inputBuffer :
                 inputBuffer[i].predictionSeqNum = P1 =>
                   inputBuffer[i].pc = fetch1.pc
        BY <2>10, <3>2 DEF Program, LinesFollow
      <4>2. ~(lines[k].s = E /\ lines[k].p = P1)
        BY <2>4, <2>10
      <4>3. Flow(lines', numLines - 1, E, P1, fetch1.fetchAddr)
        BY Zenon, <2>3, <4>1, <4>2, FlowRemove
      <4> QED BY <1>1, <1>3, <2>3, <4>1, <4>3 DEF SameFetch
    <3>3. LinesFollow'
      BY <1>2, <2>1, <2>6, <2>7, <2>10, <3>1, <3>2 DEF LinesFollow
    <3>4. LinesContinue'
      BY <1>3, <1>4, <1>5, <2>7, <3>1
         DEF Program, LinesContinue, SameFetch, SamePredictions
    <3>5. Draining'
      BY <1>1, <1>2, <1>3, <1>5, <1>7, <2>1, <3>1, SameDraining DEF Program, SameFetch
    <3> QED BY <1>5, <3>1, <3>3, <3>4, <3>5 DEF Program
  <2> QED BY <2>9, <2>10
<1>8. ASSUME NEW t \in Transfer, NEW line \in Line, Sends(t, line),
             fetch1'.state = IF line.fault THEN "FetchWaitingForPC"
                                           ELSE fetch1.state
      PROVE  Program'
  <2>1. /\ transfers # <<>> /\ t = Head(transfers) /\ transfers' = Tail(transfers)
        /\ t.streamSeqNum = F /\ t.predictionSeqNum = P1
        /\ f1ToF2' = line /\ line.pc = fetch1.pc
        /\ SameLine(line, t)
    BY <1>8 DEF Sends, SameLine
  <2>2. Head(transfers) = transfers[1] /\ 1 \in DOMAIN transfers
    <3>1. transfers \in Seq(Transfer)
      BY DEF Types
    <3> QED BY <2>1, <3>1, HeadFacts
  <2>3. line # noLine
    BY LineNotBubble
  <2>4. numLines' = numLines /\ lines' = lines
    BY Zenon, <1>1, <1>2, <2>1, <2>2, <2>3, LinesSent
  <2>5. Numbered' /\ LinesFollow' /\ LinesContinue' /\ (pending' <=> pending)
    BY Zenon, <1>1, <1>3, <1>4, <1>5, <2>1, <2>4, SameFlight DEF Program
  <2>6. CASE F # E
    <3>1. F' # E' /\ E' = E /\ execute'.drainState = execute.drainState
      BY <1>1, <1>3, <2>6 DEF SameFetch
    <3> QED BY <1>1, <1>2, <3>1, ProgramBehind DEF Program
  <2>7. CASE F = E
    <3>1. ~Fresh
      BY <2>1, <2>2, <2>7 DEF Fresh, NoneFetched
    <3>2. execute.drainState # "DrainAllInsts" /\ fetch1.state # "FetchHalted"
      BY <2>7, <3>1 DEF Program, Draining
    <3>3. fetch1'.state = "FetchWaitingForPC" =>
            \/ faulted' \/ pending'
            \/ \E i \in DOMAIN inputBuffer' :
                 inputBuffer'[i].fault /\ inputBuffer'[i].predictionSeqNum = P1'
            \/ f1ToF2' # noLine /\ f1ToF2'.fault /\ f1ToF2'.predictionSeqNum = P1'
      <4>1. CASE line.fault
        BY <1>3, <2>1, <2>3, <4>1 DEF SameLine, SameFetch
      <4>2. CASE ~line.fault
        <5>1. fetch1.state = "FetchWaitingForPC" =>
                \/ faulted \/ pending
                \/ \E i \in DOMAIN inputBuffer :
                     inputBuffer[i].fault /\ inputBuffer[i].predictionSeqNum = P1
          BY <1>2, <2>7, <3>1 DEF Program, Draining
        <5> QED BY <1>1, <1>3, <1>5, <1>8, <2>5, <4>2, <5>1 DEF SameFetch
      <4> QED BY <4>1, <4>2
    <3>4. execute.drainState = "DrainCurrentInst" => needToSignalDrained
      BY DEF Program, Draining
    <3>5. fetch1'.state # "FetchHalted"
      BY <1>8, <3>2
    <3>6. Draining'
      BY <1>1, <1>2, <3>2, <3>3, <3>4, <3>5 DEF Draining
    <3> QED BY <1>5, <2>5, <3>6 DEF Program
  <2> QED BY <2>6, <2>7
<1> QED BY Zenon, <1>1, <1>6, <1>7, <1>8

(***************************************************************************)
(* Places once more: the one after a, and places k further on.             *)
(***************************************************************************)
LEMMA LastPlace ==
    ASSUME NEW a \in Nat, NEW b \in Nat, b = a \/ b = a + 1,
           NEW i \in 1 .. b, ~(i <= a)
    PROVE  i = b /\ b = a + 1 /\ b # a
OBVIOUS

(***************************************************************************)
(* What is k places on in a list that is k longer.                         *)
(***************************************************************************)
LEMMA FurtherOn ==
    ASSUME NEW k \in Nat, NEW n \in Nat, NEW m \in Nat, n = m + k
    PROVE  /\ \A i \in 1 .. m : i + k \in 1 .. n
           /\ k = 0 => m = n /\ \A i \in 1 .. m : i + k = i
OBVIOUS

(***************************************************************************)
(* The lines that have arrived at Fetch2 are the first.                    *)
(***************************************************************************)
LEMMA ArrivedLines ==
    ASSUME Types
    PROVE  /\ Len(arrived) = b1 /\ b1 \in Nat
           /\ \A i \in 1 .. b1 :
                /\ i \in 1 .. numLines
                /\ lines[i].s = arrived[i].streamSeqNum
                /\ lines[i].p = arrived[i].predictionSeqNum
                /\ \/ i \in DOMAIN inputBuffer /\ arrived[i] = inputBuffer[i]
                   \/ f1ToF2 # noLine /\ arrived[i] = f1ToF2
           /\ \A i \in DOMAIN inputBuffer : i \in 1 .. b1 /\ arrived[i] = inputBuffer[i]
           /\ f1ToF2 # noLine => b1 \in 1 .. b1 /\ arrived[b1] = f1ToF2
<1>1. /\ inputBuffer \in Seq(Line) /\ (f1ToF2 # noLine => f1ToF2 \in Line)
  BY DEF Types
<1>2. /\ b1 \in Nat /\ b2 \in Nat /\ b2 <= b1 /\ b1 <= numLines /\ numLines \in Nat
      /\ DOMAIN inputBuffer = 1 .. b2 /\ b2 = Len(inputBuffer)
  <2>1. b1 \in Nat /\ bt \in Nat /\ b1 <= bt /\ bt <= numLines /\ numLines \in Nat
    BY Places
  <2>2. b2 \in Nat /\ b2 <= b1 /\ DOMAIN inputBuffer = 1 .. b2
    BY Places
  <2> QED BY <2>1, <2>2 DEF b2
<1>3. /\ Len(arrived) = b1
      /\ \A i \in 1 .. b2 : i \in 1 .. b1 /\ arrived[i] = inputBuffer[i]
      /\ f1ToF2 # noLine => b1 = b2 + 1 /\ arrived[b1] = f1ToF2
      /\ f1ToF2 = noLine => b1 = b2
  <2>1. CASE f1ToF2 = noLine
    <3>1. b1 = b2
      BY <1>2, <2>1 DEF b1
    <3> QED BY <1>2, <2>1, <3>1 DEF arrived
  <2>2. CASE f1ToF2 # noLine
    <3>1. /\ Len(arrived) = Len(inputBuffer) + 1 /\ Len(inputBuffer) \in Nat
          /\ \A j \in 1 .. Len(inputBuffer) : arrived[j] = inputBuffer[j]
          /\ arrived[Len(inputBuffer) + 1] = f1ToF2
      BY <1>1, <2>2, AppendFacts DEF arrived
    <3>2. b1 = Len(inputBuffer) + 1 /\ b2 = Len(inputBuffer)
      BY <2>2 DEF b1, b2
    <3> QED BY <2>2, <3>1, <3>2
  <2> QED BY <2>1, <2>2
<1>4. ASSUME NEW i \in 1 .. b1
      PROVE  /\ i \in 1 .. numLines /\ lineAt(i) = arrived[i]
             /\ \/ i \in DOMAIN inputBuffer /\ arrived[i] = inputBuffer[i]
                \/ f1ToF2 # noLine /\ arrived[i] = f1ToF2
  <2>1. i \in 1 .. numLines /\ i <= b1
    BY <1>2
  <2>2. CASE i <= b2
    <3>1. i \in 1 .. b2
      BY <1>2, <2>2
    <3> QED BY Zenon, <1>2, <1>3, <2>1, <2>2, <3>1, LineAtIs
  <2>3. CASE ~(i <= b2)
    <3>1. b1 = b2 \/ b1 = b2 + 1
      BY <1>3
    <3>2. i = b1 /\ b1 # b2
      BY Zenon, <1>2, <2>3, <3>1, LastPlace
    <3>3. f1ToF2 # noLine
      BY <1>3, <3>2
    <3> QED BY <1>3, <2>1, <2>3, <3>2, <3>3, LineAtIs
  <2> QED BY <2>2, <2>3
<1>5. ASSUME NEW i \in 1 .. b1
      PROVE  /\ i \in 1 .. numLines
             /\ lines[i].s = arrived[i].streamSeqNum
             /\ lines[i].p = arrived[i].predictionSeqNum
             /\ \/ i \in DOMAIN inputBuffer /\ arrived[i] = inputBuffer[i]
                \/ f1ToF2 # noLine /\ arrived[i] = f1ToF2
  BY <1>4, LineAt
<1>6. f1ToF2 # noLine => b1 \in 1 .. b1
  <2>1. \A b \in Nat, a \in Nat : b = a + 1 => b \in 1 .. b
    OBVIOUS
  <2> QED BY Zenon, <1>2, <1>3, <2>1
<1> QED BY <1>2, <1>3, <1>5, <1>6

(***************************************************************************)
(* Fetch2 throws away lines of old predictions.                            *)
(***************************************************************************)
LEMMA WrongDropped ==
    ASSUME Types, Types', Streams, Program, F = E, NEW k \in Nat,
           Suffix(inputBuffer', arrived, k),
           \A i \in 1 .. k : wrongPrediction(arrived[i]),
           k = 0 => /\ fetch2'.havePC = fetch2.havePC
                    /\ fetch2'.inputIndex = fetch2.inputIndex
                    /\ fetch2'.pc = fetch2.pc
                    /\ fetch2'.lastStreamSeqNum = fetch2.lastStreamSeqNum,
           k # 0 => ~fetch2'.havePC,
           fetch2'.expectedStreamSeqNum = fetch2.expectedStreamSeqNum,
           fetch2'.predictionSeqNum = fetch2.predictionSeqNum,
           f1ToF2' = noLine, beforeFetch1, beforeFetch1',
           UNCHANGED <<fetch1, transfers, requests, execute, insts, f2ToF1, eToF1,
                       needToSignalDrained>>,
           execute.drainState # "DrainHaltFetch", Fresh => Fresh'
    PROVE  Program'
<1>1. E' = E /\ F' = F /\ P1' = P1 /\ P2' = P2
  BY DEF E, F, P1, P2
<1>2. SamePredictions
  BY <1>1 DEF SamePredictions, pendingIn, pendingOut
<1>3. InstsInOrder' /\ (faulted' <=> faulted) /\ lastPC' = lastPC
  BY <1>1, SameInsts DEF Program
<1>4. /\ numLines' \in Nat /\ numLines = numLines' + k /\ numLines \in Nat
      /\ \A i \in 1 .. numLines' : lines'[i] = lines[i + k]
  BY LinesDropped, Places
<1>5. ASSUME NEW i \in 1 .. b1
      PROVE  /\ i \in 1 .. numLines /\ arrived[i].streamSeqNum = E
             /\ lines[i].s = E /\ lines[i].p = arrived[i].predictionSeqNum
             /\ \/ i \in DOMAIN inputBuffer /\ arrived[i] = inputBuffer[i]
                \/ f1ToF2 # noLine /\ arrived[i] = f1ToF2
  <2>1. /\ i \in 1 .. numLines
        /\ lines[i].s = arrived[i].streamSeqNum
        /\ lines[i].p = arrived[i].predictionSeqNum
        /\ \/ i \in DOMAIN inputBuffer /\ arrived[i] = inputBuffer[i]
           \/ f1ToF2 # noLine /\ arrived[i] = f1ToF2
    BY ArrivedLines
  <2> QED BY <2>1 DEF Streams, Behind
<1>6. k \in 0 .. b1 /\ b1 \in Nat /\ Len(inputBuffer') = b1 - k
      /\ \A i \in 1 .. Len(inputBuffer') : inputBuffer'[i] = arrived[i + k]
  BY ArrivedLines DEF Suffix
<1>7. ASSUME NEW i \in 1 .. k
      PROVE  /\ i \in 1 .. b1 /\ fetch2.expectedStreamSeqNum = E
             /\ arrived[i].predictionSeqNum # P2
  <2>1. i \in 1 .. b1
    BY <1>6
  <2> QED BY <1>5, <2>1 DEF wrongPrediction, P2
<1>8. /\ fetch2.expectedStreamSeqNum = E => IF pending THEN P1 < P2 ELSE P1 = P2
      /\ pending => ~following
  BY DEF Program, Numbered
<1>9. k # 0 => ~following
  <2> SUFFICES ASSUME k # 0, following PROVE FALSE
    OBVIOUS
  <2>1. 1 \in 1 .. k
    OBVIOUS
  <2>2. 1 \in 1 .. numLines /\ lines[1].p # P2 /\ fetch2.expectedStreamSeqNum = E
    BY <1>5, <1>7, <2>1
  <2>3. lines[1].p = P1
    BY <2>2 DEF Program, LinesFollow
  <2> QED BY <1>8, <2>2, <2>3
<1>10. following' <=> following
  <2>1. CASE k = 0
    BY <1>1, <2>1 DEF following
  <2>2. CASE k # 0
    BY <1>9, <2>2 DEF following
  <2> QED BY <2>1, <2>2
<1>11. Numbered' /\ (pending' <=> pending)
  <2>1. ASSUME NEW i \in 1 .. numLines'
        PROVE  \E j \in 1 .. numLines : lines'[i] = lines[j]
    <3>1. i + k \in 1 .. numLines
      BY Zenon, <1>4, FurtherOn
    <3> QED BY Zenon, <1>4, <3>1
  <2> QED BY <1>1, <1>2, <1>8, <1>10, <2>1, NumberedAmong DEF Program
<1>12. ASSUME NEW i \in DOMAIN inputBuffer'
       PROVE  /\ i + k \in 1 .. b1 /\ inputBuffer'[i] = arrived[i + k]
  <2>1. DOMAIN inputBuffer' = 1 .. Len(inputBuffer')
    BY DEF Types
  <2>2. i \in 1 .. Len(inputBuffer') /\ i \in 1 .. b1 - k
    BY Zenon, <1>6, <2>1
  <2>3. i + k \in 1 .. b1
    BY SMTT(30), <1>6, <2>2
  <2> QED BY <1>6, <2>2, <2>3
<1>13. LinesFollow'
  <2>1. ASSUME ~pending
        PROVE  /\ Flow(lines', numLines', E', P1', fetch1'.fetchAddr)
               /\ \A i \in DOMAIN inputBuffer' :
                    inputBuffer'[i].predictionSeqNum = P1' =>
                      inputBuffer'[i].pc = fetch1'.pc
    <3>1. /\ Flow(lines, numLines, E, P1, fetch1.fetchAddr)
          /\ \A i \in DOMAIN inputBuffer :
               inputBuffer[i].predictionSeqNum = P1 => inputBuffer[i].pc = fetch1.pc
          /\ f1ToF2 # noLine =>
               (f1ToF2.predictionSeqNum = P1 => f1ToF2.pc = fetch1.pc)
      BY <2>1 DEF Program, LinesFollow
    <3>2. Flow(lines', numLines', E, P1, fetch1.fetchAddr)
      BY Zenon, <1>4, <3>1, FlowDrop
    <3>3. \A i \in 1 .. b1 :
            arrived[i].predictionSeqNum = P1 => arrived[i].pc = fetch1.pc
      BY Zenon, <1>5, <3>1
    <3> QED BY ZenonT(30), <1>1, <1>12, <3>2, <3>3
  <2>2. ASSUME following
        PROVE  /\ \A i \in 1 .. numLines' : lines'[i].s = E /\ lines'[i].p = P1
               /\ IF numLines' = 0
                    THEN /\ fetch1.fetchAddr = fetch2'.pc /\ fetch2'.inputIndex = 0
                         /\ fetch1.fetchAddr % lineWidth = 0
                    ELSE (lines'[1].b + fetch2'.inputIndex) % AddrSpace = fetch2'.pc
    <3>1. k = 0 /\ numLines' = numLines /\ \A i \in 1 .. numLines : lines'[i] = lines[i]
      <4>1. k = 0
        BY <1>9, <2>2
      <4>2. /\ numLines' = numLines
            /\ \A i \in 1 .. numLines' : i + k = i
        BY ZenonT(30), <1>4, <4>1, FurtherOn
      <4> QED BY Zenon, <1>4, <4>1, <4>2
    <3>2. /\ \A i \in 1 .. numLines : lines[i].s = E /\ lines[i].p = P1
          /\ IF numLines = 0
               THEN /\ fetch1.fetchAddr = fetch2.pc /\ fetch2.inputIndex = 0
                    /\ fetch1.fetchAddr % lineWidth = 0
               ELSE (lines[1].b + fetch2.inputIndex) % AddrSpace = fetch2.pc
      BY <2>2 DEF Program, LinesFollow
    <3>3. numLines # 0 => 1 \in 1 .. numLines
      BY SMTT(30), <1>4
    <3> QED BY <3>1, <3>2, <3>3
  <2> QED BY Zenon, <1>1, <1>10, <1>11, <2>1, <2>2 DEF LinesFollow
<1>14. LinesContinue'
  <2>1. following => fetch2'.pc = fetch2.pc
    BY <1>9
  <2> QED BY <1>1, <1>2, <1>3, <1>10, <1>11, <2>1
      DEF Program, LinesContinue, SamePredictions
<1>15. ASSUME fetch1.state = "FetchWaitingForPC"
       PROVE  \/ Fresh' \/ faulted' \/ pending'
              \/ \E i \in DOMAIN inputBuffer' :
                   inputBuffer'[i].fault /\ inputBuffer'[i].predictionSeqNum = P1'
  <2> SUFFICES ASSUME ~Fresh, ~faulted, ~pending
               PROVE  \E i \in DOMAIN inputBuffer' :
                        inputBuffer'[i].fault /\ inputBuffer'[i].predictionSeqNum = P1'
    BY <1>3, <1>11
  <2>1. PICK i \in 1 .. b1 : arrived[i].fault /\ arrived[i].predictionSeqNum = P1
    <3>1. \/ \E i \in DOMAIN inputBuffer :
               inputBuffer[i].fault /\ inputBuffer[i].predictionSeqNum = P1
          \/ f1ToF2 # noLine /\ f1ToF2.fault /\ f1ToF2.predictionSeqNum = P1
      BY <1>15 DEF Program, Draining
    <3>2. /\ \A j \in DOMAIN inputBuffer : j \in 1 .. b1 /\ arrived[j] = inputBuffer[j]
          /\ f1ToF2 # noLine => b1 \in 1 .. b1 /\ arrived[b1] = f1ToF2
      BY ArrivedLines
    <3> QED BY <3>1, <3>2
  <2>2. i \notin 1 .. k
    BY Zenon, <1>7, <1>8, <2>1
  <2>3. i - k \in 1 .. Len(inputBuffer') /\ (i - k) + k = i
    BY <1>6, <2>2
  <2>4. i - k \in DOMAIN inputBuffer' /\ inputBuffer'[i - k] = arrived[i]
    <3>1. DOMAIN inputBuffer' = 1 .. Len(inputBuffer')
      BY DEF Types
    <3> QED BY <1>6, <2>3, <3>1
  <2> QED BY <1>1, <2>1, <2>4
<1>16. Draining'
  <2>1. /\ execute.drainState = "DrainAllInsts" =>
             /\ Fresh'
             /\ fetch1.state = "FetchHalted"
             /\ isStreamChange(eToF1.in) => eToF1.in.reason = "HaltFetch"
             /\ isStreamChange(eToF1.out)
                  /\ eToF1.out.newStreamSeqNum = E => eToF1.out.reason = "HaltFetch"
        /\ execute.drainState = "DrainCurrentInst" => needToSignalDrained
        /\ fetch1.state = "FetchHalted" => Fresh'
    BY Zenon DEF Program, Draining
  <2> QED BY Zenon, <1>1, <1>15, <2>1 DEF Draining
<1> QED BY <1>3, <1>11, <1>13, <1>14, <1>16 DEF Program

(***************************************************************************)
(* The beginning of Fetch2's turn.                                         *)
(***************************************************************************)
LEMMA ProgramStartFetch2 ==
    ASSUME Types, Types', Streams, Streams', Program, StartFetch2Effect PROVE Program'
<1>1. /\ phase = "fetch2" /\ phase' \in {"lines", "fetch2 end"}
      /\ KeepsFetch2 /\ f1ToF2' = noLine
      /\ ~isStreamChange(eToF1.out) =>
           \E k \in Nat :
             /\ Suffix(inputBuffer', arrived, k)
             /\ \A i \in 1 .. k : wrongPrediction(arrived[i])
             /\ k = 0 => /\ fetch2'.havePC = fetch2.havePC
                         /\ fetch2'.inputIndex = fetch2.inputIndex
             /\ k # 0 => fetch2'.havePC = FALSE
      /\ UNCHANGED <<fetch1, transfers, requests, f2ToF1, eToF1, execute, insts,
                     needToSignalDrained>>
  BY Zenon DEF StartFetch2Effect, fetch1Vars, executeVars
<1>2. beforeFetch1 /\ beforeFetch1' /\ execute.drainState # "DrainHaltFetch"
  BY Zenon, <1>1 DEF beforeFetch1, Program, Draining
<1>3. E' = E /\ F' = F /\ (Fresh => Fresh')
  BY Zenon, <1>1, StreamsStartFetch2 DEF E, F
<1>4. CASE F # E
  BY Zenon, <1>1, <1>2, <1>3, <1>4, ProgramBehind DEF Program
<1>5. CASE F = E
  <2>1. ~isStreamChange(eToF1.out)
    <3>1. isStreamChange(eToF1.out) =>
            F < eToF1.out.newStreamSeqNum /\ eToF1.out.newStreamSeqNum <= E
      BY <1>2 DEF Streams, Ahead
    <3> QED BY <1>5, <3>1, StreamNumbers
  <2>2. PICK k \in Nat :
          /\ Suffix(inputBuffer', arrived, k)
          /\ \A i \in 1 .. k : wrongPrediction(arrived[i])
          /\ k = 0 => /\ fetch2'.havePC = fetch2.havePC
                      /\ fetch2'.inputIndex = fetch2.inputIndex
          /\ k # 0 => fetch2'.havePC = FALSE
    BY Zenon, <1>1, <2>1
  <2>3. /\ fetch2'.pc = fetch2.pc
        /\ fetch2'.lastStreamSeqNum = fetch2.lastStreamSeqNum
        /\ fetch2'.expectedStreamSeqNum = fetch2.expectedStreamSeqNum
        /\ fetch2'.predictionSeqNum = fetch2.predictionSeqNum
    BY Zenon, <1>1 DEF KeepsFetch2
  <2> QED BY ZenonT(30), <1>1, <1>2, <1>3, <1>5, <2>2, <2>3, WrongDropped
<1> QED BY <1>4, <1>5
=============================================================================
