----------------------------- MODULE FetchProofs ----------------------------
(***************************************************************************)
(* What is proved about Fetch for every address space, line width, program *)
(* and size of the queues.  First the two actions that FetchProgramProofs  *)
(* leaves: Fetch2 takes an instruction from a line, Fetch1 requests one.   *)
(***************************************************************************)
EXTENDS FetchStepProofs, FetchProgramProofs

(***************************************************************************)
(* Fetch2 looks at its first line.  What is left of its lines.             *)
(***************************************************************************)
LEMMA LinesLeft ==
    ASSUME Types, f1ToF2 = noLine, inputBuffer # <<>>
    PROVE  /\ inputBuffer' = <<>> => Suffix(inputBuffer', arrived, Len(inputBuffer))
           /\ inputBuffer' = Tail(inputBuffer) => Suffix(inputBuffer', arrived, 1)
           /\ inputBuffer' = inputBuffer => Suffix(inputBuffer', arrived, 0)
<1>1. arrived = inputBuffer /\ inputBuffer \in Seq(Line)
  BY DEF arrived, Types
<1>2. /\ Len(Tail(inputBuffer)) = Len(inputBuffer) - 1 /\ Len(inputBuffer) \in Nat
      /\ Len(inputBuffer) # 0
      /\ \A i \in 1 .. Len(inputBuffer) - 1 : Tail(inputBuffer)[i] = inputBuffer[i + 1]
  BY <1>1, TailFacts
<1>3. ASSUME inputBuffer' = <<>> PROVE Suffix(inputBuffer', arrived, Len(inputBuffer))
  <2>1. Len(inputBuffer') = 0 /\ 1 .. 0 = {}
    BY <1>3
  <2> QED BY <1>1, <1>2, <2>1 DEF Suffix
<1>4. ASSUME inputBuffer' = Tail(inputBuffer) PROVE Suffix(inputBuffer', arrived, 1)
  BY <1>1, <1>2, <1>4 DEF Suffix
<1>5. ASSUME inputBuffer' = inputBuffer PROVE Suffix(inputBuffer', arrived, 0)
  BY <1>1, <1>2, <1>5 DEF Suffix
<1> QED BY <1>3, <1>4, <1>5

(***************************************************************************)
(* Where the lines that are left were.                                     *)
(***************************************************************************)
LEMMA LinesLost ==
    ASSUME Types, Types', NEW k \in Nat, Suffix(inputBuffer', arrived, k),
           f1ToF2 = noLine, f1ToF2' = noLine, UNCHANGED <<transfers, requests>>
    PROVE  /\ numLines \in Nat /\ numLines' \in Nat /\ numLines = numLines' + k
           /\ \A i \in 1 .. numLines' :
                i + k \in 1 .. numLines /\ lines'[i] = lines[i + k]
           /\ \A i \in DOMAIN inputBuffer' :
                i + k \in DOMAIN inputBuffer /\ inputBuffer'[i] = inputBuffer[i + k]
           /\ \A i \in DOMAIN inputBuffer : k < i =>
                i - k \in DOMAIN inputBuffer' /\ inputBuffer'[i - k] = inputBuffer[i]
<1>1. /\ numLines \in Nat /\ numLines' \in Nat /\ numLines = numLines' + k
      /\ \A i \in 1 .. numLines' : lines'[i] = lines[i + k]
  BY LinesDropped, Places
<1>2. \A i \in 1 .. numLines' : i + k \in 1 .. numLines
  BY Zenon, <1>1, FurtherOn
<1>3. /\ arrived = inputBuffer
      /\ inputBuffer \in Seq(Line) /\ inputBuffer' \in Seq(Line)
  BY DEF arrived, Types
<1>4. /\ Len(inputBuffer) \in Nat /\ Len(inputBuffer') \in Nat
      /\ DOMAIN inputBuffer = 1 .. Len(inputBuffer)
      /\ DOMAIN inputBuffer' = 1 .. Len(inputBuffer')
      /\ Len(inputBuffer) = Len(inputBuffer') + k
      /\ \A i \in 1 .. Len(inputBuffer') : inputBuffer'[i] = inputBuffer[i + k]
  BY <1>3 DEF Suffix
<1>5. \A i \in DOMAIN inputBuffer' :
        i + k \in DOMAIN inputBuffer /\ inputBuffer'[i] = inputBuffer[i + k]
  BY <1>4, FurtherOn
<1>6. ASSUME NEW i \in DOMAIN inputBuffer, k < i
      PROVE  i - k \in DOMAIN inputBuffer' /\ inputBuffer'[i - k] = inputBuffer[i]
  <2>1. i - k \in 1 .. Len(inputBuffer') /\ (i - k) + k = i
    BY <1>4, <1>6
  <2> QED BY <1>4, <2>1
<1> QED BY Zenon, <1>1, <1>2, <1>5, <1>6

(***************************************************************************)
(* A line of the stream Execute is in that has the right prediction is     *)
(* where the program goes on, and so are all that come after it.           *)
(***************************************************************************)
LEMMA RightLine ==
    ASSUME Types, Streams, Program, F = E, inputBuffer # <<>>,
           NEW line, line = inputBuffer[1], ~wrongPrediction(line)
    PROVE  /\ line \in Line /\ line.streamSeqNum = E /\ line.predictionSeqNum = P1
           /\ 1 \in DOMAIN inputBuffer /\ 1 \in 1 .. numLines /\ numLines \in Nat
           /\ lines[1].b = line.lineBaseAddr
           /\ ~pending /\ ~Fresh
           /\ \A i \in 1 .. numLines : lines[i].s = E /\ lines[i].p = P1
           /\ line.lineBaseAddr % lineWidth = 0
           /\ numLines = 1 => fetch1.fetchAddr = nextBase(line.lineBaseAddr)
           /\ numLines # 1 => lines[2].b = nextBase(line.lineBaseAddr)
           /\ pcOf(line) \in Addr /\ indexOf(line) \in Nat
           /\ (line.lineBaseAddr + indexOf(line)) % AddrSpace = pcOf(line)
           /\ ~faulted => pcOf(line) = lastPC
<1>1. inputBuffer \in Seq(Line) /\ fetch2 \in Fetch2Info
  BY DEF Types
<1>2. 1 \in DOMAIN inputBuffer /\ line \in Line
  BY <1>1
<1>3. line.streamSeqNum = E
  BY <1>2 DEF Streams, Behind
<1>4. /\ 1 \in 1 .. numLines /\ numLines \in Nat /\ lines[1].s = E
      /\ lines[1].p = line.predictionSeqNum /\ lines[1].b = line.lineBaseAddr
      /\ lines[1].p \in Nat
  BY Zenon, <1>2, <1>3, LinesTyped
<1>5. P1 \in Nat /\ P2 \in Nat
  BY PredictionNumbers
<1>6. ~pending /\ line.predictionSeqNum = P1
  <2>1. /\ lines[1].p <= P1
        /\ fetch2.expectedStreamSeqNum # E => ~pending /\ lines[1].p = P1
        /\ fetch2.expectedStreamSeqNum = E => IF pending THEN P1 < P2 ELSE P1 = P2
    BY <1>4 DEF Program, Numbered
  <2>2. fetch2.expectedStreamSeqNum = E => line.predictionSeqNum = P2
    BY <1>3 DEF wrongPrediction, P2
  <2>3. CASE fetch2.expectedStreamSeqNum = E
    <3>1. lines[1].p = P2
      BY <1>4, <2>2, <2>3
    <3>2. ~(P1 < P2)
      BY <1>4, <1>5, <2>1, <3>1
    <3> QED BY <1>4, <2>1, <2>3, <3>1, <3>2
  <2> QED BY <1>4, <2>1, <2>3
<1>7. ~Fresh
  BY <1>2, <1>3 DEF Fresh, NoneFetched
<1>8. /\ line.lineBaseAddr % lineWidth = 0
      /\ \A i \in 1 .. numLines : lines[i].s = E /\ lines[i].p = P1
      /\ numLines = 1 => fetch1.fetchAddr = nextBase(line.lineBaseAddr)
      /\ numLines # 1 => lines[2].b = nextBase(line.lineBaseAddr)
  <2>1. Flow(lines, numLines, E, P1, fetch1.fetchAddr)
    BY Zenon, <1>6 DEF Program, LinesFollow
  <2>2. 1 + 1 = 2
    OBVIOUS
  <2> QED BY <1>4, <1>6, <2>1, <2>2 DEF Flow
<1>9. line.lineBaseAddr \in Addr /\ line.pc \in Addr
      /\ fetch2.pc \in Addr /\ fetch2.inputIndex \in Nat
  BY <1>1, <1>2 DEF Line, Fetch2Info
<1>10. setsPC(line) <=> ~following
  BY <1>3 DEF setsPC, following
<1>11. CASE following
  <2>1. pcOf(line) = fetch2.pc /\ indexOf(line) = fetch2.inputIndex
    BY <1>10, <1>11 DEF pcOf, indexOf
  <2>2. numLines # 0
    BY <1>4
  <2>3. (lines[1].b + fetch2.inputIndex) % AddrSpace = fetch2.pc
    BY Zenon, <1>11, <2>2 DEF Program, LinesFollow
  <2>4. ~faulted => fetch2.pc = lastPC
    BY Zenon, <1>6, <1>11 DEF Program, LinesContinue
  <2> QED BY <1>2, <1>3, <1>4, <1>6, <1>7, <1>8, <1>9, <2>1, <2>3, <2>4
<1>12. CASE ~following
  <2>1. /\ pcOf(line) = line.pc
        /\ indexOf(line) = (line.pc - line.lineBaseAddr) % AddrSpace
    BY Zenon, <1>10, <1>12 DEF pcOf, indexOf
  <2>2. /\ indexOf(line) \in Nat
        /\ (line.lineBaseAddr + indexOf(line)) % AddrSpace = line.pc
    <3>1. \A b \in Addr, pc \in Addr :
            /\ (pc - b) % AddrSpace \in Nat
            /\ (b + ((pc - b) % AddrSpace)) % AddrSpace = pc
      BY IndexOfPC
    <3> QED BY <1>9, <2>1, <3>1
  <2>3. line.pc = fetch1.pc
    BY <1>2, <1>6 DEF Program, LinesFollow
  <2>4. ~faulted => fetch1.pc = lastPC
    BY <1>6, <1>12 DEF Program, LinesContinue
  <2> QED BY Zenon, <1>2, <1>3, <1>4, <1>6, <1>7, <1>8, <1>9, <2>1, <2>2, <2>3, <2>4
<1> QED BY <1>11, <1>12

(***************************************************************************)
(* The line is passed on, or an instruction of it.  What the steps have in *)
(* common.                                                                 *)
(***************************************************************************)
PassedOn(line, x) ==
    /\ phase = "lines" /\ beforeFetch1' /\ inputBuffer # <<>>
    /\ line = inputBuffer[1] /\ F = E
    /\ f1ToF2 = noLine /\ f1ToF2' = noLine /\ f2ToF1.in = noBranch
    /\ fetch2'.lastStreamSeqNum = line.streamSeqNum
    /\ x \in Inst /\ Passes(line, x)
    /\ UNCHANGED <<fetch1, transfers, requests, eToF1, execute, needToSignalDrained>>

(***************************************************************************)
(* The instruction that is passed on is the next of the program.           *)
(***************************************************************************)
LEMMA PassedInsts ==
    ASSUME Types, Streams, Program, NEW line, NEW x, PassedOn(line, x),
           ~x.fault => x.addr = (line.lineBaseAddr + indexOf(line)) % AddrSpace,
           x.fault => x.addr = x.pc
    PROVE  /\ E' = E /\ F' = F /\ P1' = P1
           /\ InstsInOrder' /\ (faulted' <=> faulted \/ x.fault)
           /\ lastPC' = nextPC(x)
<1>1. E' = E /\ F' = F /\ P1' = P1 /\ execute'.pc = execute.pc
  BY DEF PassedOn, E, F, P1
<1>2. /\ x \in Inst /\ insts' = Append(insts, x) /\ x.pc = pcOf(line)
      /\ x.streamSeqNum = line.streamSeqNum /\ ~wrongPrediction(line)
      /\ line = inputBuffer[1] /\ inputBuffer # <<>> /\ F = E
  BY Zenon DEF PassedOn, Passes
<1>3. /\ line.streamSeqNum = E
      /\ (line.lineBaseAddr + indexOf(line)) % AddrSpace = pcOf(line)
      /\ ~faulted => pcOf(line) = lastPC
  BY Zenon, <1>2, RightLine
<1>4. InstsInOrder
  BY DEF Program
<1>5. ~faulted => x.addr = x.pc /\ x.pc = lastPC
  BY Zenon, <1>2, <1>3
<1>6. x.streamSeqNum = E
  BY <1>2, <1>3
<1> QED BY ZenonT(30), <1>1, <1>2, <1>4, <1>5, <1>6, AppendInsts

(***************************************************************************)
(* The CPU is not draining, nor has Fetch1 been halted.                    *)
(***************************************************************************)
LEMMA PassedDraining ==
    ASSUME Types, Streams, Program, NEW line, NEW x, PassedOn(line, x),
           fetch1.state = "FetchWaitingForPC" =>
             \/ faulted' \/ pending'
             \/ \E i \in DOMAIN inputBuffer' :
                  inputBuffer'[i].fault /\ inputBuffer'[i].predictionSeqNum = P1
    PROVE  Draining'
<1>1. /\ phase = "lines" /\ UNCHANGED <<fetch1, execute, needToSignalDrained>>
      /\ P1' = P1
  BY DEF PassedOn, P1
<1>2. ~Fresh /\ F = E
  BY Zenon, RightLine DEF PassedOn, Passes
<1>3. /\ execute.drainState \notin {"DrainAllInsts", "DrainHaltFetch"}
      /\ execute.drainState = "DrainCurrentInst" => needToSignalDrained
      /\ fetch1.state # "FetchHalted"
  BY Zenon, <1>1, <1>2 DEF Program, Draining
<1> QED BY <1>1, <1>3 DEF Draining

(***************************************************************************)
(* The last instruction is a fault: nothing has to follow.                 *)
(***************************************************************************)
LEMMA ProgramFault ==
    ASSUME Types, Types', Streams, Program, NEW line, NEW x, PassedOn(line, x),
           PassesFault(line, x)
    PROVE  Program'
<1>1. /\ E' = E /\ F' = F /\ P1' = P1
      /\ InstsInOrder' /\ (faulted' <=> faulted \/ x.fault)
  BY PassedInsts DEF PassesFault
<1>2. P2' = P2 /\ x.fault /\ ~following' /\ inputBuffer' = <<>> /\ f2ToF1' = f2ToF1
      /\ fetch2'.expectedStreamSeqNum = fetch2.expectedStreamSeqNum
  BY DEF PassesFault, P2, following
<1>3. /\ f1ToF2 = noLine /\ f1ToF2' = noLine /\ inputBuffer # <<>> /\ F = E
      /\ UNCHANGED <<transfers, requests, fetch1>> /\ beforeFetch1 /\ beforeFetch1'
  BY ZenonT(30) DEF PassedOn, beforeFetch1
<1>4. ~pending
  BY RightLine DEF PassedOn, Passes
<1>5. SamePredictions
  BY ZenonT(30), <1>1, <1>2, <1>3 DEF SamePredictions, pendingIn, pendingOut
<1>6. PICK k \in Nat :
        /\ numLines \in Nat /\ numLines' \in Nat /\ numLines = numLines' + k
        /\ \A i \in 1 .. numLines' :
             i + k \in 1 .. numLines /\ lines'[i] = lines[i + k]
  <2>1. Len(inputBuffer) \in Nat
    BY DEF Types
  <2> QED BY <1>2, <1>3, <2>1, LinesLeft, LinesLost
<1>7. Numbered' /\ ~pending'
  BY Zenon, <1>1, <1>2, <1>4, <1>5, <1>6, NumberedAmong DEF Program
<1>8. LinesFollow'
  <2>1. Flow(lines', numLines', E, P1, fetch1.fetchAddr)
    <3>1. Flow(lines, numLines, E, P1, fetch1.fetchAddr)
      BY <1>3, <1>4 DEF Program, LinesFollow
    <3> QED BY Zenon, <1>6, <3>1, FlowDrop
  <2>2. DOMAIN inputBuffer' = {}
    BY <1>2
  <2> QED BY Zenon, <1>1, <1>2, <1>3, <2>1, <2>2 DEF LinesFollow
<1>9. LinesContinue'
  BY <1>1, <1>2 DEF LinesContinue
<1>10. Draining'
  BY <1>1, <1>2, PassedDraining
<1> QED BY <1>1, <1>7, <1>8, <1>9, <1>10 DEF Program

(***************************************************************************)
(* A branch is predicted taken: the lines after it are not followed any    *)
(* more, the prediction says where to go on.                               *)
(***************************************************************************)
LEMMA ProgramTaken ==
    ASSUME Types, Types', Streams, Numbers, Program, NEW line, NEW x,
           PassedOn(line, x), PassesTaken(line, x)
    PROVE  Program'
<1>1. /\ E' = E /\ F' = F /\ P1' = P1
      /\ InstsInOrder' /\ lastPC' = nextPC(x)
  BY PassedInsts DEF PassesTaken
<1>2. /\ f1ToF2 = noLine /\ f1ToF2' = noLine /\ inputBuffer # <<>> /\ F = E
      /\ UNCHANGED <<transfers, requests, fetch1>> /\ beforeFetch1 /\ beforeFetch1'
  BY Zenon DEF PassedOn, beforeFetch1
<1>3. ~pending /\ line.streamSeqNum = E
      /\ \A i \in 1 .. numLines : lines[i].s = E /\ lines[i].p = P1
  BY Zenon, RightLine DEF PassedOn, Passes
<1>4. /\ x.predictedTaken /\ fetch2'.expectedStreamSeqNum = E /\ P2' = P2 + 1
      /\ ~following' /\ inputBuffer' = <<>>
      /\ f2ToF1'.out = f2ToF1.out /\ f2ToF1'.in # noBranch
      /\ f2ToF1'.in.newStreamSeqNum = E /\ f2ToF1'.in.newPredictionSeqNum = P2'
      /\ f2ToF1'.in.target = x.predictedTarget
  BY Zenon, <1>3, BranchNotBubble DEF PassesTaken, following, P2
<1>5. pendingIn' /\ ~pendingOut' /\ pending'
  BY ZenonT(30), <1>1, <1>2, <1>3, <1>4 DEF pending, pendingIn, pendingOut
<1>6. P1 < P2'
  <2>1. P1 \in Nat /\ P2 \in Nat
    BY PredictionNumbers
  <2> QED BY <1>4, <2>1 DEF Numbers, NoneAfterP2
<1>7. \A i \in 1 .. numLines' : lines'[i].p <= P1
  <2>1. Len(inputBuffer) \in Nat
    BY DEF Types
  <2>2. PICK k \in Nat : \A i \in 1 .. numLines' :
             i + k \in 1 .. numLines /\ lines'[i] = lines[i + k]
    BY Zenon, <1>2, <1>4, <2>1, LinesLeft, LinesLost
  <2>3. P1 <= P1
    BY PredictionNumbers
  <2> QED BY <1>3, <2>2, <2>3
<1>8. Numbered'
  BY ZenonT(30), <1>1, <1>4, <1>5, <1>6, <1>7 DEF Numbered
<1>9. LinesFollow'
  BY <1>4, <1>5 DEF LinesFollow
<1>10. LinesContinue'
  BY <1>1, <1>4, <1>5 DEF LinesContinue, nextPC
<1>11. Draining'
  BY <1>5, PassedDraining
<1> QED BY <1>1, <1>8, <1>9, <1>10, <1>11 DEF Program

(***************************************************************************)
(* The first place when k are taken away before it.                        *)
(***************************************************************************)
LEMMA FirstPlace ==
    ASSUME NEW k \in Nat, NEW n \in Nat, NEW m \in Nat, n = m + k, 1 \in 1 .. n
    PROVE  /\ k = 0 => m # 0 /\ 1 \in 1 .. m /\ 1 + k = 1
           /\ k = 1 /\ m = 0 => n = 1
           /\ k = 1 /\ m # 0 => n # 1 /\ 1 \in 1 .. m /\ 1 + k = 2
OBVIOUS

(***************************************************************************)
(* Any other instruction: Fetch2 follows the lines, and goes on to the     *)
(* next when it has read all of this one.                                  *)
(***************************************************************************)
LEMMA ProgramOn ==
    ASSUME Types, Types', Streams, Program, NEW line, NEW x, PassedOn(line, x),
           PassesOn(line, x)
    PROVE  Program'
<1>1. /\ E' = E /\ F' = F /\ P1' = P1
      /\ InstsInOrder' /\ (faulted' <=> faulted \/ x.fault) /\ lastPC' = nextPC(x)
  BY Zenon, PassedInsts DEF PassesOn
<1>2. /\ P2' = P2 /\ ~x.fault /\ ~x.predictedTaken /\ fetch2'.havePC
      /\ fetch2'.expectedStreamSeqNum = fetch2.expectedStreamSeqNum
      /\ fetch2'.pc = advancePC(pcOf(line)) /\ f2ToF1' = f2ToF1
      /\ \/ /\ indexOf(line) + 1 = lineWidth /\ fetch2'.inputIndex = 0
            /\ inputBuffer' = Tail(inputBuffer)
         \/ fetch2'.inputIndex = indexOf(line) + 1 /\ inputBuffer' = inputBuffer
  BY Zenon DEF PassesOn, P2
<1>3. /\ f1ToF2 = noLine /\ f1ToF2' = noLine /\ inputBuffer # <<>> /\ F = E
      /\ UNCHANGED <<transfers, requests, fetch1>> /\ beforeFetch1 /\ beforeFetch1'
      /\ line = inputBuffer[1] /\ x.pc = pcOf(line) /\ x.fault = line.fault
      /\ fetch2'.lastStreamSeqNum = line.streamSeqNum
  BY Zenon DEF PassedOn, Passes, beforeFetch1
<1>4. /\ line \in Line /\ line.streamSeqNum = E
      /\ 1 \in DOMAIN inputBuffer /\ 1 \in 1 .. numLines /\ numLines \in Nat
      /\ lines[1].b = line.lineBaseAddr /\ ~pending /\ ~Fresh
      /\ \A i \in 1 .. numLines : lines[i].s = E /\ lines[i].p = P1
      /\ line.lineBaseAddr % lineWidth = 0
      /\ numLines = 1 => fetch1.fetchAddr = nextBase(line.lineBaseAddr)
      /\ numLines # 1 => lines[2].b = nextBase(line.lineBaseAddr)
      /\ pcOf(line) \in Addr /\ indexOf(line) \in Nat
      /\ (line.lineBaseAddr + indexOf(line)) % AddrSpace = pcOf(line)
  BY Zenon, RightLine DEF PassedOn, Passes
<1>5. SamePredictions
  BY Zenon, <1>1, <1>2, <1>3 DEF SamePredictions, pendingIn, pendingOut
<1>6. following'
  BY Zenon, <1>1, <1>2, <1>3, <1>4 DEF following
<1>7. PICK k \in Nat :
        /\ k = 0 \/ k = 1
        /\ k = 0 => fetch2'.inputIndex = indexOf(line) + 1
        /\ k = 1 => indexOf(line) + 1 = lineWidth /\ fetch2'.inputIndex = 0
        /\ numLines' \in Nat /\ numLines = numLines' + k
        /\ \A i \in 1 .. numLines' :
             i + k \in 1 .. numLines /\ lines'[i] = lines[i + k]
        /\ \A i \in DOMAIN inputBuffer' :
             i + k \in DOMAIN inputBuffer /\ inputBuffer'[i] = inputBuffer[i + k]
        /\ \A i \in DOMAIN inputBuffer : k < i =>
             i - k \in DOMAIN inputBuffer' /\ inputBuffer'[i - k] = inputBuffer[i]
  <2>1. 0 \in Nat /\ 1 \in Nat /\ 0 # 1
    OBVIOUS
  <2>2. PICK k \in Nat :
          /\ Suffix(inputBuffer', arrived, k) /\ (k = 0 \/ k = 1)
          /\ k = 0 => fetch2'.inputIndex = indexOf(line) + 1
          /\ k = 1 => indexOf(line) + 1 = lineWidth /\ fetch2'.inputIndex = 0
    BY <1>2, <1>3, <2>1, LinesLeft
  <2> QED BY Zenon, <1>3, <2>2, LinesLost
<1>8. Numbered' /\ ~pending'
  BY Zenon, <1>1, <1>2, <1>4, <1>5, <1>7, NumberedAmong DEF Program
<1>9. ASSUME NEW i \in 1 .. numLines'
      PROVE  lines'[i].s = E /\ lines'[i].p = P1
  <2>1. i + k \in 1 .. numLines /\ lines'[i] = lines[i + k]
    BY <1>7
  <2> QED BY Zenon, <1>4, <2>1
<1>10. line.lineBaseAddr \in Addr
  BY Zenon, <1>4 DEF Line
<1>11. (line.lineBaseAddr + (indexOf(line) + 1)) % AddrSpace = fetch2'.pc
  <2>1. \A b \in Addr, pc \in Addr, i \in Nat :
          (b + i) % AddrSpace = pc => (b + (i + 1)) % AddrSpace = advancePC(pc)
    BY IndexOfPC
  <2> QED BY Zenon, <1>2, <1>4, <1>10, <2>1
<1>12. IF numLines' = 0
         THEN /\ fetch1.fetchAddr = fetch2'.pc /\ fetch2'.inputIndex = 0
              /\ fetch1.fetchAddr % lineWidth = 0
         ELSE (lines'[1].b + fetch2'.inputIndex) % AddrSpace = fetch2'.pc
  <2>1. CASE k = 0
    <3>1. numLines' # 0 /\ 1 \in 1 .. numLines' /\ 1 + k = 1
      BY ZenonT(30), <1>4, <1>7, <2>1, FirstPlace
    <3>2. lines'[1] = lines[1]
      BY <1>7, <3>1
    <3> QED BY Zenon, <1>4, <1>7, <1>11, <2>1, <3>1, <3>2
  <2>2. CASE k = 1
    <3>1. /\ fetch2'.pc = nextBase(line.lineBaseAddr) /\ fetch2'.pc \in Addr
          /\ fetch2'.pc % lineWidth = 0 /\ fetch2'.inputIndex = 0
      BY <1>4, <1>7, <1>10, <1>11, <2>2, NextBaseAligned DEF nextBase
    <3>2. CASE numLines' = 0
      <4>1. numLines = 1
        BY Zenon, <1>4, <1>7, <2>2, <3>2, FirstPlace
      <4> QED BY Zenon, <1>4, <3>1, <3>2, <4>1
    <3>3. CASE numLines' # 0
      <4>1. numLines # 1 /\ 1 \in 1 .. numLines' /\ 1 + k = 2
        BY Zenon, <1>4, <1>7, <2>2, <3>3, FirstPlace
      <4>2. lines'[1].b = fetch2'.pc
        BY Zenon, <1>4, <1>7, <3>1, <4>1
      <4>3. \A a \in Addr : (a + 0) % AddrSpace = a
        <5>1. \A a \in Addr : a + 0 = a
          BY DEF Addr
        <5> QED BY <5>1, IndexOfPC
      <4> QED BY <3>1, <3>3, <4>2, <4>3
    <3> QED BY <3>2, <3>3
  <2> QED BY <1>7, <2>1, <2>2
<1>13. LinesFollow'
  <2>1. /\ Flow(lines, numLines, E, P1, fetch1.fetchAddr)
        /\ \A i \in DOMAIN inputBuffer :
             inputBuffer[i].predictionSeqNum = P1 => inputBuffer[i].pc = fetch1.pc
    BY Zenon, <1>3, <1>4 DEF Program, LinesFollow
  <2>2. Flow(lines', numLines', E, P1, fetch1.fetchAddr)
    <3>1. /\ numLines \in Nat /\ numLines' \in Nat /\ numLines = numLines' + k
          /\ \A i \in 1 .. numLines' : lines'[i] = lines[i + k]
      BY Zenon, <1>4, <1>7
    <3> QED BY Zenon, <2>1, <3>1, FlowDrop
  <2>3. \A i \in DOMAIN inputBuffer' :
          inputBuffer'[i].predictionSeqNum = P1 => inputBuffer'[i].pc = fetch1.pc
    BY ZenonT(30), <1>7, <2>1
  <2> QED BY Zenon, <1>1, <1>3, <1>9, <1>12, <2>2, <2>3 DEF LinesFollow
<1>14. LinesContinue'
  <2>1. lastPC' = fetch2'.pc
    BY <1>1, <1>2, <1>3 DEF nextPC
  <2> QED BY <1>6, <1>8, <2>1 DEF LinesContinue, pending
<1>15. ASSUME fetch1.state = "FetchWaitingForPC", ~faulted
       PROVE  \E i \in DOMAIN inputBuffer' :
                inputBuffer'[i].fault /\ inputBuffer'[i].predictionSeqNum = P1
  <2>1. PICK i \in DOMAIN inputBuffer :
          inputBuffer[i].fault /\ inputBuffer[i].predictionSeqNum = P1
    BY <1>3, <1>4, <1>15 DEF Program, Draining
  <2>2. i # 1
    BY Zenon, <1>2, <1>3, <2>1
  <2>3. k < i
    <3>1. inputBuffer \in Seq(Line)
      BY DEF Types
    <3>2. i \in 1 .. Len(inputBuffer) /\ Len(inputBuffer) \in Nat
      BY <2>1, <3>1
    <3>3. k = 0 \/ k = 1
      BY <1>7
    <3> QED BY <2>2, <3>2, <3>3
  <2> QED BY <1>7, <2>1, <2>3
<1>16. Draining'
  BY <1>1, <1>15, PassedDraining
<1> QED BY <1>1, <1>8, <1>13, <1>14, <1>16 DEF Program

(***************************************************************************)
(* Fetch2's turn at a line.                                                *)
(***************************************************************************)
LEMMA ProgramProcessLine ==
    ASSUME Types, Types', LatchTaken, Streams, Streams', Numbers, Program,
           ProcessLineEffect
    PROVE  Program'
<1> DEFINE line == inputBuffer[1]
<1>1. /\ phase = "lines" /\ phase' \in {"lines", "fetch2 end"}
      /\ inputBuffer # <<>> /\ f2ToF1.in = noBranch
      /\ fetch2'.lastStreamSeqNum = line.streamSeqNum
      /\ \/ PopsWrong(line)
         \/ \E x \in Inst :
              /\ Passes(line, x)
              /\ PassesFault(line, x) \/ PassesTaken(line, x) \/ PassesOn(line, x)
      /\ UNCHANGED <<fetch1Vars, f1ToF2, eToF1, execute, needToSignalDrained>>
  <2>1. Head(inputBuffer) = line
    BY Zenon DEF ProcessLineEffect
  <2> QED BY Zenon, <2>1 DEF ProcessLineEffect
<1> HIDE DEF line
<1>2. /\ UNCHANGED <<fetch1, transfers, requests>> /\ beforeFetch1 /\ beforeFetch1'
      /\ f1ToF2 = noLine /\ f1ToF2' = noLine /\ E' = E /\ F' = F
      /\ execute.drainState # "DrainHaltFetch"
  BY Zenon, <1>1 DEF fetch1Vars, LatchTaken, beforeFetch1, E, F, Program, Draining
<1>3. CASE F # E
  BY Zenon, <1>1, <1>2, <1>3, ProgramBehind DEF Program
<1>4. CASE F = E /\ PopsWrong(line)
  <2>1. Fresh => Fresh'
    BY StreamsProcessLine
  <2>2. /\ Suffix(inputBuffer', arrived, 1) /\ 1 \in Nat
        /\ \A i \in 1 .. 1 : wrongPrediction(arrived[i])
    <3>1. Suffix(inputBuffer', arrived, 1)
      BY Zenon, <1>1, <1>2, <1>4, LinesLeft DEF PopsWrong
    <3>2. arrived[1] = line
      BY <1>2 DEF arrived, line
    <3> QED BY <1>4, <3>1, <3>2 DEF PopsWrong
  <2>3. /\ ~fetch2'.havePC
        /\ fetch2'.expectedStreamSeqNum = fetch2.expectedStreamSeqNum
        /\ fetch2'.predictionSeqNum = fetch2.predictionSeqNum
        /\ UNCHANGED <<insts, f2ToF1>>
    BY <1>4 DEF PopsWrong
  <2>4. PICK k \in Nat :
          /\ k # 0 /\ Suffix(inputBuffer', arrived, k)
          /\ \A i \in 1 .. k : wrongPrediction(arrived[i])
    <3>1. 1 # 0
      OBVIOUS
    <3> QED BY <2>2, <3>1
  <2> QED BY Zenon, <1>1, <1>2, <1>4, <2>1, <2>3, <2>4, WrongDropped
<1>5. CASE F = E /\ ~PopsWrong(line)
  <2>1. PICK x \in Inst :
          /\ Passes(line, x)
          /\ PassesFault(line, x) \/ PassesTaken(line, x) \/ PassesOn(line, x)
    BY Zenon, <1>1, <1>5
  <2>2. PassedOn(line, x)
    BY Zenon, <1>1, <1>2, <1>5, <2>1 DEF PassedOn, line
  <2> QED BY <2>1, <2>2, ProgramFault, ProgramTaken, ProgramOn
<1> QED BY <1>3, <1>4, <1>5

(***************************************************************************)
(* Fetch1's turn.  The program goes on where r, which is what Fetch1 is    *)
(* when it has listened to Execute and to Fetch2, is about to fetch.       *)
(***************************************************************************)
Aims(r) ==
    /\ \A i \in 1 .. numLines : lines[i].s = E => lines[i].p <= r.predictionSeqNum
    /\ fetch2.expectedStreamSeqNum # E =>
         /\ ~pendingIn
         /\ \A i \in 1 .. numLines : lines[i].s = E => lines[i].p = r.predictionSeqNum
    /\ fetch2.expectedStreamSeqNum = E =>
         IF pendingIn THEN r.predictionSeqNum < P2 ELSE r.predictionSeqNum = P2
    /\ pendingIn => f2ToF1.in.newPredictionSeqNum = P2 /\ ~following
    /\ ~pendingIn =>
         /\ Flow(lines, numLines, E, r.predictionSeqNum, r.fetchAddr)
         /\ \A i \in DOMAIN inputBuffer :
              inputBuffer[i].predictionSeqNum = r.predictionSeqNum =>
                inputBuffer[i].pc = r.pc
    /\ following =>
         /\ \A i \in 1 .. numLines : lines[i].s = E /\ lines[i].p = r.predictionSeqNum
         /\ IF numLines = 0
              THEN /\ r.fetchAddr = fetch2.pc /\ fetch2.inputIndex = 0
                   /\ r.fetchAddr % lineWidth = 0
              ELSE (lines[1].b + fetch2.inputIndex) % AddrSpace = fetch2.pc
    /\ ~faulted =>
         /\ pendingIn => f2ToF1.in.target = lastPC
         /\ ~pendingIn => lastPC = IF following THEN fetch2.pc ELSE r.pc

(***************************************************************************)
(* How r may have come to a stop.                                          *)
(***************************************************************************)
Stops(r) ==
    /\ execute.drainState = "DrainAllInsts" => Fresh /\ r.state = "FetchHalted"
    /\ r.state = "FetchHalted" => Fresh
    /\ r.state = "FetchWaitingForPC" =>
         \/ Fresh \/ faulted \/ pendingIn
         \/ \E i \in DOMAIN inputBuffer :
              /\ inputBuffer[i].fault
              /\ inputBuffer[i].predictionSeqNum = r.predictionSeqNum

(***************************************************************************)
(* Execute has told Fetch1 to change to the stream it is in.               *)
(***************************************************************************)
LEMMA AimsChange ==
    ASSUME Types, Streams, Program, phase = "fetch1", NEW r, r.streamSeqNum = E,
           isStreamChange(eToF1.out), Follows(r, eToF1.out)
    PROVE  Aims(r) /\ Stops(r)
<1>1. beforeFetch1 /\ inputBuffer = <<>>
  BY DEF beforeFetch1, Streams, Dumped
<1>2. /\ eToF1.out.newStreamSeqNum = E /\ r.pc = eToF1.out.target
      /\ eToF1.out.reason = "HaltFetch" => r.state = "FetchHalted"
  BY DEF Follows
<1>3. F < E /\ eToF1.out.target = execute.pc
  BY <1>1, <1>2 DEF Streams, Ahead
<1>4. F # E /\ fetch2.expectedStreamSeqNum # E
  BY <1>3, StreamNumbers DEF Streams, Behind
<1>5. Fresh
  BY <1>4, BehindFresh DEF Streams
<1>6. /\ ~faulted /\ lastPC = execute.pc /\ ~pendingIn /\ ~following
      /\ \A i \in 1 .. numLines : lines[i].s # E
  BY <1>5, FreshFacts
<1>7. Flow(lines, numLines, E, r.predictionSeqNum, r.fetchAddr)
  <2>1. numLines \in Nat
    BY Places
  <2> QED BY <1>6, <2>1, FlowNone
<1>8. DOMAIN inputBuffer = {}
  BY <1>1
<1>9. Aims(r)
  BY Zenon, <1>2, <1>3, <1>4, <1>6, <1>7, <1>8 DEF Aims
<1>10. execute.drainState = "DrainAllInsts" => r.state = "FetchHalted"
  BY Zenon, <1>1, <1>2 DEF Program, Draining
<1> QED BY <1>5, <1>9, <1>10 DEF Stops

(***************************************************************************)
(* Fetch2 has predicted a branch.                                          *)
(***************************************************************************)
LEMMA AimsPrediction ==
    ASSUME Types, Streams, Numbers, Program, phase = "fetch1", NEW r,
           r.streamSeqNum = E, f2ToF1.out # noBranch,
           f2ToF1.out.newStreamSeqNum = F, Follows(r, f2ToF1.out)
    PROVE  Aims(r) /\ Stops(r)
<1>1. F = E /\ pendingOut /\ pending
  BY DEF Follows, pendingOut, pending, beforeFetch1
<1>2. /\ r.predictionSeqNum = f2ToF1.out.newPredictionSeqNum
      /\ r.pc = f2ToF1.out.target /\ r.state = "FetchRunning"
  BY DEF Follows, Numbers, Predicts
<1>3. /\ ~pendingIn /\ ~following /\ fetch2.expectedStreamSeqNum = E
      /\ r.predictionSeqNum = P2 /\ P1 < P2
      /\ \A i \in 1 .. numLines : lines[i].s = E => lines[i].p <= P1
  BY <1>1, <1>2 DEF Program, Numbered
<1>4. P1 \in Nat /\ P2 \in Nat
  BY PredictionNumbers
<1>5. ASSUME NEW i \in 1 .. numLines, lines[i].s = E
      PROVE  lines[i].p <= P2 /\ lines[i].p # P2
  <2>1. lines[i].p \in Nat /\ lines[i].p <= P1
    BY <1>3, <1>5, LinesTyped
  <2> QED BY <1>3, <1>4, <2>1
<1>6. Flow(lines, numLines, E, r.predictionSeqNum, r.fetchAddr)
  <2>1. numLines \in Nat
    BY Places
  <2>2. \A i \in 1 .. numLines : ~(lines[i].s = E /\ lines[i].p = r.predictionSeqNum)
    BY <1>3, <1>5
  <2> QED BY Zenon, <2>1, <2>2, FlowNone
<1>7. ASSUME NEW i \in DOMAIN inputBuffer
      PROVE  inputBuffer[i].predictionSeqNum # r.predictionSeqNum
  <2>1. /\ i \in 1 .. numLines /\ lines[i].s = inputBuffer[i].streamSeqNum
        /\ lines[i].p = inputBuffer[i].predictionSeqNum
    BY LinesTyped
  <2>2. inputBuffer[i].streamSeqNum = E
    BY <1>1 DEF Streams, Behind
  <2> QED BY <1>3, <1>5, <2>1, <2>2
<1>8. ~faulted => r.pc = lastPC
  BY <1>1, <1>2 DEF Program, LinesContinue
<1>9. Aims(r)
  BY ZenonT(30), <1>3, <1>5, <1>6, <1>7, <1>8 DEF Aims
<1>10. ~Fresh
  BY <1>1 DEF Fresh
<1>11. execute.drainState # "DrainAllInsts"
  BY <1>10 DEF Program, Draining
<1> QED BY <1>2, <1>9, <1>11 DEF Stops

(***************************************************************************)
(* Fetch1 is told nothing, or does not listen.                             *)
(***************************************************************************)
LEMMA AimsOn ==
    ASSUME Types, LatchTaken, Program, phase = "fetch1", F = E, ~pendingOut
    PROVE  Aims(fetch1) /\ Stops(fetch1)
<1>1. pending <=> pendingIn
  BY DEF pending
<1>2. Aims(fetch1)
  <2>1. /\ \A i \in 1 .. numLines : lines[i].s = E => lines[i].p <= P1
        /\ fetch2.expectedStreamSeqNum # E =>
             ~pending /\ \A i \in 1 .. numLines : lines[i].s = E => lines[i].p = P1
        /\ fetch2.expectedStreamSeqNum = E =>
             IF pending THEN P1 < P2 ELSE P1 = P2
        /\ pendingIn => f2ToF1.in.newPredictionSeqNum = P2
        /\ pending => ~following
    BY DEF Program, Numbered
  <2>2. /\ ~pending =>
             /\ Flow(lines, numLines, E, P1, fetch1.fetchAddr)
             /\ \A i \in DOMAIN inputBuffer :
                  inputBuffer[i].predictionSeqNum = P1 => inputBuffer[i].pc = fetch1.pc
        /\ following =>
             /\ \A i \in 1 .. numLines : lines[i].s = E /\ lines[i].p = P1
             /\ IF numLines = 0
                  THEN /\ fetch1.fetchAddr = fetch2.pc /\ fetch2.inputIndex = 0
                       /\ fetch1.fetchAddr % lineWidth = 0
                  ELSE (lines[1].b + fetch2.inputIndex) % AddrSpace = fetch2.pc
    BY Zenon DEF Program, LinesFollow
  <2>3. ~faulted =>
          /\ pendingIn => f2ToF1.in.target = lastPC
          /\ ~pending => lastPC = IF following THEN fetch2.pc ELSE fetch1.pc
    BY Zenon DEF Program, LinesContinue
  <2>4. P1 = fetch1.predictionSeqNum
    BY DEF P1
  <2> QED BY ZenonT(30), <1>1, <2>1, <2>2, <2>3, <2>4 DEF Aims
<1>3. f1ToF2 = noLine
  BY DEF LatchTaken
<1> QED BY <1>1, <1>2, <1>3 DEF Stops, Program, Draining, P1

(***************************************************************************)
(* Neither Execute nor Fetch2 has a part in what Fetch1 does.              *)
(***************************************************************************)
BesideFetch1 ==
    /\ phase = "fetch1" /\ phase' \in {"translate", "queues"}
    /\ f1ToF2 = noLine
    /\ UNCHANGED <<transfers, fetch2, inputBuffer, f1ToF2, f2ToF1, eToF1, execute,
                   insts, needToSignalDrained>>

(***************************************************************************)
(* So what Execute has to commit, and where Fetch2 is, stays.              *)
(***************************************************************************)
LEMMA BesideFacts ==
    ASSUME Types, Program, BesideFetch1
    PROVE  /\ E' = E /\ P2' = P2 /\ beforeFetch1 /\ ~beforeFetch1'
           /\ (pendingIn' <=> pendingIn) /\ ~pendingOut' /\ (pending' <=> pendingIn)
           /\ (following' <=> following)
           /\ InstsInOrder' /\ (faulted' <=> faulted) /\ lastPC' = lastPC
<1>1. E' = E /\ P2' = P2 /\ beforeFetch1 /\ ~beforeFetch1'
  BY Zenon DEF BesideFetch1, E, P2, beforeFetch1
<1>2. (pendingIn' <=> pendingIn) /\ ~pendingOut' /\ (following' <=> following)
  BY <1>1 DEF BesideFetch1, pendingIn, pendingOut, following
<1>3. pending' <=> pendingIn
  BY <1>2 DEF pending
<1>4. InstsInOrder' /\ (faulted' <=> faulted) /\ lastPC' = lastPC
  BY <1>1, SameInsts DEF Program, BesideFetch1
<1> QED BY <1>1, <1>2, <1>3, <1>4

(***************************************************************************)
(* Fetch1 has aimed and requests nothing.                                  *)
(***************************************************************************)
LEMMA AimedOnly ==
    ASSUME Types, Program, BesideFetch1, NEW r, Aims(r), r.streamSeqNum = E,
           NotFetches(r)
    PROVE  Numbered' /\ LinesFollow' /\ LinesContinue'
<1>1. /\ E' = E /\ P2' = P2
      /\ (pendingIn' <=> pendingIn) /\ ~pendingOut' /\ (pending' <=> pendingIn)
      /\ (following' <=> following) /\ (faulted' <=> faulted) /\ lastPC' = lastPC
  BY BesideFacts
<1>2. F' = E /\ P1' = r.predictionSeqNum /\ fetch1' = r
  BY DEF NotFetches, F, P1
<1>3. numLines' = numLines /\ lines' = lines
  <2>1. UNCHANGED <<inputBuffer, f1ToF2, transfers, requests>>
    BY DEF BesideFetch1, NotFetches
  <2>2. numLines' = numLines
    BY <2>1 DEF numLines
  <2>3. \A i : lineAt(i)' = lineAt(i)
    BY <2>1 DEF lineAt
  <2> QED BY <2>2, <2>3 DEF lines
<1>4. /\ UNCHANGED <<fetch2, inputBuffer, f2ToF1>> /\ f1ToF2' = noLine
  BY DEF BesideFetch1
<1>5. Numbered'
  BY Zenon, <1>1, <1>2, <1>3, <1>4 DEF Aims, Numbered
<1>6. LinesFollow'
  BY Zenon, <1>1, <1>2, <1>3, <1>4 DEF Aims, LinesFollow
<1>7. LinesContinue'
  BY Zenon, <1>1, <1>2, <1>4 DEF Aims, LinesContinue
<1> QED BY <1>5, <1>6, <1>7

(***************************************************************************)
(* Fetch1 has aimed and requests a line.                                   *)
(***************************************************************************)
LEMMA AimedAndFetched ==
    ASSUME Types, Program, BesideFetch1, NEW r \in Fetch1Info, Aims(r),
           r.streamSeqNum = E, NEW x \in Request, Fetches(r, x)
    PROVE  Numbered' /\ LinesFollow' /\ LinesContinue'
<1>1. /\ E' = E /\ P2' = P2
      /\ (pendingIn' <=> pendingIn) /\ ~pendingOut' /\ (pending' <=> pendingIn)
      /\ (following' <=> following) /\ (faulted' <=> faulted) /\ lastPC' = lastPC
  BY BesideFacts
<1>2. /\ F' = E /\ P1' = r.predictionSeqNum /\ fetch1'.pc = r.pc
      /\ fetch1'.fetchAddr = nextBase(lineBase(r.fetchAddr))
      /\ r.fetchAddr \in Addr /\ r.predictionSeqNum \in Nat
  BY DEF Fetches, F, P1, Fetch1Info, SeqNum
<1>3. /\ UNCHANGED <<fetch2, inputBuffer, f2ToF1>> /\ f1ToF2' = noLine
  BY DEF BesideFetch1
<1>4. PICK n \in Nat :
        /\ n = numLines /\ numLines' = n + 1
        /\ \A i \in 1 .. n : lines'[i] = lines[i]
        /\ lines'[n + 1].s = E /\ lines'[n + 1].p = r.predictionSeqNum
        /\ lines'[n + 1].b = lineBase(r.fetchAddr)
  BY Zenon, LinesRequested DEF BesideFetch1, Fetches
<1>5. ASSUME NEW i \in 1 .. n + 1
      PROVE  \/ i \in 1 .. n /\ lines'[i] = lines[i]
             \/ /\ lines'[i].s = E /\ lines'[i].p = r.predictionSeqNum
  <2>1. i \in 1 .. n \/ i = n + 1
    OBVIOUS
  <2> QED BY Zenon, <1>4, <2>1
<1>6. Numbered'
  <2>1. /\ \A i \in 1 .. n : lines[i].s = E => lines[i].p <= r.predictionSeqNum
        /\ fetch2.expectedStreamSeqNum # E =>
             /\ ~pendingIn
             /\ \A i \in 1 .. n : lines[i].s = E => lines[i].p = r.predictionSeqNum
        /\ fetch2.expectedStreamSeqNum = E =>
             IF pendingIn THEN r.predictionSeqNum < P2 ELSE r.predictionSeqNum = P2
        /\ pendingIn => f2ToF1.in.newPredictionSeqNum = P2 /\ ~following
    BY Zenon, <1>4 DEF Aims
  <2>2. r.predictionSeqNum <= r.predictionSeqNum
    <3>1. \A m \in Nat : m <= m
      OBVIOUS
    <3> QED BY Zenon, <1>2, <3>1
  <2>3. \A i \in 1 .. numLines' :
          lines'[i].s = E => lines'[i].p <= r.predictionSeqNum
    BY <1>4, <1>5, <2>1, <2>2
  <2>4. fetch2.expectedStreamSeqNum # E =>
          \A i \in 1 .. numLines' :
            lines'[i].s = E => lines'[i].p = r.predictionSeqNum
    BY <1>4, <1>5, <2>1
  <2> QED BY Zenon, <1>1, <1>2, <1>3, <2>1, <2>3, <2>4 DEF Numbered
<1>7. ASSUME ~pendingIn
      PROVE  Flow(lines', numLines', E, r.predictionSeqNum, fetch1'.fetchAddr)
  <2>1. Flow(lines, n, E, r.predictionSeqNum, r.fetchAddr)
    BY Zenon, <1>4, <1>7 DEF Aims
  <2>2. \A i \in 1 .. n : lines[i].b \in Addr
    BY Zenon, <1>4, LinesTyped
  <2>3. Flow(lines', n + 1, E, r.predictionSeqNum, nextBase(lineBase(r.fetchAddr)))
    BY Zenon, <1>2, <1>4, <2>1, <2>2, FlowExtend
  <2> QED BY Zenon, <1>2, <1>4, <2>3
<1>8. ASSUME following
      PROVE  /\ \A i \in 1 .. numLines' :
                  lines'[i].s = E /\ lines'[i].p = r.predictionSeqNum
             /\ numLines' # 0
             /\ (lines'[1].b + fetch2.inputIndex) % AddrSpace = fetch2.pc
  <2>1. /\ \A i \in 1 .. n : lines[i].s = E /\ lines[i].p = r.predictionSeqNum
        /\ IF n = 0
             THEN /\ r.fetchAddr = fetch2.pc /\ fetch2.inputIndex = 0
                  /\ r.fetchAddr % lineWidth = 0
             ELSE (lines[1].b + fetch2.inputIndex) % AddrSpace = fetch2.pc
    BY ZenonT(30), <1>4, <1>8 DEF Aims
  <2>2. \A i \in 1 .. numLines' : lines'[i].s = E /\ lines'[i].p = r.predictionSeqNum
    BY <1>4, <1>5, <2>1
  <2>3. numLines' # 0
    BY <1>4
  <2>4. CASE n = 0
    <3>1. lineBase(r.fetchAddr) = r.fetchAddr
      BY ZenonT(30), <1>2, <2>1, <2>4, AddressOps
    <3>2. lines'[1].b = r.fetchAddr
      <4>1. n + 1 = 1
        BY <2>4
      <4> QED BY Zenon, <1>4, <3>1, <4>1
    <3>3. \A a \in Addr : a + 0 = a
      BY DEF Addr
    <3>4. (r.fetchAddr + 0) % AddrSpace = r.fetchAddr
      BY Zenon, <1>2, <3>3, IndexOfPC
    <3> QED BY <2>1, <2>2, <2>3, <2>4, <3>2, <3>4
  <2>5. CASE n # 0
    <3>1. 1 \in 1 .. n
      BY <2>5
    <3> QED BY Zenon, <1>4, <2>1, <2>2, <2>3, <2>5, <3>1
  <2> QED BY Zenon, <2>4, <2>5
<1>9. LinesFollow'
  <2>1. ~pendingIn => \A i \in DOMAIN inputBuffer :
          inputBuffer[i].predictionSeqNum = r.predictionSeqNum =>
            inputBuffer[i].pc = r.pc
    BY Zenon DEF Aims
  <2> QED BY Zenon, <1>1, <1>2, <1>3, <1>7, <1>8, <2>1 DEF LinesFollow
<1>10. LinesContinue'
  BY Zenon, <1>1, <1>2, <1>3 DEF Aims, LinesContinue
<1> QED BY <1>6, <1>9, <1>10

(***************************************************************************)
(* Fetch1 aims, requests a line if it can, and may have stopped.           *)
(***************************************************************************)
LEMMA ProgramStartFetch1 ==
    ASSUME Types, Types', LatchTaken, Streams, Streams', Numbers, Program,
           StartFetch1Effect
    PROVE  Program'
<1>1. /\ phase = "fetch1"
      /\ \E r \in Fetch1Info :
           /\ Redirects(r)
           /\ NotFetches(r) \/ \E x \in Request : Fetches(r, x)
      /\ UNCHANGED <<transfers, fetch2, inputBuffer, latchVars, executeVars,
                     needToSignalDrained>>
  BY DEF StartFetch1Effect
<1>2. PICK r \in Fetch1Info :
        /\ Redirects(r)
        /\ NotFetches(r) \/ \E x \in Request : Fetches(r, x)
  BY <1>1
<1>3. BesideFetch1
  BY Zenon, <1>1, <1>2
  DEF BesideFetch1, latchVars, executeVars, LatchTaken, NotFetches, Fetches
<1>4. /\ E' = E /\ beforeFetch1 /\ ~beforeFetch1' /\ (pending' <=> pendingIn)
      /\ InstsInOrder' /\ (faulted' <=> faulted)
  BY <1>3, BesideFacts
<1>5. /\ F' = r.streamSeqNum /\ P1' = r.predictionSeqNum /\ fetch1'.state = r.state
      /\ execute.drainState # "DrainHaltFetch"
      /\ UNCHANGED <<eToF1, execute, needToSignalDrained, inputBuffer>>
  BY Zenon, <1>1, <1>2, <1>3
  DEF NotFetches, Fetches, F, P1, Program, Draining, BesideFetch1
<1>6. CASE F' # E'
  BY Zenon, <1>4, <1>5, <1>6, ProgramBehind DEF Program
<1>7. CASE F' = E'
  <2>1. r.streamSeqNum = E
    BY <1>4, <1>5, <1>7
  <2>2. Aims(r) /\ Stops(r)
    <3>1. CASE isStreamChange(eToF1.out) /\ Follows(r, eToF1.out)
      BY <1>1, <2>1, <3>1, AimsChange
    <3>2. CASE /\ f2ToF1.out # noBranch
               /\ f2ToF1.out.newStreamSeqNum = fetch1.streamSeqNum
               /\ Follows(r, f2ToF1.out)
      BY Zenon, <1>1, <2>1, <3>2, AimsPrediction DEF F
    <3>3. CASE fetch1.state = "FetchHalted" /\ r = fetch1
      <4>1. F = E
        BY <2>1, <3>3 DEF F
      <4>2. ~pendingOut
        BY ZenonT(30), <3>3, <4>1 DEF Program, Draining, Fresh, pending
      <4> QED BY <1>1, <3>3, <4>1, <4>2, AimsOn
    <3>4. CASE /\ f2ToF1.out = noBranch
                    \/ f2ToF1.out.newStreamSeqNum # fetch1.streamSeqNum
               /\ r = fetch1
      <4>1. F = E /\ ~pendingOut
        BY <2>1, <3>4 DEF F, pendingOut
      <4> QED BY <1>1, <3>4, <4>1, AimsOn
    <3> QED BY Zenon, <1>2, <3>1, <3>2, <3>3, <3>4 DEF Redirects
  <2>3. Numbered' /\ LinesFollow' /\ LinesContinue'
    BY <1>2, <1>3, <2>1, <2>2, AimedOnly, AimedAndFetched
  <2>4. r.state # "FetchRunning" => UNCHANGED requests
    BY <1>2 DEF NotFetches, Fetches
  <2>5. Fresh /\ UNCHANGED requests => Fresh'
    BY ZenonT(30), <1>3, <1>4
       DEF Fresh, NoneFetched, NoneInstd, BesideFetch1, pending, following
  <2>6. /\ execute.drainState = "DrainAllInsts" => Fresh' /\ r.state = "FetchHalted"
        /\ r.state = "FetchHalted" => Fresh'
    BY <2>2, <2>4, <2>5 DEF Stops
  <2>7. r.state = "FetchWaitingForPC" =>
          \/ Fresh' \/ faulted' \/ pending'
          \/ \E i \in DOMAIN inputBuffer' :
               inputBuffer'[i].fault /\ inputBuffer'[i].predictionSeqNum = P1'
    BY Zenon, <1>4, <1>5, <2>2, <2>4, <2>5 DEF Stops
  <2>8. /\ execute.drainState = "DrainAllInsts" =>
             (isStreamChange(eToF1.in) => eToF1.in.reason = "HaltFetch")
        /\ execute.drainState = "DrainCurrentInst" => needToSignalDrained
    BY Zenon DEF Program, Draining
  <2>9. Draining'
    BY Zenon, <1>4, <1>5, <2>6, <2>7, <2>8 DEF Draining
  <2> QED BY <1>4, <2>3, <2>9 DEF Program
<1> QED BY <1>6, <1>7

(***************************************************************************)
(* Nothing has been fetched at first, and Fetch1 is where Execute is.      *)
(***************************************************************************)
LEMMA InitProgram == ASSUME FetchInit, Types PROVE Program
<1>1. /\ requests = <<>> /\ transfers = <<>> /\ inputBuffer = <<>> /\ insts = <<>>
      /\ E = 1 /\ F = 1 /\ P1 = 1 /\ P2 = 1
      /\ fetch1.pc = 0 /\ fetch1.state = "FetchRunning" /\ execute.pc = 0
      /\ execute.drainState = "NotDraining" /\ ~fetch2.havePC
      /\ f1ToF2 = noLine /\ f2ToF1.in = noBranch /\ f2ToF1.out = noBranch
  BY Zenon DEF FetchInit, E, F, P1, P2, firstSeqNum, emptyLatch
<1>2. /\ DOMAIN requests = {} /\ DOMAIN transfers = {} /\ DOMAIN inputBuffer = {}
      /\ DOMAIN insts = {}
  BY <1>1
<1>3. Fresh
  BY <1>1, <1>2 DEF Fresh, NoneInstd, NoneFetched, pending, pendingIn, pendingOut,
                    following
<1>4. /\ InstsInOrder /\ ~faulted /\ lastPC = execute.pc
      /\ ~pending /\ ~pendingIn /\ ~pendingOut /\ ~following
      /\ \A i \in 1 .. numLines : lines[i].s # E
      /\ Flow(lines, numLines, E, P1, fetch1.fetchAddr)
  BY <1>3, FreshFacts
<1>5. Numbered
  BY ZenonT(30), <1>1, <1>4 DEF Numbered
<1>6. LinesFollow /\ LinesContinue
  BY <1>1, <1>2, <1>4 DEF LinesFollow, LinesContinue
<1>7. Draining
  BY <1>1 DEF Draining
<1> QED BY <1>4, <1>5, <1>6, <1>7 DEF Program

(***************************************************************************)
(* A drain that is over has left nothing to commit.                        *)
(***************************************************************************)
LEMMA ProgramResume ==
    ASSUME Types, Types', Streams, Streams', Program, ResumeEffect PROVE Program'
<1>1. /\ Wakes /\ execute'.drainState = "NotDraining"
      /\ execute.drainState # "NotDraining" /\ ~needToSignalDrained
  BY DEF ResumeEffect
<1>2. Fresh
  <2>1. execute.drainState \in
          {"NotDraining", "DrainCurrentInst", "DrainHaltFetch", "DrainAllInsts"}
    BY DEF Types, ExecuteInfo
  <2> QED BY <1>1, <2>1 DEF Program, Draining
<1> QED BY <1>1, <1>2, ProgramWakes

(***************************************************************************)
(* Nor has a suspended thread.                                             *)
(***************************************************************************)
LEMMA ProgramActivate ==
    ASSUME Types, Types', Streams, Streams', Program, ActivateEffect,
           execute.drainState # "DrainAllInsts"
    PROVE  Program'
<1>1. /\ Wakes /\ execute.suspended /\ execute'.drainState = execute.drainState
  BY DEF ActivateEffect
<1>2. Fresh
  BY <1>1 DEF Streams, SuspendedFresh
<1> QED BY <1>1, <1>2, ProgramWakes

(***************************************************************************)
(* Every step keeps what Fetch has in flight on the program.               *)
(***************************************************************************)
LEMMA StepProgram ==
    ASSUME Base, Base', Streams, Streams', Numbers, Program,
           \/ FetchEffect \/ UNCHANGED vars
           \/ ActivateEffect /\ execute.drainState # "DrainAllInsts"
    PROVE  Program'
<1>1. Types /\ Types' /\ LatchTaken
  BY DEF Base
<1>2. CASE UNCHANGED vars
  <2>1. UNCHANGED <<fetch1, requests, transfers, fetch2, inputBuffer, f1ToF2,
                    f2ToF1, eToF1, execute, insts, phase, needToSignalDrained>>
    BY <1>2 DEF vars, fetch1Vars, fetch2Vars, latchVars, executeVars, pipelineVars
  <2>2. (Fresh => Fresh') /\ (beforeFetch1' <=> beforeFetch1)
    BY Zenon, <2>1 DEF Fresh, NoneInstd, NoneFetched, pending, pendingIn, pendingOut,
                following, beforeFetch1, E
  <2>3. numLines' = numLines /\ lines' = lines
    <3>1. numLines' = numLines
      BY <2>1 DEF numLines
    <3>2. \A i : lineAt(i)' = lineAt(i)
      BY <2>1 DEF lineAt
    <3> QED BY <3>1, <3>2 DEF lines
  <2>4. execute.drainState = "DrainHaltFetch" => phase' \in {"between", "execute"}
    BY <2>1 DEF Program, Draining
  <2> QED BY <2>1, <2>2, <2>3, <2>4, ProgramElsewhere
<1>3. CASE Quiet
  BY <1>1, <1>3, ProgramQuiet
<1>4. CASE CommitEffect \/ DiscardEffect \/ EndExecuteEffect \/ InterruptEffect
  BY <1>1, <1>4, ProgramCommit, ProgramDiscard, ProgramEndExecute, ProgramInterrupt
<1>5. CASE StartFetch2Effect \/ ProcessLineEffect \/ EndFetch2Effect
  BY <1>1, <1>5, ProgramStartFetch2, ProgramProcessLine, ProgramEndFetch2
<1>6. CASE StartFetch1Effect \/ DeliverEffect \/ EndCycleEffect
  BY <1>1, <1>6, ProgramStartFetch1, ProgramDeliver, ProgramEndCycle
<1>7. CASE DrainEffect \/ ResumeEffect
  BY <1>1, <1>7, ProgramDrain, ProgramResume
<1>8. CASE ActivateEffect /\ execute.drainState # "DrainAllInsts"
  BY <1>1, <1>8, ProgramActivate
<1> QED BY <1>2, <1>3, <1>4, <1>5, <1>6, <1>7, <1>8 DEF FetchEffect

-----------------------------------------------------------------------------
(***************************************************************************)
(* Base is an invariant.                                                   *)
(***************************************************************************)
LEMMA FetchBase == FetchSpec => []Base
<1>1. FetchInit => Base
  BY InitBase
<1>2. Base /\ [FetchNext]_vars => Base'
  BY FetchSteps, StepBase
<1> QED BY <1>1, <1>2, PTL DEF FetchSpec

(***************************************************************************)
(* Types gives the type invariant.                                         *)
(***************************************************************************)
LEMMA TypesOK == ASSUME Types PROVE FetchTypeOK
<1>1. /\ fetch1.state \in {"FetchHalted", "FetchWaitingForPC", "FetchRunning"}
      /\ fetch1.pc \in Addr /\ fetch1.fetchAddr \in Addr
      /\ fetch1.streamSeqNum \in SeqNum /\ fetch1.predictionSeqNum \in SeqNum
      /\ fetch1.wakeupGuard \in BOOLEAN
  BY DEF Types, Fetch1Info
<1>2. /\ fetch2.pc \in Addr /\ fetch2.predictionSeqNum \in SeqNum
      /\ fetch2.havePC \in BOOLEAN
  BY DEF Types, Fetch2Info
<1>3. /\ execute.pc \in Addr /\ execute.streamSeqNum \in SeqNum
      /\ execute.suspended \in BOOLEAN
  BY DEF Types, ExecuteInfo
<1>4. \A i \in DOMAIN requests :
        requests[i].state \in {"InTranslation", "Translated"}
  <2>1. \A i \in DOMAIN requests : requests[i] \in Request
    BY DEF Types
  <2> QED BY <2>1 DEF Request, Requests
<1>5. \A i \in DOMAIN transfers :
        transfers[i].state \in {"RequestIssuing", "Complete"}
  <2>1. \A i \in DOMAIN transfers : transfers[i] \in Transfer
    BY DEF Types
  <2> QED BY <2>1 DEF Transfer, Requests
<1>6. /\ icacheState \in {"IcacheRunning", "IcacheNeedsRetry"}
      /\ numReservedSlots \in Nat
      /\ active \in BOOLEAN /\ running \in BOOLEAN /\ needToSignalDrained \in BOOLEAN
  BY DEF Types
<1> QED BY <1>1, <1>2, <1>3, <1>4, <1>5, <1>6 DEF FetchTypeOK

(***************************************************************************)
(* The front end's variables keep their types for every address space,     *)
(* line width, program and size of the queues, however often streams       *)
(* change and predictions are made.                                        *)
(***************************************************************************)
THEOREM FetchTypeCorrect == FetchSpec => []FetchTypeOK
<1>1. Base => FetchTypeOK
  BY TypesOK DEF Base
<1> QED BY <1>1, FetchBase, PTL

(***************************************************************************)
(* Every line requested or on its way has a slot of Fetch2's input buffer, *)
(* and a line that Fetch1 or Fetch2 throws away gives its slot back:       *)
(* Queue::push never pushes into a full buffer, whatever the sizes.        *)
(***************************************************************************)
THEOREM EveryLineHasRoom == FetchSpec => []RoomForEveryLine
<1>1. Base => RoomForEveryLine
  BY DEF Base
<1> QED BY <1>1, FetchBase, PTL

(***************************************************************************)
(* The assertions of Fetch1::recvReqRetry: the request that the cache      *)
(* refused waits at the front of requests, translated, however translations*)
(* and responses interleave with the retry.                                *)
(***************************************************************************)
THEOREM RetryHasItsRequest == FetchSpec => []RetryFindsRequest
<1>1. Base => RetryFindsRequest
  BY DEF Base
<1> QED BY <1>1, FetchBase, PTL

(***************************************************************************)
(* The streams stay in order.                                              *)
(***************************************************************************)
LEMMA FetchStreams == FetchSpec => []Streams
<1>1. FetchInit => Streams
  BY InitStreams
<1>2. Base /\ Streams /\ [FetchNext]_vars => Streams'
  BY FetchSteps, StepStreams
<1> QED BY <1>1, <1>2, FetchBase, PTL DEF FetchSpec

(***************************************************************************)
(* Execute::commitInst never panics: while a thread is suspended nothing   *)
(* of its stream is in the back end, for every program and every           *)
(* interleaving of suspensions, wakeups and drains.                        *)
(***************************************************************************)
THEOREM NothingCommitsSuspended == FetchSpec => []SuspendedNeverCommits
<1>1. Streams => SuspendedNeverCommits
  BY DEF Streams, SuspendedFresh, Fresh, NoneInstd, SuspendedNeverCommits, E
<1> QED BY <1>1, FetchStreams, PTL

(***************************************************************************)
(* They are never ahead.                                                   *)
(***************************************************************************)
LEMMA FetchNumbers == FetchSpec => []Numbers
<1>1. FetchInit => Numbers
  <2> SUFFICES ASSUME FetchInit PROVE Numbers
    OBVIOUS
  <2>1. /\ P1 = 1 /\ P2 = 1 /\ execute.lastPredictionSeqNum = 1 /\ insts = <<>>
        /\ f2ToF1.in = noBranch /\ f2ToF1.out = noBranch
        /\ eToF1.in = noBranch /\ eToF1.out = noBranch
    BY DEF FetchInit, P1, P2, firstSeqNum, emptyLatch
  <2>2. DOMAIN insts = {}
    BY <2>1
  <2> QED BY <2>1, <2>2 DEF Numbers, Predicts, NoneAfterP2
<1>2. Base /\ Numbers /\ [FetchNext]_vars => Numbers'
  BY FetchSteps, StepNumbers
<1> QED BY <1>1, <1>2, FetchBase, PTL DEF FetchSpec

(***************************************************************************)
(* MyMinorCPU::activateContext is not called once a drain has halted       *)
(* Fetch1.  It wakes Fetch1 up whatever the drain state, and Fetch1 would  *)
(* go on in the stream whose instructions Execute throws away until the    *)
(* drain is over.                                                          *)
(***************************************************************************)
NoWakeWhileHalted == activateContext => execute.drainState # "DrainAllInsts"

NeverWokenWhileHalted == [][NoWakeWhileHalted]_vars

(***************************************************************************)
(* What Fetch has in flight stays on the program.                          *)
(***************************************************************************)
LEMMA FetchProgram == FetchSpec /\ NeverWokenWhileHalted => []Program
<1>1. FetchInit => Program
  BY InitBase, InitProgram DEF Base
<1>2. Base /\ Base' /\ Streams /\ Streams' /\ Numbers /\ Program /\ [FetchNext]_vars
        /\ [NoWakeWhileHalted]_vars => Program'
  BY FetchSteps, StepProgram DEF NoWakeWhileHalted
<1> QED BY <1>1, <1>2, FetchBase, FetchStreams, FetchNumbers, PTL
    DEF FetchSpec, NeverWokenWhileHalted

(***************************************************************************)
(* Execute commits the program: the instruction it commits next is the one *)
(* at the thread's PC, decoded from the bytes at that PC, for every        *)
(* program, every prediction, every interleaving of faults, interrupts,    *)
(* suspensions and drains and every size of the queues, if no thread is    *)
(* woken once a drain has halted Fetch1.                                   *)
(***************************************************************************)
THEOREM ProgramIsCommitted == FetchSpec /\ NeverWokenWhileHalted => []CommitsProgram
<1>1. Types /\ Program => CommitsProgram
  <2> SUFFICES ASSUME Types, Program, insts # <<>>,
                      Head(insts).streamSeqNum = execute.streamSeqNum
               PROVE  Head(insts).pc = execute.pc /\ Head(insts).addr = execute.pc
    BY DEF CommitsProgram
  <2>1. Head(insts) = insts[1] /\ 1 \in DOMAIN insts
    <3>1. insts \in Seq(Inst)
      BY DEF Types
    <3> QED BY <3>1, HeadFacts
  <2>2. ~faultBefore(1 - 1)
    BY DEF faultBefore
  <2> QED BY <2>1, <2>2 DEF Program, InstsInOrder, E
<1>2. FetchSpec => []Types
  <2>1. Base => Types
    BY DEF Base
  <2> QED BY <2>1, FetchBase, PTL
<1> QED BY <1>1, <1>2, FetchProgram, PTL
=============================================================================
