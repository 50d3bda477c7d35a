--------------------------- MODULE FetchLineProofs --------------------------
(***************************************************************************)
(* Facts about addresses and sequences, and what the effects of the        *)
(* actions do to the stream numbers, the prediction numbers, the lines     *)
(* under way and the instructions on their way to Execute.                 *)
(***************************************************************************)
EXTENDS FetchEffects, TLAPS

(***************************************************************************)
(* Addresses, and sequences.                                               *)
(***************************************************************************)

(***************************************************************************)
(* Arithmetic of addresses.                                                *)
(***************************************************************************)
(***************************************************************************)
(* A multiple of the line width leaves no remainder.                       *)
(***************************************************************************)
LEMMA Multiple == ASSUME NEW q \in Nat PROVE (lineWidth * q) % lineWidth = 0
BY FetchAssumption

(***************************************************************************)
(* An address without its offset in the line is a multiple of the width.   *)
(***************************************************************************)
LEMMA Quotient ==
    ASSUME NEW n \in Nat
    PROVE  \E q \in Nat : n - (n % lineWidth) = lineWidth * q
<1>1. n \div lineWidth \in Nat
  BY FetchAssumption
<1>2. n = lineWidth * (n \div lineWidth) + (n % lineWidth)
  BY FetchAssumption
<1>3. n - (n % lineWidth) = lineWidth * (n \div lineWidth)
  BY <1>1, <1>2, FetchAssumption
<1> QED BY <1>1, <1>3

(***************************************************************************)
(* lineBase and advancePC are addresses, lineBase is aligned, and leaves   *)
(* an aligned address as it is.                                            *)
(***************************************************************************)
LEMMA AddressOps ==
    ASSUME NEW a \in Addr
    PROVE  /\ advancePC(a) \in Addr
           /\ lineBase(a) \in Addr
           /\ lineBase(a) % lineWidth = 0
           /\ a % lineWidth = 0 => lineBase(a) = a
<1>1. a \in Nat /\ a % lineWidth \in Nat /\ a % lineWidth <= a
  BY FetchAssumption DEF Addr
<1>2. advancePC(a) \in Addr /\ lineBase(a) \in Addr
  BY <1>1, FetchAssumption DEF Addr, advancePC, lineBase
<1>3. lineBase(a) % lineWidth = 0
  BY <1>1, Quotient, Multiple DEF lineBase
<1> QED BY <1>1, <1>2, <1>3 DEF lineBase

(***************************************************************************)
(* The line that follows an aligned one is aligned.                        *)
(***************************************************************************)
LEMMA NextBaseAligned ==
    ASSUME NEW b \in Addr, b % lineWidth = 0
    PROVE  nextBase(b) \in Addr /\ nextBase(b) % lineWidth = 0
<1>1. b \in Nat /\ b < AddrSpace
  BY FetchAssumption DEF Addr
<1>2. PICK q \in Nat : b - (b % lineWidth) = lineWidth * q
  BY <1>1, Quotient
<1>3. PICK r \in Nat : AddrSpace - (AddrSpace % lineWidth) = lineWidth * r
  BY Zenon, Quotient, FetchAssumption
<1>4. q + 1 \in Nat /\ b + lineWidth = lineWidth * (q + 1)
  BY <1>1, <1>2, FetchAssumption
<1>5. b + lineWidth <= AddrSpace
  <2>1. q < r
    BY <1>1, <1>2, <1>3, FetchAssumption
  <2>2. r - (q + 1) \in Nat /\ lineWidth * (r - (q + 1)) \in Nat
    BY <2>1, FetchAssumption
  <2>3. lineWidth * r = lineWidth * (q + 1) + lineWidth * (r - (q + 1))
    BY <2>2, FetchAssumption
  <2> QED BY <2>2, <2>3, <1>3, <1>4, FetchAssumption
<1>6. (b + lineWidth) % lineWidth = 0
  BY <1>4, Multiple
<1> QED BY <1>1, <1>5, <1>6, FetchAssumption DEF nextBase, Addr

(***************************************************************************)
(* A number is its quotient and its remainder in one way only.             *)
(***************************************************************************)
LEMMA Remainder ==
    ASSUME NEW d \in Nat \ {0}, NEW q \in Nat, NEW m \in 0 .. d - 1
    PROVE  (d * q + m) % d = m
<1> DEFINE n == d * q + m
           k == n \div d
           r == n % d
<1>1. d * q \in Nat /\ n \in Nat
  OBVIOUS
<1>2. k \in Nat /\ r \in 0 .. d - 1 /\ n = d * k + r
  BY <1>1
<1> HIDE DEF k, r
<1>3. CASE k = q
  BY <1>2, <1>3
<1>4. CASE k < q
  <2>1. q - (k + 1) \in Nat /\ d * (q - (k + 1)) \in Nat
    BY <1>2, <1>4
  <2>2. d * q = d * k + d + d * (q - (k + 1))
    BY <1>2, <2>1
  <2> QED BY <1>1, <1>2, <2>1, <2>2
<1>5. CASE q < k
  <2>1. k - (q + 1) \in Nat /\ d * (k - (q + 1)) \in Nat
    BY <1>2, <1>5
  <2>2. d * k = d * q + d + d * (k - (q + 1))
    BY <1>2, <2>1
  <2> QED BY <1>1, <1>2, <2>1, <2>2
<1>6. r = m
  BY <1>2, <1>3, <1>4, <1>5
<1> QED BY <1>6 DEF r

(***************************************************************************)
(* The bytes at the index computed for pc are those at pc, and the next    *)
(* bytes those at the next pc.                                             *)
(***************************************************************************)
LEMMA IndexOfPC ==
    ASSUME NEW b \in Addr, NEW pc \in Addr
    PROVE  /\ (pc - b) % AddrSpace \in Nat
           /\ (b + ((pc - b) % AddrSpace)) % AddrSpace = pc
           /\ pc % AddrSpace = pc
           /\ \A i \in Nat : (b + i) % AddrSpace \in Addr
           /\ \A i \in Nat : (b + i) % AddrSpace = pc =>
                                (b + (i + 1)) % AddrSpace = advancePC(pc)
<1>1. /\ b \in 0 .. AddrSpace - 1 /\ pc \in 0 .. AddrSpace - 1
      /\ AddrSpace \in Nat \ {0}
  BY FetchAssumption DEF Addr
<1>2. /\ (pc - b) % AddrSpace \in Nat
      /\ (b + ((pc - b) % AddrSpace)) % AddrSpace = pc
  BY <1>1
<1>3. pc % AddrSpace = pc
  BY <1>1
<1>4. \A i \in Nat : (b + i) % AddrSpace \in Addr
  BY <1>1 DEF Addr
<1>5. \A i \in Nat : (b + i) % AddrSpace = pc =>
                       (b + (i + 1)) % AddrSpace = (pc + 1) % AddrSpace
  <2> SUFFICES ASSUME NEW i \in Nat, (b + i) % AddrSpace = pc
               PROVE  (b + (i + 1)) % AddrSpace = (pc + 1) % AddrSpace
    OBVIOUS
  <2> DEFINE n == b + i
             q == n \div AddrSpace
  <2>1. n \in Nat /\ q \in Nat /\ n = AddrSpace * q + pc
    BY <1>1
  <2>2. b + (i + 1) = AddrSpace * q + (pc + 1)
    BY <1>1, <2>1
  <2>3. CASE pc + 1 < AddrSpace
    BY <1>1, <2>1, <2>2, <2>3, Remainder
  <2>4. CASE pc + 1 = AddrSpace
    <3>1. b + (i + 1) = AddrSpace * (q + 1) + 0
      BY <1>1, <2>1, <2>2, <2>4
    <3>2. q + 1 \in Nat /\ 0 \in 0 .. AddrSpace - 1
      BY <1>1, <2>1
    <3>3. (AddrSpace * (q + 1) + 0) % AddrSpace = 0
      BY <1>1, <3>2, Remainder
    <3> QED BY <1>1, <2>4, <3>1, <3>3
  <2> QED BY <1>1, <2>3, <2>4
<1> QED BY <1>2, <1>3, <1>4, <1>5 DEF advancePC

(***************************************************************************)
(* A line and a branch are not bubbles.                                    *)
(***************************************************************************)
LEMMA LineNotBubble == ASSUME NEW l \in Line PROVE l # noLine
<1>1. DOMAIN l = {"streamSeqNum", "predictionSeqNum", "pc", "lineBaseAddr", "fault"}
  BY DEF Line
<1>2. DOMAIN noLine = {"bubble"}
  BY DEF noLine
<1> QED BY <1>1, <1>2

(***************************************************************************)
(* Nor is a branch.                                                        *)
(***************************************************************************)
LEMMA BranchNotBubble ==
    ASSUME NEW b \in Branch PROVE b # noBranch /\ b.reason # "NoBranch"
BY DEF Branch, Reason, noBranch

(***************************************************************************)
(* Taking the first element off a sequence, and adding a last one.         *)
(***************************************************************************)
LEMMA TailFacts ==
    ASSUME NEW S, NEW q \in Seq(S), q # <<>>
    PROVE  /\ Tail(q) \in Seq(S) /\ Len(Tail(q)) = Len(q) - 1
           /\ Len(q) \in Nat \ {0} /\ Head(q) = q[1] /\ Head(q) \in S
           /\ \A i \in 1 .. Len(q) - 1 : Tail(q)[i] = q[i + 1]
OBVIOUS

(***************************************************************************)
(* The head of a sequence is its first element.                            *)
(***************************************************************************)
LEMMA HeadFacts ==
    ASSUME NEW S, NEW q \in Seq(S), q # <<>>
    PROVE  Head(q) = q[1] /\ 1 \in DOMAIN q
OBVIOUS

(***************************************************************************)
(* What is appended comes last.                                            *)
(***************************************************************************)
LEMMA AppendFacts ==
    ASSUME NEW S, NEW q \in Seq(S), NEW x \in S
    PROVE  /\ Append(q, x) \in Seq(S) /\ Len(Append(q, x)) = Len(q) + 1
           /\ Len(q) \in Nat
           /\ \A i \in 1 .. Len(q) : Append(q, x)[i] = q[i]
           /\ Append(q, x)[Len(q) + 1] = x
OBVIOUS

-----------------------------------------------------------------------------
(***************************************************************************)
(* The stream numbers as numbers.                                          *)
(***************************************************************************)
LEMMA StreamNumbers ==
    ASSUME Types
    PROVE  /\ E \in Nat /\ F \in Nat
           /\ fetch2.lastStreamSeqNum \in Nat /\ fetch2.expectedStreamSeqNum \in Nat
           /\ \A i \in DOMAIN inputBuffer : inputBuffer[i].streamSeqNum \in Nat
           /\ f1ToF2 # noLine => f1ToF2.streamSeqNum \in Nat
           /\ \A i \in DOMAIN transfers : transfers[i].streamSeqNum \in Nat
           /\ \A i \in DOMAIN requests : requests[i].streamSeqNum \in Nat
           /\ \A i \in DOMAIN insts : insts[i].streamSeqNum \in Nat
           /\ f2ToF1.in # noBranch => f2ToF1.in.newStreamSeqNum \in Nat
           /\ f2ToF1.out # noBranch => f2ToF1.out.newStreamSeqNum \in Nat
           /\ isStreamChange(eToF1.in) => eToF1.in.newStreamSeqNum \in Nat
           /\ isStreamChange(eToF1.out) => eToF1.out.newStreamSeqNum \in Nat
<1>1. E \in Nat /\ F \in Nat
  BY DEF Types, E, F, ExecuteInfo, Fetch1Info, SeqNum
<1>2. fetch2.lastStreamSeqNum \in Nat /\ fetch2.expectedStreamSeqNum \in Nat
  BY DEF Types, Fetch2Info, SeqNum
<1>3. \A i \in DOMAIN inputBuffer : inputBuffer[i].streamSeqNum \in Nat
  <2>1. \A i \in DOMAIN inputBuffer : inputBuffer[i] \in Line
    BY DEF Types
  <2> QED BY <2>1 DEF Line, SeqNum
<1>4. f1ToF2 # noLine => f1ToF2.streamSeqNum \in Nat
  BY DEF Types, Line, SeqNum
<1>5. \A i \in DOMAIN transfers : transfers[i].streamSeqNum \in Nat
  <2>1. \A i \in DOMAIN transfers : transfers[i] \in Transfer
    BY DEF Types
  <2> QED BY <2>1 DEF Transfer, Requests, SeqNum
<1>6. \A i \in DOMAIN requests : requests[i].streamSeqNum \in Nat
  <2>1. \A i \in DOMAIN requests : requests[i] \in Request
    BY DEF Types
  <2> QED BY <2>1 DEF Request, Requests, SeqNum
<1>7. \A i \in DOMAIN insts : insts[i].streamSeqNum \in Nat
  <2>1. \A i \in DOMAIN insts : insts[i] \in Inst
    BY DEF Types
  <2> QED BY <2>1 DEF Inst, SeqNum
<1>8. \A b \in Branch : b.newStreamSeqNum \in Nat
  BY DEF Branch, SeqNum
<1>9. /\ f2ToF1.in \in Branch \cup {noBranch} /\ f2ToF1.out \in Branch \cup {noBranch}
      /\ eToF1.in \in Branch \cup {noBranch} /\ eToF1.out \in Branch \cup {noBranch}
  BY DEF Types, Latch
<1>10. ~isStreamChange(noBranch)
  BY DEF isStreamChange, noBranch
<1> QED BY <1>1, <1>2, <1>3, <1>4, <1>5, <1>6, <1>7, <1>8, <1>9, <1>10

(***************************************************************************)
(* Each thing in q is in the stream of a thing in r.                       *)
(***************************************************************************)
Among(q, r) ==
    \A i \in DOMAIN q : \E j \in DOMAIN r : q[i].streamSeqNum = r[j].streamSeqNum

(***************************************************************************)
(* What is left of a queue is in the streams of the queue.                 *)
(***************************************************************************)
LEMMA TailAmong ==
    ASSUME NEW S, NEW q \in Seq(S), q # <<>>
    PROVE  Among(Tail(q), q)
<1>1. /\ Tail(q) \in Seq(S) /\ Len(Tail(q)) = Len(q) - 1 /\ Len(q) \in Nat
      /\ \A i \in 1 .. Len(q) - 1 : Tail(q)[i] = q[i + 1]
  BY TailFacts
<1>2. ASSUME NEW i \in DOMAIN Tail(q)
      PROVE  i + 1 \in DOMAIN q /\ Tail(q)[i] = q[i + 1]
  BY <1>1
<1> QED BY <1>2 DEF Among

(***************************************************************************)
(* A line that moves keeps its stream.                                     *)
(***************************************************************************)
LEMMA MovingAmong ==
    ASSUME Types, Moving
    PROVE  /\ Among(requests', requests)
           /\ \A i \in DOMAIN transfers' :
                \/ \E j \in DOMAIN transfers :
                     transfers'[i].streamSeqNum = transfers[j].streamSeqNum
                \/ \E j \in DOMAIN requests :
                     transfers'[i].streamSeqNum = requests[j].streamSeqNum
<1>1. /\ requests \in Seq(Request) /\ requests' \in Seq(Request)
      /\ transfers \in Seq(Transfer) /\ transfers' \in Seq(Transfer)
  BY DEF Types, Moving
<1>2. CASE SameLines(requests', requests) /\ SameLines(transfers', transfers)
  <2>1. \A i \in DOMAIN requests' :
          i \in DOMAIN requests /\ SameLine(requests'[i], requests[i])
    BY <1>1, <1>2 DEF SameLines
  <2>2. \A i \in DOMAIN transfers' :
          i \in DOMAIN transfers /\ SameLine(transfers'[i], transfers[i])
    BY <1>1, <1>2 DEF SameLines
  <2> QED BY <2>1, <2>2 DEF SameLine, Among
<1>3. CASE /\ requests # <<>>
           /\ Shifted(requests', requests)
           /\ Extended(transfers', transfers, requests[1])
  <2>1. ASSUME NEW i \in DOMAIN requests'
        PROVE  /\ i + 1 \in DOMAIN requests
               /\ requests'[i].streamSeqNum = requests[i + 1].streamSeqNum
    BY <1>1, <1>3 DEF Shifted, SameLine
  <2>2. 1 \in DOMAIN requests
    BY <1>1, <1>3
  <2>3. ASSUME NEW i \in DOMAIN transfers', i # Len(transfers')
        PROVE  i \in DOMAIN transfers /\ transfers'[i] = transfers[i]
    BY <1>1, <1>3, <2>3 DEF Extended
  <2>4. transfers'[Len(transfers')].streamSeqNum = requests[1].streamSeqNum
    BY <1>3 DEF Extended, SameLine
  <2> QED BY <2>1, <2>2, <2>3, <2>4 DEF Among
<1> QED BY <1>2, <1>3 DEF Moving

(***************************************************************************)
(* When Execute goes on to a new stream nothing is of that stream yet.     *)
(***************************************************************************)
LEMMA NewStream ==
    ASSUME Types, Behind, execute'.streamSeqNum = E + 1,
           insts' = insts \/ (insts # <<>> /\ insts' = Tail(insts)),
           UNCHANGED <<fetch1, requests, transfers, fetch2, inputBuffer,
                       f1ToF2, f2ToF1>>
    PROVE  /\ Behind' /\ Fresh'
           /\ E' = E + 1 /\ F' = F /\ F < E' /\ E < E' /\ E \in Nat /\ F \in Nat
<1>1. insts \in Seq(Inst) /\ E' = E + 1 /\ F' = F
  BY DEF Types, E, F
<1>2. Among(insts', insts)
  BY <1>1, TailAmong DEF Among
<1>3. F < E' /\ E < E' /\ F <= E' /\ E \in Nat /\ F \in Nat
  BY <1>1, StreamNumbers DEF Behind
<1>4. \A i \in DOMAIN insts' : insts'[i].streamSeqNum <= F
  BY <1>2 DEF Behind, Among
<1>5. Behind'
  BY <1>1, <1>3, <1>4 DEF Behind
<1>6. NoneInstd'
  <2>1. \A i \in DOMAIN insts' : insts'[i].streamSeqNum \in Nat
    BY Zenon, <1>2, StreamNumbers DEF Among
  <2> QED BY <1>3, <1>4, <2>1 DEF NoneInstd
<1>7. NoneFetched'
  <2>1. \A i \in DOMAIN inputBuffer : inputBuffer[i].streamSeqNum # E'
    BY <1>3 DEF Behind
  <2>2. f1ToF2 # noLine => f1ToF2.streamSeqNum # E'
    BY <1>3 DEF Behind
  <2>3. \A i \in DOMAIN transfers : transfers[i].streamSeqNum # E'
    BY <1>1, <1>3, StreamNumbers DEF Behind
  <2>4. \A i \in DOMAIN requests : requests[i].streamSeqNum # E'
    BY <1>1, <1>3, StreamNumbers DEF Behind
  <2> QED BY <2>1, <2>2, <2>3, <2>4 DEF NoneFetched
<1>8. ~pending' /\ ~following'
  <2>1. fetch2.lastStreamSeqNum # E'
    BY <1>1, <1>3, StreamNumbers DEF Behind
  <2>2. f2ToF1.in # noBranch => f2ToF1.in.newStreamSeqNum # E'
    BY <1>1, <1>3, StreamNumbers DEF Behind
  <2>3. f2ToF1.out # noBranch => f2ToF1.out.newStreamSeqNum # E'
    BY <1>1, <1>3, StreamNumbers DEF Behind
  <2> QED BY <2>1, <2>2, <2>3 DEF pending, pendingIn, pendingOut, following
<1> QED BY <1>1, <1>3, <1>5, <1>6, <1>7, <1>8 DEF Fresh

(***************************************************************************)
(* The steps that leave Fetch1 and Fetch2 alone but may take the first     *)
(* instruction, in the same stream.                                        *)
(***************************************************************************)
LEMMA SameStream ==
    ASSUME Types, Behind, execute'.streamSeqNum = E,
           insts' = insts \/ (insts # <<>> /\ insts' = Tail(insts)),
           beforeFetch1, beforeFetch1',
           UNCHANGED <<fetch1, requests, transfers, fetch2, inputBuffer,
                       f1ToF2, f2ToF1>>
    PROVE  /\ Behind' /\ (Fresh => Fresh') /\ E' = E /\ F' = F
<1>1. insts \in Seq(Inst) /\ E' = E /\ F' = F
  BY DEF Types, E, F
<1>2. Among(insts', insts)
  BY <1>1, TailAmong DEF Among
<1>3. Behind'
  BY <1>1, <1>2 DEF Behind, Among
<1>4. NoneInstd => NoneInstd'
  BY <1>1, <1>2 DEF NoneInstd, Among
<1>5. NoneFetched => NoneFetched'
  BY <1>1 DEF NoneFetched
<1>6. (pending' => pending) /\ (following' => following)
  BY <1>1 DEF pending, pendingIn, pendingOut, following
<1> QED BY <1>1, <1>3, <1>4, <1>5, <1>6 DEF Fresh

(***************************************************************************)
(* Commit: a change of stream is new to everyone; without one the thread   *)
(* is not suspended, and Fetch1 already in the stream.                     *)
(***************************************************************************)
LEMMA StreamsCommit == ASSUME Types, Streams, CommitEffect PROVE Streams'
<1>1. /\ phase = "execute" /\ insts # <<>>
      /\ Head(insts).streamSeqNum = execute.streamSeqNum
      /\ Commits(Head(insts)) /\ insts' = Tail(insts)
      /\ UNCHANGED <<fetch1Vars, fetch2Vars, f1ToF2, f2ToF1, pipelineVars>>
  BY DEF CommitEffect
<1>2. phase' = "execute" /\ Behind
  BY <1>1 DEF pipelineVars, Streams
<1>3. /\ beforeFetch1 /\ beforeFetch1' /\ Dumped'
      /\ UNCHANGED <<fetch1, requests, transfers, fetch2, inputBuffer, f1ToF2,
                     f2ToF1>>
  BY <1>1, <1>2 DEF beforeFetch1, Dumped, fetch1Vars, fetch2Vars
<1>4. eToF1'.out = eToF1.out
  BY <1>1 DEF Commits
<1>5. CASE /\ isStreamChange(eToF1'.in)
           /\ execute'.streamSeqNum = execute.streamSeqNum + 1
           /\ eToF1'.in.newStreamSeqNum = execute'.streamSeqNum
           /\ eToF1'.in.target = execute'.pc
  <2>1. execute'.streamSeqNum = E + 1
    BY <1>5 DEF E
  <2>2. /\ Behind' /\ Fresh'
        /\ E' = E + 1 /\ F' = F /\ F < E' /\ E < E' /\ E \in Nat /\ F \in Nat
    BY <1>1, <1>2, <1>3, <2>1, NewStream
  <2>3. isStreamChange(eToF1.out) => F < eToF1.out.newStreamSeqNum
                                     /\ eToF1.out.newStreamSeqNum <= E
                                     /\ eToF1.out.newStreamSeqNum \in Nat
    BY <1>3, StreamNumbers DEF Streams, Ahead
  <2>4. isStreamChange(eToF1.out) => eToF1.out.newStreamSeqNum <= E'
                                     /\ eToF1.out.newStreamSeqNum < E'
                                     /\ eToF1.out.newStreamSeqNum # E'
    BY <2>2, <2>3
  <2>5. eToF1'.in.newStreamSeqNum = E'
    BY <1>5 DEF E
  <2>6. Ahead'
    BY <1>4, <1>5, <2>2, <2>3, <2>4, <2>5 DEF Ahead
  <2> QED BY <1>3, <2>2, <2>6 DEF Streams, SuspendedFresh
<1>6. CASE /\ ~isStreamChange(eToF1'.in)
           /\ execute'.streamSeqNum = execute.streamSeqNum
           /\ execute'.suspended = execute.suspended
  <2>1. Behind' /\ E' = E /\ F' = F
    <3>1. execute'.streamSeqNum = E
      BY <1>6 DEF E
    <3> QED BY <1>1, <1>2, <1>3, <3>1, SameStream
  <2>2. 1 \in DOMAIN insts /\ insts[1].streamSeqNum = E
    <3>1. insts \in Seq(Inst)
      BY DEF Types
    <3> QED BY <1>1, <3>1 DEF E
  <2>3. ~execute.suspended
    BY <2>2 DEF Streams, SuspendedFresh, Fresh, NoneInstd
  <2>4. F = E
    BY <2>2, StreamNumbers DEF Streams, Behind
  <2>5. ~isStreamChange(eToF1.out)
    BY <1>3, <2>4, StreamNumbers DEF Streams, Ahead
  <2>6. Ahead'
    BY <1>4, <1>6, <2>5 DEF Ahead
  <2> QED BY <1>3, <1>6, <2>1, <2>3, <2>6 DEF Streams, SuspendedFresh
<1> QED BY <1>1, <1>5, <1>6 DEF Commits

(***************************************************************************)
(* Discard, an interrupt and the end of Execute.                           *)
(***************************************************************************)
LEMMA StreamsDiscard ==
    ASSUME Types, Streams, DiscardEffect PROVE Streams' /\ (Fresh => Fresh')
<1>1. /\ phase = "execute" /\ insts # <<>> /\ insts' = Tail(insts)
      /\ execute'.streamSeqNum = execute.streamSeqNum
      /\ execute'.pc = execute.pc /\ execute'.suspended = execute.suspended
      /\ UNCHANGED <<fetch1Vars, fetch2Vars, latchVars, pipelineVars>>
  BY DEF DiscardEffect
<1>2. phase' = "execute" /\ Behind
  BY <1>1 DEF pipelineVars, Streams
<1>3. /\ beforeFetch1 /\ beforeFetch1' /\ Dumped'
      /\ UNCHANGED <<fetch1, requests, transfers, fetch2, inputBuffer, f1ToF2,
                     f2ToF1, eToF1>>
      /\ execute'.streamSeqNum = E
  BY <1>1, <1>2 DEF beforeFetch1, Dumped, fetch1Vars, fetch2Vars, latchVars, E
<1>4. Behind' /\ (Fresh => Fresh') /\ E' = E /\ F' = F
  BY <1>1, <1>2, <1>3, SameStream
<1>5. Ahead'
  BY <1>1, <1>3, <1>4 DEF Streams, Ahead
<1> QED BY <1>1, <1>3, <1>4, <1>5 DEF Streams, SuspendedFresh

(***************************************************************************)
(* A change of stream at the end of Execute: the interrupt and HaltFetch.  *)
(***************************************************************************)
LEMMA StreamsChange ==
    ASSUME Types, Streams, execute'.streamSeqNum = E + 1,
           isStreamChange(eToF1'.in), eToF1'.out = eToF1.out,
           eToF1'.in.newStreamSeqNum = execute'.streamSeqNum,
           eToF1'.in.target = execute'.pc,
           beforeFetch1, phase' = "fetch2",
           UNCHANGED <<fetch1Vars, fetch2Vars, f1ToF2, f2ToF1, insts>>
    PROVE  Streams' /\ Fresh'
<1>1. UNCHANGED <<fetch1, requests, transfers, fetch2, inputBuffer, f1ToF2, f2ToF1>>
  BY DEF fetch1Vars, fetch2Vars
<1>2. /\ Behind' /\ Fresh'
      /\ E' = E + 1 /\ F' = F /\ F < E' /\ E < E' /\ E \in Nat /\ F \in Nat
  BY <1>1, NewStream DEF Streams
<1>3. isStreamChange(eToF1.out) => F < eToF1.out.newStreamSeqNum
                                   /\ eToF1.out.newStreamSeqNum <= E
                                   /\ eToF1.out.newStreamSeqNum \in Nat
  BY StreamNumbers DEF Streams, Ahead
<1>4. isStreamChange(eToF1.out) => eToF1.out.newStreamSeqNum <= E'
                                   /\ eToF1.out.newStreamSeqNum < E'
                                   /\ eToF1.out.newStreamSeqNum # E'
  BY <1>2, <1>3
<1>5. eToF1'.in.newStreamSeqNum = E'
  BY DEF E
<1>6. Ahead'
  BY <1>2, <1>3, <1>4, <1>5 DEF Ahead
<1>7. Dumped'
  BY DEF Dumped
<1> QED BY <1>2, <1>6, <1>7 DEF Streams, SuspendedFresh

(***************************************************************************)
(* An interrupt starts a new stream, too.                                  *)
(***************************************************************************)
LEMMA StreamsInterrupt == ASSUME Types, Streams, InterruptEffect PROVE Streams'
<1>1. /\ phase = "between" /\ phase' = "fetch2"
      /\ execute'.streamSeqNum = execute.streamSeqNum + 1
      /\ isStreamChange(eToF1'.in) /\ eToF1'.out = eToF1.out
      /\ eToF1'.in.newStreamSeqNum = execute'.streamSeqNum
      /\ eToF1'.in.target = execute'.pc
      /\ UNCHANGED <<fetch1Vars, fetch2Vars, f1ToF2, f2ToF1, insts>>
  BY DEF InterruptEffect
<1>2. beforeFetch1 /\ execute'.streamSeqNum = E + 1
  BY <1>1 DEF beforeFetch1, E
<1> QED BY <1>1, <1>2, StreamsChange

(***************************************************************************)
(* The drain that halts Fetch1 starts one, too.                            *)
(***************************************************************************)
LEMMA StreamsEndExecute ==
    ASSUME Types, Streams, EndExecuteEffect PROVE Streams' /\ (Fresh => Fresh')
<1>1. /\ phase = "execute" /\ phase' = "fetch2" /\ eToF1'.out = eToF1.out
      /\ UNCHANGED <<fetch1Vars, fetch2Vars, f1ToF2, f2ToF1, insts>>
      /\ \/ Halts
         \/ execute' = execute /\ (eToF1'.in = noBranch \/ eToF1' = eToF1)
  BY DEF EndExecuteEffect
<1>2. beforeFetch1 /\ beforeFetch1'
  BY <1>1 DEF beforeFetch1
<1>3. CASE Halts
  <2>1. /\ execute'.streamSeqNum = E + 1 /\ isStreamChange(eToF1'.in)
        /\ eToF1'.in.newStreamSeqNum = execute'.streamSeqNum
        /\ eToF1'.in.target = execute'.pc
    BY <1>3 DEF Halts, E
  <2> QED BY <1>1, <1>2, <2>1, StreamsChange
<1>4. CASE execute' = execute /\ (eToF1'.in = noBranch \/ eToF1' = eToF1)
  <2>1. /\ UNCHANGED <<fetch1, requests, transfers, fetch2, inputBuffer, f1ToF2,
                       f2ToF1>>
        /\ execute'.streamSeqNum = E /\ Behind
    BY <1>1, <1>4 DEF fetch1Vars, fetch2Vars, E, Streams
  <2>2. Behind' /\ (Fresh => Fresh') /\ E' = E /\ F' = F
    BY <1>1, <1>2, <2>1, SameStream
  <2>3. isStreamChange(eToF1'.in) => eToF1'.in = eToF1.in
    BY <1>4 DEF isStreamChange, noBranch
  <2>4. Ahead'
    BY <1>1, <1>2, <1>4, <2>2, <2>3 DEF Streams, Ahead
  <2>5. Dumped'
    BY <1>1 DEF Dumped
  <2> QED BY <1>4, <2>2, <2>4, <2>5 DEF Streams, SuspendedFresh
<1> QED BY <1>1, <1>3, <1>4

(***************************************************************************)
(* The quiet steps: translations, responses and retries.                   *)
(***************************************************************************)
LEMMA StreamsQuiet ==
    ASSUME Types, Streams, Quiet PROVE Streams' /\ (Fresh => Fresh')
<1>1. /\ UNCHANGED <<fetch1, fetch2, inputBuffer, f1ToF2, f2ToF1, eToF1,
                     execute, insts>>
      /\ E' = E /\ F' = F
      /\ (beforeFetch1' <=> beforeFetch1)
      /\ Dumped'
  <2>1. /\ UNCHANGED <<fetch1, fetch2, inputBuffer, f1ToF2, f2ToF1, eToF1,
                       execute, insts>>
        /\ \/ phase = "between" /\ phase' \in {"between", "execute"}
           \/ phase = "translate" /\ phase' = "queues"
           \/ phase = "queues" /\ phase' = "deliver"
    BY DEF Quiet, fetch2Vars, latchVars, executeVars
  <2>2. (beforeFetch1' <=> beforeFetch1) /\ Dumped'
    BY Zenon, <2>1 DEF beforeFetch1, Dumped
  <2> QED BY <2>1, <2>2 DEF E, F
<1>2. /\ Among(requests', requests)
      /\ \A i \in DOMAIN transfers' :
           \/ \E j \in DOMAIN transfers :
                transfers'[i].streamSeqNum = transfers[j].streamSeqNum
           \/ \E j \in DOMAIN requests :
                transfers'[i].streamSeqNum = requests[j].streamSeqNum
  BY MovingAmong DEF Quiet
<1>3. /\ \A i \in DOMAIN requests' : requests'[i].streamSeqNum <= F
      /\ \A i \in DOMAIN transfers' : transfers'[i].streamSeqNum <= F
  BY <1>2 DEF Streams, Behind, Among
<1>4. Behind'
  BY <1>1, <1>3 DEF Streams, Behind
<1>5. Ahead'
  BY <1>1 DEF Streams, Ahead
<1>6. ASSUME Fresh PROVE Fresh'
  <2>1. /\ \A i \in DOMAIN requests' : requests'[i].streamSeqNum # E
        /\ \A i \in DOMAIN transfers' : transfers'[i].streamSeqNum # E
    BY <1>2, <1>6 DEF Fresh, NoneFetched, Among
  <2>2. NoneFetched' /\ NoneInstd'
    BY <1>1, <1>6, <2>1 DEF Fresh, NoneFetched, NoneInstd
  <2>3. ~pending' /\ ~following'
    BY <1>1, <1>6 DEF Fresh, pending, pendingIn, pendingOut, following
  <2> QED BY <2>2, <2>3 DEF Fresh
<1> QED BY <1>1, <1>4, <1>5, <1>6 DEF Streams, SuspendedFresh

(***************************************************************************)
(* Fetch2 takes the line that arrives, and drops lines.                    *)
(***************************************************************************)
LEMMA ArrivedAmong ==
    ASSUME Types, StartFetch2Effect
    PROVE  \A i \in DOMAIN inputBuffer' :
             \/ \E j \in DOMAIN inputBuffer : inputBuffer'[i] = inputBuffer[j]
             \/ f1ToF2 # noLine /\ inputBuffer'[i] = f1ToF2
<1>1. /\ arrived \in Seq(Line) /\ inputBuffer' \in Seq(Line)
      /\ inputBuffer' = <<>> \/ \E k \in Nat : Suffix(inputBuffer', arrived, k)
  BY Zenon DEF StartFetch2Effect
<1>2. inputBuffer \in Seq(Line) /\ (f1ToF2 # noLine => f1ToF2 \in Line)
  BY DEF Types
<1>3. ASSUME NEW i \in DOMAIN arrived
      PROVE  \/ \E j \in DOMAIN inputBuffer : arrived[i] = inputBuffer[j]
             \/ f1ToF2 # noLine /\ arrived[i] = f1ToF2
  <2>1. CASE f1ToF2 = noLine
    BY <2>1 DEF arrived
  <2>2. CASE f1ToF2 # noLine
    <3>1. /\ arrived = Append(inputBuffer, f1ToF2)
          /\ Len(arrived) = Len(inputBuffer) + 1 /\ Len(inputBuffer) \in Nat
          /\ \A j \in 1 .. Len(inputBuffer) : arrived[j] = inputBuffer[j]
          /\ arrived[Len(inputBuffer) + 1] = f1ToF2
      BY <1>2, <2>2, AppendFacts DEF arrived
    <3>2. i \in 1 .. Len(inputBuffer) + 1
      BY <1>1, <3>1
    <3>3. DOMAIN inputBuffer = 1 .. Len(inputBuffer)
      BY <1>2
    <3> QED BY <2>2, <3>1, <3>2, <3>3
  <2> QED BY <2>1, <2>2
<1>4. ASSUME NEW i \in DOMAIN inputBuffer'
      PROVE  \E j \in DOMAIN arrived : inputBuffer'[i] = arrived[j]
  <2>1. PICK k \in Nat : Suffix(inputBuffer', arrived, k)
    BY <1>1
  <2>2. i + k \in DOMAIN arrived /\ inputBuffer'[i] = arrived[i + k]
    BY <1>1, <2>1 DEF Suffix
  <2> QED BY <2>2
<1> QED BY <1>3, <1>4

(***************************************************************************)
(* Fetch2 throws lines away, all of them when the stream changes.          *)
(***************************************************************************)
LEMMA StreamsStartFetch2 ==
    ASSUME Types, Streams, StartFetch2Effect PROVE Streams' /\ (Fresh => Fresh')
<1>1. /\ phase = "fetch2" /\ phase' \in {"lines", "fetch2 end"}
      /\ KeepsFetch2 /\ f1ToF2' = noLine
      /\ isStreamChange(eToF1.out) => inputBuffer' = <<>>
      /\ fetch2'.havePC => fetch2.havePC
      /\ UNCHANGED <<fetch1Vars, f2ToF1, eToF1, executeVars>>
  BY Zenon DEF StartFetch2Effect
<1>2. /\ UNCHANGED <<fetch1, requests, transfers, f2ToF1, eToF1, execute, insts>>
      /\ E' = E /\ F' = F /\ beforeFetch1 /\ beforeFetch1' /\ Dumped'
  BY Zenon, <1>1 DEF fetch1Vars, executeVars, E, F, beforeFetch1, Dumped
<1>3. \A i \in DOMAIN inputBuffer' : inputBuffer'[i].streamSeqNum = F
  BY ArrivedAmong DEF Streams, Behind
<1>4. Behind'
  BY Zenon, <1>1, <1>2, <1>3 DEF Streams, Behind, KeepsFetch2
<1>5. Ahead'
  BY <1>2 DEF Streams, Ahead
<1>6. ASSUME Fresh PROVE Fresh'
  <2>1. \A i \in DOMAIN inputBuffer' : inputBuffer'[i].streamSeqNum # E
    BY <1>6, ArrivedAmong DEF Fresh, NoneFetched
  <2>2. NoneFetched' /\ NoneInstd'
    BY Zenon, <1>1, <1>2, <1>6, <2>1 DEF Fresh, NoneFetched, NoneInstd
  <2>3. ~pending' /\ ~following'
    BY Zenon, <1>1, <1>2, <1>6
    DEF Fresh, pending, pendingIn, pendingOut, following, KeepsFetch2
  <2> QED BY <2>2, <2>3 DEF Fresh
<1> QED BY <1>2, <1>4, <1>5, <1>6 DEF Streams, SuspendedFresh

(***************************************************************************)
(* What a turn of Fetch2's loop passes on is in the stream of the line.    *)
(***************************************************************************)
LEMMA LineEffects ==
    ASSUME Types, ProcessLineEffect
    PROVE  LET line == inputBuffer[1]
           IN  /\ phase = "lines" /\ phase' \in {"lines", "fetch2 end"}
               /\ inputBuffer # <<>> /\ 1 \in DOMAIN inputBuffer
               /\ fetch2'.lastStreamSeqNum = line.streamSeqNum
               /\ fetch2'.expectedStreamSeqNum \in
                    {fetch2.expectedStreamSeqNum, line.streamSeqNum}
               /\ inputBuffer' \in {inputBuffer, Tail(inputBuffer), <<>>}
               /\ \A i \in DOMAIN inputBuffer' :
                    \E j \in DOMAIN inputBuffer : inputBuffer'[i] = inputBuffer[j]
               /\ \A i \in DOMAIN insts' :
                    \/ i \in DOMAIN insts /\ insts'[i] = insts[i]
                    \/ insts'[i].streamSeqNum = line.streamSeqNum
               /\ f2ToF1'.in = f2ToF1.in
                    \/ f2ToF1'.in.newStreamSeqNum = line.streamSeqNum
               /\ f2ToF1'.out = f2ToF1.out
               /\ UNCHANGED <<fetch1, requests, transfers, f1ToF2, eToF1, execute>>
<1> DEFINE line == Head(inputBuffer)
<1>1. /\ phase = "lines" /\ phase' \in {"lines", "fetch2 end"}
      /\ inputBuffer # <<>> /\ line = inputBuffer[1]
      /\ fetch2'.lastStreamSeqNum = line.streamSeqNum
      /\ UNCHANGED <<fetch1Vars, f1ToF2, eToF1, execute>>
      /\ \/ PopsWrong(line)
         \/ \E x \in Inst :
              /\ Passes(line, x)
              /\ PassesFault(line, x) \/ PassesTaken(line, x) \/ PassesOn(line, x)
  BY Zenon DEF ProcessLineEffect
<1> HIDE DEF line
<1>2. inputBuffer \in Seq(Line) /\ insts \in Seq(Inst)
  BY DEF Types
<1> DEFINE
      Passed ==
        /\ inputBuffer' \in {inputBuffer, Tail(inputBuffer), <<>>}
        /\ fetch2'.expectedStreamSeqNum \in
             {fetch2.expectedStreamSeqNum, line.streamSeqNum}
        /\ f2ToF1'.in = f2ToF1.in \/ f2ToF1'.in.newStreamSeqNum = line.streamSeqNum
        /\ f2ToF1'.out = f2ToF1.out
        /\ \/ insts' = insts
           \/ \E x \in Inst :
                insts' = Append(insts, x) /\ x.streamSeqNum = line.streamSeqNum
      Known(i) == \/ i \in DOMAIN insts /\ insts'[i] = insts[i]
                  \/ insts'[i].streamSeqNum = line.streamSeqNum
<1>3. Passed
  <2>1. CASE PopsWrong(line)
    BY <2>1 DEF PopsWrong
  <2>2. ASSUME NEW x \in Inst, Passes(line, x), PassesFault(line, x) PROVE Passed
    BY <2>2 DEF Passes, PassesFault
  <2>3. ASSUME NEW x \in Inst, Passes(line, x), PassesTaken(line, x) PROVE Passed
    BY <2>3 DEF Passes, PassesTaken
  <2>4. ASSUME NEW x \in Inst, Passes(line, x), PassesOn(line, x) PROVE Passed
    BY <2>4 DEF Passes, PassesOn
  <2> QED BY Zenon, <1>1, <2>1, <2>2, <2>3, <2>4
<1>4. ASSUME NEW i \in DOMAIN inputBuffer'
      PROVE  \E j \in DOMAIN inputBuffer : inputBuffer'[i] = inputBuffer[j]
  <2>1. CASE inputBuffer' = Tail(inputBuffer)
    <3>1. /\ Len(Tail(inputBuffer)) = Len(inputBuffer) - 1 /\ Len(inputBuffer) \in Nat
          /\ Tail(inputBuffer) \in Seq(Line)
          /\ \A j \in 1 .. Len(inputBuffer) - 1 :
               Tail(inputBuffer)[j] = inputBuffer[j + 1]
      BY Zenon, <1>1, <1>2, TailFacts
    <3>2. i + 1 \in DOMAIN inputBuffer /\ inputBuffer'[i] = inputBuffer[i + 1]
      BY <1>2, <2>1, <3>1
    <3> QED BY <3>2
  <2>2. CASE inputBuffer' = <<>> \/ inputBuffer' = inputBuffer
    BY <2>2
  <2> QED BY <1>3, <2>1, <2>2
<1>5. ASSUME NEW i \in DOMAIN insts'
      PROVE  Known(i)
  <2>1. ASSUME NEW x \in Inst, insts' = Append(insts, x),
               x.streamSeqNum = line.streamSeqNum
        PROVE  Known(i)
    <3>1. /\ Len(insts') = Len(insts) + 1 /\ Len(insts) \in Nat
          /\ insts' \in Seq(Inst)
          /\ \A j \in 1 .. Len(insts) : insts'[j] = insts[j]
          /\ insts'[Len(insts) + 1] = x
      BY <1>2, <2>1, AppendFacts
    <3>2. i \in 1 .. Len(insts) + 1 /\ DOMAIN insts = 1 .. Len(insts)
      BY <1>2, <3>1
    <3> QED BY <2>1, <3>1, <3>2
  <2> QED BY <1>3, <2>1
<1>6. 1 \in DOMAIN inputBuffer
  <2>1. inputBuffer # <<>>
    BY Zenon, <1>1
  <2> QED BY <1>2, <2>1
<1> QED BY Zenon, <1>1, <1>3, <1>4, <1>5, <1>6 DEF fetch1Vars

(***************************************************************************)
(* A line that Fetch2 passes on is in the stream Fetch1 is in.             *)
(***************************************************************************)
LEMMA StreamsProcessLine ==
    ASSUME Types, Streams, ProcessLineEffect PROVE Streams' /\ (Fresh => Fresh')
<1> DEFINE line == inputBuffer[1]
<1>1. /\ phase = "lines" /\ phase' \in {"lines", "fetch2 end"}
      /\ inputBuffer # <<>> /\ 1 \in DOMAIN inputBuffer
      /\ fetch2'.lastStreamSeqNum = line.streamSeqNum
      /\ fetch2'.expectedStreamSeqNum \in
           {fetch2.expectedStreamSeqNum, line.streamSeqNum}
      /\ \A i \in DOMAIN inputBuffer' :
           \E j \in DOMAIN inputBuffer : inputBuffer'[i] = inputBuffer[j]
      /\ \A i \in DOMAIN insts' :
           \/ i \in DOMAIN insts /\ insts'[i] = insts[i]
           \/ insts'[i].streamSeqNum = line.streamSeqNum
      /\ f2ToF1'.in = f2ToF1.in \/ f2ToF1'.in.newStreamSeqNum = line.streamSeqNum
      /\ f2ToF1'.out = f2ToF1.out
      /\ UNCHANGED <<fetch1, requests, transfers, f1ToF2, eToF1, execute>>
  BY Zenon, LineEffects
<1>2. line.streamSeqNum = F /\ E' = E /\ F' = F /\ beforeFetch1 /\ beforeFetch1'
  BY Zenon, <1>1 DEF Streams, Behind, E, F, beforeFetch1
<1> HIDE DEF line
<1>3. F <= F /\ F \in Nat
  BY StreamNumbers
<1>4. \A i \in DOMAIN insts' : insts'[i].streamSeqNum <= F
  BY Zenon, <1>1, <1>2, <1>3 DEF Streams, Behind
<1>5. f2ToF1'.in # noBranch => f2ToF1'.in.newStreamSeqNum <= F
  BY Zenon, <1>1, <1>2, <1>3 DEF Streams, Behind
<1>6. Behind'
  BY Zenon, <1>1, <1>2, <1>3, <1>4, <1>5 DEF Streams, Behind
<1>7. Ahead'
  BY Zenon, <1>1, <1>2 DEF Streams, Ahead
<1>8. ~isStreamChange(eToF1.out) /\ Dumped'
  BY Zenon, <1>1 DEF Streams, Dumped
<1>9. ASSUME Fresh PROVE Fresh'
  <2>1. F # E
    BY Zenon, <1>1, <1>2, <1>9 DEF line, Fresh, NoneFetched
  <2>2. NoneFetched' /\ NoneInstd'
    BY Zenon, <1>1, <1>2, <1>9, <2>1 DEF Fresh, NoneFetched, NoneInstd
  <2>3. ~pending' /\ ~following'
    BY Zenon, <1>1, <1>2, <1>9, <2>1
       DEF Fresh, pending, pendingIn, pendingOut, following
  <2> QED BY <2>2, <2>3 DEF Fresh
<1> QED BY Zenon, <1>1, <1>6, <1>7, <1>8, <1>9 DEF Streams, SuspendedFresh

(***************************************************************************)
(* The end of its turn changes no stream.                                  *)
(***************************************************************************)
LEMMA StreamsEndFetch2 ==
    ASSUME Types, Streams, EndFetch2Effect PROVE Streams' /\ (Fresh => Fresh')
<1>1. /\ phase \in {"lines", "fetch2 end"} /\ phase' = "fetch1"
      /\ fetch2'.havePC = fetch2.havePC
      /\ fetch2'.lastStreamSeqNum = fetch2.lastStreamSeqNum
      /\ fetch2'.expectedStreamSeqNum = fetch2.expectedStreamSeqNum
      /\ UNCHANGED <<fetch1Vars, inputBuffer, latchVars, executeVars>>
  BY Zenon DEF EndFetch2Effect
<1>2. /\ UNCHANGED <<fetch1, requests, transfers, inputBuffer, f1ToF2, f2ToF1,
                     eToF1, execute, insts>>
      /\ E' = E /\ F' = F /\ beforeFetch1 /\ beforeFetch1'
  BY Zenon, <1>1 DEF fetch1Vars, latchVars, executeVars, E, F, beforeFetch1
<1>3. Behind' /\ Ahead'
  BY Zenon, <1>1, <1>2 DEF Streams, Behind, Ahead
<1>4. Dumped'
  BY Zenon, <1>1, <1>2 DEF Streams, Dumped
<1>5. Fresh => Fresh'
  BY Zenon, <1>1, <1>2
  DEF Fresh, NoneFetched, NoneInstd, pending, pendingIn, pendingOut, following
<1> QED BY <1>2, <1>3, <1>4, <1>5 DEF Streams, SuspendedFresh

(***************************************************************************)
(* Fetch1 goes on to the stream it is told, which is ahead of all that is  *)
(* under way, or stays in its own.  It requests nothing for a suspended    *)
(* thread.                                                                 *)
(***************************************************************************)
LEMMA StreamsStartFetch1 ==
    ASSUME Types, LatchTaken, Streams, StartFetch1Effect PROVE Streams'
<1>1. /\ phase = "fetch1" /\ fetch1' \in Fetch1Info
      /\ \E r \in Fetch1Info :
           /\ Redirects(r)
           /\ NotFetches(r) \/ \E x \in Request : Fetches(r, x)
      /\ UNCHANGED <<transfers, fetch2, inputBuffer, latchVars, executeVars>>
  BY DEF StartFetch1Effect
<1>2. PICK r \in Fetch1Info :
        /\ Redirects(r)
        /\ NotFetches(r) \/ \E x \in Request : Fetches(r, x)
  BY <1>1
<1>3. /\ UNCHANGED <<f1ToF2, f2ToF1, eToF1, execute, insts>> /\ E' = E
      /\ f1ToF2 = noLine /\ beforeFetch1 /\ ~beforeFetch1' /\ Dumped'
  BY Zenon, <1>1, <1>2
  DEF latchVars, executeVars, E, LatchTaken, beforeFetch1, Dumped, NotFetches, Fetches
<1>4. F' = r.streamSeqNum /\ F' \in Nat
  BY <1>1, <1>2 DEF NotFetches, Fetches, F, Fetch1Info, SeqNum
<1>5. /\ F <= F' /\ F' <= E
      /\ \A i \in DOMAIN inputBuffer : inputBuffer[i].streamSeqNum = F'
      /\ isStreamChange(eToF1.in) => F' < E
  <2>1. CASE isStreamChange(eToF1.out) /\ Follows(r, eToF1.out)
    <3>1. F' = eToF1.out.newStreamSeqNum
      BY <1>4, <2>1 DEF Follows
    <3>2. /\ F < F' /\ F' <= E
          /\ isStreamChange(eToF1.in) => F' < E
      BY <1>3, <2>1, <3>1 DEF Streams, Ahead
    <3>3. inputBuffer = <<>>
      BY <1>1, <2>1 DEF Streams, Dumped
    <3> QED BY <1>4, <3>2, <3>3, StreamNumbers
  <2>2. CASE r.streamSeqNum = fetch1.streamSeqNum
    <3>1. F' = F
      BY <1>4, <2>2 DEF F
    <3> QED BY <3>1, StreamNumbers DEF Streams, Behind, Ahead
  <2> QED BY <1>2, <2>1, <2>2 DEF Redirects, Follows
<1>6. ASSUME NEW n \in Nat, n <= F PROVE n <= F'
  BY <1>4, <1>5, <1>6, StreamNumbers
<1>7. \A i \in DOMAIN requests' :
        \/ i \in DOMAIN requests /\ requests'[i] = requests[i]
        \/ requests'[i].streamSeqNum = F' /\ ~execute.suspended
  <2>1. CASE NotFetches(r)
    BY <2>1 DEF NotFetches
  <2>2. ASSUME NEW x \in Request, Fetches(r, x) PROVE <1>7!:
    <3>1. /\ requests' = Append(requests, x) /\ x.streamSeqNum = F'
          /\ ~execute.suspended /\ requests \in Seq(Request)
      BY <1>4, <2>2 DEF Fetches, Types
    <3>2. /\ Len(requests') = Len(requests) + 1 /\ Len(requests) \in Nat
          /\ requests' \in Seq(Request)
          /\ \A j \in 1 .. Len(requests) : requests'[j] = requests[j]
          /\ requests'[Len(requests) + 1] = x
      BY <3>1, AppendFacts
    <3>3. /\ DOMAIN requests' = 1 .. Len(requests) + 1
          /\ DOMAIN requests = 1 .. Len(requests)
      BY <3>1, <3>2
    <3> QED BY <3>1, <3>2, <3>3
  <2> QED BY <1>2, <2>1, <2>2
<1>8. Behind'
  <2>1. /\ fetch2.lastStreamSeqNum <= F' /\ fetch2.expectedStreamSeqNum <= F'
        /\ \A i \in DOMAIN transfers : transfers[i].streamSeqNum <= F'
        /\ \A i \in DOMAIN insts : insts[i].streamSeqNum <= F'
        /\ f2ToF1.in # noBranch => f2ToF1.in.newStreamSeqNum <= F'
        /\ f2ToF1.out # noBranch => f2ToF1.out.newStreamSeqNum <= F'
    BY <1>6, StreamNumbers DEF Streams, Behind
  <2>2. \A i \in DOMAIN requests' : requests'[i].streamSeqNum <= F'
    BY SMTT(30), <1>4, <1>6, <1>7, StreamNumbers DEF Streams, Behind
  <2> QED BY <1>1, <1>3, <1>5, <2>1, <2>2 DEF Behind
<1>9. Ahead'
  BY <1>3, <1>5 DEF Streams, Ahead
<1>10. ASSUME execute.suspended, Fresh PROVE Fresh'
  <2>1. NoneFetched' /\ NoneInstd'
    BY <1>1, <1>3, <1>7, <1>10 DEF Fresh, NoneFetched, NoneInstd
  <2>2. ~pending' /\ ~following'
    BY <1>1, <1>3, <1>10 DEF Fresh, pending, pendingIn, pendingOut, following
  <2> QED BY <2>1, <2>2 DEF Fresh
<1> QED BY <1>3, <1>8, <1>9, <1>10 DEF Streams, SuspendedFresh

(***************************************************************************)
(* A line is passed on only in the stream Fetch1 is in.                    *)
(***************************************************************************)
LEMMA StreamsDeliver ==
    ASSUME Types, Streams, DeliverEffect PROVE Streams' /\ (Fresh => Fresh')
<1>1. /\ phase = "deliver" /\ phase' = "end"
      /\ fetch1'.streamSeqNum = F
      /\ \/ StaysPut \/ \E t \in Transfer : Drops(t)
         \/ \E t \in Transfer, line \in Line : Sends(t, line)
      /\ UNCHANGED <<requests, fetch2, inputBuffer, f2ToF1, eToF1, executeVars>>
  BY Zenon DEF DeliverEffect
<1>2. /\ UNCHANGED <<execute, insts>> /\ E' = E /\ F' = F
      /\ ~beforeFetch1 /\ ~beforeFetch1' /\ Dumped'
  BY <1>1 DEF executeVars, E, F, beforeFetch1, Dumped
<1>3. transfers \in Seq(Transfer)
  BY DEF Types
<1>4. /\ Among(transfers', transfers)
      /\ \/ f1ToF2' = f1ToF2
         \/ /\ f1ToF2'.streamSeqNum = F
            /\ \E i \in DOMAIN transfers : transfers[i].streamSeqNum = F
  <2>1. CASE StaysPut
    BY <2>1 DEF StaysPut, Among
  <2>2. CASE \E t \in Transfer : Drops(t)
    BY <1>3, <2>2, TailAmong DEF Drops
  <2>3. ASSUME NEW t \in Transfer, NEW line \in Line, Sends(t, line) PROVE <1>4!:
    <3>1. /\ transfers # <<>> /\ transfers' = Tail(transfers)
          /\ t = Head(transfers) /\ t.streamSeqNum = F /\ f1ToF2'.streamSeqNum = F
      BY <2>3 DEF Sends
    <3>2. 1 \in DOMAIN transfers /\ transfers[1].streamSeqNum = F
      BY <1>3, <3>1
    <3> QED BY <1>3, <3>1, <3>2, TailAmong
  <2> QED BY <1>1, <2>1, <2>2, <2>3
<1>5. Behind'
  BY <1>1, <1>2, <1>4 DEF Streams, Behind, Among
<1>6. Ahead'
  BY <1>1, <1>2 DEF Streams, Ahead
<1>7. ASSUME Fresh PROVE Fresh'
  <2>1. NoneFetched' /\ NoneInstd'
    BY <1>1, <1>2, <1>4, <1>7 DEF Fresh, NoneFetched, NoneInstd, Among
  <2>2. ~pending' /\ ~following'
    BY <1>1, <1>2, <1>7 DEF Fresh, pending, pendingIn, pendingOut, following
  <2> QED BY <2>1, <2>2 DEF Fresh
<1> QED BY <1>2, <1>5, <1>6, <1>7 DEF Streams, SuspendedFresh

(***************************************************************************)
(* The latches advance, drains begin, threads are woken.                   *)
(***************************************************************************)
LEMMA StreamsEndCycle ==
    ASSUME Types, Streams, EndCycleEffect PROVE Streams' /\ (Fresh => Fresh')
<1>1. /\ phase = "end" /\ phase' = "between"
      /\ f2ToF1'.in = noBranch /\ f2ToF1'.out = f2ToF1.in
      /\ eToF1'.in = noBranch /\ eToF1'.out = eToF1.in
      /\ UNCHANGED <<fetch1Vars, fetch2Vars, f1ToF2, executeVars>>
  BY DEF EndCycleEffect
<1>2. /\ UNCHANGED <<fetch1, requests, transfers, fetch2, inputBuffer, execute,
                     insts>>
      /\ E' = E /\ F' = F /\ ~beforeFetch1 /\ beforeFetch1' /\ Dumped'
  BY <1>1 DEF fetch1Vars, fetch2Vars, executeVars, E, F, beforeFetch1, Dumped
<1>3. Behind'
  BY <1>1, <1>2 DEF Streams, Behind
<1>4. ~isStreamChange(noBranch) /\ E <= E
  BY StreamNumbers DEF isStreamChange, noBranch
<1>5. Ahead'
  BY <1>1, <1>2, <1>4 DEF Streams, Ahead
<1>6. Fresh => Fresh'
  BY <1>1, <1>2
  DEF Fresh, NoneFetched, NoneInstd, pending, pendingIn, pendingOut, following
<1> QED BY <1>2, <1>3, <1>5, <1>6 DEF Streams, SuspendedFresh

(***************************************************************************)
(* The request to drain changes no stream.                                 *)
(***************************************************************************)
LEMMA StreamsDrain ==
    ASSUME Types, Streams, DrainEffect PROVE Streams' /\ (Fresh => Fresh')
<1>1. /\ phase = "between"
      /\ execute'.streamSeqNum = E /\ execute'.pc = execute.pc
      /\ execute'.suspended = execute.suspended
      /\ UNCHANGED <<fetch1Vars, fetch2Vars, latchVars, insts, phase>>
  BY DEF DrainEffect
<1>2. /\ UNCHANGED <<fetch1, requests, transfers, fetch2, inputBuffer, f1ToF2,
                     f2ToF1, eToF1>>
      /\ beforeFetch1 /\ beforeFetch1' /\ Dumped'
  BY <1>1 DEF fetch1Vars, fetch2Vars, latchVars, beforeFetch1, Dumped
<1>3. Behind' /\ (Fresh => Fresh') /\ E' = E /\ F' = F
  BY Zenon, <1>1, <1>2, SameStream DEF Streams
<1>4. Ahead'
  BY <1>1, <1>2, <1>3 DEF Streams, Ahead
<1> QED BY <1>1, <1>2, <1>3, <1>4 DEF Streams, SuspendedFresh

(***************************************************************************)
(* Nor does a wakeup.                                                      *)
(***************************************************************************)
LEMMA StreamsWakes == ASSUME Types, Streams, Wakes PROVE Streams'
<1>1. /\ UNCHANGED <<requests, transfers, fetch2, inputBuffer, f1ToF2, f2ToF1,
                     eToF1, insts>>
      /\ E' = E /\ F' = F /\ execute'.pc = execute.pc
      /\ beforeFetch1 /\ beforeFetch1' /\ Dumped' /\ ~execute'.suspended
  BY DEF Wakes, fetch2Vars, latchVars, beforeFetch1, Dumped, E, F
<1>2. Behind' /\ Ahead'
  BY <1>1 DEF Streams, Behind, Ahead
<1> QED BY <1>1, <1>2 DEF Streams, SuspendedFresh

(***************************************************************************)
(* There is one stream at first.                                           *)
(***************************************************************************)
LEMMA InitStreams == ASSUME FetchInit PROVE Streams
<1>1. /\ requests = <<>> /\ transfers = <<>> /\ inputBuffer = <<>> /\ insts = <<>>
      /\ E = 1 /\ F = 1
      /\ fetch2.lastStreamSeqNum = 1 /\ fetch2.expectedStreamSeqNum = 1
      /\ f1ToF2 = noLine /\ ~execute.suspended
      /\ f2ToF1.in = noBranch /\ f2ToF1.out = noBranch
      /\ eToF1.in = noBranch /\ eToF1.out = noBranch
  BY DEF FetchInit, E, F, firstSeqNum, emptyLatch
<1>2. ~isStreamChange(noBranch)
  BY DEF isStreamChange, noBranch
<1> QED BY <1>1, <1>2 DEF Streams, Behind, Ahead, Dumped, SuspendedFresh

(***************************************************************************)
(* Every step keeps the streams in order.                                  *)
(***************************************************************************)
LEMMA StepStreams ==
    ASSUME Base, Streams, FetchEffect \/ ActivateEffect \/ UNCHANGED vars
    PROVE  Streams'
<1>1. CASE UNCHANGED vars
  <2>1. UNCHANGED <<fetch1, requests, transfers, fetch2, inputBuffer, f1ToF2,
                    f2ToF1, eToF1, execute, insts, phase>>
    BY <1>1 DEF vars, fetch1Vars, fetch2Vars, latchVars, executeVars, pipelineVars
  <2> QED BY ZenonT(40), <2>1
      DEF Streams, Behind, Ahead, Dumped, SuspendedFresh, Fresh, NoneInstd,
          NoneFetched, pending, pendingIn, pendingOut, following, beforeFetch1, E, F
<1>2. CASE ResumeEffect \/ ActivateEffect
  BY <1>2, StreamsWakes DEF ResumeEffect, ActivateEffect, Base
<1> QED BY <1>1, <1>2, StreamsQuiet, StreamsCommit, StreamsDiscard,
           StreamsEndExecute, StreamsInterrupt, StreamsStartFetch2,
           StreamsProcessLine, StreamsEndFetch2, StreamsStartFetch1,
           StreamsDeliver, StreamsEndCycle, StreamsDrain DEF Base, FetchEffect

-----------------------------------------------------------------------------
(***************************************************************************)
(* Flows: lines are dropped at the front, one that is not of the flow is   *)
(* taken out, a line is requested.                                         *)
(***************************************************************************)
(***************************************************************************)
(* What is left of a flow flows on.                                        *)
(***************************************************************************)
LEMMA FlowDrop ==
    ASSUME NEW v, NEW w, NEW n \in Nat, NEW m \in Nat, NEW k \in Nat, n = m + k,
           \A i \in 1 .. m : w[i] = v[i + k],
           NEW s, NEW p, NEW next, Flow(v, n, s, p, next)
    PROVE  Flow(w, m, s, p, next)
<1> SUFFICES ASSUME NEW i \in 1 .. m, w[i].s = s, w[i].p = p
             PROVE  /\ w[i].b % lineWidth = 0
                    /\ \A j \in i .. m : w[j].s = s /\ w[j].p = p
                    /\ IF i = m THEN next = nextBase(w[i].b)
                                ELSE w[i + 1].b = nextBase(w[i].b)
  BY DEF Flow
<1>1. i + k \in 1 .. n /\ w[i] = v[i + k]
  BY SMTT(30)
<1>2. /\ v[i + k].b % lineWidth = 0
      /\ \A j \in i + k .. n : v[j].s = s /\ v[j].p = p
      /\ IF i + k = n THEN next = nextBase(v[i + k].b)
                      ELSE v[(i + k) + 1].b = nextBase(v[i + k].b)
  BY <1>1 DEF Flow
<1>3. ASSUME NEW j \in i .. m PROVE w[j].s = s /\ w[j].p = p
  <2>1. j \in 1 .. m /\ j + k \in i + k .. n
    OBVIOUS
  <2> QED BY <1>2, <2>1
<1>4. ASSUME i # m PROVE w[i + 1] = v[(i + k) + 1] /\ i + k # n
  <2>1. i + 1 \in 1 .. m /\ (i + 1) + k = (i + k) + 1
    BY <1>4
  <2> QED BY <1>4, <2>1
<1> QED BY Zenon, <1>1, <1>2, <1>3, <1>4

(***************************************************************************)
(* So it does when a line of other numbers is taken out: there is none of  *)
(* the flow before it.                                                     *)
(***************************************************************************)
LEMMA FlowRemove ==
    ASSUME NEW v, NEW w, NEW n \in Nat, NEW k \in 1 .. n,
           \A i \in 1 .. k - 1 : w[i] = v[i],
           \A i \in k .. n - 1 : w[i] = v[i + 1],
           NEW s, NEW p, NEW next, Flow(v, n, s, p, next),
           ~(v[k].s = s /\ v[k].p = p)
    PROVE  Flow(w, n - 1, s, p, next)
<1> SUFFICES ASSUME NEW i \in 1 .. n - 1, w[i].s = s, w[i].p = p
             PROVE  /\ w[i].b % lineWidth = 0
                    /\ \A j \in i .. n - 1 : w[j].s = s /\ w[j].p = p
                    /\ IF i = n - 1 THEN next = nextBase(w[i].b)
                                    ELSE w[i + 1].b = nextBase(w[i].b)
  BY DEF Flow
<1>1. i \in k .. n - 1
  <2> SUFFICES ASSUME i < k PROVE FALSE
    OBVIOUS
  <2>1. i \in 1 .. n /\ i \in 1 .. k - 1 /\ k \in i .. n
    OBVIOUS
  <2>2. v[i].s = s /\ v[i].p = p
    BY <2>1
  <2> QED BY <2>1, <2>2 DEF Flow
<1>2. i + 1 \in 1 .. n /\ w[i] = v[i + 1]
  BY <1>1
<1>3. /\ v[i + 1].b % lineWidth = 0
      /\ \A j \in i + 1 .. n : v[j].s = s /\ v[j].p = p
      /\ IF i + 1 = n THEN next = nextBase(v[i + 1].b)
                      ELSE v[(i + 1) + 1].b = nextBase(v[i + 1].b)
  BY <1>2 DEF Flow
<1>4. ASSUME NEW j \in i .. n - 1 PROVE w[j].s = s /\ w[j].p = p
  <2>1. j \in k .. n - 1 /\ j + 1 \in i + 1 .. n
    BY <1>1
  <2> QED BY <1>3, <2>1
<1>5. ASSUME i # n - 1 PROVE w[i + 1] = v[(i + 1) + 1] /\ i + 1 # n
  <2>1. i + 1 \in k .. n - 1
    BY <1>1, <1>5
  <2> QED BY <1>5, <2>1
<1> QED BY SMTT(30), <1>2, <1>3, <1>4, <1>5

(***************************************************************************)
(* The line requested next flows on, and the one after it is next.         *)
(***************************************************************************)
LEMMA FlowExtend ==
    ASSUME NEW v, NEW w, NEW n \in Nat, NEW s, NEW p, NEW next \in Addr,
           \A i \in 1 .. n : w[i] = v[i], \A i \in 1 .. n : v[i].b \in Addr,
           w[n + 1].s = s, w[n + 1].p = p, w[n + 1].b = lineBase(next),
           Flow(v, n, s, p, next)
    PROVE  Flow(w, n + 1, s, p, nextBase(lineBase(next)))
<1> SUFFICES ASSUME NEW i \in 1 .. n + 1, w[i].s = s, w[i].p = p
             PROVE  /\ w[i].b % lineWidth = 0
                    /\ \A j \in i .. n + 1 : w[j].s = s /\ w[j].p = p
                    /\ IF i = n + 1 THEN nextBase(lineBase(next)) = nextBase(w[i].b)
                                    ELSE w[i + 1].b = nextBase(w[i].b)
  BY DEF Flow
<1>1. CASE i = n + 1
  <2>1. w[i].b % lineWidth = 0
    BY <1>1, AddressOps
  <2>2. \A j \in i .. n + 1 : j = n + 1
    BY <1>1
  <2> QED BY <1>1, <2>1, <2>2
<1>2. CASE i \in 1 .. n
  <2>1. /\ w[i] = v[i] /\ v[i].b \in Addr /\ i # n + 1
        /\ v[i].b % lineWidth = 0
        /\ \A j \in i .. n : v[j].s = s /\ v[j].p = p
        /\ IF i = n THEN next = nextBase(v[i].b)
                    ELSE v[i + 1].b = nextBase(v[i].b)
    BY <1>2 DEF Flow
  <2>2. ASSUME NEW j \in i .. n + 1 PROVE w[j].s = s /\ w[j].p = p
    <3>1. j \in i .. n \/ j = n + 1
      OBVIOUS
    <3>2. i .. n \subseteq 1 .. n
      BY <1>2
    <3> QED BY <2>1, <3>1, <3>2
  <2>3. w[i + 1].b = nextBase(w[i].b)
    <3>1. CASE i = n
      <4>1. next % lineWidth = 0 /\ next = nextBase(w[i].b)
        BY <2>1, <3>1, NextBaseAligned
      <4>2. lineBase(next) = next
        BY <4>1, AddressOps
      <4> QED BY <3>1, <4>1, <4>2
    <3>2. CASE i # n
      <4>1. i + 1 \in 1 .. n
        BY <1>2, <3>2
      <4> QED BY <2>1, <3>2, <4>1
    <3> QED BY <3>1, <3>2
  <2> QED BY <2>1, <2>2, <2>3
<1>3. i = n + 1 \/ i \in 1 .. n
  OBVIOUS
<1> QED BY <1>1, <1>2, <1>3

(***************************************************************************)
(* Where there is no line with the numbers the flow is empty.              *)
(***************************************************************************)
LEMMA FlowNone ==
    ASSUME NEW v, NEW n \in Nat, NEW s, NEW p, NEW next,
           \A i \in 1 .. n : ~(v[i].s = s /\ v[i].p = p)
    PROVE  Flow(v, n, s, p, next)
BY DEF Flow

(***************************************************************************)
(* The lines, wherever they are.                                           *)
(***************************************************************************)
b2 == Len(inputBuffer)

b1 == b2 + (IF f1ToF2 = noLine THEN 0 ELSE 1)

bt == b1 + Len(transfers)

(***************************************************************************)
(* Where the queues begin and end.                                         *)
(***************************************************************************)
LEMMA Places ==
    ASSUME Types
    PROVE  /\ b2 \in Nat /\ b1 \in Nat /\ bt \in Nat /\ numLines \in Nat
           /\ b2 <= b1 /\ b1 <= bt /\ bt <= numLines /\ b1 <= b2 + 1
           /\ b1 = b2 <=> f1ToF2 = noLine
           /\ numLines = bt + Len(requests) /\ bt = b1 + Len(transfers)
           /\ Len(requests) \in Nat /\ Len(transfers) \in Nat
           /\ DOMAIN inputBuffer = 1 .. b2
           /\ DOMAIN transfers = 1 .. Len(transfers)
           /\ DOMAIN requests = 1 .. Len(requests)
<1>1. /\ requests \in Seq(Request) /\ transfers \in Seq(Transfer)
      /\ inputBuffer \in Seq(Line)
  BY DEF Types
<1>2. CASE f1ToF2 = noLine
  BY <1>1, <1>2 DEF b1, b2, bt, numLines
<1>3. CASE f1ToF2 # noLine
  BY <1>1, <1>3 DEF b1, b2, bt, numLines
<1> QED BY <1>2, <1>3

(***************************************************************************)
(* lineAt, in terms of these places.                                       *)
(***************************************************************************)
LEMMA LineAtIs ==
    ASSUME NEW i
    PROVE  lineAt(i) = IF i <= b2 THEN inputBuffer[i]
                       ELSE IF i <= b1 THEN f1ToF2
                       ELSE IF i <= bt THEN transfers[i - b1]
                       ELSE requests[i - bt]
BY DEF lineAt, b1, b2, bt

(***************************************************************************)
(* The i-th line is in one of four places.                                 *)
(***************************************************************************)
LEMMA LineAt ==
    ASSUME Types, NEW i \in 1 .. numLines
    PROVE  /\ lines[i].s = lineAt(i).streamSeqNum
           /\ lines[i].p = lineAt(i).predictionSeqNum
           /\ lines[i].b = lineAt(i).lineBaseAddr
           /\ \/ i \in DOMAIN inputBuffer /\ i <= b2 /\ lineAt(i) = inputBuffer[i]
              \/ /\ b2 < i /\ i <= b1 /\ i = b2 + 1 /\ f1ToF2 # noLine
                 /\ lineAt(i) = f1ToF2
              \/ /\ b1 < i /\ i <= bt /\ i - b1 \in DOMAIN transfers
                 /\ lineAt(i) = transfers[i - b1]
              \/ /\ bt < i /\ i - bt \in DOMAIN requests
                 /\ lineAt(i) = requests[i - bt]
<1>1. /\ lines[i].s = lineAt(i).streamSeqNum
      /\ lines[i].p = lineAt(i).predictionSeqNum
      /\ lines[i].b = lineAt(i).lineBaseAddr
  BY DEF lines
<1>2. lineAt(i) = IF i <= b2 THEN inputBuffer[i]
                  ELSE IF i <= b1 THEN f1ToF2
                  ELSE IF i <= bt THEN transfers[i - b1]
                  ELSE requests[i - bt]
  BY LineAtIs
<1>3. \/ i \in DOMAIN inputBuffer /\ i <= b2
      \/ b2 < i /\ i <= b1 /\ i = b2 + 1 /\ f1ToF2 # noLine
      \/ b1 < i /\ i <= bt /\ i - b1 \in DOMAIN transfers
      \/ bt < i /\ i - bt \in DOMAIN requests
  BY SMTT(30), Places
<1>4. i \in Nat /\ b2 \in Nat /\ b1 \in Nat /\ bt \in Nat /\ b2 <= b1 /\ b1 <= bt
  BY Places
<1>5. CASE i \in DOMAIN inputBuffer /\ i <= b2
  BY <1>1, <1>2, <1>5
<1>6. CASE b2 < i /\ i <= b1 /\ i = b2 + 1 /\ f1ToF2 # noLine
  BY <1>1, <1>2, <1>4, <1>6
<1>7. CASE b1 < i /\ i <= bt /\ i - b1 \in DOMAIN transfers
  BY <1>1, <1>2, <1>4, <1>7
<1>8. CASE bt < i /\ i - bt \in DOMAIN requests
  BY SMTT(30), <1>1, <1>2, <1>4, <1>8
<1> QED BY <1>3, <1>5, <1>6, <1>7, <1>8

(***************************************************************************)
(* Their numbers and addresses.                                            *)
(***************************************************************************)
LEMMA LinesTyped ==
    ASSUME Types
    PROVE  /\ numLines \in Nat
           /\ \A i \in 1 .. numLines :
                lines[i].s \in Nat /\ lines[i].p \in Nat /\ lines[i].b \in Addr
           /\ \A i \in DOMAIN inputBuffer :
                /\ i \in 1 .. numLines
                /\ lines[i].s = inputBuffer[i].streamSeqNum
                /\ lines[i].p = inputBuffer[i].predictionSeqNum
                /\ lines[i].b = inputBuffer[i].lineBaseAddr
<1>1. /\ requests \in Seq(Request) /\ transfers \in Seq(Transfer)
      /\ inputBuffer \in Seq(Line) /\ f1ToF2 \in Line \cup {noLine}
  BY DEF Types
<1>2. numLines \in Nat
  BY Places
<1>3. ASSUME NEW i \in 1 .. numLines
      PROVE  lines[i].s \in Nat /\ lines[i].p \in Nat /\ lines[i].b \in Addr
  <2>1. lineAt(i) \in Line \/ lineAt(i) \in Transfer \/ lineAt(i) \in Request
    BY <1>1, LineAt
  <2>2. /\ lineAt(i).streamSeqNum \in Nat /\ lineAt(i).predictionSeqNum \in Nat
        /\ lineAt(i).lineBaseAddr \in Addr
    BY <2>1 DEF Line, Transfer, Request, Requests, SeqNum
  <2> QED BY <2>2, LineAt
<1>4. ASSUME NEW i \in DOMAIN inputBuffer
      PROVE  /\ i \in 1 .. numLines
             /\ lines[i].s = inputBuffer[i].streamSeqNum
             /\ lines[i].p = inputBuffer[i].predictionSeqNum
             /\ lines[i].b = inputBuffer[i].lineBaseAddr
  <2>1. i \in 1 .. numLines /\ i <= b2 /\ i \in Nat /\ b2 \in Nat
    BY Places
  <2>2. lineAt(i) = inputBuffer[i]
    BY <2>1, LineAtIs
  <2> QED BY <2>1, <2>2, LineAt
<1> QED BY <1>2, <1>3, <1>4

(***************************************************************************)
(* If nothing of Execute's stream has been fetched, no line is of it.      *)
(***************************************************************************)
LEMMA NoneFetchedLines ==
    ASSUME Types, NoneFetched
    PROVE  \A i \in 1 .. numLines : lines[i].s # E
BY LineAt DEF NoneFetched

(***************************************************************************)
(* Translations, responses and retries leave the lines in order.           *)
(***************************************************************************)
LEMMA LinesMoving ==
    ASSUME Types, Types', Moving, UNCHANGED <<inputBuffer, f1ToF2>>
    PROVE  numLines' = numLines /\ lines' = lines
<1>1. /\ requests \in Seq(Request) /\ requests' \in Seq(Request)
      /\ transfers \in Seq(Transfer) /\ transfers' \in Seq(Transfer)
  BY DEF Types, Moving
<1>2. b2' = b2 /\ b1' = b1
  BY DEF b2, b1
<1>3. numLines' = numLines /\ \A i \in 1 .. numLines : SameLine(lineAt(i)', lineAt(i))
  <2>1. CASE SameLines(requests', requests) /\ SameLines(transfers', transfers)
    <3>1. Len(requests') = Len(requests) /\ Len(transfers') = Len(transfers)
      BY <2>1 DEF SameLines
    <3>2. numLines' = numLines /\ bt' = bt
      BY <1>2, <3>1 DEF numLines, bt
    <3>3. ASSUME NEW i \in 1 .. numLines PROVE SameLine(lineAt(i)', lineAt(i))
      <4>1. lineAt(i)' = IF i <= b2 THEN inputBuffer[i]
                         ELSE IF i <= b1 THEN f1ToF2
                         ELSE IF i <= bt THEN transfers'[i - b1]
                         ELSE requests'[i - bt]
        BY <1>2, <3>2 DEF lineAt, b1, b2, bt
      <4>2. \/ lineAt(i)' = lineAt(i)
            \/ /\ i - b1 \in 1 .. Len(transfers)
               /\ lineAt(i)' = transfers'[i - b1] /\ lineAt(i) = transfers[i - b1]
            \/ /\ i - bt \in 1 .. Len(requests)
               /\ lineAt(i)' = requests'[i - bt] /\ lineAt(i) = requests[i - bt]
        <5>1. /\ i \in Nat /\ b2 \in Nat /\ b1 \in Nat /\ bt \in Nat
              /\ b2 <= b1 /\ b1 <= bt /\ i <= bt + Len(requests)
              /\ bt = b1 + Len(transfers)
              /\ Len(requests) \in Nat /\ Len(transfers) \in Nat /\ 0 < i
          BY Places
        <5>2. CASE i <= b1
          BY <4>1, <5>1, <5>2, LineAtIs
        <5>3. CASE b1 < i /\ i <= bt
          BY <4>1, <5>1, <5>3, LineAtIs
        <5>4. CASE bt < i
          BY SMTT(30), <4>1, <5>1, <5>4, LineAtIs
        <5> QED BY <5>1, <5>2, <5>3, <5>4
      <4> QED BY <2>1, <3>1, <4>2 DEF SameLines, SameLine
    <3> QED BY <3>2, <3>3
  <2>2. CASE /\ requests # <<>>
             /\ Shifted(requests', requests)
             /\ Extended(transfers', transfers, requests[1])
    <3>1. /\ Len(requests) = Len(requests') + 1
          /\ Len(transfers') = Len(transfers) + 1
      BY <2>2 DEF Shifted, Extended
    <3>2. numLines' = numLines /\ bt' = bt + 1
      <4>1. /\ Len(requests) \in Nat /\ Len(transfers) \in Nat /\ b1 \in Nat
            /\ Len(requests') \in Nat /\ Len(transfers') \in Nat
        BY <1>1, Places
      <4>2. numLines = b1 + Len(transfers) + Len(requests)
        BY DEF numLines, b1, b2
      <4>3. numLines' = b1 + Len(transfers') + Len(requests')
        BY <1>2 DEF numLines, b1, b2
      <4>4. bt = b1 + Len(transfers) /\ bt' = b1 + Len(transfers')
        BY <1>2 DEF bt
      <4> QED BY <3>1, <4>1, <4>2, <4>3, <4>4
    <3>3. ASSUME NEW i \in 1 .. numLines PROVE SameLine(lineAt(i)', lineAt(i))
      <4>1. lineAt(i)' = IF i <= b2 THEN inputBuffer[i]
                         ELSE IF i <= b1 THEN f1ToF2
                         ELSE IF i <= bt + 1 THEN transfers'[i - b1]
                         ELSE requests'[i - (bt + 1)]
        BY <1>2, <3>2 DEF lineAt, b1, b2, bt
      <4>2. \/ lineAt(i)' = lineAt(i)
            \/ /\ i - b1 \in 1 .. Len(transfers)
               /\ lineAt(i)' = transfers'[i - b1] /\ lineAt(i) = transfers[i - b1]
            \/ /\ i - b1 = Len(transfers')
               /\ lineAt(i)' = transfers'[i - b1] /\ lineAt(i) = requests[1]
            \/ /\ i - (bt + 1) \in 1 .. Len(requests')
               /\ lineAt(i)' = requests'[i - (bt + 1)]
               /\ lineAt(i) = requests[(i - (bt + 1)) + 1]
        <5>1. /\ i \in Nat /\ b2 \in Nat /\ b1 \in Nat /\ bt \in Nat
              /\ b2 <= b1 /\ b1 <= bt /\ i <= bt + Len(requests)
              /\ bt = b1 + Len(transfers) /\ Len(requests') \in Nat
              /\ Len(requests) \in Nat /\ Len(transfers) \in Nat /\ 0 < i
          BY <1>1, Places
        <5>2. CASE i <= b1
          BY <4>1, <5>1, <5>2, LineAtIs
        <5>3. CASE b1 < i /\ i <= bt
          BY <4>1, <5>1, <5>3, LineAtIs
        <5>4. CASE i = bt + 1
          <6>1. i - bt = 1 /\ ~(i <= bt) /\ ~(i <= b1) /\ ~(i <= b2) /\ i <= bt + 1
            BY <5>1, <5>4
          <6>2. i - b1 = Len(transfers')
            BY <3>1, <5>1, <5>4
          <6> QED BY <4>1, <6>1, <6>2, LineAtIs
        <5>5. CASE bt + 1 < i
          <6>1. /\ ~(i <= bt) /\ ~(i <= b1) /\ ~(i <= b2) /\ ~(i <= bt + 1)
                /\ i - bt = (i - (bt + 1)) + 1
                /\ i - (bt + 1) \in 1 .. Len(requests')
            BY <3>1, <5>1, <5>5
          <6> QED BY <4>1, <6>1, LineAtIs
        <5> QED BY SMTT(30), <5>1, <5>2, <5>3, <5>4, <5>5
      <4> QED BY <2>2, <4>2 DEF Shifted, Extended, SameLine
    <3> QED BY <3>2, <3>3
  <2> QED BY <2>1, <2>2 DEF Moving
<1>4. lines' = lines
  BY <1>3 DEF lines, SameLine
<1> QED BY <1>3, <1>4

(***************************************************************************)
(* Arithmetic on the places of the lines: k lines are lost in front.       *)
(***************************************************************************)
LEMMA Shifts ==
    ASSUME NEW k \in Nat, NEW b \in Nat, NEW c \in Nat, NEW t \in Nat,
           NEW r \in Nat, b = c + k
    PROVE  /\ c + t \in Nat /\ b + t = (c + t) + k
           /\ c + t + r \in Nat /\ b + t + r = (c + t + r) + k
OBVIOUS

(***************************************************************************)
(* A place and the one k further on are in the same queue.                 *)
(***************************************************************************)
LEMMA ShiftedPlace ==
    ASSUME NEW k \in Nat, NEW a \in Nat, NEW b \in Nat, NEW d \in Nat,
           NEW c \in Nat, NEW e \in Nat, NEW n \in Nat, NEW N,
           a <= b, b <= d, b = c + k, d = e + k, N = n + k, NEW i \in 1 .. n
    PROVE  /\ i + k \in 1 .. N
           /\ i <= c => i + k \in 1 .. b /\ i + k <= b
           /\ c < i => /\ ~(i <= c) /\ ~(i + k <= b) /\ ~(i + k <= a)
                       /\ (i + k) - b = i - c
           /\ c < i /\ i <= e => i + k <= d
           /\ e < i => /\ ~(i <= e) /\ ~(i + k <= d) /\ c < i
                       /\ (i + k) - d = i - e
           /\ i <= c \/ (c < i /\ i <= e) \/ e < i
OBVIOUS

(***************************************************************************)
(* Fetch2 takes the line that arrives and loses k lines at the front.      *)
(***************************************************************************)
LEMMA LinesDropped ==
    ASSUME Types, Types', NEW k \in Nat, Suffix(inputBuffer', arrived, k),
           f1ToF2' = noLine, UNCHANGED <<transfers, requests>>
    PROVE  /\ numLines' \in Nat /\ numLines = numLines' + k
           /\ \A i \in 1 .. numLines' : lines'[i] = lines[i + k]
<1>1. /\ inputBuffer \in Seq(Line) /\ inputBuffer' \in Seq(Line)
      /\ f1ToF2 # noLine => f1ToF2 \in Line
  BY DEF Types
<1>2. /\ Len(arrived) = b1 /\ Len(arrived) \in Nat
      /\ \A i \in 1 .. b1 :
           arrived[i] = IF i <= b2 THEN inputBuffer[i] ELSE f1ToF2
  <2>1. CASE f1ToF2 = noLine
    BY <1>1, <2>1 DEF arrived, b1, b2
  <2>2. CASE f1ToF2 # noLine
    <3>1. /\ Len(arrived) = Len(inputBuffer) + 1 /\ Len(inputBuffer) \in Nat
          /\ \A j \in 1 .. Len(inputBuffer) : arrived[j] = inputBuffer[j]
          /\ arrived[Len(inputBuffer) + 1] = f1ToF2
      BY <1>1, <2>2, AppendFacts DEF arrived
    <3>2. b1 = Len(inputBuffer) + 1 /\ b2 = Len(inputBuffer)
      BY <2>2 DEF b1, b2
    <3> QED BY <3>1, <3>2
  <2> QED BY <2>1, <2>2
<1>3. b2' = b1' /\ b1' \in Nat /\ b1 = b1' + k
  <2>1. b2' = b1' /\ b1' \in Nat /\ b1' = Len(inputBuffer')
    BY <1>1 DEF b1, b2
  <2> QED BY <1>2, <2>1 DEF Suffix
<1>4. PICK c1 \in Nat, ct \in Nat, n \in Nat :
        /\ c1 = b1' /\ ct = bt' /\ n = numLines'
        /\ b1 = c1 + k /\ bt = ct + k /\ numLines = n + k
  <2>1. Len(transfers) \in Nat /\ Len(requests) \in Nat /\ b1 \in Nat
    BY Places
  <2>2. bt = b1 + Len(transfers) /\ bt' = b1' + Len(transfers)
    BY DEF bt
  <2>3. numLines = b1 + Len(transfers) + Len(requests)
    BY DEF numLines, b1, b2
  <2>4. numLines' = b1' + Len(transfers) + Len(requests)
    BY DEF numLines, b1, b2
  <2>5. PICK c1 \in Nat : c1 = b1' /\ b1 = c1 + k
    BY Zenon, <1>3
  <2>6. PICK t \in Nat, r \in Nat : t = Len(transfers) /\ r = Len(requests)
    BY <2>1
  <2>7. /\ c1 + t \in Nat /\ b1 + t = (c1 + t) + k
        /\ c1 + t + r \in Nat /\ b1 + t + r = (c1 + t + r) + k
    <3>1. PICK b \in Nat : b = b1
      BY <2>1
    <3>2. b = c1 + k
      BY <2>5, <3>1
    <3>3. /\ c1 + t \in Nat /\ b + t = (c1 + t) + k
          /\ c1 + t + r \in Nat /\ b + t + r = (c1 + t + r) + k
      BY <3>2, Shifts
    <3> QED BY <3>1, <3>3
  <2>8. PICK ct \in Nat, n \in Nat : ct = c1 + t /\ n = c1 + t + r
    BY <2>7
  <2>9. ct = bt' /\ n = numLines' /\ bt = ct + k /\ numLines = n + k
    BY <2>2, <2>3, <2>4, <2>5, <2>6, <2>7, <2>8
  <2> QED BY Zenon, <2>5, <2>9
<1>5. ASSUME NEW i \in 1 .. n
      PROVE  i + k \in 1 .. numLines /\ lineAt(i)' = lineAt(i + k)
  <2>1. lineAt(i)' = IF i <= c1 THEN inputBuffer'[i]
                     ELSE IF i <= ct THEN transfers[i - c1]
                     ELSE requests[i - ct]
    BY <1>3, <1>4 DEF lineAt, b1, b2, bt
  <2>2. lineAt(i + k) = IF i + k <= b2 THEN inputBuffer[i + k]
                        ELSE IF i + k <= b1 THEN f1ToF2
                        ELSE IF i + k <= bt THEN transfers[(i + k) - b1]
                        ELSE requests[(i + k) - bt]
    BY LineAtIs
  <2>3. /\ i + k \in 1 .. numLines
        /\ i <= c1 => i + k \in 1 .. b1 /\ i + k <= b1
        /\ c1 < i => /\ ~(i <= c1) /\ ~(i + k <= b1) /\ ~(i + k <= b2)
                     /\ (i + k) - b1 = i - c1
        /\ c1 < i /\ i <= ct => i + k <= bt
        /\ ct < i => /\ ~(i <= ct) /\ ~(i + k <= bt) /\ c1 < i
                     /\ (i + k) - bt = i - ct
        /\ i <= c1 \/ (c1 < i /\ i <= ct) \/ ct < i
    <3>1. b2 \in Nat /\ b1 \in Nat /\ bt \in Nat /\ b2 <= b1 /\ b1 <= bt
      BY Places
    <3>2. b1 = c1 + k /\ bt = ct + k /\ numLines = n + k
      BY <1>4
    <3> QED BY <3>1, <3>2, ShiftedPlace
  <2>4. CASE i <= c1
    <3>1. inputBuffer'[i] = arrived[i + k]
      <4>1. Len(inputBuffer') = c1
        BY <1>3, <1>4 DEF b2
      <4>2. i \in 1 .. Len(inputBuffer')
        BY <2>4, <4>1
      <4> QED BY <4>2 DEF Suffix
    <3>2. arrived[i + k] = IF i + k <= b2 THEN inputBuffer[i + k] ELSE f1ToF2
      BY <1>2, <2>3, <2>4
    <3> QED BY <2>1, <2>2, <2>3, <2>4, <3>1, <3>2
  <2>5. CASE c1 < i /\ i <= ct
    BY <2>1, <2>2, <2>3, <2>5
  <2>6. CASE ct < i
    BY <2>1, <2>2, <2>3, <2>6
  <2> QED BY <2>3, <2>4, <2>5, <2>6
<1>6. ASSUME NEW i \in 1 .. numLines' PROVE lines'[i] = lines[i + k]
  BY Zenon, <1>4, <1>5 DEF lines
<1> QED BY <1>4, <1>6

(***************************************************************************)
(* A request is the last line.                                             *)
(***************************************************************************)
LEMMA LinesRequested ==
    ASSUME Types, NEW x \in Request, requests' = Append(requests, x),
           UNCHANGED <<inputBuffer, f1ToF2, transfers>>
    PROVE  /\ numLines \in Nat /\ numLines' = numLines + 1
           /\ \A i \in 1 .. numLines : lines'[i] = lines[i]
           /\ lines'[numLines + 1].s = x.streamSeqNum
           /\ lines'[numLines + 1].p = x.predictionSeqNum
           /\ lines'[numLines + 1].b = x.lineBaseAddr
<1>1. /\ Len(requests') = Len(requests) + 1
      /\ \A i \in 1 .. Len(requests) : requests'[i] = requests[i]
      /\ requests'[Len(requests) + 1] = x
  BY AppendFacts DEF Types
<1>2. b2' = b2 /\ b1' = b1 /\ bt' = bt
  BY DEF b1, b2, bt
<1>3. numLines \in Nat /\ numLines' = numLines + 1
  <2>1. numLines = bt + Len(requests) /\ numLines' = bt + Len(requests')
    BY <1>2 DEF numLines, bt, b1, b2
  <2> QED BY <1>1, <2>1, Places
<1>4. ASSUME NEW i
      PROVE  lineAt(i)' = IF i <= b2 THEN inputBuffer[i]
                          ELSE IF i <= b1 THEN f1ToF2
                          ELSE IF i <= bt THEN transfers[i - b1]
                          ELSE requests'[i - bt]
  BY <1>2 DEF lineAt, b1, b2, bt
<1>5. /\ b2 \in Nat /\ b1 \in Nat /\ bt \in Nat /\ b2 <= b1 /\ b1 <= bt
      /\ numLines = bt + Len(requests) /\ Len(requests) \in Nat
  BY Places
<1>6. ASSUME NEW i \in 1 .. numLines PROVE lineAt(i)' = lineAt(i)
  <2>1. bt < i => i - bt \in 1 .. Len(requests)
    BY <1>5
  <2>2. bt < i => requests'[i - bt] = requests[i - bt]
    BY <1>1, <2>1
  <2>3. i <= bt \/ bt < i
    BY <1>5
  <2> QED BY Zenon, <1>4, <2>2, <2>3, LineAtIs
<1>7. PICK n \in Nat : n = numLines + 1
  BY <1>3
<1>71. lineAt(n)' = x
  <2>1. /\ ~(n <= b2) /\ ~(n <= b1) /\ ~(n <= bt)
        /\ n - bt = Len(requests) + 1
    BY <1>5, <1>7
  <2>2. lineAt(n)' = requests'[n - bt]
    BY <1>4, <2>1
  <2> QED BY <1>1, <2>1, <2>2
<1>8. ASSUME NEW i \in 1 .. numLines PROVE lines'[i] = lines[i]
  <2>1. i \in 1 .. numLines'
    BY <1>3
  <2> QED BY <1>6, <2>1 DEF lines
<1>9. numLines + 1 \in 1 .. numLines'
  BY <1>3
<1>10. /\ lines'[numLines + 1].s = x.streamSeqNum
       /\ lines'[numLines + 1].p = x.predictionSeqNum
       /\ lines'[numLines + 1].b = x.lineBaseAddr
  BY <1>7, <1>71, <1>9 DEF lines
<1> QED BY <1>3, <1>8, <1>10

(***************************************************************************)
(* The first transfer is taken off, while there is no line in f1ToF2.      *)
(***************************************************************************)
LEMMA Transferred ==
    ASSUME Types, transfers # <<>>, f1ToF2 = noLine, transfers' = Tail(transfers),
           UNCHANGED <<requests, inputBuffer>>
    PROVE  \E b \in Nat, t \in Nat, r \in Nat :
             /\ b2 = b /\ t # 0 /\ numLines = b + t + r
             /\ numLines' = (IF f1ToF2' = noLine THEN b ELSE b + 1) + (t - 1) + r
             /\ \A i \in 1 .. t - 1 : transfers'[i] = transfers[i + 1]
             /\ \A i : lineAt(i) = IF i <= b THEN inputBuffer[i]
                                   ELSE IF i <= b + t THEN transfers[i - b]
                                   ELSE requests[i - (b + t)]
             /\ f1ToF2' = noLine =>
                  \A i : lineAt(i)' = IF i <= b THEN inputBuffer[i]
                                      ELSE IF i <= b + (t - 1) THEN transfers'[i - b]
                                      ELSE requests[i - (b + (t - 1))]
             /\ f1ToF2' # noLine =>
                  \A i : lineAt(i)' = IF i <= b THEN inputBuffer[i]
                                      ELSE IF i <= b + 1 THEN f1ToF2'
                                      ELSE IF i <= b + t THEN transfers'[i - (b + 1)]
                                      ELSE requests[i - (b + t)]
<1>1. /\ requests \in Seq(Request) /\ transfers \in Seq(Transfer)
      /\ inputBuffer \in Seq(Line)
  BY DEF Types
<1>2. PICK b \in Nat, t \in Nat, r \in Nat :
        b = Len(inputBuffer) /\ t = Len(transfers) /\ r = Len(requests)
  BY <1>1
<1>3. /\ t # 0 /\ Len(transfers') = t - 1
      /\ \A i \in 1 .. t - 1 : transfers'[i] = transfers[i + 1]
  BY <1>1, <1>2, TailFacts
<1>4. /\ b2 = b /\ numLines = b + t + r
      /\ numLines' = (IF f1ToF2' = noLine THEN b ELSE b + 1) + (t - 1) + r
  <2>1. numLines = (b + 0) + t + r /\ b2 = b
    BY <1>2 DEF numLines, b2
  <2>2. numLines' = b + (IF f1ToF2' = noLine THEN 0 ELSE 1) + (t - 1) + r
    BY <1>2, <1>3 DEF numLines
  <2> QED BY <2>1, <2>2
<1>5. \A i : lineAt(i) = IF i <= b THEN inputBuffer[i]
                         ELSE IF i <= b + t THEN transfers[i - b]
                         ELSE requests[i - (b + t)]
  <2>1. b + 0 = b
    OBVIOUS
  <2>2. ASSUME NEW i
        PROVE  lineAt(i) = IF i <= b THEN inputBuffer[i]
                           ELSE IF i <= b + 0 THEN f1ToF2
                           ELSE IF i <= b + 0 + t THEN transfers[i - (b + 0)]
                           ELSE requests[i - (b + 0 + t)]
    BY <1>2 DEF lineAt
  <2> QED BY <2>1, <2>2
<1>6. ASSUME f1ToF2' = noLine, NEW i
      PROVE  lineAt(i)' = IF i <= b THEN inputBuffer[i]
                          ELSE IF i <= b + (t - 1) THEN transfers'[i - b]
                          ELSE requests[i - (b + (t - 1))]
  <2>1. b + 0 = b
    OBVIOUS
  <2>2. lineAt(i)' = IF i <= b THEN inputBuffer[i]
                     ELSE IF i <= b + 0 THEN f1ToF2'
                     ELSE IF i <= b + 0 + (t - 1) THEN transfers'[i - (b + 0)]
                     ELSE requests[i - (b + 0 + (t - 1))]
    BY Zenon, <1>2, <1>3, <1>6 DEF lineAt
  <2> QED BY Zenon, <2>1, <2>2
<1>7. ASSUME f1ToF2' # noLine, NEW i
      PROVE  lineAt(i)' = IF i <= b THEN inputBuffer[i]
                          ELSE IF i <= b + 1 THEN f1ToF2'
                          ELSE IF i <= b + t THEN transfers'[i - (b + 1)]
                          ELSE requests[i - (b + t)]
  <2>1. b + 1 + (t - 1) = b + t
    OBVIOUS
  <2>2. lineAt(i)' = IF i <= b THEN inputBuffer[i]
                     ELSE IF i <= b + 1 THEN f1ToF2'
                     ELSE IF i <= b + 1 + (t - 1) THEN transfers'[i - (b + 1)]
                     ELSE requests[i - (b + 1 + (t - 1))]
    BY Zenon, <1>2, <1>3, <1>7 DEF lineAt
  <2> QED BY Zenon, <2>1, <2>2
<1> QED BY Zenon, <1>3, <1>4, <1>5, <1>6, <1>7

(***************************************************************************)
(* A line that is sent stays where it is among the lines.                  *)
(***************************************************************************)
LEMMA LinesSent ==
    ASSUME Types, transfers # <<>>, f1ToF2 = noLine, transfers' = Tail(transfers),
           f1ToF2' # noLine, SameLine(f1ToF2', transfers[1]),
           UNCHANGED <<requests, inputBuffer>>
    PROVE  numLines' = numLines /\ lines' = lines
<1>1. PICK b \in Nat, t \in Nat, r \in Nat :
        /\ t # 0 /\ numLines = b + t + r
        /\ numLines' = (b + 1) + (t - 1) + r
        /\ \A i \in 1 .. t - 1 : transfers'[i] = transfers[i + 1]
        /\ \A i : lineAt(i) = IF i <= b THEN inputBuffer[i]
                              ELSE IF i <= b + t THEN transfers[i - b]
                              ELSE requests[i - (b + t)]
        /\ \A i : lineAt(i)' = IF i <= b THEN inputBuffer[i]
                               ELSE IF i <= b + 1 THEN f1ToF2'
                               ELSE IF i <= b + t THEN transfers'[i - (b + 1)]
                               ELSE requests[i - (b + t)]
  BY Zenon, Transferred
<1>2. numLines' = numLines
  <2>1. (b + 1) + (t - 1) + r = b + t + r
    OBVIOUS
  <2> QED BY <1>1, <2>1
<1>3. ASSUME NEW i \in 1 .. numLines PROVE SameLine(lineAt(i)', lineAt(i))
  <2>0. i \in Nat /\ t # 0
    BY <1>1
  <2>1. CASE i <= b
    BY <1>1, <2>1 DEF SameLine
  <2>2. CASE i = b + 1
    <3>1. ~(i <= b) /\ i <= b + 1 /\ i <= b + t /\ i - b = 1
      BY <2>0, <2>2
    <3> QED BY <1>1, <3>1
  <2>3. CASE b + 1 < i /\ i <= b + t
    <3>1. /\ ~(i <= b) /\ ~(i <= b + 1)
          /\ i - (b + 1) \in 1 .. t - 1 /\ (i - (b + 1)) + 1 = i - b
      BY <2>0, <2>3
    <3>2. lineAt(i)' = transfers'[i - (b + 1)] /\ lineAt(i) = transfers[i - b]
      BY Zenon, <1>1, <2>3, <3>1
    <3>3. transfers'[i - (b + 1)] = transfers[i - b]
      BY Zenon, <1>1, <3>1
    <3> QED BY Zenon, <3>2, <3>3 DEF SameLine
  <2>4. CASE b + t < i
    <3>1. ~(i <= b) /\ ~(i <= b + 1) /\ ~(i <= b + t)
      BY <2>0, <2>4
    <3> QED BY <1>1, <3>1 DEF SameLine
  <2>5. i <= b \/ i = b + 1 \/ (b + 1 < i /\ i <= b + t) \/ b + t < i
    BY <2>0
  <2> QED BY <2>1, <2>2, <2>3, <2>4, <2>5
<1> QED BY <1>2, <1>3 DEF lines, SameLine

(***************************************************************************)
(* A line that is dropped was the first that is not in Fetch2's buffer.    *)
(***************************************************************************)
LEMMA LinesRemoved ==
    ASSUME Types, transfers # <<>>, transfers' = Tail(transfers),
           f1ToF2 = noLine, UNCHANGED <<requests, inputBuffer, f1ToF2>>
    PROVE  \E k \in 1 .. numLines :
             /\ numLines \in Nat /\ numLines' = numLines - 1 /\ k = b2 + 1
             /\ \A i \in 1 .. k - 1 : lines'[i] = lines[i]
             /\ \A i \in k .. numLines - 1 : lines'[i] = lines[i + 1]
             /\ lines[k].s = transfers[1].streamSeqNum
             /\ lines[k].p = transfers[1].predictionSeqNum
<1>1. PICK b \in Nat, t \in Nat, r \in Nat :
        /\ b2 = b /\ t # 0 /\ numLines = b + t + r
        /\ numLines' = b + (t - 1) + r
        /\ \A i \in 1 .. t - 1 : transfers'[i] = transfers[i + 1]
        /\ \A i : lineAt(i) = IF i <= b THEN inputBuffer[i]
                              ELSE IF i <= b + t THEN transfers[i - b]
                              ELSE requests[i - (b + t)]
        /\ \A i : lineAt(i)' = IF i <= b THEN inputBuffer[i]
                               ELSE IF i <= b + (t - 1) THEN transfers'[i - b]
                               ELSE requests[i - (b + (t - 1))]
  BY Zenon, Transferred
<1>2. PICK n \in Nat, k \in Nat :
        /\ n = b + t + r /\ numLines = n /\ numLines' = n - 1 /\ k = b + 1
        /\ k \in 1 .. n
  <2>1. b + t + r \in Nat /\ b + 1 \in 1 .. b + t + r /\ t # 0
    BY <1>1
  <2>2. b + (t - 1) + r = (b + t + r) - 1
    OBVIOUS
  <2> QED BY <1>1, <2>1, <2>2
<1>3. ASSUME NEW i \in 1 .. k - 1 PROVE lines'[i] = lines[i]
  <2>1. i \in 1 .. n /\ i \in 1 .. n - 1 /\ i <= b
    BY <1>2
  <2>2. lineAt(i)' = lineAt(i)
    BY <1>1, <2>1
  <2> QED BY <1>2, <2>1, <2>2 DEF lines
<1>4. ASSUME NEW i \in k .. n - 1 PROVE lines'[i] = lines[i + 1]
  <2>1. /\ i \in 1 .. n - 1 /\ i + 1 \in 1 .. n
        /\ ~(i <= b) /\ ~(i + 1 <= b) /\ i \in Nat
    BY <1>2
  <2>2. CASE i <= b + (t - 1)
    <3>1. /\ i + 1 <= b + t /\ i - b \in 1 .. t - 1
          /\ (i + 1) - b = (i - b) + 1
      BY <1>2, <2>1, <2>2
    <3>2. lineAt(i)' = transfers'[i - b] /\ lineAt(i + 1) = transfers[(i + 1) - b]
      BY Zenon, <1>1, <2>1, <2>2, <3>1
    <3>3. transfers'[i - b] = transfers[(i + 1) - b]
      BY Zenon, <1>1, <3>1
    <3>4. lineAt(i)' = lineAt(i + 1)
      BY Zenon, <3>2, <3>3
    <3> QED BY <1>2, <2>1, <3>4 DEF lines
  <2>3. CASE ~(i <= b + (t - 1))
    <3>1. ~(i + 1 <= b + t) /\ (i + 1) - (b + t) = i - (b + (t - 1))
      BY <1>2, <2>1, <2>3
    <3>2. lineAt(i)' = lineAt(i + 1)
      BY Zenon, <1>1, <2>1, <2>3, <3>1
    <3> QED BY <1>2, <2>1, <3>2 DEF lines
  <2> QED BY <2>2, <2>3
<1>5. lines[k].s = transfers[1].streamSeqNum /\ lines[k].p = transfers[1].predictionSeqNum
  <2>1. ~(k <= b) /\ k <= b + t /\ k - b = 1
    BY <1>1, <1>2
  <2>2. lineAt(k) = transfers[1]
    BY <1>1, <2>1
  <2> QED BY <1>2, <2>2 DEF lines
<1> QED BY <1>1, <1>2, <1>3, <1>4, <1>5

(***************************************************************************)
(* The prediction numbers as numbers.                                      *)
(***************************************************************************)
LEMMA PredictionNumbers ==
    ASSUME Types
    PROVE  /\ P1 \in Nat /\ P2 \in Nat /\ execute.lastPredictionSeqNum \in Nat
           /\ \A i \in DOMAIN insts : insts[i].predictionSeqNum \in Nat
           /\ eToF1.in # noBranch => eToF1.in.newPredictionSeqNum \in Nat
           /\ eToF1.out # noBranch => eToF1.out.newPredictionSeqNum \in Nat
           /\ f2ToF1.in # noBranch => f2ToF1.in.newPredictionSeqNum \in Nat
           /\ f2ToF1.out # noBranch => f2ToF1.out.newPredictionSeqNum \in Nat
<1>1. P1 \in Nat /\ P2 \in Nat /\ execute.lastPredictionSeqNum \in Nat
  BY DEF Types, P1, P2, Fetch1Info, Fetch2Info, ExecuteInfo, SeqNum
<1>2. \A i \in DOMAIN insts : insts[i].predictionSeqNum \in Nat
  <2>1. \A i \in DOMAIN insts : insts[i] \in Inst
    BY DEF Types
  <2> QED BY <2>1 DEF Inst, SeqNum
<1>3. \A b \in Branch : b.newPredictionSeqNum \in Nat
  BY DEF Branch, SeqNum
<1>4. /\ f2ToF1.in \in Branch \cup {noBranch} /\ f2ToF1.out \in Branch \cup {noBranch}
      /\ eToF1.in \in Branch \cup {noBranch} /\ eToF1.out \in Branch \cup {noBranch}
  BY DEF Types, Latch
<1> QED BY <1>1, <1>2, <1>3, <1>4

(***************************************************************************)
(* What is left of a queue without its head.                               *)
(***************************************************************************)
LEMMA TailIndex ==
    ASSUME NEW S, NEW q \in Seq(S), q # <<>>, NEW i \in DOMAIN Tail(q)
    PROVE  i + 1 \in DOMAIN q /\ Tail(q)[i] = q[i + 1]
<1>1. /\ Tail(q) \in Seq(S) /\ Len(Tail(q)) = Len(q) - 1 /\ Len(q) \in Nat
      /\ \A j \in 1 .. Len(q) - 1 : Tail(q)[j] = q[j + 1]
  BY TailFacts
<1> QED BY <1>1

(***************************************************************************)
(* The steps that do not make a prediction: every number there is comes    *)
(* from one that was there.                                                *)
(***************************************************************************)
LEMMA NoNewNumbers ==
    ASSUME Types, Numbers, P2' = P2,
           P1' \in {n \in Nat : n <= P2},
           execute'.lastPredictionSeqNum \in {n \in Nat : n <= P2},
           insts' = insts \/ (insts # <<>> /\ insts' = Tail(insts)),
           eToF1'.in # noBranch => eToF1'.in.newPredictionSeqNum <= P2,
           eToF1'.out # noBranch => eToF1'.out.newPredictionSeqNum <= P2,
           f2ToF1'.in \in {f2ToF1.in, noBranch},
           f2ToF1'.out \in {f2ToF1.out, f2ToF1.in}
    PROVE  Numbers'
<1>1. ASSUME NEW i \in DOMAIN insts' PROVE insts'[i].predictionSeqNum <= P2
  <2>1. CASE insts' = insts
    BY <2>1 DEF Numbers, NoneAfterP2
  <2>2. CASE insts # <<>> /\ insts' = Tail(insts)
    <3>3. i + 1 \in DOMAIN insts /\ insts'[i] = insts[i + 1]
      BY <2>2, TailIndex DEF Types
    <3> QED BY <3>3 DEF Numbers, NoneAfterP2
  <2> QED BY <2>1, <2>2
<1> QED BY <1>1 DEF Numbers, Predicts, NoneAfterP2

(***************************************************************************)
(* Every step keeps the prediction numbers in order.                       *)
(***************************************************************************)
LEMMA StepNumbers ==
    ASSUME Base, Numbers, FetchEffect \/ ActivateEffect \/ UNCHANGED vars
    PROVE  Numbers'
<1>1. Types
  BY DEF Base
<1>2. /\ P1 \in Nat /\ P2 \in Nat /\ execute.lastPredictionSeqNum \in Nat
      /\ P1 <= P2 /\ execute.lastPredictionSeqNum <= P2
      /\ eToF1.in # noBranch => eToF1.in.newPredictionSeqNum <= P2
      /\ eToF1.out # noBranch => eToF1.out.newPredictionSeqNum <= P2
  BY <1>1, PredictionNumbers DEF Numbers, NoneAfterP2
<1>3. ~isStreamChange(noBranch)
  BY DEF isStreamChange, noBranch
<1>4. ASSUME insts # <<>>
      PROVE  Head(insts).predictionSeqNum \in {n \in Nat : n <= P2}
  <2>1. Head(insts) = insts[1] /\ 1 \in DOMAIN insts
    <3>1. insts \in Seq(Inst)
      BY <1>1 DEF Types
    <3> QED BY <1>1, <1>4, <3>1, HeadFacts
  <2> QED BY <1>1, <2>1, PredictionNumbers DEF Numbers, NoneAfterP2
<1>5. CASE UNCHANGED vars
  <2>1. UNCHANGED <<fetch1, fetch2, f2ToF1, eToF1, execute, insts>>
    BY <1>5 DEF vars, fetch1Vars, fetch2Vars, latchVars, executeVars
  <2> QED BY <1>1, <1>2, <2>1, NoNewNumbers DEF P1, P2
<1>6. CASE Quiet
  <2>1. UNCHANGED <<fetch1, fetch2, f2ToF1, eToF1, execute, insts>>
    BY <1>6 DEF Quiet, fetch2Vars, latchVars, executeVars
  <2> QED BY <1>1, <1>2, <2>1, NoNewNumbers DEF P1, P2
<1>7. CASE CommitEffect
  <2>1. /\ insts # <<>> /\ insts' = Tail(insts) /\ Commits(Head(insts))
        /\ UNCHANGED <<fetch1, fetch2, f2ToF1>>
    BY <1>7 DEF CommitEffect, fetch1Vars, fetch2Vars
  <2>2. /\ execute'.lastPredictionSeqNum = Head(insts).predictionSeqNum
        /\ eToF1'.out = eToF1.out
        /\ eToF1'.in = eToF1.in
             \/ eToF1'.in.newPredictionSeqNum = Head(insts).predictionSeqNum
    BY <2>1 DEF Commits
  <2>3. P1' = P1 /\ P2' = P2
    BY <2>1 DEF P1, P2
  <2> QED BY <1>1, <1>2, <1>4, <2>1, <2>2, <2>3, NoNewNumbers
<1>8. CASE DiscardEffect
  <2>1. /\ insts # <<>> /\ insts' = Tail(insts)
        /\ execute'.lastPredictionSeqNum \in
             {execute.lastPredictionSeqNum, Head(insts).predictionSeqNum}
        /\ UNCHANGED <<fetch1, fetch2, f2ToF1, eToF1>>
    BY <1>8 DEF DiscardEffect, fetch1Vars, fetch2Vars, latchVars
  <2>2. P1' = P1 /\ P2' = P2
    BY <2>1 DEF P1, P2
  <2> QED BY <1>1, <1>2, <1>4, <2>1, <2>2, NoNewNumbers
<1>9. CASE InterruptEffect
  <2>1. /\ execute'.lastPredictionSeqNum = execute.lastPredictionSeqNum
        /\ eToF1'.out = eToF1.out
        /\ eToF1'.in.newPredictionSeqNum = execute.lastPredictionSeqNum
        /\ UNCHANGED <<fetch1, fetch2, f2ToF1, insts>>
    BY <1>9 DEF InterruptEffect, fetch1Vars, fetch2Vars
  <2>2. P1' = P1 /\ P2' = P2
    BY <2>1 DEF P1, P2
  <2> QED BY <1>1, <1>2, <2>1, <2>2, NoNewNumbers
<1>10. CASE EndExecuteEffect
  <2>1. /\ eToF1'.out = eToF1.out
        /\ \/ Halts
           \/ execute' = execute /\ (eToF1'.in = noBranch \/ eToF1' = eToF1)
        /\ UNCHANGED <<fetch1, fetch2, f2ToF1, insts>>
    BY <1>10 DEF EndExecuteEffect, fetch1Vars, fetch2Vars
  <2>2. P1' = P1 /\ P2' = P2
    BY <2>1 DEF P1, P2
  <2> QED BY <1>1, <1>2, <2>1, <2>2, NoNewNumbers DEF Halts
<1>11. CASE StartFetch2Effect
  <2>1. /\ KeepsFetch2 /\ UNCHANGED <<fetch1, f2ToF1, eToF1, execute, insts>>
    BY Zenon, <1>11 DEF StartFetch2Effect, fetch1Vars, executeVars
  <2>2. P1' = P1 /\ P2' = P2
    BY <2>1 DEF P1, P2, KeepsFetch2
  <2> QED BY <1>1, <1>2, <2>1, <2>2, NoNewNumbers
<1>12. CASE ProcessLineEffect
  <2> DEFINE line == Head(inputBuffer)
  <2>1. /\ \/ PopsWrong(line)
           \/ \E x \in Inst :
                /\ Passes(line, x)
                /\ PassesFault(line, x) \/ PassesTaken(line, x) \/ PassesOn(line, x)
        /\ UNCHANGED <<fetch1, eToF1, execute>>
    BY Zenon, <1>12 DEF ProcessLineEffect, fetch1Vars
  <2>2. P1' = P1
    BY <2>1 DEF P1
  <2>3. CASE PopsWrong(line)
    <3>1. UNCHANGED <<insts, f2ToF1>> /\ P2' = P2
      BY <2>3 DEF PopsWrong, P2
    <3> QED BY <1>1, <1>2, <2>1, <2>2, <3>1, NoNewNumbers
  <2>4. ASSUME NEW x \in Inst, Passes(line, x),
               PassesFault(line, x) \/ PassesTaken(line, x) \/ PassesOn(line, x)
        PROVE  Numbers'
    <3>1. insts \in Seq(Inst) /\ insts' = Append(insts, x) /\ x.predictionSeqNum = P2
      BY Zenon, <1>1, <2>4 DEF Types, Passes, P2
    <3>2. /\ P2' = P2 /\ f2ToF1' = f2ToF1
          \/ /\ P2' = P2 + 1 /\ f2ToF1'.out = f2ToF1.out
             /\ f2ToF1'.in.reason = "BranchPrediction"
             /\ f2ToF1'.in.newPredictionSeqNum = P2'
      BY <2>4 DEF PassesFault, PassesTaken, PassesOn, P2
    <3>3. P2' \in Nat /\ P2 <= P2'
      BY <1>2, <3>2
    <3>4. ASSUME NEW i \in DOMAIN insts' PROVE insts'[i].predictionSeqNum <= P2'
      <4>1. /\ Len(insts') = Len(insts) + 1 /\ Len(insts) \in Nat
            /\ \A j \in 1 .. Len(insts) : insts'[j] = insts[j]
            /\ insts'[Len(insts) + 1] = x
            /\ DOMAIN insts' = 1 .. Len(insts')
        BY <3>1, AppendFacts
      <4>2. \/ i \in DOMAIN insts /\ insts'[i] = insts[i]
            \/ insts'[i] = x
        BY <3>1, <4>1
      <4>3. i \in DOMAIN insts =>
              insts[i].predictionSeqNum \in Nat /\ insts[i].predictionSeqNum <= P2
        BY <1>1, PredictionNumbers DEF Numbers, NoneAfterP2
      <4> QED BY <1>2, <3>1, <3>3, <4>2, <4>3
    <3>5. /\ eToF1.in # noBranch => eToF1.in.newPredictionSeqNum \in Nat
          /\ eToF1.out # noBranch => eToF1.out.newPredictionSeqNum \in Nat
          /\ f2ToF1.in # noBranch => f2ToF1.in.newPredictionSeqNum \in Nat
          /\ f2ToF1.out # noBranch => f2ToF1.out.newPredictionSeqNum \in Nat
      BY <1>1, PredictionNumbers
    <3>6. /\ P1' <= P2' /\ execute.lastPredictionSeqNum <= P2'
          /\ eToF1.in # noBranch => eToF1.in.newPredictionSeqNum <= P2'
          /\ eToF1.out # noBranch => eToF1.out.newPredictionSeqNum <= P2'
      BY <1>2, <2>2, <3>3, <3>5
    <3>7. /\ f2ToF1'.in # noBranch => f2ToF1'.in.newPredictionSeqNum <= P2'
          /\ f2ToF1'.out # noBranch => f2ToF1'.out.newPredictionSeqNum <= P2'
      BY <1>2, <3>2, <3>3, <3>5 DEF Numbers, NoneAfterP2
    <3>8. Predicts'
      BY <3>2 DEF Numbers, Predicts
    <3> QED BY <2>1, <3>4, <3>6, <3>7, <3>8 DEF Numbers, NoneAfterP2
  <2> QED BY <2>1, <2>3, <2>4
<1>13. CASE EndFetch2Effect
  <2>1. /\ fetch2'.predictionSeqNum = fetch2.predictionSeqNum
        /\ UNCHANGED <<fetch1, f2ToF1, eToF1, execute, insts>>
    BY Zenon, <1>13 DEF EndFetch2Effect, fetch1Vars, latchVars, executeVars
  <2> QED BY Zenon, <1>1, <1>2, <2>1, NoNewNumbers DEF P1, P2
<1>14. CASE StartFetch1Effect
  <2>1. PICK r \in Fetch1Info :
          /\ Redirects(r)
          /\ NotFetches(r) \/ \E x \in Request : Fetches(r, x)
    BY <1>14 DEF StartFetch1Effect
  <2>2. UNCHANGED <<fetch2, f2ToF1, eToF1, execute, insts>>
    BY <1>14 DEF StartFetch1Effect, latchVars, executeVars
  <2>3. r.predictionSeqNum \in {n \in Nat : n <= P2}
    BY Zenon, <1>1, <1>2, <1>3, <2>1, PredictionNumbers
       DEF Redirects, Follows, Numbers, NoneAfterP2, P1
  <2>4. P1' = r.predictionSeqNum
    BY Zenon, <2>1 DEF NotFetches, Fetches, P1
  <2> QED BY Zenon, <1>1, <1>2, <2>2, <2>3, <2>4, NoNewNumbers DEF P2
<1>15. CASE DeliverEffect
  <2>1. /\ fetch1'.predictionSeqNum = P1
        /\ UNCHANGED <<fetch2, f2ToF1, eToF1, execute, insts>>
    BY Zenon, <1>15 DEF DeliverEffect, executeVars
  <2> QED BY Zenon, <1>1, <1>2, <2>1, NoNewNumbers DEF P1, P2
<1>16. CASE EndCycleEffect
  <2>1. /\ f2ToF1'.in = noBranch /\ f2ToF1'.out = f2ToF1.in
        /\ eToF1'.in = noBranch /\ eToF1'.out = eToF1.in
        /\ UNCHANGED <<fetch1, fetch2, execute, insts>>
    BY Zenon, <1>16 DEF EndCycleEffect, fetch1Vars, fetch2Vars, executeVars
  <2> QED BY Zenon, <1>1, <1>2, <2>1, NoNewNumbers DEF P1, P2
<1>17. CASE DrainEffect
  <2>1. /\ execute'.lastPredictionSeqNum = execute.lastPredictionSeqNum
        /\ UNCHANGED <<fetch1, fetch2, f2ToF1, eToF1, insts>>
    BY <1>17 DEF DrainEffect, fetch1Vars, fetch2Vars, latchVars
  <2> QED BY <1>1, <1>2, <2>1, NoNewNumbers DEF P1, P2
<1>18. CASE ResumeEffect \/ ActivateEffect
  <2>1. /\ fetch1'.predictionSeqNum = P1
        /\ execute'.lastPredictionSeqNum = execute.lastPredictionSeqNum
        /\ UNCHANGED <<fetch2, f2ToF1, eToF1, insts>>
    BY Zenon, <1>18 DEF ResumeEffect, ActivateEffect, Wakes, fetch2Vars, latchVars
  <2> QED BY <1>1, <1>2, <2>1, NoNewNumbers DEF P1, P2
<1> QED BY <1>5, <1>6, <1>7, <1>8, <1>9, <1>10, <1>11, <1>12, <1>13, <1>14, <1>15,
           <1>16, <1>17, <1>18 DEF FetchEffect

(***************************************************************************)
(* What Execute has still to commit.                                       *)
(***************************************************************************)
(***************************************************************************)
(* While Fetch1 is behind nothing of Execute's stream has been requested.  *)
(***************************************************************************)
LEMMA BehindFresh == ASSUME Types, Behind, F # E PROVE Fresh
<1>1. F < E /\ F \in Nat /\ E \in Nat
  BY StreamNumbers DEF Behind
<1>2. NoneInstd
  <2>1. \A i \in DOMAIN insts :
          insts[i].streamSeqNum \in Nat /\ insts[i].streamSeqNum <= F
    BY StreamNumbers DEF Behind
  <2> QED BY <1>1, <2>1 DEF NoneInstd
<1>3. NoneFetched
  <2>1. \A i \in DOMAIN inputBuffer : inputBuffer[i].streamSeqNum # E
    BY <1>1 DEF Behind
  <2>2. f1ToF2 # noLine => f1ToF2.streamSeqNum # E
    BY <1>1 DEF Behind
  <2>3. \A i \in DOMAIN transfers : transfers[i].streamSeqNum # E
    BY <1>1, StreamNumbers DEF Behind
  <2>4. \A i \in DOMAIN requests : requests[i].streamSeqNum # E
    BY <1>1, StreamNumbers DEF Behind
  <2> QED BY Zenon, <2>1, <2>2, <2>3, <2>4 DEF NoneFetched
<1>4. ~pending /\ ~following
  <2>1. fetch2.lastStreamSeqNum # E
    BY <1>1, StreamNumbers DEF Behind
  <2>2. f2ToF1.in # noBranch => f2ToF1.in.newStreamSeqNum # E
    BY <1>1, StreamNumbers DEF Behind
  <2>3. f2ToF1.out # noBranch => f2ToF1.out.newStreamSeqNum # E
    BY <1>1, StreamNumbers DEF Behind
  <2> QED BY <2>1, <2>2, <2>3 DEF pending, pendingIn, pendingOut, following
<1> QED BY <1>2, <1>3, <1>4 DEF Fresh

(***************************************************************************)
(* With no instruction of its stream Execute goes on at the thread's PC.   *)
(***************************************************************************)
LEMMA NoInsts ==
    ASSUME Types, NoneInstd
    PROVE  InstsInOrder /\ ~faulted /\ lastPC = execute.pc
<1>1. insts \in Seq(Inst)
  BY DEF Types
<1>2. InstsInOrder
  BY DEF InstsInOrder, NoneInstd
<1>3. ~faulted
  BY <1>1 DEF faulted, faultBefore, NoneInstd
<1>4. insts # <<>> => Len(insts) \in DOMAIN insts
  BY <1>1
<1>5. lastPC = execute.pc
  BY <1>4 DEF lastPC, NoneInstd
<1> QED BY <1>2, <1>3, <1>5

(***************************************************************************)
(* What the steps that change neither keep.                                *)
(***************************************************************************)
LEMMA SameInsts ==
    ASSUME InstsInOrder, insts' = insts, E' = E, execute'.pc = execute.pc
    PROVE  InstsInOrder' /\ (faulted' <=> faulted) /\ lastPC' = lastPC
<1>1. \A n : faultBefore(n)' <=> faultBefore(n)
  BY DEF faultBefore
<1>2. faulted' <=> faulted
  BY DEF faulted, faultBefore
<1>3. lastPC' = lastPC
  BY DEF lastPC
<1>4. InstsInOrder'
  BY <1>1 DEF InstsInOrder
<1> QED BY <1>2, <1>3, <1>4

(***************************************************************************)
(* The head goes: it is of an old stream, or Execute follows it.           *)
(***************************************************************************)
LEMMA TailInsts ==
    ASSUME Types, InstsInOrder, insts # <<>>, insts' = Tail(insts), E' = E,
           \/ insts[1].streamSeqNum # E /\ execute'.pc = execute.pc
           \/ /\ insts[1].streamSeqNum = E /\ ~insts[1].fault
              /\ execute'.pc = nextPC(insts[1])
    PROVE  InstsInOrder' /\ (faulted' <=> faulted) /\ lastPC' = lastPC
<1>1. PICK n \in Nat \ {0} :
        /\ n = Len(insts) /\ DOMAIN insts = 1 .. n
        /\ Len(insts') = n - 1 /\ DOMAIN insts' = 1 .. n - 1
        /\ \A i \in 1 .. n - 1 : insts'[i] = insts[i + 1]
  <2>1. insts \in Seq(Inst)
    BY DEF Types
  <2>2. /\ Len(insts') = Len(insts) - 1 /\ Len(insts) \in Nat \ {0}
        /\ \A i \in 1 .. Len(insts) - 1 : insts'[i] = insts[i + 1]
        /\ insts' \in Seq(Inst)
    BY <2>1, TailFacts
  <2>3. DOMAIN insts = 1 .. Len(insts) /\ DOMAIN insts' = 1 .. Len(insts')
    BY <2>1, <2>2
  <2> QED BY <2>2, <2>3
<1>2. ASSUME NEW k \in 0 .. n - 1 PROVE faultBefore(k)' <=> faultBefore(k + 1)
  <2>1. faultBefore(k)' <=>
          \E i \in 1 .. k : insts'[i].streamSeqNum = E /\ insts'[i].fault
    BY DEF faultBefore
  <2>2. ASSUME NEW i \in 1 .. k
        PROVE  i + 1 \in 1 .. k + 1 /\ insts'[i] = insts[i + 1]
    BY <1>1
  <2>3. ASSUME NEW i \in 1 .. k + 1, i # 1
        PROVE  i - 1 \in 1 .. k /\ insts'[i - 1] = insts[i]
    <3>1. i - 1 \in 1 .. k /\ i - 1 \in 1 .. n - 1 /\ (i - 1) + 1 = i
      BY <1>1, <2>3
    <3> QED BY <1>1, <3>1
  <2>4. ~(insts[1].streamSeqNum = E /\ insts[1].fault)
    OBVIOUS
  <2>5. faultBefore(k)' => faultBefore(k + 1)
    BY Zenon, <2>1, <2>2 DEF faultBefore
  <2>6. faultBefore(k + 1) => faultBefore(k)'
    <3>1. ASSUME NEW i \in 1 .. k + 1, insts[i].streamSeqNum = E, insts[i].fault
          PROVE  \E j \in 1 .. k : insts'[j].streamSeqNum = E /\ insts'[j].fault
      <4>1. i # 1
        BY <2>4, <3>1
      <4> QED BY Zenon, <2>3, <3>1, <4>1
    <3> QED BY Zenon, <2>1, <3>1 DEF faultBefore
  <2> QED BY <2>5, <2>6
<1>3. faulted' <=> faulted
  <2>1. n - 1 \in 0 .. n - 1 /\ (n - 1) + 1 = n
    OBVIOUS
  <2>2. PICK k \in 0 .. n - 1 : k = n - 1 /\ k + 1 = n
    BY <2>1
  <2>3. faulted' <=> \E i \in 1 .. k : insts'[i].streamSeqNum = E /\ insts'[i].fault
    BY <1>1, <2>2 DEF faulted, faultBefore
  <2>4. faultBefore(k)' <=>
          \E i \in 1 .. k : insts'[i].streamSeqNum = E /\ insts'[i].fault
    BY DEF faultBefore
  <2>5. faulted <=> faultBefore(k + 1)
    BY <1>1, <2>2 DEF faulted
  <2> QED BY Zenon, <1>2, <2>2, <2>3, <2>4, <2>5
<1>4. insts[1].streamSeqNum = E => \A j \in 1 .. n : insts[j].streamSeqNum = E
  <2>1. 1 \in DOMAIN insts
    BY <1>1
  <2> QED BY <1>1, <2>1 DEF InstsInOrder
<1>5. ASSUME NEW i \in DOMAIN insts', insts'[i].streamSeqNum = E
      PROVE  /\ \A j \in i .. n - 1 : insts'[j].streamSeqNum = E
             /\ ~faultBefore(i - 1)' =>
                  /\ insts'[i].addr = insts'[i].pc
                  /\ IF i = 1 \/ insts'[i - 1].streamSeqNum # E
                       THEN insts'[i].pc = execute'.pc
                       ELSE insts'[i].pc = nextPC(insts'[i - 1])
  <2>1. /\ i \in 1 .. n - 1 /\ insts'[i] = insts[i + 1] /\ i + 1 \in DOMAIN insts
        /\ i + 1 # 1 /\ (i + 1) - 1 = i /\ i - 1 \in 0 .. n - 1 /\ (i - 1) + 1 = i
    BY <1>1
  <2>2. /\ \A j \in i + 1 .. n : insts[j].streamSeqNum = E
        /\ ~faultBefore(i) =>
             /\ insts[i + 1].addr = insts[i + 1].pc
             /\ IF insts[i].streamSeqNum # E
                  THEN insts[i + 1].pc = execute.pc
                  ELSE insts[i + 1].pc = nextPC(insts[i])
    <3>1. /\ \A j \in i + 1 .. Len(insts) : insts[j].streamSeqNum = E
          /\ ~faultBefore((i + 1) - 1) =>
               /\ insts[i + 1].addr = insts[i + 1].pc
               /\ IF i + 1 = 1 \/ insts[(i + 1) - 1].streamSeqNum # E
                    THEN insts[i + 1].pc = execute.pc
                    ELSE insts[i + 1].pc = nextPC(insts[(i + 1) - 1])
      BY <1>5, <2>1 DEF InstsInOrder
    <3> QED BY <1>1, <2>1, <3>1
  <2>3. ASSUME NEW j \in i .. n - 1 PROVE insts'[j].streamSeqNum = E
    <3>1. j \in 1 .. n - 1 /\ j + 1 \in i + 1 .. n
      BY SMTT(30), <2>1
    <3> QED BY <1>1, <2>2, <3>1
  <2>4. ASSUME ~faultBefore(i - 1)'
        PROVE  /\ insts'[i].addr = insts'[i].pc
               /\ IF i = 1 \/ insts'[i - 1].streamSeqNum # E
                    THEN insts'[i].pc = execute'.pc
                    ELSE insts'[i].pc = nextPC(insts'[i - 1])
    <3>1. PICK k \in 0 .. n - 1 : k = i - 1 /\ k + 1 = i
      BY <2>1
    <3>2. ~faultBefore(i)
      BY <1>2, <2>4, <3>1
    <3>3. CASE i = 1
      BY <2>1, <2>2, <3>2, <3>3
    <3>4. CASE i # 1
      <4>1. i - 1 \in 1 .. n - 1 /\ i \in 1 .. n
        BY <2>1, <3>4
      <4>2. insts'[i - 1] = insts[i]
        BY <1>1, <2>1, <4>1
      <4>3. insts[i].streamSeqNum # E => insts[1].streamSeqNum # E
        BY <1>4, <4>1
      <4> QED BY <2>1, <2>2, <3>2, <3>4, <4>2, <4>3
    <3> QED BY <3>3, <3>4
  <2> QED BY Zenon, <2>3, <2>4
<1>6. InstsInOrder'
  BY SMTT(30), <1>1, <1>5 DEF InstsInOrder
<1>7. lastPC' = lastPC
  <2>1. CASE n = 1
    <3>1. insts' = <<>> /\ lastPC' = execute'.pc
      <4>1. insts' \in Seq(Inst)
        BY TailFacts DEF Types
      <4> QED BY <1>1, <2>1, <4>1 DEF lastPC
    <3> QED BY <1>1, <2>1, <3>1 DEF lastPC
  <2>2. CASE n # 1
    <3>1. n - 1 \in 1 .. n - 1 /\ (n - 1) + 1 = n /\ n \in 1 .. n
      BY SMTT(30), <1>1, <2>2
    <3>2. insts'[n - 1] = insts[n]
      BY <1>1, <3>1
    <3>3. insts' # <<>>
      <4>1. Len(insts') # 0 /\ Len(<<>>) = 0
        BY <1>1, <2>2
      <4> QED BY Zenon, <4>1
    <3>4. lastPC' = IF insts[n].streamSeqNum = E THEN nextPC(insts[n]) ELSE execute'.pc
      BY <1>1, <3>2, <3>3 DEF lastPC
    <3>5. insts[n].streamSeqNum # E => insts[1].streamSeqNum # E
      BY <1>4, <3>1
    <3> QED BY <1>1, <3>4, <3>5 DEF lastPC
  <2> QED BY <2>1, <2>2
<1> QED BY <1>3, <1>6, <1>7

(***************************************************************************)
(* An instruction of Execute's stream is passed on.                        *)
(***************************************************************************)
LEMMA AppendInsts ==
    ASSUME Types, InstsInOrder, NEW x \in Inst, insts' = Append(insts, x),
           E' = E, execute'.pc = execute.pc, x.streamSeqNum = E,
           ~faulted => x.addr = x.pc /\ x.pc = lastPC
    PROVE  /\ InstsInOrder' /\ (faulted' <=> faulted \/ x.fault)
           /\ lastPC' = nextPC(x)
<1>1. PICK n \in Nat :
        /\ n = Len(insts) /\ DOMAIN insts = 1 .. n
        /\ Len(insts') = n + 1 /\ DOMAIN insts' = 1 .. n + 1
        /\ \A i \in 1 .. n : insts'[i] = insts[i]
        /\ insts'[n + 1] = x /\ insts' # <<>>
        /\ insts # <<>> <=> n # 0
  <2>1. insts \in Seq(Inst)
    BY DEF Types
  <2>2. /\ Len(insts') = Len(insts) + 1 /\ Len(insts) \in Nat
        /\ \A i \in 1 .. Len(insts) : insts'[i] = insts[i]
        /\ insts'[Len(insts) + 1] = x /\ insts' \in Seq(Inst)
    BY <2>1, AppendFacts
  <2>3. DOMAIN insts = 1 .. Len(insts) /\ DOMAIN insts' = 1 .. Len(insts')
    BY <2>1, <2>2
  <2>4. insts' # <<>> /\ (insts # <<>> <=> Len(insts) # 0)
    BY <2>1, <2>2
  <2> QED BY Zenon, <2>2, <2>3, <2>4
<1>2. ASSUME NEW k \in 0 .. n PROVE faultBefore(k)' <=> faultBefore(k)
  <2>1. faultBefore(k)' <=>
          \E i \in 1 .. k : insts'[i].streamSeqNum = E /\ insts'[i].fault
    BY DEF faultBefore
  <2>2. \A i \in 1 .. k : insts'[i] = insts[i]
    BY <1>1
  <2> QED BY Zenon, <2>1, <2>2 DEF faultBefore
<1>3. faulted' <=> faulted \/ x.fault
  <2>1. faulted' <=> \E i \in 1 .. n + 1 : insts'[i].streamSeqNum = E /\ insts'[i].fault
    BY <1>1 DEF faulted, faultBefore
  <2>2. faulted <=> \E i \in 1 .. n : insts[i].streamSeqNum = E /\ insts[i].fault
    BY <1>1 DEF faulted, faultBefore
  <2>3. \A i \in 1 .. n + 1 : i = n + 1 \/ (i \in 1 .. n /\ insts'[i] = insts[i])
    BY <1>1
  <2>4. \A i \in 1 .. n : i \in 1 .. n + 1
    OBVIOUS
  <2>5. n + 1 \in 1 .. n + 1
    OBVIOUS
  <2> QED BY <1>1, <2>1, <2>2, <2>3, <2>4, <2>5
<1>4. lastPC = IF n # 0 /\ insts[n].streamSeqNum = E THEN nextPC(insts[n]) ELSE execute.pc
  BY <1>1 DEF lastPC
<1>5. ASSUME NEW i \in DOMAIN insts', insts'[i].streamSeqNum = E
      PROVE  /\ \A j \in i .. n + 1 : insts'[j].streamSeqNum = E
             /\ ~faultBefore(i - 1)' =>
                  /\ insts'[i].addr = insts'[i].pc
                  /\ IF i = 1 \/ insts'[i - 1].streamSeqNum # E
                       THEN insts'[i].pc = execute'.pc
                       ELSE insts'[i].pc = nextPC(insts'[i - 1])
  <2>0. i \in 1 .. n + 1 /\ i - 1 \in 0 .. n
    BY <1>1
  <2>1. CASE i = n + 1
    <3>1. \A j \in i .. n + 1 : j = n + 1
      BY <2>1
    <3>2. ASSUME ~faultBefore(i - 1)'
          PROVE  ~faulted
      <4>1. PICK k \in 0 .. n : k = n /\ k = i - 1
        BY <2>1
      <4>2. ~faultBefore(k)
        BY <1>2, <3>2, <4>1
      <4> QED BY <1>1, <4>1, <4>2 DEF faulted
    <3>3. i = 1 <=> n = 0
      BY <2>1
    <3>4. n # 0 => i - 1 = n /\ insts'[i - 1] = insts[n]
      BY <1>1, <2>1
    <3> QED BY <1>1, <1>4, <2>1, <3>1, <3>2, <3>3, <3>4
  <2>2. CASE i # n + 1
    <3>1. i \in 1 .. n /\ i \in DOMAIN insts /\ insts'[i] = insts[i]
      BY <1>1, <2>0, <2>2
    <3>2. /\ \A j \in i .. n : insts[j].streamSeqNum = E
          /\ ~faultBefore(i - 1) =>
               /\ insts[i].addr = insts[i].pc
               /\ IF i = 1 \/ insts[i - 1].streamSeqNum # E
                    THEN insts[i].pc = execute.pc
                    ELSE insts[i].pc = nextPC(insts[i - 1])
      BY <1>1, <1>5, <3>1 DEF InstsInOrder
    <3>3. ASSUME NEW j \in i .. n + 1 PROVE insts'[j].streamSeqNum = E
      <4>1. j = n + 1 \/ (j \in i .. n /\ j \in 1 .. n)
        BY <3>1
      <4> QED BY <1>1, <3>2, <4>1
    <3>4. faultBefore(i - 1)' <=> faultBefore(i - 1)
      <4>1. PICK k \in 0 .. n : k = i - 1
        BY <2>0
      <4> QED BY <1>2, <4>1
    <3>5. i # 1 => insts'[i - 1] = insts[i - 1]
      BY <1>1, <3>1
    <3> QED BY Zenon, <3>1, <3>2, <3>3, <3>4, <3>5
  <2> QED BY Zenon, <2>1, <2>2
<1>6. InstsInOrder'
  BY SMTT(30), <1>1, <1>5 DEF InstsInOrder
<1>7. lastPC' = nextPC(x)
  <2>1. insts'[Len(insts')] = x
    BY <1>1
  <2> QED BY <1>1, <2>1 DEF lastPC
<1> QED BY <1>3, <1>6, <1>7
=============================================================================
