-------------------------- MODULE ScoreboardProofs --------------------------
(***************************************************************************)
(* Proofs about the scoreboards, for any number of threads, registers and  *)
(* instructions in flight, and any latencies.                              *)
(*                                                                         *)
(* The invariant is stated of the values that one thread's variables have, *)
(* and a lemma for each operation says that it keeps the invariant.        *)
(***************************************************************************)
EXTENDS Scoreboard, FiniteSetTheorems, WellFoundedInduction, TLAPS

rng(s) == {s[k] : k \in DOMAIN s}
ascending(s) == \A j, k \in DOMAIN s : j < k => s[j] < s[k]

InstRecord == [op : Op, flatSrcs : SUBSET Index, flatDestRegIdx : SUBSET Index,
               instToWaitFor : Nat, canEarlyIssue : BOOLEAN, inLSQ : BOOLEAN]
\* What insts[t] may be.
Carried == UNION {[S -> InstRecord] : S \in SUBSET Nat}

\* Instructions go from the input into flight and out of it in program order.
FlowOK(seq, input, flight, ins) ==
    /\ seq \in Nat /\ input \in Seq(Nat) /\ flight \in Seq(Nat)
    /\ ins \in Carried
    /\ ascending(input) /\ ascending(flight)
    /\ \A m \in rng(flight), n \in rng(input) : m < n
    /\ rng(input) \cup rng(flight) \subseteq DOMAIN ins
    /\ \A n \in rng(input) \cup rng(flight) : 1 <= n /\ n <= seq

writersIn(flight, ins, i) == {n \in rng(flight) : i \in ins[n].flatDestRegIdx}
ResultsOK(flight, ins, num, writing) ==
    /\ num \in [Index -> Nat] /\ writing \in [Index -> Nat]
    /\ \A i \in Index :
         /\ num[i] = Cardinality(writersIn(flight, ins, i))
         /\ \A n \in writersIn(flight, ins, i) : n <= writing[i]
         /\ writing[i] \in writersIn(flight, ins, i) \cup {0}

depends(ins, m, n) == ins[m].flatDestRegIdx \cap ins[n].flatSrcs # {}
\* What makes ReadsAfterWrites inductive: a reference that may go early waits
\* for all the older instructions it depends on.
WaitsOK(flight, ins) ==
    \A m, n \in rng(flight) :
        m < n /\ depends(ins, m, n)
            => /\ ins[n].canEarlyIssue => m <= ins[n].instToWaitFor
               /\ ~ins[n].inLSQ

ThreadOK(seq, input, flight, ins, num, writing) ==
    /\ FlowOK(seq, input, flight, ins)
    /\ ResultsOK(flight, ins, num, writing)
    /\ WaitsOK(flight, ins)

IInv ==
    /\ regMap \in [Thread -> Flattening]
    /\ execSeqNum \in [Thread -> Nat]
    /\ inputBuffer \in [Thread -> Seq(Nat)]
    /\ inFlightInsts \in [Thread -> Seq(Nat)]
    /\ insts \in [Thread -> Carried]
    /\ numResults \in [Thread -> [Index -> Nat]]
    /\ writingInst \in [Thread -> [Index -> Nat]]
    /\ \A t \in Thread :
         ThreadOK(execSeqNum[t], inputBuffer[t], inFlightInsts[t], insts[t],
                  numResults[t], writingInst[t])

----------------------------------------------------------------------------
\* Sequences of numbers.

\* What Append does to the elements of a sequence and to their order.
LEMMA AppendFacts ==
    ASSUME NEW s \in Seq(Nat), NEW x \in Nat
    PROVE  /\ Append(s, x) \in Seq(Nat)
           /\ rng(Append(s, x)) = rng(s) \cup {x}
           /\ ascending(s) /\ (\A y \in rng(s) : y < x) => ascending(Append(s, x))
<1>1. /\ Len(s) \in Nat /\ DOMAIN s = 1 .. Len(s)
      /\ DOMAIN Append(s, x) = 1 .. Len(s) + 1
      /\ \A k \in 1 .. Len(s) : Append(s, x)[k] = s[k]
      /\ Append(s, x)[Len(s) + 1] = x
  OBVIOUS
<1>2. rng(Append(s, x)) = rng(s) \cup {x}
  <2>1. \A y \in rng(Append(s, x)) : y \in rng(s) \cup {x}
    BY <1>1 DEF rng
  <2>2. \A y \in rng(s) : y \in rng(Append(s, x))
    BY <1>1 DEF rng
  <2>3. x \in rng(Append(s, x))
    <3>1. Len(s) + 1 \in DOMAIN Append(s, x)
      BY <1>1
    <3>2. QED
      BY <1>1, <3>1 DEF rng
  <2>4. QED
    BY <2>1, <2>2, <2>3
<1>3. ASSUME ascending(s), \A y \in rng(s) : y < x
      PROVE  ascending(Append(s, x))
  <2>1. \A k \in 1 .. Len(s) : s[k] \in Nat /\ s[k] < x
    BY <1>1, <1>3 DEF rng
  <2>2. SUFFICES ASSUME NEW j \in 1 .. Len(s) + 1, NEW k \in 1 .. Len(s) + 1, j < k
                 PROVE  Append(s, x)[j] < Append(s, x)[k]
    BY <1>1 DEF ascending
  <2>3. j \in 1 .. Len(s) /\ (k \in 1 .. Len(s) \/ k = Len(s) + 1)
    BY <1>1, <2>2
  <2>4. QED
    BY <1>1, <1>3, <2>1, <2>2, <2>3 DEF ascending
<1>4. QED
  BY <1>2, <1>3

\* The head of an ascending sequence is its least element, and Tail removes it.
LEMMA TailFacts ==
    ASSUME NEW s \in Seq(Nat), s # <<>>, ascending(s)
    PROVE  /\ Head(s) \in rng(s) /\ Head(s) \in Nat
           /\ \A y \in rng(s) : Head(s) <= y
           /\ Tail(s) \in Seq(Nat) /\ ascending(Tail(s))
           /\ rng(Tail(s)) = rng(s) \ {Head(s)}
<1>1. /\ Len(s) \in Nat \ {0} /\ DOMAIN s = 1 .. Len(s) /\ Head(s) = s[1]
      /\ \A k \in DOMAIN s : s[k] \in Nat
      /\ Tail(s) \in Seq(Nat) /\ DOMAIN Tail(s) = 1 .. Len(s) - 1
      /\ \A k \in 1 .. Len(s) - 1 : Tail(s)[k] = s[k + 1]
  OBVIOUS
<1>2. \A k \in 2 .. Len(s) : s[1] < s[k]
  BY <1>1 DEF ascending
<1>3. Head(s) \in rng(s) /\ Head(s) \in Nat
  <2>1. 1 \in DOMAIN s
    BY <1>1
  <2>2. QED
    BY <1>1, <2>1 DEF rng
<1>4. \A y \in rng(s) : y \in Nat /\ Head(s) <= y
  <2>1. SUFFICES ASSUME NEW k \in DOMAIN s PROVE s[k] \in Nat /\ s[1] <= s[k]
    BY <1>1 DEF rng
  <2>2. k = 1 \/ k \in 2 .. Len(s)
    BY <1>1
  <2>3. QED
    BY <1>1, <1>2, <2>2
<1>5. ascending(Tail(s))
  <2>1. SUFFICES ASSUME NEW j \in 1 .. Len(s) - 1, NEW k \in 1 .. Len(s) - 1, j < k
                 PROVE  s[j + 1] < s[k + 1]
    BY <1>1 DEF ascending
  <2>2. j + 1 \in DOMAIN s /\ k + 1 \in DOMAIN s /\ j + 1 < k + 1
    BY <1>1, <2>1
  <2>3. QED
    BY <2>2 DEF ascending
<1>6. rng(Tail(s)) = rng(s) \ {Head(s)}
  <2>1. ASSUME NEW k \in 1 .. Len(s) - 1
        PROVE  Tail(s)[k] \in rng(s) \ {Head(s)}
    <3>1. k + 1 \in DOMAIN s /\ k + 1 \in 2 .. Len(s)
      BY <1>1
    <3>2. s[k + 1] \in rng(s) /\ s[1] < s[k + 1] /\ s[1] \in Nat
      BY <1>1, <1>2, <3>1 DEF rng
    <3>3. QED
      BY <1>1, <3>1, <3>2
  <2>2. ASSUME NEW k \in DOMAIN s, s[k] # Head(s) PROVE s[k] \in rng(Tail(s))
    <3>1. k \in 2 .. Len(s)
      BY <1>1, <2>2
    <3>2. k - 1 \in DOMAIN Tail(s) /\ Tail(s)[k - 1] = s[k]
      BY <1>1, <3>1
    <3>3. QED
      BY <3>2 DEF rng
  <2>3. \A y \in rng(Tail(s)) : y \in rng(s) \ {Head(s)}
    BY <1>1, <2>1 DEF rng
  <2>4. \A y \in rng(s) \ {Head(s)} : y \in rng(Tail(s))
    <3>1. SUFFICES ASSUME NEW k \in DOMAIN s, s[k] # Head(s)
                   PROVE  s[k] \in rng(Tail(s))
      BY Zenon DEF rng
    <3>2. QED
      BY <2>2, <3>1
  <2>5. QED
    BY <2>3, <2>4
<1>7. QED
  BY <1>1, <1>3, <1>4, <1>5, <1>6

\* The largest element of a bounded set of numbers exists.
LEMMA LargestFacts ==
    ASSUME NEW N \in Nat, NEW S, S \subseteq 0 .. N, S # {}
    PROVE  largest(S) \in S /\ \A y \in S : y <= largest(S)
<1> DEFINE T == {N - y : y \in S}
<1>1. T \subseteq Nat /\ T # {}
  <2>1. \A y \in S : y \in Nat /\ N - y \in Nat
    OBVIOUS
  <2>2. \A z \in T : z \in Nat
    BY <2>1
  <2>3. PICK y \in S : TRUE
    OBVIOUS
  <2>4. N - y \in T
    OBVIOUS
  <2>5. QED
    BY <2>2, <2>4
<1>2. PICK x \in T : \A y \in T : ~(<<y, x>> \in OpToRel(<, Nat))
  <2>1. IsWellFoundedOn(OpToRel(<, Nat), Nat)
    BY NatLessThanWellFounded
  <2>2. QED
    BY <1>1, <2>1, WFMin, Zenon
<1>3. x \in Nat /\ \A y \in T : y \in Nat /\ x <= y
  <2>1. x \in Nat
    BY <1>1
  <2>2. ASSUME NEW y \in T PROVE y \in Nat /\ x <= y
    <3>1. y \in Nat
      BY <1>1
    <3>2. ~(y < x)
      BY <1>2, <2>1, <3>1 DEF OpToRel
    <3>3. QED
      BY <2>1, <3>1, <3>2
  <2>3. QED
    BY <2>1, <2>2
<1>4. PICK z \in S : x = N - z
  OBVIOUS
<1>5. \A y \in S : y <= z
  <2>1. SUFFICES ASSUME NEW y \in S PROVE y <= z
    OBVIOUS
  <2>2. N - y \in T /\ y \in Int /\ z \in Int
    <3>1. N - y \in T
      BY Zenon
    <3>2. y \in 0 .. N /\ z \in 0 .. N
      BY Zenon
    <3>3. QED
      BY <3>1, <3>2
  <2>3. N - z <= N - y
    BY <1>3, <1>4, <2>2
  <2>4. QED
    BY <2>2, <2>3
<1>6. QED
  BY <1>5 DEF largest

----------------------------------------------------------------------------
\* What the conjuncts of the invariant say of an instruction in flight.

\* Instructions in flight carry a record, and their writers are finite sets.
LEMMA FlowFacts ==
    ASSUME NEW seq, NEW input, NEW flight, NEW ins,
           FlowOK(seq, input, flight, ins)
    PROVE  /\ DOMAIN ins \subseteq Nat
           /\ \A n \in DOMAIN ins : ins[n] \in InstRecord
           /\ \A n \in rng(input) \cup rng(flight) : n \in Nat /\ n \in DOMAIN ins
           /\ \A i : writersIn(flight, ins, i) \subseteq rng(flight)
           /\ \A i : IsFiniteSet(writersIn(flight, ins, i))
<1>1. PICK D \in SUBSET Nat : ins \in [D -> InstRecord]
  BY DEF FlowOK, Carried
<1>2. DOMAIN ins \subseteq Nat /\ \A n \in DOMAIN ins : ins[n] \in InstRecord
  BY <1>1
<1>3. \A n \in rng(input) \cup rng(flight) :
         n \in Nat /\ n \in DOMAIN ins /\ n <= seq
  BY <1>2 DEF FlowOK
<1>4. \A i : writersIn(flight, ins, i) \subseteq rng(flight)
  BY DEF writersIn
<1>5. IsFiniteSet(rng(flight))
  <2>1. rng(flight) \in SUBSET Nat /\ \A n \in rng(flight) : n <= seq
    BY <1>3
  <2>2. seq \in Nat
    BY DEF FlowOK
  <2>3. QED
    BY <2>1, <2>2, FS_BoundedSetOfNaturals
<1>6. \A i : IsFiniteSet(writersIn(flight, ins, i))
  BY <1>4, <1>5, FS_Subset
<1>7. QED
  BY <1>2, <1>3, <1>4, <1>6

\* The results and the waits only look at the instructions in flight.
LEMMA OnlyInFlight ==
    ASSUME NEW flight, NEW ins, NEW ins2, NEW num, NEW writing,
           \A n \in rng(flight) : ins2[n] = ins[n],
           ResultsOK(flight, ins, num, writing), WaitsOK(flight, ins)
    PROVE  ResultsOK(flight, ins2, num, writing) /\ WaitsOK(flight, ins2)
<1>1. \A i : writersIn(flight, ins2, i) = writersIn(flight, ins, i)
  BY DEF writersIn
<1>2. ResultsOK(flight, ins2, num, writing)
  BY <1>1 DEF ResultsOK
<1>3. WaitsOK(flight, ins2)
  BY DEF WaitsOK, depends
<1>4. QED
  BY <1>2, <1>3

----------------------------------------------------------------------------
\* The operations on one thread.

\* An instruction comes from the latch (arrive).
LEMMA ArriveOK ==
    ASSUME NEW seq, NEW input, NEW flight, NEW ins, NEW num, NEW writing,
           ThreadOK(seq, input, flight, ins, num, writing), NEW op \in Op
    PROVE  ThreadOK(seq + 1, Append(input, seq + 1), flight,
                    [m \in DOMAIN ins \cup {seq + 1} |->
                        IF m = seq + 1 THEN newInst(op) ELSE ins[m]],
                    num, writing)
<1> DEFINE n == seq + 1
           ins2 == [m \in DOMAIN ins \cup {n} |->
                       IF m = n THEN newInst(op) ELSE ins[m]]
<1>1. FlowOK(seq, input, flight, ins)
  BY DEF ThreadOK
<1>2. /\ seq \in Nat /\ n \in Nat /\ input \in Seq(Nat) /\ flight \in Seq(Nat)
      /\ ascending(input) /\ ascending(flight)
      /\ \A m \in rng(flight), k \in rng(input) : m < k
      /\ \A k \in rng(input) \cup rng(flight) :
            k \in Nat /\ k \in DOMAIN ins /\ 1 <= k /\ k <= seq /\ k < n
  <2>1. \A k \in rng(input) \cup rng(flight) : k \in Nat /\ k \in DOMAIN ins
    BY <1>1, FlowFacts
  <2>2. seq \in Nat /\ \A k \in rng(input) \cup rng(flight) : 1 <= k /\ k <= seq
    BY <1>1 DEF FlowOK
  <2>3. QED
    BY <1>1, <2>1, <2>2 DEF FlowOK
<1>3. /\ Append(input, n) \in Seq(Nat) /\ ascending(Append(input, n))
      /\ rng(Append(input, n)) = rng(input) \cup {n}
  BY <1>2, AppendFacts
<1>4. ins2 \in Carried
  <2>1. DOMAIN ins \subseteq Nat /\ \A m \in DOMAIN ins : ins[m] \in InstRecord
    BY <1>1, FlowFacts
  <2>2. newInst(op) \in InstRecord
    BY DEF newInst, InstRecord
  <2>3. ins2 \in [DOMAIN ins \cup {n} -> InstRecord]
    BY <2>1, <2>2
  <2>4. DOMAIN ins \cup {n} \in SUBSET Nat
    BY <1>2, <2>1
  <2>5. QED
    BY <2>3, <2>4 DEF Carried
<1>5. FlowOK(n, Append(input, n), flight, ins2)
  <2>1. \A m \in rng(flight), k \in rng(Append(input, n)) : m < k
    BY <1>2, <1>3
  <2>2. rng(Append(input, n)) \cup rng(flight) \subseteq DOMAIN ins2
    BY <1>2, <1>3
  <2>3. \A k \in rng(Append(input, n)) \cup rng(flight) : 1 <= k /\ k <= n
    BY <1>2, <1>3
  <2>4. QED
    BY <1>2, <1>3, <1>4, <2>1, <2>2, <2>3 DEF FlowOK
<1>6. \A m \in rng(flight) : ins2[m] = ins[m]
  BY <1>2
<1>7. ResultsOK(flight, ins2, num, writing) /\ WaitsOK(flight, ins2)
  BY <1>6, OnlyInFlight DEF ThreadOK
<1>8. QED
  BY <1>5, <1>7 DEF ThreadOK

\* The first inputs are popped without being issued (discardInputs).
LEMMA DiscardOK ==
    ASSUME NEW seq, NEW input, NEW flight, NEW ins, NEW num, NEW writing,
           ThreadOK(seq, input, flight, ins, num, writing),
           NEW k \in 1 .. Len(input)
    PROVE  ThreadOK(seq, SubSeq(input, k + 1, Len(input)), flight, ins,
                    num, writing)
<1> DEFINE rest == SubSeq(input, k + 1, Len(input))
<1>1. /\ input \in Seq(Nat) /\ ascending(input)
      /\ Len(input) \in Nat /\ DOMAIN input = 1 .. Len(input)
      /\ \A j \in DOMAIN input : input[j] \in Nat
  BY DEF ThreadOK, FlowOK
<1>2. /\ rest \in Seq(Nat)
      /\ DOMAIN rest = 1 .. Len(input) - k
      /\ \A j \in 1 .. Len(input) - k :
            j + k \in DOMAIN input /\ rest[j] = input[j + k]
  <2>1. k + 1 \in 1 .. Len(input) + 1 /\ \A j \in k + 1 .. Len(input) : input[j] \in Nat
    BY <1>1
  <2>2. rest = [j \in 1 .. Len(input) - (k + 1) + 1 |-> input[j + (k + 1) - 1]]
    BY <1>1, <2>1
  <2>3. \A j \in 1 .. Len(input) - k :
           /\ j + k \in DOMAIN input /\ j + (k + 1) - 1 = j + k
           /\ input[j + k] \in Nat
    BY <1>1
  <2>4. Len(input) - (k + 1) + 1 = Len(input) - k /\ Len(input) - k \in Nat
    BY <1>1
  <2>5. rest = [j \in 1 .. Len(input) - k |-> input[j + k]]
    BY <2>2, <2>3, <2>4
  <2>6. rest \in Seq(Nat)
    BY <1>1, <2>1
  <2>7. DOMAIN rest = 1 .. Len(input) - k
    BY <2>5, Zenon
  <2>8. \A j \in 1 .. Len(input) - k : rest[j] = input[j + k]
    BY <2>5, Zenon
  <2>9. QED
    BY <2>3, <2>6, <2>7, <2>8, Zenon
<1> HIDE DEF rest
<1>3. ascending(rest)
  <2>1. SUFFICES ASSUME NEW j \in DOMAIN rest, NEW l \in DOMAIN rest, j < l
                 PROVE  rest[j] < rest[l]
    BY DEF ascending
  <2>2. j \in 1 .. Len(input) - k /\ l \in 1 .. Len(input) - k
    BY <1>2, Zenon
  <2>3. /\ j + k \in DOMAIN input /\ l + k \in DOMAIN input
        /\ rest[j] = input[j + k] /\ rest[l] = input[l + k]
    BY <1>2, <2>2, Zenon
  <2>4. j + k < l + k
    BY <1>1, <2>1, <2>2
  <2>5. QED
    BY <2>3, <2>4, <1>1 DEF ascending
<1>4. rng(rest) \subseteq rng(input)
  <2>1. SUFFICES ASSUME NEW j \in DOMAIN rest PROVE rest[j] \in rng(input)
    BY DEF rng
  <2>2. j + k \in DOMAIN input /\ rest[j] = input[j + k]
    BY <1>1, <1>2
  <2>3. QED
    BY <2>2 DEF rng
<1>5. FlowOK(seq, rest, flight, ins)
  BY <1>2, <1>3, <1>4 DEF ThreadOK, FlowOK
<1>6. ThreadOK(seq, rest, flight, ins, num, writing)
  BY <1>5 DEF ThreadOK
<1>7. QED
  BY <1>6 DEF rest

\* A cycle ends and the instructions that have left are forgotten (passTime).
LEMMA ForgetOK ==
    ASSUME NEW seq, NEW input, NEW flight, NEW ins, NEW num, NEW writing,
           ThreadOK(seq, input, flight, ins, num, writing)
    PROVE  ThreadOK(seq, input, flight,
                    [n \in rng(input) \cup rng(flight) |-> ins[n]],
                    num, writing)
<1> DEFINE kept == rng(input) \cup rng(flight)
           ins2 == [n \in kept |-> ins[n]]
<1>1. /\ \A n \in DOMAIN ins : ins[n] \in InstRecord
      /\ \A n \in kept : n \in Nat /\ n \in DOMAIN ins
  BY FlowFacts DEF ThreadOK
<1>2. ins2 \in Carried
  <2>1. ins2 \in [kept -> InstRecord]
    BY <1>1
  <2>2. kept \in SUBSET Nat
    BY <1>1
  <2>3. QED
    BY <2>1, <2>2 DEF Carried
<1>3. FlowOK(seq, input, flight, ins2)
  BY <1>2 DEF ThreadOK, FlowOK
<1>4. ResultsOK(flight, ins2, num, writing) /\ WaitsOK(flight, ins2)
  <2>1. \A n \in rng(flight) : ins2[n] = ins[n]
    OBVIOUS
  <2>2. QED
    BY <2>1, OnlyInFlight DEF ThreadOK
<1>5. QED
  BY <1>3, <1>4 DEF ThreadOK

\* The next input goes into flight and marks its results (issueInst).
LEMMA IssueOK ==
    ASSUME NEW seq, NEW input, NEW flight, NEW ins, NEW num, NEW writing,
           ThreadOK(seq, input, flight, ins, num, writing), input # <<>>,
           NEW rec \in InstRecord, ~rec.inLSQ,
           rec.canEarlyIssue =>
               \A i \in rec.flatSrcs : writing[i] <= rec.instToWaitFor
    PROVE  LET n == Head(input)
               dests == rec.flatDestRegIdx
           IN  ThreadOK(seq, Tail(input), Append(flight, n),
                   [ins EXCEPT ![n] = rec],
                   [i \in Index |-> IF i \in dests THEN num[i] + 1 ELSE num[i]],
                   [i \in Index |-> IF i \in dests /\ n > writing[i]
                                    THEN n ELSE writing[i]])
<1> DEFINE n == Head(input)
           dests == rec.flatDestRegIdx
           flight2 == Append(flight, n)
           ins2 == [ins EXCEPT ![n] = rec]
           num2 == [i \in Index |-> IF i \in dests THEN num[i] + 1 ELSE num[i]]
           writing2 == [i \in Index |-> IF i \in dests /\ n > writing[i]
                                        THEN n ELSE writing[i]]
<1>1. FlowOK(seq, input, flight, ins) /\ ResultsOK(flight, ins, num, writing)
      /\ WaitsOK(flight, ins)
  BY DEF ThreadOK
<1>2. /\ seq \in Nat /\ input \in Seq(Nat) /\ flight \in Seq(Nat)
      /\ ascending(input) /\ ascending(flight)
      /\ \A m \in rng(flight), k \in rng(input) : m < k
      /\ \A k \in rng(input) \cup rng(flight) : 1 <= k /\ k <= seq
  BY <1>1 DEF FlowOK
<1>3. /\ DOMAIN ins \subseteq Nat
      /\ \A m \in DOMAIN ins : ins[m] \in InstRecord
      /\ \A m \in rng(input) \cup rng(flight) : m \in Nat /\ m \in DOMAIN ins
      /\ \A i : IsFiniteSet(writersIn(flight, ins, i))
      /\ \A i : writersIn(flight, ins, i) \subseteq rng(flight)
  BY <1>1, FlowFacts
<1>4. /\ n \in rng(input) /\ n \in Nat /\ \A y \in rng(input) : n <= y
      /\ Tail(input) \in Seq(Nat) /\ ascending(Tail(input))
      /\ rng(Tail(input)) = rng(input) \ {n}
  BY <1>2, TailFacts
<1>5. \A m \in rng(flight) : m \in Nat /\ m < n /\ m # n
  BY <1>2, <1>3, <1>4
<1>6. /\ flight2 \in Seq(Nat) /\ rng(flight2) = rng(flight) \cup {n}
      /\ ascending(flight2)
  BY <1>2, <1>4, <1>5, AppendFacts
<1>7. /\ DOMAIN ins2 = DOMAIN ins /\ ins2[n] = rec
      /\ \A m \in rng(flight) : ins2[m] = ins[m]
  BY <1>3, <1>4, <1>5
<1>8. FlowOK(seq, Tail(input), flight2, ins2)
  <2>1. ins2 \in Carried
    <3>1. ins2 \in [DOMAIN ins -> InstRecord]
      BY <1>1, <1>3 DEF FlowOK, Carried
    <3>2. QED
      BY <1>3, <3>1 DEF Carried
  <2>2. ASSUME NEW m \in rng(flight2), NEW k \in rng(Tail(input)) PROVE m < k
    <3>1. k \in rng(input) /\ k # n
      BY <1>4, Zenon
    <3>2. n <= k /\ n \in Nat /\ k \in Nat
      BY <1>3, <1>4, <3>1
    <3>3. CASE m = n
      BY <3>1, <3>2, <3>3
    <3>4. CASE m \in rng(flight)
      BY <1>2, <3>1, <3>4, Zenon
    <3>5. QED
      BY <1>6, <3>3, <3>4, Zenon
  <2>3. /\ rng(Tail(input)) \cup rng(flight2) \subseteq DOMAIN ins2
        /\ \A k \in rng(Tail(input)) \cup rng(flight2) : 1 <= k /\ k <= seq
    BY <1>2, <1>3, <1>4, <1>6, <1>7
  <2>4. QED
    BY <1>2, <1>4, <1>6, <2>1, <2>2, <2>3 DEF FlowOK
<1>9. ResultsOK(flight2, ins2, num2, writing2)
  <2>1. num \in [Index -> Nat] /\ writing \in [Index -> Nat]
    BY <1>1 DEF ResultsOK
  <2>2. num2 \in [Index -> Nat] /\ writing2 \in [Index -> Nat]
    BY <1>4, <2>1
  <2>3. SUFFICES ASSUME NEW i \in Index
                 PROVE  /\ num2[i] = Cardinality(writersIn(flight2, ins2, i))
                        /\ \A m \in writersIn(flight2, ins2, i) : m <= writing2[i]
                        /\ writing2[i] \in writersIn(flight2, ins2, i) \cup {0}
    BY <2>2 DEF ResultsOK
  <2> DEFINE W == writersIn(flight, ins, i)
  <2>4. /\ num[i] = Cardinality(W) /\ (\A m \in W : m <= writing[i])
        /\ writing[i] \in W \cup {0} /\ writing[i] \in Nat
        /\ IsFiniteSet(W) /\ n \notin W /\ \A m \in W : m \in Nat /\ m < n
    BY <1>1, <1>3, <1>5, <2>1 DEF ResultsOK
  <2>5. writersIn(flight2, ins2, i) = IF i \in dests THEN W \cup {n} ELSE W
    BY <1>6, <1>7 DEF writersIn
  <2>6. CASE i \in dests
    <3>1. Cardinality(W \cup {n}) = Cardinality(W) + 1
      BY <2>4, FS_AddElement
    <3>2. num2[i] = num[i] + 1 /\ writing2[i] = n
      <4>1. n > writing[i]
        BY <1>2, <1>3, <1>4, <2>4
      <4>2. QED
        BY <2>6, <4>1
    <3>3. writersIn(flight2, ins2, i) = W \cup {n}
      BY <2>5, <2>6
    <3>4. \A m \in W \cup {n} : m <= n
      BY <1>4, <2>4
    <3>5. num2[i] = Cardinality(W \cup {n})
      BY <2>4, <3>1, <3>2
    <3> HIDE DEF num2, writing2, W, n, flight2, ins2
    <3>6. QED
      BY <3>2, <3>3, <3>4, <3>5
  <2>7. CASE i \notin dests
    BY <2>4, <2>5, <2>7
  <2>8. QED
    BY <2>6, <2>7
<1>10. WaitsOK(flight2, ins2)
  <2>1. SUFFICES ASSUME NEW m \in rng(flight2), NEW l \in rng(flight2),
                        m < l, depends(ins2, m, l)
                 PROVE  /\ ins2[l].canEarlyIssue => m <= ins2[l].instToWaitFor
                        /\ ~ins2[l].inLSQ
    BY DEF WaitsOK
  <2>2. m \in rng(flight) /\ m # n
    BY <1>4, <1>5, <1>6, <2>1
  <2>3. CASE l # n
    <3>1. l \in rng(flight) /\ depends(ins, m, l) /\ ins2[l] = ins[l]
      BY <1>6, <1>7, <2>1, <2>2, <2>3 DEF depends
    <3>2. QED
      BY <1>1, <2>1, <2>2, <3>1 DEF WaitsOK
  <2>4. CASE l = n
    <3>1. PICK i \in rec.flatSrcs : i \in ins[m].flatDestRegIdx
      BY <1>7, <2>1, <2>2, <2>4 DEF depends
    <3>2. i \in Index /\ m \in writersIn(flight, ins, i)
      BY <2>2, <3>1 DEF writersIn, InstRecord
    <3>3. m <= writing[i] /\ writing[i] \in Nat /\ m \in Nat
      BY <1>1, <1>5, <2>2, <3>2 DEF ResultsOK
    <3>4. rec.canEarlyIssue => m <= rec.instToWaitFor
      BY <3>1, <3>3 DEF InstRecord
    <3>5. QED
      BY <1>7, <2>4, <3>4
  <2>5. QED
    BY <2>3, <2>4
<1>11. QED
  BY <1>8, <1>9, <1>10 DEF ThreadOK

\* A reference in flight goes to the LSQ or faults there (accessMemory,
\* faultEarly): it is the head, or what it waits for has completed.
LEMMA AccessOK ==
    ASSUME NEW seq, NEW input, NEW flight, NEW ins, NEW num, NEW writing,
           ThreadOK(seq, input, flight, ins, num, writing),
           NEW n \in rng(flight),
           n = Head(flight) \/ (ins[n].canEarlyIssue
                                /\ Head(flight) > ins[n].instToWaitFor)
    PROVE  /\ ThreadOK(seq, input, flight, [ins EXCEPT ![n].inLSQ = TRUE],
                       num, writing)
           /\ ThreadOK(seq, input, flight, [ins EXCEPT ![n].canEarlyIssue = FALSE],
                       num, writing)
<1>1. FlowOK(seq, input, flight, ins) /\ ResultsOK(flight, ins, num, writing)
      /\ WaitsOK(flight, ins)
  BY DEF ThreadOK
<1>2. /\ DOMAIN ins \subseteq Nat /\ \A m \in DOMAIN ins : ins[m] \in InstRecord
      /\ \A m \in rng(flight) : m \in Nat /\ m \in DOMAIN ins
  BY <1>1, FlowFacts
<1>3. \A m \in rng(flight) : m < n => ~depends(ins, m, n)
  <2>1. SUFFICES ASSUME NEW m \in rng(flight), m < n, depends(ins, m, n)
                 PROVE  FALSE
    OBVIOUS
  <2>2. /\ m \in Nat /\ n \in Nat /\ Head(flight) \in Nat /\ Head(flight) <= m
        /\ ins[n].instToWaitFor \in Nat
    <3>1. flight \in Seq(Nat) /\ flight # <<>> /\ ascending(flight)
      BY <1>1 DEF FlowOK, rng
    <3>2. QED
      BY <1>2, <3>1, TailFacts DEF InstRecord
  <2>3. ins[n].canEarlyIssue => m <= ins[n].instToWaitFor
    BY <1>1, <2>1 DEF WaitsOK
  <2>4. QED
    BY <2>1, <2>2, <2>3
<1>4. ASSUME NEW rec \in InstRecord,
             rec.flatSrcs = ins[n].flatSrcs,
             rec.flatDestRegIdx = ins[n].flatDestRegIdx
      PROVE  ThreadOK(seq, input, flight, [ins EXCEPT ![n] = rec], num, writing)
  <2> DEFINE ins2 == [ins EXCEPT ![n] = rec]
  <2>1. ins2 \in Carried /\ DOMAIN ins2 = DOMAIN ins
    <3>1. ins2 \in [DOMAIN ins -> InstRecord]
      BY <1>1, <1>2 DEF FlowOK, Carried
    <3>2. QED
      BY <1>2, <3>1 DEF Carried
  <2>2. FlowOK(seq, input, flight, ins2)
    BY <1>1, <2>1 DEF FlowOK
  <2>3. /\ \A m \in rng(flight) : ins2[m].flatDestRegIdx = ins[m].flatDestRegIdx
                                  /\ ins2[m].flatSrcs = ins[m].flatSrcs
        /\ \A m \in rng(flight) : m # n => ins2[m] = ins[m]
    BY <1>2, <1>4
  <2>4. ResultsOK(flight, ins2, num, writing)
    <3>1. \A i : writersIn(flight, ins2, i) = writersIn(flight, ins, i)
      BY <2>3 DEF writersIn
    <3>2. QED
      BY <1>1, <3>1 DEF ResultsOK
  <2>5. WaitsOK(flight, ins2)
    <3>1. \A m, l \in rng(flight) : depends(ins2, m, l) <=> depends(ins, m, l)
      BY <2>3 DEF depends
    <3>2. \A m, l \in rng(flight) : m < l /\ depends(ins, m, l) => l # n
      BY <1>3
    <3>3. QED
      BY <1>1, <2>3, <3>1, <3>2 DEF WaitsOK
  <2>6. QED
    BY <2>2, <2>4, <2>5 DEF ThreadOK
<1>5. /\ [ins[n] EXCEPT !.inLSQ = TRUE] \in InstRecord
      /\ [ins[n] EXCEPT !.inLSQ = TRUE].flatSrcs = ins[n].flatSrcs
      /\ [ins[n] EXCEPT !.inLSQ = TRUE].flatDestRegIdx = ins[n].flatDestRegIdx
      /\ [ins[n] EXCEPT !.canEarlyIssue = FALSE] \in InstRecord
      /\ [ins[n] EXCEPT !.canEarlyIssue = FALSE].flatSrcs = ins[n].flatSrcs
      /\ [ins[n] EXCEPT !.canEarlyIssue = FALSE].flatDestRegIdx
            = ins[n].flatDestRegIdx
  BY <1>2 DEF InstRecord
<1>6. /\ [ins EXCEPT ![n].inLSQ = TRUE]
            = [ins EXCEPT ![n] = [ins[n] EXCEPT !.inLSQ = TRUE]]
      /\ [ins EXCEPT ![n].canEarlyIssue = FALSE]
            = [ins EXCEPT ![n] = [ins[n] EXCEPT !.canEarlyIssue = FALSE]]
  OBVIOUS
<1>7. QED
  BY <1>4, <1>5, <1>6

\* The head completes and clears its results (completeInst): an entry is reset
\* only with its last writer, because the count is exact.
LEMMA CompleteOK ==
    ASSUME NEW seq, NEW input, NEW flight, NEW ins, NEW num, NEW writing,
           ThreadOK(seq, input, flight, ins, num, writing), flight # <<>>
    PROVE  LET dests == ins[Head(flight)].flatDestRegIdx
               cleared == {i \in dests : num[i] = 1}
           IN  ThreadOK(seq, input, Tail(flight), ins,
                   [i \in Index |-> IF i \in dests THEN num[i] - 1 ELSE num[i]],
                   [i \in Index |-> IF i \in cleared THEN 0 ELSE writing[i]])
<1> DEFINE n == Head(flight)
           dests == ins[n].flatDestRegIdx
           cleared == {i \in dests : num[i] = 1}
           flight2 == Tail(flight)
           num2 == [i \in Index |-> IF i \in dests THEN num[i] - 1 ELSE num[i]]
           writing2 == [i \in Index |-> IF i \in cleared THEN 0 ELSE writing[i]]
<1>1. FlowOK(seq, input, flight, ins) /\ ResultsOK(flight, ins, num, writing)
      /\ WaitsOK(flight, ins)
  BY DEF ThreadOK
<1>2. /\ \A m \in rng(flight) : m \in Nat /\ m \in DOMAIN ins
      /\ \A i : IsFiniteSet(writersIn(flight, ins, i))
      /\ \A i : writersIn(flight, ins, i) \subseteq rng(flight)
  BY <1>1, FlowFacts
<1>3. /\ n \in rng(flight) /\ n \in Nat /\ \A y \in rng(flight) : n <= y
      /\ flight2 \in Seq(Nat) /\ ascending(flight2)
      /\ rng(flight2) = rng(flight) \ {n}
  BY <1>1, TailFacts DEF FlowOK
<1>4. FlowOK(seq, input, flight2, ins)
  BY <1>1, <1>3 DEF FlowOK
<1>5. WaitsOK(flight2, ins)
  BY <1>1, <1>3 DEF WaitsOK
<1>6. ResultsOK(flight2, ins, num2, writing2)
  <2>1. num \in [Index -> Nat] /\ writing \in [Index -> Nat]
    BY <1>1 DEF ResultsOK
  <2>2. ASSUME NEW i \in Index
        PROVE  /\ num2[i] = Cardinality(writersIn(flight2, ins, i))
               /\ num2[i] \in Nat
               /\ \A m \in writersIn(flight2, ins, i) : m <= writing2[i]
               /\ writing2[i] \in writersIn(flight2, ins, i) \cup {0}
    <3> DEFINE W == writersIn(flight, ins, i)
    <3>1. /\ num[i] = Cardinality(W) /\ (\A m \in W : m <= writing[i])
          /\ writing[i] \in W \cup {0} /\ writing[i] \in Nat /\ num[i] \in Nat
          /\ IsFiniteSet(W) /\ \A m \in W : m \in Nat /\ n <= m
      BY <1>1, <1>2, <1>3, <2>1 DEF ResultsOK
    <3>2. writersIn(flight2, ins, i) = W \ {n}
      BY <1>3 DEF writersIn
    <3>3. n \in W <=> i \in dests
      BY <1>3 DEF writersIn
    <3>4. CASE i \notin dests
      <4>1. W \ {n} = W /\ num2[i] = num[i] /\ writing2[i] = writing[i]
        BY <3>3, <3>4
      <4>2. QED
        BY <3>1, <3>2, <4>1
    <3>5. CASE i \in dests
      <4>1. IsFiniteSet(W \ {n}) /\ Cardinality(W \ {n}) = num[i] - 1
        BY <3>1, <3>3, <3>5, FS_RemoveElement
      <4>2. num2[i] = Cardinality(W \ {n}) /\ num2[i] \in Nat
        BY <3>1, <3>5, <4>1, FS_CardinalityType
      <4>3. CASE num[i] = 1
        <5>1. W \ {n} = {} /\ writing2[i] = 0
          BY <3>5, <4>1, <4>3, FS_EmptySet
        <5>2. QED
          BY <3>2, <4>2, <5>1
      <4>4. CASE num[i] # 1
        <5>1. PICK m \in W \ {n} : TRUE
          <6>1. W \ {n} # {}
            BY <3>1, <4>1, <4>4, FS_EmptySet
          <6>2. QED
            BY <6>1
        <5>2. writing2[i] = writing[i]
          BY <4>4
        <5>3. writing[i] \in W \ {n}
          BY <1>3, <3>1, <5>1
        <5>4. QED
          BY <3>1, <3>2, <4>2, <5>2, <5>3
      <4>5. QED
        BY <4>3, <4>4
    <3>6. QED
      BY <3>4, <3>5
  <2>3. num2 \in [Index -> Nat] /\ writing2 \in [Index -> Nat]
    BY <2>1, <2>2
  <2>4. QED
    BY <2>2, <2>3 DEF ResultsOK
<1>7. QED
  BY <1>4, <1>5, <1>6 DEF ThreadOK

----------------------------------------------------------------------------
\* The induction.

\* A step of one thread leaves what the invariant says of the others alone.
LEMMA OneThread ==
    ASSUME IInv, NEW t \in Thread, regMap' \in [Thread -> Flattening],
           NEW seq, NEW input, NEW flight, NEW ins, NEW num, NEW writing,
           ThreadOK(seq, input, flight, ins, num, writing),
           execSeqNum' = [execSeqNum EXCEPT ![t] = seq],
           inputBuffer' = [inputBuffer EXCEPT ![t] = input],
           inFlightInsts' = [inFlightInsts EXCEPT ![t] = flight],
           insts' = [insts EXCEPT ![t] = ins],
           numResults' = [numResults EXCEPT ![t] = num],
           writingInst' = [writingInst EXCEPT ![t] = writing]
    PROVE  IInv'
<1>1. /\ seq \in Nat /\ input \in Seq(Nat) /\ flight \in Seq(Nat)
      /\ ins \in Carried /\ num \in [Index -> Nat] /\ writing \in [Index -> Nat]
  BY DEF ThreadOK, FlowOK, ResultsOK
<1>2. /\ execSeqNum' \in [Thread -> Nat]
      /\ inputBuffer' \in [Thread -> Seq(Nat)]
      /\ inFlightInsts' \in [Thread -> Seq(Nat)]
      /\ insts' \in [Thread -> Carried]
      /\ numResults' \in [Thread -> [Index -> Nat]]
      /\ writingInst' \in [Thread -> [Index -> Nat]]
  BY <1>1 DEF IInv
<1>3. ASSUME NEW u \in Thread
      PROVE  ThreadOK(execSeqNum'[u], inputBuffer'[u], inFlightInsts'[u],
                      insts'[u], numResults'[u], writingInst'[u])
  <2>1. CASE u = t
    <3>1. /\ execSeqNum'[u] = seq /\ inputBuffer'[u] = input
          /\ inFlightInsts'[u] = flight /\ insts'[u] = ins
          /\ numResults'[u] = num /\ writingInst'[u] = writing
      BY <2>1 DEF IInv
    <3>2. QED
      BY <3>1
  <2>2. CASE u # t
    <3>1. /\ execSeqNum'[u] = execSeqNum[u] /\ inputBuffer'[u] = inputBuffer[u]
          /\ inFlightInsts'[u] = inFlightInsts[u] /\ insts'[u] = insts[u]
          /\ numResults'[u] = numResults[u] /\ writingInst'[u] = writingInst[u]
      BY <2>2 DEF IInv
    <3>2. ThreadOK(execSeqNum[u], inputBuffer[u], inFlightInsts[u], insts[u],
                   numResults[u], writingInst[u])
      BY DEF IInv
    <3>3. QED
      BY <3>1, <3>2
  <2>3. QED
    BY <2>1, <2>2
<1>4. QED
  BY <1>2, <1>3 DEF IInv

\* An entry a source is flattened to belongs to the scoreboard.
LEMMA FlattenFacts ==
    ASSUME IInv, NEW t \in Thread, NEW regs, regs \subseteq RegId
    PROVE  flatten(t, regs) \subseteq Index
<1>1. regMap[t] \in [RegId -> Index \cup {untracked}]
  BY ScoreboardAssumption DEF IInv
<1>2. QED
  BY <1>1 DEF flatten

\* What a reference is told to wait for is no older than any writer of its
\* sources (execSeqNumToWaitFor).
LEMMA WaitFacts ==
    ASSUME IInv, NEW t \in Thread, NEW op \in Op, NEW barrier \in Nat
    PROVE  LET wait == largest({execSeqNumToWaitFor(t, op), barrier})
           IN  /\ wait \in Nat
               /\ \A i \in flatten(t, srcRegs(op)) : writingInst[t][i] <= wait
<1> DEFINE S == {0} \cup {writingInst[t][i] : i \in flatten(t, srcRegs(op))}
           w == execSeqNumToWaitFor(t, op)
<1>1. /\ execSeqNum[t] \in Nat
      /\ \A i \in Index : writingInst[t][i] \in 0 .. execSeqNum[t]
  <2>1. ThreadOK(execSeqNum[t], inputBuffer[t], inFlightInsts[t], insts[t],
                 numResults[t], writingInst[t])
    BY DEF IInv
  <2>2. ASSUME NEW i \in Index PROVE writingInst[t][i] \in 0 .. execSeqNum[t]
    <3>1. /\ writingInst[t][i] \in Nat
          /\ writingInst[t][i]
                \in writersIn(inFlightInsts[t], insts[t], i) \cup {0}
      BY <2>1 DEF ThreadOK, ResultsOK
    <3>2. \A n \in rng(inFlightInsts[t]) : n <= execSeqNum[t]
      BY <2>1 DEF ThreadOK, FlowOK
    <3>3. execSeqNum[t] \in Nat
      BY <2>1 DEF ThreadOK, FlowOK
    <3>4. QED
      BY <3>1, <3>2, <3>3 DEF writersIn
  <2>3. QED
    BY <2>1, <2>2 DEF ThreadOK, FlowOK
<1>2. S \subseteq 0 .. execSeqNum[t] /\ S # {}
  <2>1. flatten(t, srcRegs(op)) \subseteq Index
    <3>1. srcRegs(op) \subseteq RegId
      BY ScoreboardAssumption DEF srcRegs
    <3>2. QED
      BY <3>1, FlattenFacts
  <2>2. QED
    BY <1>1, <2>1
<1>3. w \in S /\ \A y \in S : y <= w
  BY <1>1, <1>2, LargestFacts DEF execSeqNumToWaitFor
<1>4. w \in Nat
  BY <1>1, <1>2, <1>3
<1>5. /\ largest({w, barrier}) \in {w, barrier}
      /\ \A y \in {w, barrier} : y <= largest({w, barrier})
  <2>1. w + barrier \in Nat /\ {w, barrier} \subseteq 0 .. w + barrier
    BY <1>4
  <2>2. QED
    BY <2>1, LargestFacts
<1>6. QED
  BY <1>1, <1>2, <1>3, <1>4, <1>5

\* The scoreboards start empty.
LEMMA InitOK == ScoreboardInit => IInv
<1> SUFFICES ASSUME ScoreboardInit PROVE IInv
  OBVIOUS
<1> DEFINE zero == [i \in Index |-> 0]
<1>1. <<>> \in Seq(Nat) /\ rng(<<>>) = {} /\ ascending(<<>>)
  BY DEF rng, ascending
<1>2. <<>> \in Carried
  <2>1. DOMAIN <<>> = {} /\ <<>> = [n \in {} |-> <<>>]
    OBVIOUS
  <2>2. <<>> \in [{} -> InstRecord]
    BY <2>1
  <2>3. QED
    BY <2>2 DEF Carried
<1>3. FlowOK(0, <<>>, <<>>, <<>>)
  BY <1>1, <1>2 DEF FlowOK
<1>4. ResultsOK(<<>>, <<>>, zero, zero)
  <2>1. \A i : writersIn(<<>>, <<>>, i) = {}
    BY <1>1 DEF writersIn
  <2>2. Cardinality({}) = 0
    BY FS_EmptySet
  <2>3. zero \in [Index -> Nat] /\ \A i \in Index : zero[i] = 0
    OBVIOUS
  <2>4. QED
    BY <2>1, <2>2, <2>3 DEF ResultsOK
<1>5. WaitsOK(<<>>, <<>>)
  BY <1>1 DEF WaitsOK
<1>6. ThreadOK(0, <<>>, <<>>, <<>>, zero, zero)
  BY <1>3, <1>4, <1>5 DEF ThreadOK
<1>7. regMap \in [Thread -> Flattening]
  BY ScoreboardAssumption DEF ScoreboardInit
<1>8. QED
  BY <1>1, <1>2, <1>6, <1>7 DEF ScoreboardInit, IInv

\* One step per operation of ScoreboardNext.
LEMMA NextOK == IInv /\ [ScoreboardNext]_scoreboardVars => IInv'
<1> SUFFICES ASSUME IInv, [ScoreboardNext]_scoreboardVars PROVE IInv'
  OBVIOUS
<1>1. CASE UNCHANGED scoreboardVars
  BY <1>1 DEF IInv, scoreboardVars, flowVars, resultVars
<1>2. CASE passTime
  <2>1. /\ regMap' = regMap /\ execSeqNum' = execSeqNum
        /\ inputBuffer' = inputBuffer /\ inFlightInsts' = inFlightInsts
        /\ numResults' = numResults /\ writingInst' = writingInst
        /\ insts' = [t \in Thread |->
              [n \in rng(inputBuffer[t]) \cup rng(inFlightInsts[t]) |-> insts[t][n]]]
    BY <1>2 DEF passTime, flowVars, waiting, inFlight, rng
  <2>2. ASSUME NEW t \in Thread
        PROVE  /\ insts'[t] \in Carried
               /\ ThreadOK(execSeqNum[t], inputBuffer[t], inFlightInsts[t],
                           insts'[t], numResults[t], writingInst[t])
    <3>1. ThreadOK(execSeqNum[t], inputBuffer[t], inFlightInsts[t], insts[t],
                   numResults[t], writingInst[t])
      BY DEF IInv
    <3>2. ThreadOK(execSeqNum[t], inputBuffer[t], inFlightInsts[t],
                   [n \in rng(inputBuffer[t]) \cup rng(inFlightInsts[t]) |->
                       insts[t][n]],
                   numResults[t], writingInst[t])
      BY <3>1, ForgetOK
    <3>3. insts'[t] = [n \in rng(inputBuffer[t]) \cup rng(inFlightInsts[t]) |->
                          insts[t][n]]
      BY <2>1
    <3>4. ThreadOK(execSeqNum[t], inputBuffer[t], inFlightInsts[t], insts'[t],
                   numResults[t], writingInst[t])
      BY <3>2, <3>3
    <3>5. QED
      BY <3>4 DEF ThreadOK, FlowOK
  <2>3. insts' \in [Thread -> Carried]
    BY <2>1, <2>2
  <2>4. QED
    BY <2>1, <2>2, <2>3 DEF IInv
<1>3. ASSUME NEW t \in Thread, ThreadNext(t) PROVE IInv'
  <2> DEFINE seq == execSeqNum[t]
             input == inputBuffer[t]
             flight == inFlightInsts[t]
             ins == insts[t]
             num == numResults[t]
             writing == writingInst[t]
  <2>1. ThreadOK(seq, input, flight, ins, num, writing)
    BY DEF IInv
  <2>2. /\ execSeqNum = [execSeqNum EXCEPT ![t] = seq]
        /\ inputBuffer = [inputBuffer EXCEPT ![t] = input]
        /\ inFlightInsts = [inFlightInsts EXCEPT ![t] = flight]
        /\ insts = [insts EXCEPT ![t] = ins]
        /\ numResults = [numResults EXCEPT ![t] = num]
        /\ writingInst = [writingInst EXCEPT ![t] = writing]
        /\ regMap \in [Thread -> Flattening]
    BY DEF IInv
  <2>3. /\ seq \in Nat /\ input \in Seq(Nat) /\ flight \in Seq(Nat)
        /\ ascending(input) /\ ascending(flight)
        /\ \A n \in rng(input) \cup rng(flight) :
              n \in Nat /\ n \in DOMAIN ins /\ ins[n] \in InstRecord
    <3>1. FlowOK(seq, input, flight, ins)
      BY <2>1 DEF ThreadOK
    <3>2. QED
      BY <3>1, FlowFacts DEF FlowOK
  <2>4. changeMode(t) => regMap' \in [Thread -> Flattening]
    BY <2>2 DEF changeMode
  <2>5. ASSUME NEW op \in Op, arrive(t, op) PROVE IInv'
    <3> DEFINE ins2 == [m \in DOMAIN ins \cup {seq + 1} |->
                           IF m = seq + 1 THEN newInst(op) ELSE ins[m]]
    <3>1. ThreadOK(seq + 1, Append(input, seq + 1), flight, ins2, num, writing)
      BY <2>1, ArriveOK
    <3>2. /\ execSeqNum' = [execSeqNum EXCEPT ![t] = seq + 1]
          /\ inputBuffer' = [inputBuffer EXCEPT ![t] = Append(input, seq + 1)]
          /\ insts' = [insts EXCEPT ![t] = ins2]
          /\ regMap' = regMap
          /\ inFlightInsts' = [inFlightInsts EXCEPT ![t] = flight]
          /\ numResults' = [numResults EXCEPT ![t] = num]
          /\ writingInst' = [writingInst EXCEPT ![t] = writing]
      BY <2>2, <2>5 DEF arrive, resultVars
    <3> HIDE DEF ins2, seq, input, flight, ins, num, writing
    <3>3. QED
      BY <2>2, <3>1, <3>2, OneThread
  <2>6. ASSUME NEW k \in 1 .. Len(input), discardInputs(t, k) PROVE IInv'
    <3> DEFINE rest == SubSeq(input, k + 1, Len(input))
    <3>1. ThreadOK(seq, rest, flight, ins, num, writing)
      BY <2>1, DiscardOK
    <3>2. /\ inputBuffer' = [inputBuffer EXCEPT ![t] = rest]
          /\ regMap' = regMap
          /\ execSeqNum' = [execSeqNum EXCEPT ![t] = seq]
          /\ insts' = [insts EXCEPT ![t] = ins]
          /\ inFlightInsts' = [inFlightInsts EXCEPT ![t] = flight]
          /\ numResults' = [numResults EXCEPT ![t] = num]
          /\ writingInst' = [writingInst EXCEPT ![t] = writing]
      BY <2>2, <2>6 DEF discardInputs, resultVars
    <3> HIDE DEF rest, seq, input, flight, ins, num, writing
    <3>3. QED
      BY <2>2, <3>1, <3>2, OneThread
  <2>7. ASSUME input # <<>>, NEW fu, NEW retire_time, NEW mark_unpredictable,
               NEW early \in BOOLEAN, NEW barrier \in 0 .. seq,
               issueInst(t, fu, retire_time, mark_unpredictable, early, barrier)
        PROVE  IInv'
    <3> DEFINE n == Head(input)
               op == ins[n].op
               dests == flatten(t, op.dests)
               wait == largest({execSeqNumToWaitFor(t, op), barrier})
               rec == [op |-> op, flatSrcs |-> flatten(t, srcRegs(op)),
                       flatDestRegIdx |-> dests,
                       instToWaitFor |-> IF early THEN wait ELSE 0,
                       canEarlyIssue |-> early, inLSQ |-> FALSE]
               num2 == [i \in Index |-> IF i \in dests THEN num[i] + 1 ELSE num[i]]
               writing2 == [i \in Index |-> IF i \in dests /\ n > writing[i]
                                            THEN n ELSE writing[i]]
    <3>1. n \in rng(input)
      BY <2>3, <2>7, TailFacts
    <3>2. op \in Op
      BY <2>3, <3>1 DEF InstRecord
    <3>3. /\ wait \in Nat
          /\ \A i \in flatten(t, srcRegs(op)) : writing[i] <= wait
      <4>1. barrier \in Nat
        BY <2>3
      <4> HIDE DEF op
      <4>2. QED
        BY <3>2, <4>1, WaitFacts
    <3>4. dests \subseteq Index /\ flatten(t, srcRegs(op)) \subseteq Index
      <4> HIDE DEF op
      <4>1. op.dests \subseteq RegId /\ op.srcs \in Seq(RegId)
        BY <3>2, ScoreboardAssumption, Zenon
      <4>2. srcRegs(op) \subseteq RegId
        BY <4>1 DEF srcRegs
      <4>3. QED
        BY <4>1, <4>2, FlattenFacts
    <3>5. /\ rec \in InstRecord /\ ~rec.inLSQ /\ rec.flatDestRegIdx = dests
          /\ rec.canEarlyIssue =>
                \A i \in rec.flatSrcs : writing[i] <= rec.instToWaitFor
      <4> HIDE DEF op, wait, dests
      <4>1. QED
        BY <2>7, <3>2, <3>3, <3>4 DEF InstRecord
    <3>6. /\ inputBuffer' = [inputBuffer EXCEPT ![t] = Tail(input)]
          /\ inFlightInsts' = [inFlightInsts EXCEPT ![t] = Append(flight, n)]
          /\ insts' = [insts EXCEPT ![t] = [ins EXCEPT ![n] = rec]]
          /\ regMap' = regMap /\ execSeqNum' = execSeqNum
          /\ numResults' = [numResults EXCEPT ![t] = num2]
          /\ writingInst' = [writingInst EXCEPT ![t] = writing2]
      BY <2>7 DEF issueInst, markupInstDests
    <3> HIDE DEF rec, dests
    <3>7. ThreadOK(seq, Tail(input), Append(flight, n), [ins EXCEPT ![n] = rec],
                   num2, writing2)
      <4>1. input # <<>>
        BY <2>7
      <4> HIDE DEF seq, input, flight, ins, num, writing
      <4>2. ThreadOK(seq, Tail(input), Append(flight, n), [ins EXCEPT ![n] = rec],
              [i \in Index |-> IF i \in rec.flatDestRegIdx THEN num[i] + 1
                               ELSE num[i]],
              [i \in Index |-> IF i \in rec.flatDestRegIdx /\ n > writing[i]
                               THEN n ELSE writing[i]])
        BY <2>1, <3>5, <4>1, IssueOK
      <4>3. QED
        BY <3>5, <4>2
    <3> HIDE DEF num2, writing2, n, seq, input, flight, ins, num, writing
    <3>8. QED
      BY <2>2, <3>6, <3>7, OneThread
  <2>8. ASSUME NEW n \in inFlight(t), mayAccess(t, n),
               accessMemory(t, n) \/ faultEarly(t, n)
        PROVE  IInv'
    <3>1. /\ n \in rng(flight)
          /\ \/ n = Head(flight)
             \/ ins[n].canEarlyIssue /\ Head(flight) > ins[n].instToWaitFor
      BY <2>8 DEF inFlight, rng, mayAccess, headInst
    <3>2. /\ ThreadOK(seq, input, flight, [ins EXCEPT ![n].inLSQ = TRUE],
                      num, writing)
          /\ ThreadOK(seq, input, flight, [ins EXCEPT ![n].canEarlyIssue = FALSE],
                      num, writing)
      BY <2>1, <3>1, AccessOK
    <3>3. /\ regMap' = regMap
          /\ execSeqNum' = [execSeqNum EXCEPT ![t] = seq]
          /\ inputBuffer' = [inputBuffer EXCEPT ![t] = input]
          /\ inFlightInsts' = [inFlightInsts EXCEPT ![t] = flight]
          /\ numResults' = [numResults EXCEPT ![t] = num]
          /\ writingInst' = [writingInst EXCEPT ![t] = writing]
      BY <2>2, <2>8 DEF accessMemory, faultEarly, flowVars, resultVars
    <3>4. \/ insts' = [insts EXCEPT ![t] = [ins EXCEPT ![n].inLSQ = TRUE]]
          \/ insts' = [insts EXCEPT ![t] = [ins EXCEPT ![n].canEarlyIssue = FALSE]]
      BY <2>8 DEF accessMemory, faultEarly
    <3> HIDE DEF seq, input, flight, ins, num, writing
    <3>5. QED
      BY <2>2, <3>2, <3>3, <3>4, OneThread
  <2>9. ASSUME flight # <<>>, completeInst(t, insts[t][headInst(t)]), changeMode(t)
        PROVE  IInv'
    <3> DEFINE dests == ins[Head(flight)].flatDestRegIdx
               cleared == {i \in dests : num[i] = 1}
               num2 == [i \in Index |-> IF i \in dests THEN num[i] - 1 ELSE num[i]]
               writing2 == [i \in Index |-> IF i \in cleared THEN 0 ELSE writing[i]]
    <3>1. ThreadOK(seq, input, Tail(flight), ins, num2, writing2)
      <4>1. flight # <<>>
        BY <2>9
      <4> HIDE DEF seq, input, flight, ins, num, writing
      <4>2. QED
        BY <2>1, <4>1, CompleteOK
    <3>2. /\ inFlightInsts' = [inFlightInsts EXCEPT ![t] = Tail(flight)]
          /\ execSeqNum' = [execSeqNum EXCEPT ![t] = seq]
          /\ inputBuffer' = [inputBuffer EXCEPT ![t] = input]
          /\ insts' = [insts EXCEPT ![t] = ins]
          /\ numResults' = [numResults EXCEPT ![t] = num2]
          /\ writingInst' = [writingInst EXCEPT ![t] = writing2]
      BY <2>2, <2>9 DEF completeInst, clearInstDests, clearEntries, headInst
    <3> HIDE DEF num2, writing2, seq, input, flight, ins, num, writing
    <3>3. QED
      BY <2>2, <2>4, <2>9, <3>1, <3>2, OneThread
  <2>10. ASSUME changeMode(t), UNCHANGED <<flowVars, insts, resultVars>> PROVE IInv'
    BY <2>4, <2>10 DEF IInv, flowVars, resultVars
  <2>11. QED
    BY <1>3, <2>5, <2>6, <2>7, <2>8, <2>9, <2>10 DEF ThreadNext
<1>4. QED
  BY <1>1, <1>2, <1>3 DEF ScoreboardNext

\* The invariant gives both properties.
LEMMA InvImplies == IInv => ScoreboardExact /\ ReadsAfterWrites
<1> SUFFICES ASSUME IInv PROVE ScoreboardExact /\ ReadsAfterWrites
  OBVIOUS
<1>1. ASSUME NEW t \in Thread
      PROVE  /\ ResultsOK(inFlightInsts[t], insts[t], numResults[t], writingInst[t])
             /\ WaitsOK(inFlightInsts[t], insts[t])
  BY DEF IInv, ThreadOK
<1>2. \A t, i : writers(t, i) = writersIn(inFlightInsts[t], insts[t], i)
  BY DEF writers, writersIn, inFlight, rng
<1>3. ScoreboardExact
  BY <1>1, <1>2 DEF ScoreboardExact, ResultsOK
<1>4. ReadsAfterWrites
  BY <1>1 DEF ReadsAfterWrites, WaitsOK, depends, inFlight, rng
<1>5. QED
  BY <1>3, <1>4

\* The scoreboards are exact: Scoreboard::markupInstDests and clearInstDests
\* keep, for every register, the number of results in flight and the youngest
\* instruction to write one, in every mode and in every interleaving.
THEOREM ScoreboardIsExact == ScoreboardSpec => []ScoreboardExact
<1>1. IInv => ScoreboardExact
  BY InvImplies
<1>2. QED
  BY <1>1, InitOK, NextOK, PTL DEF ScoreboardSpec

\* A memory reference that goes to the LSQ ahead of older instructions
\* (early_memory_issue of Execute::commit) depends on none still in flight.
THEOREM EarlyReadsAreSafe == ScoreboardSpec => []ReadsAfterWrites
<1>1. IInv => ReadsAfterWrites
  BY InvImplies
<1>2. QED
  BY <1>1, InitOK, NextOK, PTL DEF ScoreboardSpec
=============================================================================
