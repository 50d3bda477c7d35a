---------------------------- MODULE StagesProofs ----------------------------
(***************************************************************************)
(* Proofs about the stages between Fetch2 and Execute: the input buffers   *)
(* are never overrun and no reservation leaks, the pipeline stops only     *)
(* when it has nothing to do, and a drained pipeline holds nothing, for    *)
(* any number of threads and any widths, delays and buffer sizes.          *)
(***************************************************************************)
EXTENDS Stages, FiniteSetTheorems, SequenceTheorems, TLAPS

----------------------------------------------------------------------------
\* The inductive invariant.

\* What a stage is sent: instructions, micro-ops, numbered micro-ops.
Item(s) ==
    CASE s = "decode" -> [num : Nat, uops : Nat]
      [] s = "executeDummy" -> [num : Nat, uop : Nat]
      [] OTHER -> [inst : [num : Nat, uop : Nat], execSeqNum : Nat]
Group(s) == Seq(Item(s) \cup {bubble}) \ {<<>>}
Sent(s) == [threadId : Thread, insts : Group(s)]

Evaluated == {"between", "execute", "executeDummy", "decode", "fetch2", "idle"}

\* The locals of the stage that is evaluated.
LocalsOK ==
    /\ evaluating \in [stage : Evaluated, started : BOOLEAN,
                       tid : Thread \cup {none},
                       out : Seq(Item("executeDummy")) \cup Seq(Item("execute")),
                       more : BOOLEAN]
    /\ evaluating.stage \in {"between", "fetch2", "idle"} => ~evaluating.started
    /\ evaluating.stage = "execute" => evaluating.started
    /\ evaluating.stage \notin DOMAIN nextStage => evaluating.out = <<>>
    /\ ~evaluating.started => evaluating = at(evaluating.stage)
    /\ evaluating.stage \in {"decode", "executeDummy"} =>
         evaluating.out \in Seq(Item(nextStage[evaluating.stage]))
    /\ evaluating.out # <<>> => evaluating.tid \in Thread

\* The shape of the state.
CountersOK ==
    /\ fetched \in [Thread -> Nat]
    /\ microopPC \in [Thread -> Nat] /\ execSeqNum \in [Thread -> Nat]
    /\ activity \in 0 .. longestLatency + 1
    /\ stageActive \subseteq {"decode", "executeDummy", "others"}
LatchShape ==
    /\ DOMAIN latch = Stage
    /\ \A s \in Stage : /\ latch[s] \in Seq(Sent(s) \cup {bubble})
                        /\ Len(latch[s]) = delay[s] + 1
QueueShape ==
    /\ queue = [s \in Stage |-> [t \in Thread |-> queue[s][t]]]
    /\ \A s \in Stage, t \in Thread : queue[s][t] \in Seq(Group(s))
    /\ numReservedSlots \in [Stage -> [Thread -> Nat]]

\* The index points into the next group.
IndexOK ==
    /\ inputIndex \in [Stage -> [Thread -> Nat]]
    /\ \A s \in Stage, t \in Thread :
         inputIndex[s][t] \in 1 .. IF queue[s][t] = <<>> THEN 1
                                   ELSE Len(Head(queue[s][t]))

\* The stages that have taken their input in this cycle, and those that have
\* sent their output.
begun ==
    CASE evaluating.stage = "between" -> {}
      [] evaluating.stage = "execute" -> {"execute"}
      [] evaluating.stage = "executeDummy" ->
           {"execute"} \cup IF evaluating.started THEN {"executeDummy"} ELSE {}
      [] evaluating.stage = "decode" ->
           {"execute", "executeDummy"}
             \cup IF evaluating.started THEN {"decode"} ELSE {}
      [] OTHER -> Stage
ended ==
    CASE evaluating.stage = "decode" -> {"executeDummy"}
      [] evaluating.stage = "fetch2" -> {"executeDummy", "decode"}
      [] evaluating.stage = "idle" -> {"executeDummy", "decode", "fetch2"}
      [] OTHER -> {}

\* A latch is read before it advances and written once a cycle, and the room a
\* stage has found is still there when it sends.
LatchesOK ==
    /\ \A s \in begun : latch[s][1] = bubble
    /\ \A s \in DOMAIN nextStage \ ended :
         latch[nextStage[s]][delay[nextStage[s]] + 1] = bubble
    /\ evaluating.stage \in DOMAIN nextStage /\ evaluating.tid \in Thread =>
         canReserve(nextStage[evaluating.stage], evaluating.tid)

\* Activity is remembered for as long as a group is in a latch, and a stage that
\* could go on when it ended has said so.
ActivityOK ==
    /\ evaluating.stage # "between" => running
    /\ \A s \in Stage : \A k \in DOMAIN latch[s] :
         latch[s][k] # bubble => k <= activity
    /\ \A s \in ended \ {"fetch2"} : worksOn(s) => s \in stageActive

\* Nothing is left in a drained pipeline, and nothing enters it.
DrainOK ==
    drained => /\ ~fetching /\ evaluating.out = <<>>
               /\ \A s \in Stage : isEmpty(s)
               /\ \A s \in Stage, t \in Thread : queue[s][t] = <<>>

IInv ==
    /\ CountersOK /\ LatchShape /\ QueueShape /\ IndexOK /\ LocalsOK
    /\ LatchesOK /\ ActivityOK /\ DrainOK
    /\ ReservationsExact /\ StopsOnlyIdle

----------------------------------------------------------------------------
\* Facts about the constants and about latches.

\* A smaller number leaves a sum below its bound.
LEMMA SumBound ==
    ASSUME NEW a \in Nat, NEW b \in Nat, NEW c \in Nat, NEW d \in Nat,
           a <= b, b + c <= d
    PROVE  a + c <= d
  OBVIOUS

\* A thread is a number, and none is not a thread.
LEMMA ThreadNumbers == Thread \subseteq Nat /\ none \notin Thread
<1>1. Thread = 0 .. Cardinality(Thread) - 1
  BY StagesAssumption
<1>2. \A m : 0 .. m \subseteq Nat
  OBVIOUS
<1>3. Thread \subseteq Nat
  BY <1>1, <1>2, Zenon
<1>4. QED
  BY <1>3 DEF none

\* The stages and the constants that belong to them.
LEMMA StageConstants ==
    ASSUME NEW s \in Stage
    PROVE  /\ delay[s] \in Nat \ {0} /\ capacity[s] \in Nat \ {0}
           /\ delay[s] + 1 \in Nat
  BY StagesAssumption

\* The activity recorder remembers for longer than any latch delays.
LEMMA LongestLatency ==
    /\ longestLatency \in Nat
    /\ \A s \in Stage : delay[s] <= longestLatency
<1>1. \A s \in Stage : delay[s] \in Nat
  BY StageConstants
<1>2. \E d \in {delay[s] : s \in Stage} : \A s \in Stage : delay[s] <= d
  BY <1>1 DEF Stage
<1>3. QED
  BY <1>1, <1>2 DEF longestLatency

\* No place of a latch is further from its end than activity is remembered.
LEMMA LatchWithinActivity ==
    \A s \in Stage : \A k \in 1 .. delay[s] + 1 : k <= longestLatency + 1
  BY LongestLatency, StageConstants

\* What a stage sends is not a bubble.
LEMMA SentNotBubble ==
    ASSUME NEW s, NEW x \in Sent(s)
    PROVE  x # bubble
  BY DEF Sent, bubble

\* As many places of a sequence satisfy a condition after all of them, the first
\* of which does not, have moved down by one.
LEMMA ShiftCardinality ==
    ASSUME NEW n \in Nat, NEW A \in SUBSET (1 .. n), 1 \notin A
    PROVE  /\ IsFiniteSet(A)
           /\ IsFiniteSet({k \in 1 .. n : k + 1 \in A})
           /\ Cardinality({k \in 1 .. n : k + 1 \in A}) = Cardinality(A)
<1> DEFINE B == {k \in 1 .. n : k + 1 \in A}
           f == [k \in A |-> k - 1]
<1>1. IsFiniteSet(A)
  <2>1. IsFiniteSet(1 .. n)
    BY FS_Interval
  <2>2. QED
    BY <2>1, FS_Subset, Zenon
<1>2. f \in Bijection(A, B)
  <2>1. \A k \in A : k - 1 \in B
    OBVIOUS
  <2>2. f \in [A -> B]
    BY <2>1
  <2>3. \A j, k \in A : f[j] = f[k] => j = k
    OBVIOUS
  <2>4. \A b \in B : \E a \in A : f[a] = b
    <3>1. ASSUME NEW b \in B PROVE b + 1 \in A /\ f[b + 1] = b
      OBVIOUS
    <3>2. QED
      BY <3>1
  <2>5. QED
    BY <2>2, <2>3, <2>4 DEF Bijection, Injection, Surjection, IsInjective
<1>3. ExistsBijection(A, B)
  BY <1>2 DEF ExistsBijection
<1>4. QED
  BY <1>1, <1>3, FS_Bijection

----------------------------------------------------------------------------
\* What the stages do with latches and input buffers.

\* The groups of a thread in a latch are finitely many.
LEMMA InLatchFinite ==
    ASSUME LatchShape, NEW s \in Stage, NEW t \in Thread
    PROVE  /\ DOMAIN latch[s] = 1 .. delay[s] + 1
           /\ inLatch(s, t) = {k \in 1 .. delay[s] + 1 :
                  latch[s][k] # bubble /\ latch[s][k].threadId = t}
           /\ IsFiniteSet(inLatch(s, t)) /\ Cardinality(inLatch(s, t)) \in Nat
<1>1. DOMAIN latch[s] = 1 .. delay[s] + 1
  <2>1. latch[s] \in Seq(Sent(s) \cup {bubble}) /\ Len(latch[s]) = delay[s] + 1
    BY DEF LatchShape
  <2>2. QED
    BY <2>1, LenProperties
<1>2. inLatch(s, t) = {k \in 1 .. delay[s] + 1 :
         latch[s][k] # bubble /\ latch[s][k].threadId = t}
  BY <1>1 DEF inLatch
<1>3. IsFiniteSet(1 .. delay[s] + 1)
  BY StageConstants, FS_Interval
<1>4. inLatch(s, t) \subseteq 1 .. delay[s] + 1
  BY <1>2
<1>5. QED
  BY <1>1, <1>2, <1>3, <1>4, FS_Subset, FS_CardinalityType, Zenon

\* So they are in the next state.
LEMMA InLatchNext ==
    ASSUME LatchShape', NEW s \in Stage, NEW t \in Thread
    PROVE  inLatch(s, t)' = {k \in 1 .. delay[s] + 1 :
               latch'[s][k] # bubble /\ latch'[s][k].threadId = t}
<1>1. latch'[s] \in Seq(Sent(s) \cup {bubble}) /\ Len(latch'[s]) = delay[s] + 1
  BY DEF LatchShape
<1>2. DOMAIN latch'[s] = 1 .. delay[s] + 1
  BY <1>1, LenProperties
<1>3. QED
  BY <1>2 DEF inLatch

\* A latch in which one place changes.
Places(s, k, x) == latch' = [latch EXCEPT ![s][k] = x]
\* A latch that is written in one place.
LEMMA LatchUpdate ==
    ASSUME LatchShape, NEW s \in Stage, NEW k \in 1 .. delay[s] + 1,
           NEW x \in Sent(s) \cup {bubble},
           Places(s, k, x)
    PROVE  /\ LatchShape'
           /\ \A r \in Stage : \A j \in 1 .. delay[r] + 1 :
                latch'[r][j] = IF r = s /\ j = k THEN x ELSE latch[r][j]
<1>1. latch' = [latch EXCEPT ![s] = [latch[s] EXCEPT ![k] = x]]
  BY DEF Places
<1>2. /\ [latch[s] EXCEPT ![k] = x] \in Seq(Sent(s) \cup {bubble})
      /\ Len([latch[s] EXCEPT ![k] = x]) = delay[s] + 1
      /\ \A j \in 1 .. delay[s] + 1 :
           [latch[s] EXCEPT ![k] = x][j] = IF j = k THEN x ELSE latch[s][j]
  <2>1. latch[s] \in Seq(Sent(s) \cup {bubble}) /\ Len(latch[s]) = delay[s] + 1
    BY DEF LatchShape
  <2>2. QED
    BY <2>1, ExceptSeq
<1>3. DOMAIN latch = Stage
  BY DEF LatchShape
<1>4. latch'[s] = [latch[s] EXCEPT ![k] = x]
  BY <1>1, <1>3
<1>5. \A r \in Stage : r # s => latch'[r] = latch[r]
  BY <1>1, <1>3
<1>6. DOMAIN latch' = Stage
  BY <1>1, <1>3
<1>7. LatchShape'
  BY <1>2, <1>4, <1>5, <1>6, Zenon DEF LatchShape
<1>8. QED
  BY <1>2, <1>4, <1>5, <1>7

\* What comes out of a latch takes the space that was reserved for it.
LEMMA Pushed ==
    ASSUME LatchShape, QueueShape, IndexOK, ReservationsExact,
           NEW s \in Stage, pushTail(s), UNCHANGED inputIndex
    PROVE  /\ LatchShape' /\ QueueShape' /\ IndexOK' /\ ReservationsExact'
           /\ \A r \in Stage : \A j \in 1 .. delay[r] + 1 :
                latch'[r][j] = IF r = s /\ j = 1 THEN bubble ELSE latch[r][j]
           /\ \A r \in Stage \ {s} : /\ queue'[r] = queue[r]
                                     /\ numReservedSlots'[r] = numReservedSlots[r]
<1>1. CASE latch[s][1] = bubble
  <2>1. UNCHANGED <<latch, queue, numReservedSlots>>
    BY <1>1 DEF pushTail
  <2>2. LatchShape' /\ QueueShape' /\ IndexOK' /\ ReservationsExact'
    <3>1. LatchShape' /\ QueueShape' /\ IndexOK'
      BY <2>1, Zenon DEF LatchShape, QueueShape, IndexOK
    <3>2. \A r \in Stage, u \in Thread : inLatch(r, u)' = inLatch(r, u)
      BY <2>1 DEF inLatch
    <3>3. ReservationsExact'
      BY <2>1, <3>2 DEF ReservationsExact
    <3>4. QED
      BY <3>1, <3>3
  <2>3. QED
    BY <1>1, <2>1, <2>2
<1>2. CASE latch[s][1] # bubble
  <2>1. PICK data \in Sent(s) : data = latch[s][1]
    <3>1. latch[s] \in Seq(Sent(s) \cup {bubble}) /\ Len(latch[s]) = delay[s] + 1
      BY DEF LatchShape
    <3>2. 1 \in 1 .. Len(latch[s])
      BY <3>1, StageConstants
    <3>3. QED
      BY <1>2, <3>1, <3>2, ElementOfSeq
  <2>2. PICK t \in Thread : t = data.threadId /\ data.insts \in Group(s)
    BY DEF Sent
  <2>3. /\ latch' = [latch EXCEPT ![s][1] = bubble]
        /\ queue' = [queue EXCEPT ![s][t] = Append(@, data.insts)]
        /\ numReservedSlots' = [numReservedSlots EXCEPT ![s][t] =
                                  IF @ # 0 THEN @ - 1 ELSE 0]
    BY <1>2, <2>1, <2>2, Zenon DEF pushTail
  <2>4. 1 \in 1 .. delay[s] + 1 /\ bubble \in Sent(s) \cup {bubble}
    BY StageConstants
  <2>5. /\ LatchShape'
        /\ \A r \in Stage : \A j \in 1 .. delay[r] + 1 :
             latch'[r][j] = IF r = s /\ j = 1 THEN bubble ELSE latch[r][j]
    <3>1. Places(s, 1, bubble)
      BY <2>3, Zenon DEF Places
    <3>2. QED
      BY <2>4, <3>1, LatchUpdate
  <2>6. /\ queue'[s][t] = Append(queue[s][t], data.insts)
        /\ \A r \in Stage, u \in Thread :
             r # s \/ u # t => queue'[r][u] = queue[r][u]
        /\ \A r \in Stage \ {s} : queue'[r] = queue[r]
        /\ queue' = [r \in Stage |-> [u \in Thread |-> queue'[r][u]]]
    BY <2>2, <2>3, Zenon DEF QueueShape
  <2>7. /\ numReservedSlots'[s][t] = IF numReservedSlots[s][t] # 0
                                     THEN numReservedSlots[s][t] - 1 ELSE 0
        /\ \A r \in Stage, u \in Thread : r # s \/ u # t =>
             numReservedSlots'[r][u] = numReservedSlots[r][u]
        /\ \A r \in Stage \ {s} : numReservedSlots'[r] = numReservedSlots[r]
        /\ numReservedSlots' \in [Stage -> [Thread -> Nat]]
    BY <2>2, <2>3 DEF QueueShape
  <2>8. /\ queue[s][t] \in Seq(Group(s))
        /\ queue'[s][t] \in Seq(Group(s)) /\ queue'[s][t] # <<>>
        /\ Len(queue'[s][t]) = Len(queue[s][t]) + 1
        /\ Head(queue'[s][t]) = IF queue[s][t] = <<>> THEN data.insts
                                ELSE Head(queue[s][t])
    <3>1. queue[s][t] \in Seq(Group(s))
      BY <2>2 DEF QueueShape
    <3>2. QED
      BY <2>2, <2>6, <3>1, AppendProperties, HeadTailAppend
  <2>9. QueueShape'
    BY <2>6, <2>7, <2>8, Zenon DEF QueueShape
  <2>10. IndexOK'
    <3>1. data.insts \in Group(s) => Len(data.insts) \in Nat \ {0}
      BY EmptySeq DEF Group
    <3>2. ASSUME NEW r \in Stage, NEW u \in Thread
          PROVE  inputIndex[r][u] \in 1 .. IF queue'[r][u] = <<>> THEN 1
                                           ELSE Len(Head(queue'[r][u]))
      <4>1. CASE r = s /\ u = t
        <5>1. inputIndex[s][t] \in 1 .. IF queue[s][t] = <<>> THEN 1
                                        ELSE Len(Head(queue[s][t]))
          BY DEF IndexOK
        <5>2. inputIndex[s][t] \in 1 .. Len(Head(queue'[s][t]))
          <6>1. CASE queue[s][t] = <<>>
            BY <2>2, <2>8, <3>1, <5>1, <6>1
          <6>2. CASE queue[s][t] # <<>>
            BY <2>8, <5>1, <6>2
          <6>3. QED
            BY <6>1, <6>2
        <5>3. QED
          BY <2>8, <4>1, <5>2
      <4>2. CASE ~(r = s /\ u = t)
        BY <2>6, <4>2, Zenon DEF IndexOK
      <4>3. QED
        BY <4>1, <4>2
    <3>3. QED
      BY <3>2 DEF IndexOK
  <2>11. ReservationsExact'
    <3>1. \A r \in Stage, u \in Thread :
             inLatch(r, u)' = {k \in 1 .. delay[r] + 1 :
                 latch'[r][k] # bubble /\ latch'[r][k].threadId = u}
      BY <2>5, InLatchNext
    <3>2. /\ 1 \in inLatch(s, t)
          /\ inLatch(s, t)' = inLatch(s, t) \ {1}
      <4>1. inLatch(s, t) = {k \in 1 .. delay[s] + 1 :
               latch[s][k] # bubble /\ latch[s][k].threadId = t}
        BY <2>2, InLatchFinite
      <4>2. inLatch(s, t)' = {k \in 1 .. delay[s] + 1 :
               latch'[s][k] # bubble /\ latch'[s][k].threadId = t}
        BY <2>2, <3>1
      <4>3. 1 \in inLatch(s, t)
        BY <1>2, <2>1, <2>2, <2>4, <4>1
      <4>4. \A k \in 1 .. delay[s] + 1 :
               latch'[s][k] = IF k = 1 THEN bubble ELSE latch[s][k]
        BY <2>5
      <4>5. QED
        BY <4>1, <4>2, <4>3, <4>4
    <3>3. ASSUME NEW r \in Stage, NEW u \in Thread, r # s \/ u # t
          PROVE  inLatch(r, u)' = inLatch(r, u)
      <4>1. inLatch(r, u) = {k \in 1 .. delay[r] + 1 :
               latch[r][k] # bubble /\ latch[r][k].threadId = u}
        BY InLatchFinite
      <4>2. inLatch(r, u)' = {k \in 1 .. delay[r] + 1 :
               latch'[r][k] # bubble /\ latch'[r][k].threadId = u}
        BY <3>1
      <4>3. \A k \in 1 .. delay[r] + 1 : \/ latch'[r][k] = latch[r][k]
                                         \/ /\ r = s /\ k = 1
                                            /\ latch'[r][k] = bubble
        BY <2>5
      <4>4. r = s => latch[r][1].threadId # u
        BY <2>1, <2>2, <3>3
      <4>5. QED
        BY <4>1, <4>2, <4>3, <4>4
    <3>4. /\ Cardinality(inLatch(s, t)) \in Nat \ {0}
          /\ Cardinality(inLatch(s, t)') = Cardinality(inLatch(s, t)) - 1
      <4>1. IsFiniteSet(inLatch(s, t)) /\ Cardinality(inLatch(s, t)) \in Nat
        BY InLatchFinite
      <4>2. Cardinality(inLatch(s, t)) # 0
        BY <3>2, <4>1, FS_EmptySet
      <4>3. Cardinality(inLatch(s, t) \ {1}) = Cardinality(inLatch(s, t)) - 1
        BY <3>2, <4>1, FS_RemoveElement, Zenon
      <4>4. QED
        BY <3>2, <4>1, <4>2, <4>3
    <3>5. ASSUME NEW r \in Stage, NEW u \in Thread
          PROVE  /\ numReservedSlots'[r][u] = Cardinality(inLatch(r, u)')
                 /\ Len(queue'[r][u]) + numReservedSlots'[r][u] <= capacity[r]
      <4>1. CASE r = s /\ u = t
        <5>1. /\ numReservedSlots[s][t] = Cardinality(inLatch(s, t))
              /\ Len(queue[s][t]) + numReservedSlots[s][t] <= capacity[s]
          BY <2>2 DEF ReservationsExact
        <5>2. Len(queue[s][t]) \in Nat /\ capacity[s] \in Nat
          BY <2>8, StageConstants
        <5>3. QED
          BY <2>7, <2>8, <3>4, <4>1, <5>1, <5>2
      <4>2. CASE ~(r = s /\ u = t)
        <5>1. /\ numReservedSlots'[r][u] = numReservedSlots[r][u]
              /\ queue'[r][u] = queue[r][u]
          BY <2>6, <2>7, <4>2
        <5>2. inLatch(r, u)' = inLatch(r, u)
          BY <3>3, <4>2
        <5>3. QED
          BY <5>1, <5>2, Zenon DEF ReservationsExact
      <4>3. QED
        BY <4>1, <4>2
    <3>6. QED
      BY <3>5 DEF ReservationsExact
  <2>12. QED
    BY <2>5, <2>6, <2>7, <2>9, <2>10, <2>11
<1>3. QED
  BY <1>1, <1>2

\* A padded group is one that the next stage can take.
LEMMA PaddedGroup ==
    ASSUME NEW s \in DOMAIN nextStage, NEW insts \in Seq(Item(nextStage[s]))
    PROVE  padded(insts, outputWidth[s]) \in Group(nextStage[s])
<1> DEFINE S == Item(nextStage[s]) \cup {bubble}
           n == outputWidth[s]
           g == padded(insts, n)
<1>1. n \in Nat \ {0}
  BY StagesAssumption
<1>2. \A k \in 1 .. n : k <= Len(insts) => insts[k] \in Item(nextStage[s])
  BY ElementOfSeq
<1> HIDE DEF n
<1>3. g \in [1 .. n -> S]
  BY <1>2 DEF padded
<1> HIDE DEF S, g
<1>4. g \in Seq(S) /\ Len(g) = n
  BY <1>1, <1>3
<1>5. g # <<>>
  BY <1>1, <1>4
<1>6. QED
  BY <1>4, <1>5 DEF Group, S, g, n

\* A stage sends into an empty place of a latch, for which it reserves a slot.
LEMMA Sending ==
    ASSUME LatchShape, QueueShape, ReservationsExact,
           NEW s \in DOMAIN nextStage, NEW t \in Thread,
           NEW insts \in Seq(Item(nextStage[s])),
           send(s, t, insts), UNCHANGED queue,
           latch[nextStage[s]][delay[nextStage[s]] + 1] = bubble,
           canReserve(nextStage[s], t)
    PROVE  /\ LatchShape' /\ QueueShape' /\ ReservationsExact'
           /\ activity' = longestLatency + 1
           /\ \A r \in Stage : \A j \in 1 .. delay[r] + 1 :
                r # nextStage[s] \/ j # delay[r] + 1 =>
                    latch'[r][j] = latch[r][j]
           /\ \A r \in Stage \ {nextStage[s]} :
                numReservedSlots'[r] = numReservedSlots[r]
<1>1. PICK to \in Stage : to = nextStage[s]
  BY DEF nextStage, Stage
<1>2. PICK last \in 1 .. delay[to] + 1 : last = delay[to] + 1
  BY StageConstants
<1>3. PICK x \in Sent(to) :
         x = [threadId |-> t, insts |-> padded(insts, outputWidth[s])]
  BY <1>1, PaddedGroup, Zenon DEF Sent
<1>4. /\ latch' = [latch EXCEPT ![to][last] = x]
      /\ numReservedSlots' = [numReservedSlots EXCEPT ![to][t] = @ + 1]
      /\ activity' = longestLatency + 1
  BY <1>1, <1>2, <1>3 DEF send
<1>5. x \in Sent(to) \cup {bubble} /\ x # bubble /\ x.threadId = t
  BY <1>3, SentNotBubble
<1>6. /\ LatchShape'
      /\ \A r \in Stage : \A j \in 1 .. delay[r] + 1 :
           latch'[r][j] = IF r = to /\ j = last THEN x ELSE latch[r][j]
  <2>1. Places(to, last, x) /\ x \in Sent(to) \cup {bubble}
    BY <1>4, <1>5 DEF Places
  <2>2. QED
    BY <2>1, LatchUpdate
<1>7. /\ numReservedSlots'[to][t] = numReservedSlots[to][t] + 1
      /\ \A r \in Stage, u \in Thread : r # to \/ u # t =>
           numReservedSlots'[r][u] = numReservedSlots[r][u]
      /\ \A r \in Stage \ {to} : numReservedSlots'[r] = numReservedSlots[r]
      /\ numReservedSlots' \in [Stage -> [Thread -> Nat]]
  BY <1>4 DEF QueueShape
<1>8. QueueShape'
  BY <1>7 DEF QueueShape
<1>9. ReservationsExact'
  <2>1. ASSUME NEW r \in Stage, NEW u \in Thread
        PROVE  /\ inLatch(r, u) = {k \in 1 .. delay[r] + 1 :
                      latch[r][k] # bubble /\ latch[r][k].threadId = u}
               /\ inLatch(r, u)' = {k \in 1 .. delay[r] + 1 :
                      latch'[r][k] # bubble /\ latch'[r][k].threadId = u}
    BY <1>6, InLatchFinite, InLatchNext
  <2>2. last \notin inLatch(to, t) /\ inLatch(to, t)' = inLatch(to, t) \cup {last}
    <3>1. latch[to][last] = bubble /\ latch'[to][last] = x
      BY <1>1, <1>2, <1>6
    <3>2. \A k \in 1 .. delay[to] + 1 : k # last => latch'[to][k] = latch[to][k]
      BY <1>6
    <3>3. QED
      BY <1>5, <2>1, <3>1, <3>2
  <2>3. ASSUME NEW r \in Stage, NEW u \in Thread, r # to \/ u # t
        PROVE  inLatch(r, u)' = inLatch(r, u)
    <3>1. \A k \in 1 .. delay[r] + 1 :
             \/ latch'[r][k] = latch[r][k]
             \/ r = to /\ latch[r][k] = bubble /\ latch'[r][k] = x
      BY <1>1, <1>2, <1>6
    <3>2. /\ inLatch(r, u) = {k \in 1 .. delay[r] + 1 :
                latch[r][k] # bubble /\ latch[r][k].threadId = u}
          /\ inLatch(r, u)' = {k \in 1 .. delay[r] + 1 :
                latch'[r][k] # bubble /\ latch'[r][k].threadId = u}
      BY <2>1
    <3>3. QED
      BY <1>5, <2>3, <3>1, <3>2
  <2>4. Cardinality(inLatch(to, t)') = Cardinality(inLatch(to, t)) + 1
    BY <2>2, InLatchFinite, FS_AddElement, Zenon
  <2>5. ASSUME NEW r \in Stage, NEW u \in Thread
        PROVE  /\ numReservedSlots'[r][u] = Cardinality(inLatch(r, u)')
               /\ Len(queue'[r][u]) + numReservedSlots'[r][u] <= capacity[r]
    <3>1. CASE r = to /\ u = t
      <4>1. numReservedSlots[to][t] = Cardinality(inLatch(to, t))
        BY DEF ReservationsExact
      <4>2. Len(queue[to][t]) + numReservedSlots[to][t] < capacity[to]
        BY <1>1 DEF canReserve
      <4>3. /\ Len(queue[to][t]) \in Nat /\ capacity[to] \in Nat
            /\ numReservedSlots[to][t] \in Nat
        BY StageConstants DEF QueueShape
      <4>4. QED
        BY <1>7, <2>4, <3>1, <4>1, <4>2, <4>3
    <3>2. CASE ~(r = to /\ u = t)
      BY <1>7, <2>3, <3>2, Zenon DEF ReservationsExact
    <3>3. QED
      BY <3>1, <3>2
  <2>6. QED
    BY <2>5 DEF ReservationsExact
<1>10. QED
  BY <1>1, <1>2, <1>4, <1>6, <1>7, <1>8, <1>9

\* The latches advance: what was taken out leaves room, and nothing is lost.
LEMMA Advancing ==
    ASSUME LatchShape, QueueShape, ReservationsExact,
           latch' = [s \in Stage |-> advanced(s)],
           UNCHANGED <<queue, numReservedSlots>>,
           \A s \in Stage : latch[s][1] = bubble
    PROVE  /\ LatchShape' /\ QueueShape' /\ ReservationsExact'
           /\ \A s \in Stage : \A k \in 1 .. delay[s] : latch'[s][k] = latch[s][k + 1]
           /\ \A s \in Stage : latch'[s][delay[s] + 1] = bubble
<1>1. ASSUME NEW s \in Stage
      PROVE  /\ latch'[s] \in Seq(Sent(s) \cup {bubble})
             /\ Len(latch'[s]) = delay[s] + 1
             /\ \A k \in 1 .. delay[s] : latch'[s][k] = latch[s][k + 1]
             /\ latch'[s][delay[s] + 1] = bubble
  <2>1. latch[s] \in Seq(Sent(s) \cup {bubble}) /\ Len(latch[s]) = delay[s] + 1
    BY DEF LatchShape
  <2>2. latch'[s] = Append(Tail(latch[s]), bubble)
    BY DEF advanced
  <2>3. delay[s] \in Nat \ {0} /\ bubble \in Sent(s) \cup {bubble}
    BY StageConstants
  <2>4. latch[s] # <<>>
    BY <2>1, <2>3
  <2>5. /\ Tail(latch[s]) \in Seq(Sent(s) \cup {bubble})
        /\ Len(Tail(latch[s])) = delay[s]
        /\ \A k \in 1 .. delay[s] : Tail(latch[s])[k] = latch[s][k + 1]
    BY <2>1, <2>3, <2>4, HeadTailProperties
  <2> PICK S : S = Sent(s) \cup {bubble}
    BY Zenon
  <2>6. PICK l \in Seq(S) : l = Tail(latch[s])
    BY <2>5, Zenon
  <2>7. latch'[s] = Append(l, bubble) /\ bubble \in S
    BY <2>2, <2>3, <2>6
  <2>8. Len(l) = delay[s] /\ \A k \in 1 .. delay[s] : l[k] = latch[s][k + 1]
    BY <2>5, <2>6
  <2>9. /\ Append(l, bubble) \in Seq(S)
        /\ Len(Append(l, bubble)) = Len(l) + 1
        /\ \A k \in 1 .. Len(l) : Append(l, bubble)[k] = l[k]
        /\ Append(l, bubble)[Len(l) + 1] = bubble
    BY <2>7, AppendProperties
  <2>10. QED
    BY <2>6, <2>7, <2>8, <2>9, Zenon
<1>2. LatchShape'
  BY <1>1 DEF LatchShape
<1>3. QueueShape'
  BY DEF QueueShape
<1>4. ReservationsExact'
  <2>1. ASSUME NEW s \in Stage, NEW t \in Thread
        PROVE  Cardinality(inLatch(s, t)') = Cardinality(inLatch(s, t))
    <3>1. PICK n \in Nat : n = delay[s] + 1 /\ n # 0
      BY StageConstants
    <3>2. PICK A \in SUBSET (1 .. n) : A = inLatch(s, t)
      BY <3>1, InLatchFinite
    <3>3. A = {k \in 1 .. n : latch[s][k] # bubble /\ latch[s][k].threadId = t}
      BY <3>1, <3>2, InLatchFinite
    <3>4. 1 \notin A
      BY <3>3
    <3>5. inLatch(s, t)' = {k \in 1 .. n :
                 latch'[s][k] # bubble /\ latch'[s][k].threadId = t}
      BY <1>2, <3>1, InLatchNext
    <3>6. \A k \in 1 .. n : IF k = n THEN latch'[s][k] = bubble
                            ELSE latch'[s][k] = latch[s][k + 1]
      <4>1. \A k \in 1 .. n : k # n => k \in 1 .. delay[s]
        BY <3>1, StageConstants
      <4>2. QED
        BY <1>1, <3>1, <4>1, Zenon
    <3>7. inLatch(s, t)' = {k \in 1 .. n : k + 1 \in A}
      BY <3>1, <3>3, <3>5, <3>6
    <3>8. QED
      BY <3>2, <3>4, <3>7, ShiftCardinality, Zenon
  <2>2. QED
    BY <2>1 DEF ReservationsExact
<1>5. QED
  BY <1>1, <1>2, <1>3, <1>4, Zenon

----------------------------------------------------------------------------
\* The invariant holds initially and every action preserves it.

\* A latch has a place for each cycle of its delay and one more.
LEMMA LatchDomain ==
    ASSUME LatchShape, NEW s \in Stage
    PROVE  DOMAIN latch[s] = 1 .. delay[s] + 1
<1>1. latch[s] \in Seq(Sent(s) \cup {bubble}) /\ Len(latch[s]) = delay[s] + 1
  BY DEF LatchShape
<1>2. QED
  BY <1>1, LenProperties

\* The same of the next state.
LEMMA LatchDomainNext ==
    ASSUME LatchShape', NEW s \in Stage
    PROVE  DOMAIN latch'[s] = 1 .. delay[s] + 1
<1>1. latch'[s] \in Seq(Sent(s) \cup {bubble}) /\ Len(latch'[s]) = delay[s] + 1
  BY DEF LatchShape
<1>2. QED
  BY <1>1, LenProperties

\* The pipeline starts with nothing in it.
LEMMA InitOK == Init => IInv
<1> SUFFICES ASSUME Init
             PROVE  IInv
  OBVIOUS
<1> USE DEF Init
<1>1. CountersOK
  BY LongestLatency DEF CountersOK
<1>2. ASSUME NEW s \in Stage
      PROVE  /\ latch[s] \in Seq(Sent(s) \cup {bubble})
             /\ Len(latch[s]) = delay[s] + 1
             /\ \A k \in 1 .. delay[s] + 1 : latch[s][k] = bubble
  <2>1. PICK n \in Nat : n = delay[s] + 1
    BY StageConstants
  <2>2. latch[s] = [k \in 1 .. n |-> bubble]
    BY <2>1
  <2> PICK S : S = Sent(s) \cup {bubble}
    BY Zenon
  <2>3. PICK l : l = latch[s]
    OBVIOUS
  <2>4. l \in [1 .. n -> S]
    BY <2>2, <2>3
  <2>5. l \in Seq(S) /\ Len(l) = n
    <3> USE <2>4
    <3> HIDE DEF Init
    <3> QED
      OBVIOUS
  <2>6. QED
    BY <2>1, <2>2, <2>3, <2>5
<1>3. LatchShape
  BY <1>2, Zenon DEF LatchShape
<1>4. QueueShape
  BY DEF QueueShape
<1>5. IndexOK
  BY DEF IndexOK
<1>6. LocalsOK
  BY DEF LocalsOK, between, at, Evaluated, nextStage
<1>7. \A s \in Stage : isEmpty(s)
  BY <1>2, <1>3, LatchDomain DEF isEmpty
<1>8. LatchesOK
  <2>1. begun = {} /\ ended = {} /\ evaluating.stage = "between"
    BY DEF begun, ended, between, at
  <2>2. \A s \in DOMAIN nextStage : nextStage[s] \in Stage
    BY DEF nextStage, Stage
  <2>3. \A s \in Stage : latch[s][delay[s] + 1] = bubble
    BY <1>2, StageConstants
  <2>4. QED
    BY <2>1, <2>2, <2>3, Zenon DEF LatchesOK, nextStage
<1>9. ActivityOK
  BY <1>7 DEF ActivityOK, isEmpty, ended, between, at
<1>10. DrainOK
  BY DEF DrainOK
<1>11. ReservationsExact
  <2> SUFFICES ASSUME NEW s \in Stage, NEW t \in Thread
               PROVE  /\ numReservedSlots[s][t] = Cardinality(inLatch(s, t))
                      /\ Len(queue[s][t]) + numReservedSlots[s][t] <= capacity[s]
    BY DEF ReservationsExact
  <2>1. inLatch(s, t) = {}
    BY <1>7 DEF inLatch, isEmpty
  <2>2. QED
    BY <2>1, FS_EmptySet, StageConstants
<1>12. StopsOnlyIdle
  BY <1>7 DEF StopsOnlyIdle, worksOn
<1>13. QED
  BY <1>1, <1>3, <1>4, <1>5, <1>6, <1>8, <1>9, <1>10, <1>11, <1>12 DEF IInv

\* A stage takes its input.
LEMMA StartStageOK ==
    ASSUME IInv, NEW s \in Stage, StartStage(s)
    PROVE  IInv'
<1> USE DEF IInv
<1>1. /\ evaluating = IF s = "execute" THEN between ELSE at(s)
      /\ pushTail(s)
      /\ UNCHANGED <<fetched, inputIndex, microopPC, execSeqNum, taken, activity,
                     stageActive, running, needToSignalDrained, fetching, drained>>
  BY Zenon DEF StartStage, idleVars
<1>3. PICK tid \in ready(s) \cup {none} :
         evaluating' = [stage |-> s, started |-> TRUE, tid |-> tid, out |-> <<>>,
                        more |-> TRUE]
  <2>1. chosen(s, ready(s)) \subseteq ready(s)
    BY DEF chosen
  <2>2. CASE chosen(s, ready(s)) = {}
    <3>1. evaluating' = [at(s) EXCEPT !.started = TRUE, !.more = TRUE]
      BY <2>2 DEF StartStage
    <3>2. evaluating' = [stage |-> s, started |-> TRUE, tid |-> none,
                         out |-> <<>>, more |-> TRUE]
      BY <3>1, Zenon DEF at
    <3>3. QED
      BY <3>2, Zenon
  <2>3. CASE chosen(s, ready(s)) # {}
    <3>1. PICK t \in ready(s) : evaluating' =
             [at(s) EXCEPT !.started = TRUE, !.more = TRUE, !.tid = t]
      BY <2>1, <2>3, Zenon DEF StartStage
    <3>2. evaluating' = [stage |-> s, started |-> TRUE, tid |-> t,
                         out |-> <<>>, more |-> TRUE]
      BY <3>1, Zenon DEF at
    <3>3. QED
      BY <3>2, Zenon
  <2>4. QED
    BY <2>2, <2>3
<1>4. /\ LatchShape' /\ QueueShape' /\ IndexOK' /\ ReservationsExact'
      /\ \A r \in Stage : \A j \in 1 .. delay[r] + 1 :
           latch'[r][j] = IF r = s /\ j = 1 THEN bubble ELSE latch[r][j]
      /\ \A r \in Stage \ {s} : /\ queue'[r] = queue[r]
                                /\ numReservedSlots'[r] = numReservedSlots[r]
  BY <1>1, Pushed
<1>5. CountersOK'
  BY <1>1 DEF CountersOK
<1>6. tid \in Thread \cup {none}
  BY DEF ready
<1>7. LocalsOK'
  BY <1>3, <1>6 DEF LocalsOK, Evaluated, Stage, nextStage
<1>8. /\ begun' = begun \cup {s} /\ ended' = ended
      /\ ended = IF s = "decode" THEN {"executeDummy"} ELSE {}
  BY <1>1, <1>3 DEF begun, ended, between, at, Stage
<1>9. running
  BY <1>1, Zenon DEF StartStage, ActivityOK, at, between, Stage
<1>10. LatchesOK'
  <2>1. \A r \in begun' : latch'[r][1] = bubble
    <3>1. begun \subseteq Stage
      BY <1>1 DEF begun, between, at, Stage
    <3>2. QED
      BY <1>4, <1>8, <3>1, StageConstants DEF LatchesOK
  <2>2. ASSUME NEW r \in DOMAIN nextStage \ ended'
        PROVE  latch'[nextStage[r]][delay[nextStage[r]] + 1] = bubble
    <3>1. PICK to \in Stage : to = nextStage[r]
      BY DEF nextStage, Stage
    <3>2. latch[to][delay[to] + 1] = bubble
      BY <1>8, <3>1 DEF LatchesOK
    <3>3. delay[to] + 1 \in 1 .. delay[to] + 1 /\ delay[to] + 1 # 1
      BY StageConstants
    <3>4. QED
      BY <1>4, <3>1, <3>2, <3>3, Zenon
  <2>3. ASSUME evaluating'.stage \in DOMAIN nextStage, evaluating'.tid \in Thread
        PROVE  canReserve(nextStage[evaluating.stage], evaluating.tid)'
    <3>1. tid \in ready(s)
      BY <1>3, <2>3, ThreadNumbers
    <3>2. s # "execute" /\ canReserve(nextStage[s], tid)
      BY <3>1 DEF ready
    <3>3. nextStage[s] \in Stage \ {s}
      BY <3>2 DEF nextStage, Stage
    <3>4. canReserve(nextStage[s], tid)'
      BY <1>4, <3>2, <3>3 DEF canReserve
    <3>5. QED
      BY <1>3, <3>4
  <2>4. QED
    BY <2>1, <2>2, <2>3 DEF LatchesOK
<1>11. ActivityOK'
  <2>1. ASSUME NEW r \in Stage, NEW k \in DOMAIN latch'[r], latch'[r][k] # bubble
        PROVE  k <= activity'
    <3>1. k \in 1 .. delay[r] + 1 /\ k \in DOMAIN latch[r]
      BY <1>4, LatchDomain, LatchDomainNext, Zenon
    <3>2. latch[r][k] # bubble
      BY <1>4, <2>1, <3>1, Zenon
    <3>3. QED
      BY <1>1, <3>1, <3>2, Zenon DEF ActivityOK
  <2>2. ASSUME NEW r \in ended' \ {"fetch2"}, worksOn(r)'
        PROVE  r \in stageActive'
    <3>1. r = "executeDummy" /\ s = "decode" /\ r \in ended \ {"fetch2"}
      BY <1>8
    <3>2. /\ queue'["executeDummy"] = queue["executeDummy"]
          /\ queue'["execute"] = queue["execute"]
          /\ numReservedSlots'["execute"] = numReservedSlots["execute"]
      BY <1>4, <3>1 DEF Stage
    <3>3. worksOn("executeDummy")
      BY <2>2, <3>1, <3>2, Zenon DEF worksOn, canReserve, nextStage
    <3>4. QED
      BY <1>1, <3>1, <3>3 DEF ActivityOK
  <2>3. QED
    BY <1>1, <1>9, <2>1, <2>2 DEF ActivityOK
<1>12. DrainOK'
  <2> SUFFICES ASSUME drained'
               PROVE  /\ ~fetching' /\ evaluating'.out = <<>>
                      /\ \A r \in Stage : isEmpty(r)'
                      /\ \A r \in Stage, t \in Thread : queue'[r][t] = <<>>
    BY DEF DrainOK
  <2>1. drained /\ ~fetching' /\ evaluating'.out = <<>>
    BY <1>1, <1>3 DEF DrainOK
  <2>2. latch[s][1] = bubble
    <3>1. 1 \in DOMAIN latch[s]
      BY LatchDomain, StageConstants
    <3>2. QED
      BY <2>1, <3>1 DEF DrainOK, isEmpty
  <2>3. UNCHANGED <<latch, queue>>
    BY <1>1, <2>2 DEF pushTail
  <2>4. QED
    BY <2>1, <2>3 DEF DrainOK, isEmpty
<1>13. StopsOnlyIdle'
  BY <1>1, <1>9 DEF StopsOnlyIdle
<1>14. QED
  BY <1>4, <1>5, <1>7, <1>10, <1>11, <1>12, <1>13

\* A stage that is packing instructions takes input and adds to its output.
LEMMA PackingOK ==
    ASSUME IInv, NEW s \in Stage, NEW t \in Thread, packing(s, t),
           NEW insts, NEW m \in BOOLEAN,
           IF s = "execute" THEN insts = <<>> ELSE insts \in Seq(Item(nextStage[s])),
           evaluating' = [evaluating EXCEPT !.out = @ \o insts, !.more = m],
           QueueShape', IndexOK',
           \A r \in Stage \ {s} : queue'[r] = queue[r],
           \A u \in Thread : Len(queue'[s][u]) <= Len(queue[s][u]),
           microopPC' \in [Thread -> Nat], execSeqNum' \in [Thread -> Nat],
           UNCHANGED <<fetched, latch, numReservedSlots, idleVars>>
    PROVE  IInv'
<1> USE DEF IInv
<1>1. /\ evaluating.stage = s /\ evaluating.started /\ queue[s][t] # <<>>
      /\ s # "execute" => evaluating.tid = t
  BY DEF packing
<1>2. UNCHANGED <<fetched, latch, numReservedSlots, activity, stageActive,
                  running, needToSignalDrained, fetching, drained>>
  BY DEF idleVars
<1>3. /\ evaluating'.stage = s /\ evaluating'.started = TRUE
      /\ evaluating'.tid = evaluating.tid /\ evaluating'.more = m
      /\ evaluating'.out = evaluating.out \o insts
      /\ evaluating' = [stage |-> evaluating'.stage, started |-> evaluating'.started,
             tid |-> evaluating'.tid, out |-> evaluating'.out,
             more |-> evaluating'.more]
  BY <1>1, Zenon DEF LocalsOK
<1>4. CountersOK' /\ LatchShape'
  BY <1>2, Zenon DEF CountersOK, LatchShape
<1>5. LocalsOK'
  <2>1. CASE s = "execute"
    <3>1. evaluating.out = <<>> /\ insts = <<>>
      BY <1>1, <2>1 DEF LocalsOK, nextStage
    <3>2. evaluating'.out = <<>>
      BY <1>3, <3>1
    <3>3. QED
      BY <1>1, <1>3, <2>1, <3>2 DEF LocalsOK, nextStage, Evaluated
  <2>2. CASE s # "execute"
    <3>1. s \in {"decode", "executeDummy"} /\ s \in DOMAIN nextStage
      BY <2>2 DEF Stage, nextStage
    <3>2. evaluating.out \in Seq(Item(nextStage[s]))
      BY <1>1, <3>1 DEF LocalsOK
    <3>3. evaluating'.out \in Seq(Item(nextStage[s]))
      BY <1>3, <2>2, <3>2, ConcatProperties
    <3>4. nextStage[s] \in {"executeDummy", "execute"}
      BY <3>1 DEF nextStage
    <3>5. evaluating'.out \in Seq(Item("executeDummy")) \cup Seq(Item("execute"))
      BY <3>3, <3>4
    <3>6. evaluating' \in [stage : Evaluated, started : BOOLEAN,
                           tid : Thread \cup {none},
                           out : Seq(Item("executeDummy")) \cup Seq(Item("execute")),
                           more : BOOLEAN]
      BY <1>1, <1>3, <3>1, <3>5, Zenon DEF LocalsOK, Evaluated
    <3>7. QED
      BY <1>1, <1>3, <2>2, <3>1, <3>3, <3>6 DEF LocalsOK, Evaluated
  <2>3. QED
    BY <2>1, <2>2
<1>6. begun' = begun /\ ended' = ended
  BY <1>1, <1>3, Zenon DEF begun, ended
<1>7. LatchesOK'
  <2>1. ASSUME s \in DOMAIN nextStage, evaluating.tid \in Thread
        PROVE  canReserve(nextStage[s], evaluating.tid)'
    <3>1. canReserve(nextStage[s], evaluating.tid)
      BY <1>1, <2>1 DEF LatchesOK
    <3>2. nextStage[s] \in Stage \ {s}
      BY <2>1 DEF nextStage, Stage
    <3>3. QED
      BY <1>2, <1>3, <3>1, <3>2 DEF canReserve
  <2>2. QED
    BY <1>2, <1>3, <1>6, <2>1 DEF LatchesOK
<1>8. ActivityOK'
  <2>1. ASSUME NEW r \in ended' \ {"fetch2"}, worksOn(r)'
        PROVE  r \in stageActive'
    <3>1. r = "executeDummy" /\ s = "decode" /\ r \in ended \ {"fetch2"}
      BY <1>1, <1>6, <2>1 DEF ended, Stage
    <3>2. /\ queue'["executeDummy"] = queue["executeDummy"]
          /\ queue'["execute"] = queue["execute"]
      BY <3>1, Zenon DEF Stage
    <3>3. worksOn("executeDummy")
      BY <1>2, <2>1, <3>1, <3>2 DEF worksOn, canReserve, nextStage
    <3>4. QED
      BY <1>2, <3>1, <3>3 DEF ActivityOK
  <2>2. evaluating.stage # "between"
    BY <1>1 DEF Stage
  <2>3. QED
    BY <1>2, <2>1, <2>2 DEF ActivityOK
<1>9. ~drained
  BY <1>1 DEF DrainOK
<1>10. DrainOK'
  BY <1>2, <1>9 DEF DrainOK
<1>11. ReservationsExact'
  <2> SUFFICES ASSUME NEW r \in Stage, NEW u \in Thread
               PROVE  /\ numReservedSlots'[r][u] = Cardinality(inLatch(r, u)')
                      /\ Len(queue'[r][u]) + numReservedSlots'[r][u] <= capacity[r]
    BY DEF ReservationsExact
  <2>1. inLatch(r, u)' = inLatch(r, u)
    BY <1>2 DEF inLatch
  <2>2. /\ numReservedSlots[r][u] = Cardinality(inLatch(r, u))
        /\ Len(queue[r][u]) + numReservedSlots[r][u] <= capacity[r]
    BY DEF ReservationsExact
  <2>3. /\ Len(queue'[r][u]) \in Nat /\ Len(queue[r][u]) \in Nat
        /\ numReservedSlots[r][u] \in Nat /\ capacity[r] \in Nat
    BY StageConstants DEF QueueShape
  <2>4. Len(queue'[r][u]) <= Len(queue[r][u])
    BY <2>3
  <2>5. numReservedSlots'[r][u] = Cardinality(inLatch(r, u)')
    BY <1>2, <2>1, <2>2, Zenon
  <2>6. numReservedSlots'[r][u] = numReservedSlots[r][u]
    BY <1>2, Zenon
  <2>7. Len(queue'[r][u]) + numReservedSlots[r][u] <= capacity[r]
    BY <2>2, <2>3, <2>4, SumBound, Zenon
  <2>8. QED
    BY <2>5, <2>6, <2>7, Zenon
<1>12. StopsOnlyIdle'
  BY <1>1, <1>2 DEF StopsOnlyIdle, ActivityOK, Stage
<1>13. QED
  BY <1>4, <1>5, <1>7, <1>8, <1>10, <1>11, <1>12

\* The next instruction of a stage is one that it was sent, or a bubble.
LEMMA NextInst ==
    ASSUME QueueShape, IndexOK, NEW s \in Stage, NEW t \in Thread,
           queue[s][t] # <<>>
    PROVE  /\ Head(queue[s][t]) \in Group(s)
           /\ Len(Head(queue[s][t])) \in Nat \ {0}
           /\ inputIndex[s][t] \in 1 .. Len(Head(queue[s][t]))
           /\ nextInst(s, t) \in Item(s) \cup {bubble}
<1>1. queue[s][t] \in Seq(Group(s))
  BY DEF QueueShape
<1>2. Head(queue[s][t]) \in Group(s)
  BY <1>1, HeadTailProperties
<1>3. Len(Head(queue[s][t])) \in Nat \ {0}
  BY <1>2 DEF Group
<1>4. inputIndex[s][t] \in 1 .. Len(Head(queue[s][t]))
  BY DEF IndexOK
<1>5. nextInst(s, t) \in Item(s) \cup {bubble}
  <2>1. Head(queue[s][t]) \in Seq(Item(s) \cup {bubble})
    BY <1>2 DEF Group
  <2>2. QED
    BY <1>4, <2>1, ElementOfSeq DEF nextInst
<1>6. QED
  BY <1>2, <1>3, <1>4, <1>5

\* The loops of the stages step past an instruction.
LEMMA StepInputOK ==
    ASSUME IInv, NEW s \in Stage, NEW t \in Thread, packing(s, t),
           NEW insts,
           IF s = "execute" THEN insts = <<>> ELSE insts \in Seq(Item(nextStage[s])),
           stepInput(s, t, insts),
           microopPC' \in [Thread -> Nat], execSeqNum' \in [Thread -> Nat]
    PROVE  IInv'
<1> USE DEF IInv
<1> DEFINE ends == inputIndex[s][t] = Len(Head(queue[s][t]))
<1>1. queue[s][t] # <<>>
  BY DEF packing
<1>2. /\ inputIndex' = [inputIndex EXCEPT ![s][t] = IF ends THEN 1 ELSE @ + 1]
      /\ queue' = [queue EXCEPT ![s][t] = IF ends THEN Tail(@) ELSE @]
      /\ evaluating' = [evaluating EXCEPT
            !.out = @ \o insts, !.more = ends => processMoreThanOneInput[s]]
      /\ UNCHANGED <<fetched, latch, numReservedSlots, idleVars>>
  BY DEF stepInput
<1>3. /\ Head(queue[s][t]) \in Group(s)
      /\ Len(Head(queue[s][t])) \in Nat \ {0}
      /\ inputIndex[s][t] \in 1 .. Len(Head(queue[s][t]))
  BY <1>1, NextInst
<1>4. PICK m \in BOOLEAN : m = (ends => processMoreThanOneInput[s])
  BY Zenon
<1>5. PICK i \in Nat : i = IF ends THEN 1 ELSE inputIndex[s][t] + 1
  BY <1>3
<1>6. queue[s][t] \in Seq(Group(s))
  BY DEF QueueShape
<1>7. PICK q \in Seq(Group(s)) :
         /\ q = IF ends THEN Tail(queue[s][t]) ELSE queue[s][t]
         /\ Len(q) <= Len(queue[s][t])
  <2>1. /\ Tail(queue[s][t]) \in Seq(Group(s))
        /\ Len(Tail(queue[s][t])) = Len(queue[s][t]) - 1
        /\ Len(queue[s][t]) \in Nat
    BY <1>1, <1>6, HeadTailProperties
  <2> HIDE DEF ends
  <2>2. CASE ends
    <3>1. PICK q : q = Tail(queue[s][t])
      BY Zenon
    <3>2. q \in Seq(Group(s)) /\ Len(q) <= Len(queue[s][t])
      BY <2>1, <3>1
    <3>3. QED
      BY <2>2, <3>1, <3>2, Zenon
  <2>3. CASE ~ends
    BY <1>6, <2>1, <2>3
  <2>4. QED
    BY <2>2, <2>3
<1>8. inputIndex' = [inputIndex EXCEPT ![s][t] = i]
  BY <1>2, <1>5
<1>9. queue' = [queue EXCEPT ![s][t] = q]
  BY <1>2, <1>7
<1>10. /\ queue'[s][t] = q /\ queue' = [r \in Stage |-> [u \in Thread |-> queue'[r][u]]]
       /\ \A u \in Thread \ {t} : queue'[s][u] = queue[s][u]
       /\ \A r \in Stage \ {s} : queue'[r] = queue[r]
  BY <1>9, Zenon DEF QueueShape
<1>11. QueueShape'
  BY <1>2, <1>7, <1>10 DEF QueueShape
<1>12. i \in 1 .. IF q = <<>> THEN 1 ELSE Len(Head(q))
  <2>1. CASE ends
    <3>1. i = 1
      BY <1>5, <2>1
    <3>2. ASSUME q # <<>>
          PROVE  Len(Head(q)) \in Nat \ {0}
      <4>1. Head(q) \in Group(s)
        BY <3>2, HeadTailProperties
      <4>2. QED
        BY <4>1 DEF Group
    <3>3. QED
      BY <3>1, <3>2
  <2>2. CASE ~ends
    <3>1. q = queue[s][t] /\ i = inputIndex[s][t] + 1
      BY <1>5, <1>7, <2>2, Zenon
    <3>2. inputIndex[s][t] + 1 \in 1 .. Len(Head(queue[s][t]))
      BY <1>3, <2>2
    <3>3. QED
      BY <1>1, <3>1, <3>2, Zenon
  <2>3. QED
    BY <2>1, <2>2
<1>13. IndexOK'
  <2>1. /\ inputIndex'[s][t] = i
        /\ \A u \in Thread \ {t} : inputIndex'[s][u] = inputIndex[s][u]
        /\ \A r \in Stage \ {s} : inputIndex'[r] = inputIndex[r]
        /\ inputIndex' \in [Stage -> [Thread -> Nat]]
    BY <1>8 DEF IndexOK
  <2>2. ASSUME NEW r \in Stage, NEW u \in Thread
        PROVE  inputIndex'[r][u] \in 1 .. IF queue'[r][u] = <<>> THEN 1
                                          ELSE Len(Head(queue'[r][u]))
    <3>1. CASE r = s /\ u = t
      BY <1>10, <1>12, <2>1, <3>1
    <3>2. CASE ~(r = s /\ u = t)
      <4>1. inputIndex'[r][u] = inputIndex[r][u] /\ queue'[r][u] = queue[r][u]
        BY <1>10, <2>1, <3>2
      <4>2. QED
        BY <4>1 DEF IndexOK
    <3>3. QED
      BY <3>1, <3>2
  <2>3. QED
    BY <2>1, <2>2 DEF IndexOK
<1>14. \A u \in Thread : Len(queue'[s][u]) <= Len(queue[s][u])
  <2>1. \A u \in Thread : Len(queue[s][u]) \in Nat
    BY DEF QueueShape
  <2>2. Len(queue'[s][t]) <= Len(queue[s][t])
    BY <1>7, <1>10
  <2>3. \A u \in Thread \ {t} : Len(queue'[s][u]) <= Len(queue[s][u])
    BY <1>10, <2>1
  <2>4. QED
    BY <2>2, <2>3
<1>15. evaluating' = [evaluating EXCEPT !.out = @ \o insts, !.more = m]
  BY <1>2, <1>4
<1>16. QED
  BY <1>2, <1>10, <1>11, <1>13, <1>14, <1>15, PackingOK, Zenon

\* The micro-op that Decode makes next.
LEMMA Microop ==
    ASSUME IInv, NEW t \in Thread, packing("decode", t),
           nextInst("decode", t) # bubble
    PROVE  <<microop(t)>> \in Seq(Item(nextStage["decode"]))
<1>1. nextInst("decode", t) \in [num : Nat, uops : Nat]
  <2>1. "decode" \in Stage /\ queue["decode"][t] # <<>>
    BY DEF packing, Stage
  <2>2. nextInst("decode", t) \in Item("decode")
    BY <2>1, NextInst DEF IInv
  <2>3. QED
    BY <2>2 DEF Item
<1>2. microopPC[t] + 1 \in Nat
  BY DEF IInv, CountersOK
<1>3. microop(t) \in [num : Nat, uop : Nat]
  BY <1>1, <1>2 DEF microop
<1>4. nextStage["decode"] = "executeDummy"
  BY DEF nextStage
<1>5. microop(t) \in Item(nextStage["decode"])
  BY <1>3, <1>4 DEF Item
<1>6. QED
  BY <1>5

\* Decode makes a micro-op of a macro-op that has more of them.
LEMMA DecomposeOK ==
    ASSUME IInv, NEW t \in Thread, Decompose(t)
    PROVE  IInv'
<1> DEFINE insts == <<microop(t)>>
<1>1. /\ "decode" \in Stage /\ packing("decode", t)
      /\ insts \in Seq(Item(nextStage["decode"]))
  BY Microop DEF Decompose, Stage
<1>2. UNCHANGED <<fetched, latch, queue, numReservedSlots, inputIndex, execSeqNum,
                  idleVars>>
  BY DEF Decompose
<1>3. microopPC' \in [Thread -> Nat] /\ execSeqNum' \in [Thread -> Nat]
  BY DEF Decompose, IInv, CountersOK
<1>4. QueueShape' /\ IndexOK'
  BY <1>2 DEF IInv, QueueShape, IndexOK
<1>5. /\ \A r \in Stage \ {"decode"} : queue'[r] = queue[r]
      /\ \A u \in Thread : Len(queue'["decode"][u]) <= Len(queue["decode"][u])
  <2>1. \A u \in Thread : Len(queue["decode"][u]) \in Nat
    BY <1>1 DEF IInv, QueueShape
  <2>2. QED
    BY <1>2, <2>1
<1>6. /\ evaluating.more = TRUE
      /\ evaluating.out \in Seq(Item(nextStage["decode"]))
      /\ evaluating = [evaluating EXCEPT !.more = evaluating.more]
  BY <1>1 DEF packing, IInv, LocalsOK
<1>7. Append(evaluating.out, microop(t)) = evaluating.out \o insts
  BY <1>1, <1>6, AppendIsConcat
<1>8. evaluating' = [evaluating EXCEPT !.out = Append(@, microop(t))]
  BY DEF Decompose
<1> HIDE DEF insts
<1>9. evaluating' = [evaluating EXCEPT !.out = @ \o insts, !.more = TRUE]
  BY <1>6, <1>7, <1>8, Zenon DEF IInv, LocalsOK
<1>10. QED
  BY <1>1, <1>2, <1>3, <1>4, <1>5, <1>9, PackingOK, Zenon

\* The other steps of the loops: bubbles are skipped, and instructions decoded,
\* numbered and taken.
LEMMA LoopsOK ==
    ASSUME IInv, NEW t \in Thread,
           \/ \E s \in Stage : SkipBubble(s, t)
           \/ DecodeInst(t) \/ PassInst(t) \/ TakeInst(t)
    PROVE  IInv'
<1>1. ASSUME NEW s \in Stage, SkipBubble(s, t)
      PROVE  IInv'
  <2>1. packing(s, t) /\ stepInput(s, t, <<>>) /\ UNCHANGED <<microopPC, execSeqNum>>
    BY <1>1 DEF SkipBubble
  <2>2. microopPC' \in [Thread -> Nat] /\ execSeqNum' \in [Thread -> Nat]
    BY <2>1 DEF IInv, CountersOK
  <2>3. <<>> \in Seq(Item(nextStage[s]))
    BY EmptySeq
  <2>4. QED
    BY <2>1, <2>2, <2>3, StepInputOK, Zenon
<1>2. CASE DecodeInst(t)
  <2>1. /\ "decode" \in Stage /\ packing("decode", t)
        /\ stepInput("decode", t, <<microop(t)>>)
        /\ <<microop(t)>> \in Seq(Item(nextStage["decode"]))
    BY <1>2, Microop DEF DecodeInst, Stage
  <2>2. microopPC' \in [Thread -> Nat] /\ execSeqNum' \in [Thread -> Nat]
    BY <1>2 DEF DecodeInst, IInv, CountersOK
  <2>3. QED
    BY <2>1, <2>2, StepInputOK, Zenon
<1>3. CASE PassInst(t)
  <2>1. PICK x : x = [inst |-> nextInst("executeDummy", t),
                      execSeqNum |-> execSeqNum'[t]]
    BY Zenon
  <2>2. /\ "executeDummy" \in Stage /\ packing("executeDummy", t)
        /\ nextInst("executeDummy", t) # bubble
        /\ stepInput("executeDummy", t, <<x>>)
    BY <1>3, <2>1 DEF PassInst, Stage
  <2>3. microopPC' \in [Thread -> Nat] /\ execSeqNum' \in [Thread -> Nat]
    BY <1>3 DEF PassInst, IInv, CountersOK
  <2>4. nextInst("executeDummy", t) \in Item("executeDummy")
    <3>1. queue["executeDummy"][t] # <<>>
      BY <2>2 DEF packing
    <3>2. QED
      BY <2>2, <3>1, NextInst, Zenon DEF IInv
  <2>5. x \in Item("execute")
    BY <2>1, <2>3, <2>4 DEF Item
  <2>6. nextStage["executeDummy"] = "execute"
    BY DEF nextStage
  <2>7. <<x>> \in Seq(Item(nextStage["executeDummy"]))
    BY <2>5, <2>6
  <2>8. QED
    BY <2>2, <2>3, <2>7, StepInputOK, Zenon
<1>4. CASE TakeInst(t)
  <2>1. /\ "execute" \in Stage /\ packing("execute", t)
        /\ stepInput("execute", t, <<>>)
    BY <1>4 DEF TakeInst, Stage
  <2>2. microopPC' \in [Thread -> Nat] /\ execSeqNum' \in [Thread -> Nat]
    BY <1>4 DEF TakeInst, IInv, CountersOK
  <2>3. QED
    BY <2>1, <2>2, StepInputOK
<1>5. QED
  BY <1>1, <1>2, <1>3, <1>4

\* A stage ends with output, for which it has room, or without.
Sends(s) ==
    /\ s \in DOMAIN nextStage /\ ~drained
    /\ \E t \in Thread, insts \in Seq(Item(nextStage[s])) :
         send(s, t, insts) /\ canReserve(nextStage[s], t)
SendsNothing == UNCHANGED <<latch, numReservedSlots, activity>>

\* The end of the evaluation of a stage, in which it sends something or nothing.
LEMMA EndsOK ==
    ASSUME IInv, NEW s \in Stage \cup {"fetch2"}, evaluating.stage = s,
           s \in Stage => evaluating.started,
           Sends(s) \/ SendsNothing,
           NEW next,
           next = IF s = "fetch2" THEN "idle" ELSE evaluatedNext[s],
           evaluating' = at(next),
           fetched' \in [Thread -> Nat],
           stageActive \subseteq stageActive',
           stageActive' \subseteq stageActive \cup ({s} \cap {"decode", "executeDummy"}),
           s \in Stage \ {"execute"} /\ worksOn(s)' => s \in stageActive',
           UNCHANGED <<queue, inputIndex, microopPC, execSeqNum, running, fetching,
                       drained>>
    PROVE  IInv'
<1> USE DEF IInv
<1>1. /\ begun' = begun
      /\ ended' = ended \cup ({s} \cap DOMAIN nextStage)
      /\ s \notin ended
  <2>1. evaluating'.stage = next /\ evaluating'.started = FALSE
    BY DEF at
  <2>2. CASE s = "execute"
    BY <2>1, <2>2 DEF begun, ended, evaluatedNext, nextStage
  <2>3. CASE s = "executeDummy"
    BY <2>1, <2>3 DEF begun, ended, evaluatedNext, nextStage, Stage
  <2>4. CASE s = "decode"
    BY <2>1, <2>4 DEF begun, ended, evaluatedNext, nextStage, Stage
  <2>5. CASE s = "fetch2"
    BY <2>1, <2>5 DEF begun, ended, nextStage
  <2>6. QED
    BY <2>2, <2>3, <2>4, <2>5 DEF Stage
<1>2. /\ LatchShape' /\ QueueShape' /\ ReservationsExact'
      /\ activity' \in 0 .. longestLatency + 1
      /\ \A r \in Stage : \A j \in 1 .. delay[r] + 1 :
           latch'[r][j] # bubble => j <= activity'
      /\ \A r \in Stage : \A j \in 1 .. delay[r] + 1 :
           latch'[r][j] = latch[r][j]
             \/ (s \in DOMAIN nextStage /\ r = nextStage[s] /\ j = delay[r] + 1)
      /\ \A r \in Stage : numReservedSlots'[r] = numReservedSlots[r]
             \/ (s \in DOMAIN nextStage /\ r = nextStage[s])
      /\ drained => UNCHANGED latch
  <2>1. CASE SendsNothing
    <3> USE <2>1 DEF SendsNothing
    <3>1. LatchShape'
      BY <2>1, Zenon DEF LatchShape
    <3>2. QueueShape'
      BY <2>1, Zenon DEF QueueShape
    <3>3. \A r \in Stage, u \in Thread : inLatch(r, u)' = inLatch(r, u)
      BY <2>1 DEF inLatch
    <3>4. ReservationsExact'
      BY <2>1, <3>3, Zenon DEF ReservationsExact
    <3>5. activity' \in 0 .. longestLatency + 1
      BY <2>1, Zenon DEF CountersOK
    <3>6. \A r \in Stage : \A j \in 1 .. delay[r] + 1 :
             latch'[r][j] # bubble => j <= activity'
      BY <2>1, LatchDomain, Zenon DEF ActivityOK
    <3>7. QED
      BY <2>1, <3>1, <3>2, <3>4, <3>5, <3>6, Zenon
  <2>2. ASSUME s \in DOMAIN nextStage, ~drained,
               NEW t \in Thread, NEW insts \in Seq(Item(nextStage[s])),
               send(s, t, insts), canReserve(nextStage[s], t)
        PROVE  /\ LatchShape' /\ QueueShape' /\ ReservationsExact'
               /\ activity' = longestLatency + 1
               /\ \A r \in Stage : \A j \in 1 .. delay[r] + 1 :
                    r # nextStage[s] \/ j # delay[r] + 1 =>
                        latch'[r][j] = latch[r][j]
               /\ \A r \in Stage \ {nextStage[s]} :
                    numReservedSlots'[r] = numReservedSlots[r]
    <3>1. latch[nextStage[s]][delay[nextStage[s]] + 1] = bubble
      BY <1>1, <2>2, Zenon DEF LatchesOK
    <3>2. QED
      BY <2>2, <3>1, Sending, Zenon
  <2>3. CASE Sends(s)
    <3>1. s \in DOMAIN nextStage /\ ~drained
      BY <2>3, Zenon DEF Sends
    <3>2. /\ LatchShape' /\ QueueShape' /\ ReservationsExact'
          /\ activity' = longestLatency + 1
          /\ \A r \in Stage : \A j \in 1 .. delay[r] + 1 :
               r # nextStage[s] \/ j # delay[r] + 1 =>
                   latch'[r][j] = latch[r][j]
          /\ \A r \in Stage \ {nextStage[s]} :
               numReservedSlots'[r] = numReservedSlots[r]
      BY <2>2, <2>3, Zenon DEF Sends
    <3>3. \A r \in Stage : \A j \in 1 .. delay[r] + 1 : j <= activity'
      BY <3>2, LatchWithinActivity, Zenon
    <3>4. activity' \in 0 .. longestLatency + 1
      BY <3>2, LongestLatency
    <3>5. QED
      BY <3>1, <3>2, <3>3, <3>4
  <2>4. QED
    BY <2>1, <2>3
<1>3. CountersOK'
  BY <1>2 DEF CountersOK, Stage
<1>4. IndexOK'
  BY DEF IndexOK
<1>5. LocalsOK'
  BY DEF LocalsOK, at, Evaluated, evaluatedNext, nextStage, Stage
<1>6. LatchesOK'
  <2>1. ASSUME NEW r \in begun'
        PROVE  latch'[r][1] = bubble
    <3>1. r \in Stage /\ latch[r][1] = bubble
      BY <1>1, <2>1, Zenon DEF LatchesOK, begun, Stage
    <3>2. 1 \in 1 .. delay[r] + 1 /\ 1 # delay[r] + 1
      BY <3>1, StageConstants
    <3>3. QED
      BY <1>2, <3>1, <3>2, Zenon
  <2>2. ASSUME NEW r \in DOMAIN nextStage \ ended'
        PROVE  latch'[nextStage[r]][delay[nextStage[r]] + 1] = bubble
    <3>1. /\ r \in DOMAIN nextStage \ ended /\ nextStage[r] \in Stage
          /\ s \in DOMAIN nextStage => nextStage[r] # nextStage[s]
      <4>1. r \in DOMAIN nextStage /\ r \notin ended
              /\ (s \in DOMAIN nextStage => r # s)
        BY <1>1, <2>2
      <4>2. \A x, y \in DOMAIN nextStage :
               nextStage[x] \in Stage /\ (x # y => nextStage[x] # nextStage[y])
        BY DEF nextStage, Stage
      <4>3. QED
        BY <4>1, <4>2
    <3>2. latch[nextStage[r]][delay[nextStage[r]] + 1] = bubble
      BY <3>1, Zenon DEF LatchesOK
    <3>3. QED
      BY <1>2, <3>1, <3>2, StageConstants
  <2>3. evaluating'.tid \notin Thread
    BY ThreadNumbers DEF at
  <2>4. QED
    BY <2>1, <2>2, <2>3, Zenon DEF LatchesOK
<1>7. running
  BY DEF ActivityOK, Stage
<1>8. ActivityOK'
  <2>1. \A r \in Stage : \A k \in DOMAIN latch'[r] :
           latch'[r][k] # bubble => k <= activity'
    BY <1>2, LatchDomainNext, Zenon
  <2>2. ASSUME NEW r \in ended' \ {"fetch2"}, worksOn(r)'
        PROVE  r \in stageActive'
    <3>1. CASE r = s
      BY <1>1, <2>2, <3>1 DEF nextStage, Stage, ended
    <3>2. CASE r # s
      <4>1. /\ r \in ended \ {"fetch2"}
            /\ \/ r = "executeDummy" /\ s \in {"decode", "fetch2"}
               \/ r = "decode" /\ s = "fetch2"
        <5>1. r \in ended \ {"fetch2"}
          BY <1>1, <2>2, <3>2
        <5>2. /\ s = "decode" => ended = {"executeDummy"}
              /\ s = "fetch2" => ended = {"executeDummy", "decode"}
              /\ s \notin {"decode", "fetch2"} => ended = {}
          BY DEF ended, Stage
        <5>3. QED
          BY <5>1, <5>2
      <4>2. r \in DOMAIN nextStage /\ nextStage[r] \in Stage
              /\ s \in DOMAIN nextStage /\ nextStage[r] # nextStage[s]
        BY <4>1 DEF nextStage, Stage
      <4>3. numReservedSlots'[nextStage[r]] = numReservedSlots[nextStage[r]]
        BY <1>2, <4>2
      <4>4. worksOn(r)
        BY <2>2, <4>3, Zenon DEF worksOn, canReserve
      <4>5. QED
        BY <4>1, <4>4 DEF ActivityOK
    <3>3. QED
      BY <3>1, <3>2
  <2>3. QED
    BY <1>7, <2>1, <2>2 DEF ActivityOK
<1>9. DrainOK'
  <2>1. evaluating'.out = <<>>
    BY DEF at
  <2>2. ASSUME drained
        PROVE  /\ ~fetching /\ (\A r \in Stage : isEmpty(r)')
               /\ \A r \in Stage, t \in Thread : queue[r][t] = <<>>
    <3>1. UNCHANGED latch
      BY <1>2, <2>2, Zenon
    <3>2. \A r \in Stage : isEmpty(r)' = isEmpty(r)
      BY <3>1, Zenon DEF isEmpty
    <3>3. QED
      BY <2>2, <3>2, Zenon DEF DrainOK
  <2>3. QED
    BY <2>1, <2>2, Zenon DEF DrainOK
<1>10. StopsOnlyIdle'
  BY <1>7 DEF StopsOnlyIdle
<1>11. QED
  BY <1>2, <1>3, <1>4, <1>5, <1>6, <1>8, <1>9, <1>10, Zenon

\* The end of the evaluation of a stage.
LEMMA EndStageOK ==
    ASSUME IInv, NEW s \in Stage, EndStage(s)
    PROVE  IInv'
<1>1. /\ evaluating.stage = s /\ evaluating.started
      /\ IF evaluating.out # <<>> THEN send(s, evaluating.tid, evaluating.out)
         ELSE UNCHANGED <<latch, numReservedSlots, activity>>
      /\ stageActive' = IF s # "execute" /\ worksOn(s)' THEN stageActive \cup {s}
                        ELSE stageActive
      /\ evaluating' = at(evaluatedNext[s])
      /\ UNCHANGED <<queue, fetched, inputIndex, microopPC, execSeqNum, running,
                     fetching, drained>>
  BY DEF EndStage
<1>2. /\ stageActive \subseteq stageActive'
      /\ stageActive' \subseteq stageActive \cup ({s} \cap {"decode", "executeDummy"})
      /\ s \in Stage \ {"execute"} /\ worksOn(s)' => s \in stageActive'
  BY <1>1, Zenon DEF Stage
<1>3. fetched' \in [Thread -> Nat]
  BY <1>1, Zenon DEF IInv, CountersOK
<1>4. Sends(s) \/ SendsNothing
  <2>1. CASE evaluating.out = <<>>
    BY <1>1, <2>1, Zenon DEF SendsNothing
  <2>2. CASE evaluating.out # <<>>
    <3>1. /\ s \in DOMAIN nextStage /\ ~drained /\ evaluating.tid \in Thread
          /\ canReserve(nextStage[s], evaluating.tid)
      BY <1>1, <2>2, Zenon DEF IInv, LocalsOK, DrainOK, LatchesOK
    <3>2. evaluating.out \in Seq(Item(nextStage[s]))
      BY <1>1, <3>1, Zenon DEF IInv, LocalsOK, Stage, nextStage
    <3>3. send(s, evaluating.tid, evaluating.out)
      BY <1>1, <2>2
    <3>4. QED
      BY <3>1, <3>2, <3>3, Zenon DEF Sends
  <2>3. QED
    BY <2>1, <2>2, Zenon
<1>5. PICK next : /\ next = IF s = "fetch2" THEN "idle" ELSE evaluatedNext[s]
                  /\ evaluating' = at(next)
  BY <1>1 DEF Stage
<1>6. QED
  BY <1>1, <1>2, <1>3, <1>4, <1>5, EndsOK, Zenon

\* Fetch2 sends a group, if it has one and Decode has room for it.
LEMMA Fetch2OK ==
    ASSUME IInv,
           \/ \E t \in Thread, g \in Groups : Fetch2Sends(t, g)
           \/ Fetch2Waits
    PROVE  IInv'
<1> DEFINE s == "fetch2"
<1>1. /\ evaluating = at(s) /\ evaluating' = at("idle")
      /\ UNCHANGED <<queue, inputIndex, microopPC, execSeqNum, stageActive, running,
                     fetching, drained>>
  BY Zenon DEF Fetch2Sends, Fetch2Waits, pipeVars, idleVars
<1>2. s \in Stage \cup {"fetch2"} /\ s \notin Stage /\ evaluating.stage = s
  BY <1>1 DEF at, Stage
<1>3. fetched' \in [Thread -> Nat] /\ (Sends(s) \/ SendsNothing)
  <2>1. CASE Fetch2Waits
    BY <2>1 DEF Fetch2Waits, SendsNothing, pipeVars, idleVars, IInv, CountersOK
  <2>2. ASSUME NEW t \in Thread, NEW g \in Groups, Fetch2Sends(t, g)
        PROVE  fetched' \in [Thread -> Nat] /\ Sends(s)
    <3>1. g \in Seq(Nat \ {0}) /\ Len(g) \in Nat
      BY StagesAssumption
    <3>2. fetched[t] \in Nat
      BY DEF IInv, CountersOK
    <3>3. fetched' \in [Thread -> Nat]
      BY <2>2, <3>1 DEF Fetch2Sends, IInv, CountersOK
    <3>4. nextStage[s] = "decode" /\ s \in DOMAIN nextStage
      BY DEF nextStage
    <3>5. Item(nextStage[s]) = [num : Nat, uops : Nat]
      BY <3>4, Zenon DEF Item
    <3>6. PICK insts :
             insts = [k \in DOMAIN g |-> [num |-> fetched[t] + k, uops |-> g[k]]]
      BY Zenon
    <3>7. DOMAIN g = 1 .. Len(g) /\ \A k \in 1 .. Len(g) : g[k] \in Nat
      BY <3>1, ElementOfSeq
    <3>8. insts \in [1 .. Len(g) -> Item(nextStage[s])]
      <4>1. \A k \in 1 .. Len(g) :
               [num |-> fetched[t] + k, uops |-> g[k]] \in [num : Nat, uops : Nat]
        BY <3>1, <3>2, <3>7
      <4>2. QED
        BY <3>5, <3>6, <3>7, <4>1, Zenon
    <3>9. insts \in Seq(Item(nextStage[s]))
      BY <3>1, <3>8
    <3>10. send(s, t, insts) /\ canReserve(nextStage[s], t) /\ ~drained
      BY <2>2, <3>4, <3>6, Zenon DEF Fetch2Sends, IInv, DrainOK
    <3>11. QED
      BY <3>3, <3>4, <3>9, <3>10, Zenon DEF Sends
  <2>3. QED
    BY <2>1, <2>2
<1>4. PICK next : /\ next = IF s = "fetch2" THEN "idle" ELSE evaluatedNext[s]
                  /\ evaluating' = at(next)
  BY <1>1
<1> HIDE DEF s
<1>5. QED
  BY <1>1, <1>2, <1>3, <1>4, EndsOK

\* The end of a cycle of Pipeline::evaluate.
LEMMA EndCycleOK ==
    ASSUME IInv, NEW executeDrained \in BOOLEAN, EndCycle(executeDrained)
    PROVE  IInv'
<1> USE DEF IInv
<1> DEFINE l == IF activity = 0 THEN 0 ELSE activity - 1
           signal == needToSignalDrained /\ isDrained(latch', executeDrained)
<1>1. /\ evaluating = at("idle") /\ evaluating' = between
      /\ latch' = [s \in Stage |-> advanced(s)]
      /\ activity' = l /\ stageActive' = {}
      /\ drained' = (drained \/ signal)
      /\ UNCHANGED <<fetched, queue, numReservedSlots, inputIndex, microopPC,
                     execSeqNum, fetching>>
  BY DEF EndCycle
<1>2. running' = ~(signal \/ (l = 0 /\ stageActive = {} /\ ~needToSignalDrained))
  BY DEF EndCycle
<1>3. /\ \A s \in Stage : latch[s][1] = bubble
      /\ ended = {"executeDummy", "decode", "fetch2"}
  BY <1>1 DEF LatchesOK, begun, ended, at
<1>4. /\ LatchShape' /\ QueueShape' /\ ReservationsExact'
      /\ \A s \in Stage : \A k \in 1 .. delay[s] : latch'[s][k] = latch[s][k + 1]
      /\ \A s \in Stage : latch'[s][delay[s] + 1] = bubble
  BY <1>1, <1>3, Advancing
<1>5. begun' = {} /\ ended' = {} /\ evaluating'.stage = "between"
        /\ evaluating'.tid \notin Thread
  BY <1>1, ThreadNumbers DEF begun, ended, between, at
<1>6. CountersOK'
  <2>1. l \in 0 .. longestLatency + 1
    BY LongestLatency DEF CountersOK
  <2>2. QED
    BY <1>1, <2>1 DEF CountersOK
<1>7. IndexOK' /\ LocalsOK'
  BY <1>1, Zenon DEF IndexOK, LocalsOK, between, at, Evaluated, nextStage
<1>8. LatchesOK'
  <2>1. \A s \in DOMAIN nextStage : nextStage[s] \in Stage
    BY DEF nextStage, Stage
  <2>2. \A s \in DOMAIN nextStage : latch'[nextStage[s]][delay[nextStage[s]] + 1] = bubble
    BY <1>4, <2>1, Zenon
  <2>3. evaluating'.stage \notin DOMAIN nextStage
    BY <1>5 DEF nextStage
  <2>4. QED
    BY <1>5, <2>2, <2>3, Zenon DEF LatchesOK
<1>9. ASSUME NEW s \in Stage, NEW k \in DOMAIN latch'[s], latch'[s][k] # bubble
      PROVE  k <= activity'
  <2>1. k \in 1 .. delay[s] + 1 /\ k # delay[s] + 1
    BY <1>4, <1>9, LatchDomainNext, Zenon
  <2>2. k \in 1 .. delay[s] /\ k + 1 \in 1 .. delay[s] + 1
    BY <2>1, StageConstants
  <2>3. latch[s][k + 1] # bubble
    BY <1>4, <1>9, <2>2
  <2>4. k + 1 <= activity
    BY <2>2, <2>3, LatchDomain, Zenon DEF ActivityOK
  <2>5. k \in Nat /\ activity \in Nat
    BY <2>2, LongestLatency, StageConstants DEF CountersOK
  <2>6. QED
    BY <1>1, <2>4, <2>5
<1>10. ActivityOK'
  BY <1>5, <1>9 DEF ActivityOK
<1>11. ASSUME signal
       PROVE  /\ ~fetching
              /\ \A s \in Stage : isEmpty(s)'
              /\ \A s \in Stage, t \in Thread : queue[s][t] = <<>>
  BY <1>11 DEF isDrained, isEmpty
<1>12. DrainOK'
  <2>1. CASE drained
    <3>1. ASSUME NEW s \in Stage, NEW k \in DOMAIN latch'[s]
          PROVE  latch'[s][k] = bubble
      <4>1. k \in 1 .. delay[s] + 1
        BY <1>4, LatchDomainNext, Zenon
      <4>2. CASE k = delay[s] + 1
        BY <1>4, <4>2
      <4>3. CASE k # delay[s] + 1
        <5>1. k \in 1 .. delay[s] /\ k + 1 \in 1 .. delay[s] + 1
          BY <4>1, <4>3, StageConstants
        <5>2. latch[s][k + 1] = bubble
          BY <2>1, <5>1, LatchDomain, Zenon DEF DrainOK, isEmpty
        <5>3. QED
          BY <1>4, <5>1, <5>2
      <4>4. QED
        BY <4>2, <4>3
    <3>2. QED
      BY <1>1, <2>1, <3>1, Zenon DEF DrainOK, isEmpty, between, at
  <2>2. CASE signal
    BY <1>1, <1>11, <2>2, Zenon DEF DrainOK, between, at
  <2>3. QED
    BY <1>1, <2>1, <2>2, Zenon DEF DrainOK
<1>13. StopsOnlyIdle'
  <2> SUFFICES ASSUME ~running', NEW s \in Stage
               PROVE  isEmpty(s)' /\ (s # "execute" => ~worksOn(s)')
    BY DEF StopsOnlyIdle
  <2>1. CASE signal
    BY <1>1, <1>11, <2>1, Zenon DEF worksOn
  <2>2. CASE l = 0 /\ stageActive = {}
    <3>1. isEmpty(s)'
      <4>1. ASSUME NEW k \in DOMAIN latch'[s]
            PROVE  ~(k <= activity')
        <5>1. k \in 1 .. delay[s] + 1
          BY <1>4, LatchDomainNext, Zenon
        <5>2. activity' = 0
          BY <1>1, <2>2
        <5>3. QED
          BY <5>1, <5>2, StageConstants
      <4>2. QED
        BY <1>9, <4>1 DEF isEmpty
    <3>2. ASSUME s # "execute"
          PROVE  ~worksOn(s)'
      <4>1. ~worksOn(s)
        BY <1>3, <2>2, <3>2 DEF ActivityOK, Stage
      <4>2. QED
        BY <1>1, <4>1, Zenon DEF worksOn, canReserve
    <3>3. QED
      BY <3>1, <3>2
  <2>3. QED
    BY <1>2, <2>1, <2>2, Zenon
<1>14. QED
  BY <1>4, <1>6, <1>7, <1>8, <1>10, <1>12, <1>13

\* What happens between two cycles: wake-ups, drains, halts and resumptions.
LEMMA EventOK ==
    ASSUME IInv,
           \/ WakeupOnEvent
           \/ \E executeDrained \in BOOLEAN : Drain(executeDrained)
           \/ HaltFetch
           \/ DrainResume
    PROVE  IInv'
<1> USE DEF IInv
<1>1. /\ evaluating = between
      /\ UNCHANGED <<fetched, latch, queue, numReservedSlots, inputIndex, microopPC,
                     execSeqNum, evaluating, activity>>
  BY Zenon DEF WakeupOnEvent, Drain, HaltFetch, DrainResume, pipeVars
<1>2. stageActive' \subseteq stageActive \cup {"others"} /\ (running => running')
  <2>1. /\ stageActive' = stageActive \/ stageActive' = stageActive \cup {"others"}
        /\ running => running'
    <3>1. CASE WakeupOnEvent
      BY <3>1, Zenon DEF WakeupOnEvent
    <3>2. CASE \E executeDrained \in BOOLEAN : Drain(executeDrained)
      BY <3>2, Zenon DEF Drain
    <3>3. CASE HaltFetch
      BY <3>3, Zenon DEF HaltFetch
    <3>4. CASE DrainResume
      BY <3>4, Zenon DEF DrainResume
    <3>5. QED
      BY <3>1, <3>2, <3>3, <3>4, Zenon
  <2>2. QED
    BY <2>1
<1>3. ASSUME drained'
      PROVE  /\ ~fetching'
             /\ \A s \in Stage : isEmpty(s)
             /\ \A s \in Stage, t \in Thread : queue[s][t] = <<>>
  <2>1. CASE WakeupOnEvent
    BY <1>3, <2>1, Zenon DEF WakeupOnEvent, DrainOK
  <2>2. ASSUME NEW executeDrained \in BOOLEAN, Drain(executeDrained)
        PROVE  /\ ~fetching'
               /\ \A s \in Stage : isEmpty(s)
               /\ \A s \in Stage, t \in Thread : queue[s][t] = <<>>
    BY <1>3, <2>2, Zenon DEF Drain, isDrained, isEmpty
  <2>3. CASE HaltFetch
    BY <1>3, <2>3 DEF HaltFetch, DrainOK
  <2>4. CASE DrainResume
    BY <1>3, <2>4 DEF DrainResume
  <2>5. QED
    BY <2>1, <2>2, <2>3, <2>4
<1>4. CountersOK' /\ LatchShape' /\ QueueShape' /\ IndexOK' /\ LocalsOK'
  BY <1>1, <1>2, Zenon DEF CountersOK, LatchShape, QueueShape, IndexOK, LocalsOK
<1>5. begun' = begun /\ ended' = {} /\ evaluating'.stage = "between"
  BY <1>1 DEF begun, ended, between, at
<1>6. LatchesOK'
  <2>1. ended = {} /\ evaluating.stage = "between"
    BY <1>1 DEF ended, between, at
  <2>2. QED
    BY <1>1, <1>5, <2>1, Zenon DEF LatchesOK, nextStage
<1>7. ActivityOK'
  BY <1>1, <1>5, Zenon DEF ActivityOK
<1>8. DrainOK'
  BY <1>1, <1>3, Zenon DEF DrainOK, isEmpty, between, at
<1>9. ReservationsExact'
  BY <1>1 DEF ReservationsExact, inLatch
<1>10. StopsOnlyIdle'
  BY <1>1, <1>2 DEF StopsOnlyIdle, isEmpty, worksOn, canReserve
<1>11. QED
  BY <1>4, <1>6, <1>7, <1>8, <1>9, <1>10

----------------------------------------------------------------------------
\* The theorems.

\* The invariant is inductive.
LEMMA StepOK == IInv /\ [Next]_vars => IInv'
<1> SUFFICES ASSUME IInv, [Next]_vars
             PROVE  IInv'
  OBVIOUS
<1>1. CASE Evaluate
  <2>1. ASSUME NEW s \in Stage, StartStage(s)
        PROVE  IInv'
    BY <2>1, StartStageOK
  <2>2. ASSUME NEW s \in Stage, EndStage(s)
        PROVE  IInv'
    BY <2>2, EndStageOK
  <2>3. ASSUME NEW s \in Stage, NEW t \in Thread, SkipBubble(s, t)
        PROVE  IInv'
    BY <2>3, LoopsOK
  <2>4. ASSUME NEW t \in Thread, Decompose(t)
        PROVE  IInv'
    BY <2>4, DecomposeOK
  <2>5. ASSUME NEW t \in Thread, DecodeInst(t) \/ PassInst(t) \/ TakeInst(t)
        PROVE  IInv'
    BY <2>5, LoopsOK
  <2>6. ASSUME (\E t \in Thread, g \in Groups : Fetch2Sends(t, g)) \/ Fetch2Waits
        PROVE  IInv'
    BY <2>6, Fetch2OK
  <2>7. CASE EndsCycle
    BY <2>7, EndCycleOK DEF EndsCycle
  <2>8. QED
    BY <1>1, <2>1, <2>2, <2>3, <2>4, <2>5, <2>6, <2>7 DEF Evaluate
<1>2. CASE \/ WakeupOnEvent
           \/ \E executeDrained \in BOOLEAN : Drain(executeDrained)
           \/ HaltFetch
           \/ DrainResume
  BY <1>2, EventOK
<1>3. CASE UNCHANGED vars
  <2>1. UNCHANGED <<fetched, latch, queue, numReservedSlots, inputIndex, microopPC,
                    execSeqNum, evaluating, activity, stageActive, running,
                    fetching, drained>>
    BY <1>3 DEF vars, pipeVars, idleVars
  <2>2. CountersOK' /\ LatchShape' /\ QueueShape' /\ IndexOK' /\ LocalsOK'
    BY <2>1, Zenon DEF IInv, CountersOK, LatchShape, QueueShape, IndexOK, LocalsOK
  <2>3. begun' = begun /\ ended' = ended
    BY <2>1 DEF begun, ended
  <2>4. LatchesOK' /\ ActivityOK'
    BY <2>1, <2>3, Zenon DEF IInv, LatchesOK, ActivityOK, canReserve, worksOn
  <2>5. DrainOK' /\ ReservationsExact' /\ StopsOnlyIdle'
    BY <2>1, Zenon DEF IInv, DrainOK, ReservationsExact, StopsOnlyIdle, inLatch, isEmpty,
                worksOn, canReserve
  <2>6. QED
    BY <2>2, <2>4, <2>5 DEF IInv
<1>4. QED
  BY <1>1, <1>2, <1>3 DEF Next

\* The invariant always holds.
LEMMA StagesInvariant == Spec => []IInv
<1>1. Init => IInv
  BY InitOK
<1>2. IInv /\ [Next]_vars => IInv'
  BY StepOK
<1>3. QED
  BY <1>1, <1>2, PTL DEF Spec

\* The state of the stages is well formed: the index of a stage always points
\* into the group it is stepping through, latches keep their length, and the
\* activity recorder counts no further than the longest latency.
THEOREM StagesTypeCorrect == Spec => []StagesTypeOK
<1>1. IInv => StagesTypeOK
  BY DEF IInv, StagesTypeOK, LocalsOK, CountersOK, LatchShape, IndexOK, Evaluated, Stage
<1>2. QED
  BY <1>1, StagesInvariant, PTL

\* For any number of threads and any capacities, delays and widths, the slots
\* reserved in an input buffer (InputBuffer::reserve) are exactly the groups in
\* the latch that feeds it, so that pushTail always finds room and no slot leaks.
THEOREM NoSlotLost == Spec => []ReservationsExact
<1>1. IInv => ReservationsExact
  BY DEF IInv
<1>2. QED
  BY <1>1, StagesInvariant, PTL

\* Pipeline::evaluate stops the pipeline only with all of the latches empty and
\* no work that Decode or ExecuteDummy could do: the activity recorder forgets no
\* group, however long the latches.
THEOREM NeverStopsBusy == Spec => []StopsOnlyIdle
<1>1. IInv => StopsOnlyIdle
  BY DEF IInv
<1>2. QED
  BY <1>1, StagesInvariant, PTL

\* From the end of a drain (signalDrainDone) until drainResume there is nothing
\* in the input buffers, in the latches and in the output of a stage, and nothing
\* is fetched: what Pipeline::isDrained saw stays true.
THEOREM DrainedHoldsNothing ==
    Spec => [](drained => /\ ~fetching /\ evaluating.out = <<>>
                          /\ \A s \in Stage : isEmpty(s)
                          /\ \A s \in Stage, t \in Thread : queue[s][t] = <<>>)
<1>1. IInv => (drained => /\ ~fetching /\ evaluating.out = <<>>
                          /\ \A s \in Stage : isEmpty(s)
                          /\ \A s \in Stage, t \in Thread : queue[s][t] = <<>>)
  BY Zenon DEF IInv, DrainOK
<1>2. QED
  BY <1>1, StagesInvariant, PTL
=============================================================================
