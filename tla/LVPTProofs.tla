---------------------------- MODULE LVPTProofs -----------------------------
(***************************************************************************)
(* Proofs about the LVPT, for every table size that is a multiple of four, *)
(* every threshold and every set of addresses and values.                  *)
(***************************************************************************)
EXTENDS LVPT, TLAPS

\* An instruction address selects a slot of the value table and a counter of
\* the LCT that exist, and its tag is a natural number.
LEMMA IndexInTable ==
    ASSUME NEW pc \in PC
    PROVE  /\ tableIndex(pc) \in 0 .. tableSize - 1
           /\ indexLCT(pc) \in 0 .. (tableSize \div 4) - 1
           /\ tagOf(pc) \in Nat
<1>1. pc \in Nat /\ tableSize \in Nat \ {0} /\ tableSize % 4 = 0
  BY LVPTAssumption
<1>2. pc % tableSize \in 0 .. tableSize - 1
  BY <1>1
<1>3. pc % tableSize <= pc
  BY <1>1
<1>4. QED
  BY <1>1, <1>2, <1>3 DEF tableIndex, indexLCT, tagOf

\* The saturating updates of updateTable stay within 0 .. maxValueLCT.
LEMMA CounterInRange ==
    ASSUME NEW c \in 0 .. maxValue
    PROVE  increased(c) \in 0 .. maxValue /\ decreased(c) \in 0 .. maxValue
BY LVPTAssumption DEF increased, decreased

\* updateTable keeps the shape of both tables.
LEMMA UpdateTypeOK ==
    ASSUME LVPTTypeOK, NEW data \in Value, NEW addr \in Addr, NEW pc \in PC,
           NEW predict \in BOOLEAN, NEW constant \in BOOLEAN,
           updateTable(data, addr, pc, predict, constant)
    PROVE  LVPTTypeOK'
<1>1. CASE ~constant
  BY <1>1 DEF updateTable, lvptVars, LVPTTypeOK
<1>2. CASE constant
  <2>1. predictTable' \in [0 .. (tableSize \div 4) - 1 -> 0 .. maxValue]
    <3>1. predictTable[indexLCT(pc)] \in 0 .. maxValue
      BY IndexInTable DEF LVPTTypeOK
    <3>2. QED
      BY <1>2, <3>1, CounterInRange DEF updateTable, LVPTTypeOK
  <2>2. valueTable' \in [0 .. tableSize - 1 -> Entry]
    <3>1. [valid |-> TRUE, tag |-> tagOf(pc), addr |-> addr, value |-> data]
            \in Entry
      BY IndexInTable DEF Entry
    <3>2. QED
      BY <1>2, <3>1 DEF updateTable, LVPTTypeOK
  <2>3. QED
    BY <2>1, <2>2 DEF LVPTTypeOK
<1>3. QED
  BY <1>1, <1>2

\* The tables keep their shape and no LCT counter leaves 0 .. maxValueLCT,
\* whatever updates Execute sends to Fetch1.
THEOREM LVPTTypeCorrect == LVPTSpec => []LVPTTypeOK
<1>1. LVPTInit => LVPTTypeOK
  BY LVPTAssumption DEF LVPTInit, LVPTTypeOK, Entry
<1>2. LVPTTypeOK /\ [LVPTNext]_lvptVars => LVPTTypeOK'
  <2>1. ASSUME LVPTTypeOK, LVPTNext PROVE LVPTTypeOK'
    BY <2>1, UpdateTypeOK DEF LVPTNext
  <2>2. ASSUME LVPTTypeOK, UNCHANGED lvptVars PROVE LVPTTypeOK'
    BY <2>2 DEF LVPTTypeOK, lvptVars
  <2>3. QED
    BY <2>1, <2>2
<1>3. QED
  BY <1>1, <1>2, PTL DEF LVPTSpec

----------------------------------------------------------------------------
\* Two addresses with the same slot and the same tag are the same address, so
\* a tag match identifies the instruction.
LEMMA TagIdentifies ==
    ASSUME NEW pc \in PC, NEW q \in PC,
           tableIndex(pc) = tableIndex(q), tagOf(pc) = tagOf(q)
    PROVE  pc = q
<1>1. pc \in Nat /\ q \in Nat /\ tableIndex(pc) \in Nat
  BY LVPTAssumption, IndexInTable
<1>2. QED
  BY <1>1 DEF tagOf

\* What the tables predict after an update: a misprediction installs the value
\* for its own address and displaces the addresses that share its slot.
LEMMA UpdatePredicts ==
    ASSUME LVPTTypeOK, NEW data \in Value, NEW addr \in Addr, NEW pc \in PC,
           NEW predict \in BOOLEAN, NEW constant \in BOOLEAN,
           updateTable(data, addr, pc, predict, constant)
    PROVE  L!Next \/ UNCHANGED predicted
<1>. DEFINE displaced == {q \in PC : q # pc /\ tableIndex(q) = tableIndex(pc)}
<1>1. predicted = [q \in PC |-> IF hasEntry(q)
                                   THEN {valueTable[tableIndex(q)].value} ELSE {}]
  BY DEF predicted, read
<1>2. predicted' = [q \in PC |-> IF hasEntry(q)'
                                   THEN {valueTable'[tableIndex(q)].value} ELSE {}]
  BY DEF predicted, read, hasEntry
<1>3. CASE ~constant \/ predict
  <2>1. valueTable' = valueTable
    BY <1>3 DEF updateTable, lvptVars
  <2>2. QED
    BY <1>1, <1>2, <2>1 DEF hasEntry
<1>4. CASE constant /\ ~predict
  <2>. DEFINE new == [valid |-> TRUE, tag |-> tagOf(pc), addr |-> addr,
                      value |-> data]
  <2>1. valueTable' = [valueTable EXCEPT ![tableIndex(pc)] = new]
    BY <1>4 DEF updateTable
  <2>2. /\ \A q \in PC : tableIndex(q) \in 0 .. tableSize - 1
        /\ valueTable \in [0 .. tableSize - 1 -> Entry]
    BY IndexInTable DEF LVPTTypeOK
  <2>3. ASSUME NEW q \in PC
        PROVE  predicted'[q] = IF q = pc THEN {data}
                               ELSE IF q \in displaced THEN {} ELSE predicted[q]
    <3>1. CASE q = pc
      <4>1. valueTable'[tableIndex(q)] = new
        BY <2>1, <2>2, <3>1
      <4>2. QED
        BY <1>2, <3>1, <4>1 DEF hasEntry
    <3>2. CASE q \in displaced
      <4>1. valueTable'[tableIndex(q)] = new
        BY <2>1, <2>2, <3>2
      <4>2. ~hasEntry(q)'
        BY <4>1, <3>2, TagIdentifies DEF hasEntry
      <4>3. QED
        BY <1>2, <3>2, <4>2
    <3>3. CASE q # pc /\ q \notin displaced
      <4>1. valueTable'[tableIndex(q)] = valueTable[tableIndex(q)]
        BY <2>1, <2>2, <3>3
      <4>2. QED
        BY <1>1, <1>2, <3>3, <4>1 DEF hasEntry
    <3>4. QED
      BY <3>1, <3>2, <3>3
  <2>4. predicted' = [q \in PC |-> IF q = pc THEN {data}
                        ELSE IF q \in displaced THEN {} ELSE predicted[q]]
    BY <1>2, <2>3
  <2>5. displaced \in SUBSET (PC \ {pc})
    OBVIOUS
  <2>6. L!Install(pc, data)
    BY <2>4, <2>5 DEF L!Install
  <2>7. QED
    BY <2>6 DEF L!Next
<1>5. QED
  BY <1>3, <1>4

\* The LVPT implements LastValue: what read() predicts for an address is what
\* the last misprediction at that address installed.
THEOREM LVPTImplementsLastValue == LVPTSpec => PredictsLastValue
<1>1. LVPTInit => L!Init
  <2>1. ASSUME LVPTInit, NEW pc \in PC PROVE ~hasEntry(pc)
    BY <2>1, IndexInTable DEF LVPTInit, hasEntry
  <2>2. QED
    BY <2>1 DEF L!Init, predicted
<1>2. LVPTTypeOK /\ [LVPTNext]_lvptVars => [L!Next]_predicted
  <2>1. ASSUME LVPTTypeOK, LVPTNext PROVE L!Next \/ UNCHANGED predicted
    BY <2>1, UpdatePredicts DEF LVPTNext
  <2>2. ASSUME UNCHANGED lvptVars PROVE UNCHANGED predicted
    BY <2>2 DEF lvptVars, predicted, hasEntry, read
  <2>3. QED
    BY <2>1, <2>2
<1>3. QED
  BY <1>1, <1>2, LVPTTypeCorrect, PTL DEF LVPTSpec, PredictsLastValue, L!Spec
=============================================================================
