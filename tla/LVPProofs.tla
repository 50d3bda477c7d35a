----------------------------- MODULE LVPProofs -----------------------------
(***************************************************************************)
(* Proofs about load value prediction: first about the CVU alone, for      *)
(* every table size and every set of addresses, LVPT indices and values,   *)
(* and then about the loop around the pipeline, for every size of the      *)
(* tables, every program and every mapping of addresses, synonyms          *)
(* included.                                                               *)
(***************************************************************************)
EXTENDS LVP, FiniteSetTheorems, TLAPS

queued(i) == \E n \in DOMAIN InvalidEntries : InvalidEntries[n] = i

\* The slots of the table (CVU.cc indexes them with unsigned) are naturals.
LEMMA SlotNat == Slot \subseteq Nat
BY CVUAssumption DEF Slot

\* The constructor leaves well-typed tables: the listed slots exist.
LEMMA InitTypeOK == CVUInit => CVUTypeOK
<1>. SUFFICES ASSUME CVUInit PROVE CVUTypeOK
  OBVIOUS
<1>1. zeroedEntry \in tableEntry
  BY CVUAssumption DEF zeroedEntry, tableEntry
<1>2. InvalidEntries \in Seq(Slot)
  <2>1. [n \in 1 .. cvuTableSize |-> n - 1] \in [1 .. cvuTableSize -> Slot]
    BY CVUAssumption DEF Slot
  <2>2. QED
    BY <2>1, CVUAssumption DEF CVUInit
<1>3. QED
  BY <1>1, <1>2 DEF CVUInit, CVUTypeOK

\* Both orders of a queue step: what is appended is queued after it, and what
\* was queued stays queued.
LEMMA AppendedQueue ==
    ASSUME NEW s \in Seq(Slot), NEW t \in Seq(Slot), NEW i \in Slot
    PROVE  (\E n \in DOMAIN (s \o t) : (s \o t)[n] = i)
             <=> \/ \E n \in DOMAIN s : s[n] = i
                 \/ \E n \in DOMAIN t : t[n] = i
<1>1. /\ Len(s) \in Nat /\ Len(t) \in Nat
      /\ DOMAIN s = 1 .. Len(s) /\ DOMAIN t = 1 .. Len(t)
      /\ DOMAIN (s \o t) = 1 .. Len(s) + Len(t)
  OBVIOUS
<1>2. \A n \in 1 .. Len(s) : (s \o t)[n] = s[n]
  OBVIOUS
<1>3. \A n \in 1 .. Len(t) : (s \o t)[Len(s) + n] = t[n]
  OBVIOUS
<1>4. ASSUME NEW n \in 1 .. Len(s) + Len(t), (s \o t)[n] = i
      PROVE  \/ \E m \in DOMAIN s : s[m] = i
             \/ \E m \in DOMAIN t : t[m] = i
  <2>1. CASE n <= Len(s)
    BY <1>1, <1>2, <1>4, <2>1
  <2>2. CASE n > Len(s)
    <3>1. n - Len(s) \in 1 .. Len(t) /\ Len(s) + (n - Len(s)) = n
      BY <1>1, <2>2
    <3>2. t[n - Len(s)] = i
      BY <1>3, <1>4, <3>1
    <3>3. QED
      BY <1>1, <3>1, <3>2
  <2>3. QED
    BY <1>1, <2>1, <2>2
<1>5. ASSUME NEW n \in DOMAIN s, s[n] = i
      PROVE  \E m \in DOMAIN (s \o t) : (s \o t)[m] = i
  <2>1. n \in DOMAIN (s \o t) /\ (s \o t)[n] = i
    BY <1>1, <1>2, <1>5
  <2>2. QED
    BY <2>1
<1>6. ASSUME NEW n \in DOMAIN t, t[n] = i
      PROVE  \E m \in DOMAIN (s \o t) : (s \o t)[m] = i
  <2>1. Len(s) + n \in DOMAIN (s \o t) /\ (s \o t)[Len(s) + n] = i
    BY <1>1, <1>3, <1>6
  <2>2. QED
    BY <2>1
<1>7. QED
  BY <1>1, <1>4, <1>5, <1>6

\* Taking the front off InvalidEntries loses that slot only.
LEMMA TailQueue ==
    ASSUME NEW s \in Seq(Slot), s # <<>>, NEW i \in Slot,
           \E n \in DOMAIN s : s[n] = i
    PROVE  i = Head(s) \/ \E n \in DOMAIN Tail(s) : Tail(s)[n] = i
<1>1. PICK n \in DOMAIN s : s[n] = i
  OBVIOUS
<1>2. CASE n = 1
  BY <1>1, <1>2
<1>3. CASE n # 1
  <2>1. n - 1 \in DOMAIN Tail(s) /\ Tail(s)[n - 1] = s[n]
    BY <1>1, <1>3
  <2>2. QED
    BY <1>1, <2>1
<1>4. QED
  BY <1>2, <1>3

----------------------------------------------------------------------------
\* What a committed store does: entries keep their contents, the ones with an
\* address of the store become invalid, and their slots join the queue.
LEMMA StoreEffect ==
    ASSUME CVUTypeOK, NEW vaddr \in VAddr, NEW paddr \in PAddr,
           storeInvalidate(vaddr, paddr)
    PROVE  /\ CVUTypeOK'
           /\ \A i \in Slot :
                 /\ cvuTable'[i].valid =
                      (cvuTable[i].valid /\ i \notin storeMatches(vaddr, paddr))
                 /\ cvuTable'[i].vaddr = cvuTable[i].vaddr
                 /\ cvuTable'[i].paddr = cvuTable[i].paddr
                 /\ cvuTable'[i].index = cvuTable[i].index
                 /\ cvuTable'[i].data = cvuTable[i].data
           /\ \A i \in Slot :
                 queued(i)' <=> queued(i) \/ i \in storeMatches(vaddr, paddr)
<1>. DEFINE hits == storeMatches(vaddr, paddr)
<1>1. IsFiniteSet(Slot)
  BY CVUAssumption, FS_Interval DEF Slot
<1>2. hits \subseteq Slot
  BY DEF storeMatches
<1>3. Cardinality(hits) \in Nat
  BY <1>1, <1>2, FS_Subset, FS_CardinalityType
<1>4. PICK freed \in inSlotOrder(hits) :
        InvalidEntries' = InvalidEntries \o freed
  BY DEF storeInvalidate
<1>5. freed \in [1 .. Cardinality(hits) -> hits]
  BY <1>4 DEF inSlotOrder
<1>6. freed \in Seq(Slot)
  <2>1. freed \in [1 .. Cardinality(hits) -> Slot]
    BY <1>2, <1>5
  <2>2. QED
    BY <1>3, <2>1
<1>7. \A i \in Slot : (\E n \in DOMAIN freed : freed[n] = i) <=> i \in hits
  BY <1>4, <1>5 DEF inSlotOrder
<1>8. InvalidEntries \in Seq(Slot)
  BY DEF CVUTypeOK
<1>9. cvuTable' = [i \in Slot |-> [cvuTable[i] EXCEPT !.valid = @ /\ i \notin hits]]
  BY DEF storeInvalidate
<1>10. ASSUME NEW i \in Slot
       PROVE  /\ cvuTable'[i] \in tableEntry
              /\ cvuTable'[i].valid = (cvuTable[i].valid /\ i \notin hits)
              /\ cvuTable'[i].vaddr = cvuTable[i].vaddr
              /\ cvuTable'[i].paddr = cvuTable[i].paddr
              /\ cvuTable'[i].index = cvuTable[i].index
              /\ cvuTable'[i].data = cvuTable[i].data
  <2>1. cvuTable[i] \in tableEntry
    BY DEF CVUTypeOK
  <2>2. cvuTable'[i] = [cvuTable[i] EXCEPT !.valid = @ /\ i \notin hits]
    BY <1>9
  <2>3. QED
    BY <2>1, <2>2 DEF tableEntry
<1>11. InvalidEntries' \in Seq(Slot)
  BY <1>4, <1>6, <1>8
<1>12. CVUTypeOK'
  <2>1. cvuTable' \in [Slot -> tableEntry]
    BY <1>9, <1>10
  <2>2. QED
    BY <2>1, <1>11 DEF CVUTypeOK, storeInvalidate
<1>13. ASSUME NEW i \in Slot PROVE queued(i)' <=> queued(i) \/ i \in hits
  <2>1. queued(i)' <=> \E n \in DOMAIN (InvalidEntries \o freed) :
                         (InvalidEntries \o freed)[n] = i
    BY <1>4 DEF queued
  <2>2. (\E n \in DOMAIN (InvalidEntries \o freed) :
           (InvalidEntries \o freed)[n] = i)
          <=> \/ \E n \in DOMAIN InvalidEntries : InvalidEntries[n] = i
              \/ \E n \in DOMAIN freed : freed[n] = i
    BY <1>6, <1>8, AppendedQueue
  <2>3. queued(i) <=> \E n \in DOMAIN InvalidEntries : InvalidEntries[n] = i
    BY DEF queued
  <2>4. QED
    BY <1>7, <2>1, <2>2, <2>3
<1>14. QED
  BY <1>10, <1>12, <1>13

\* What AddEntryToCVU does: it writes one slot, or none of the table when the
\* random victim is the one past its end, and takes the slot off the queue.
LEMMA AddEffect ==
    ASSUME CVUTypeOK, NEW data \in Data, NEW index \in Index,
           NEW vaddr \in VAddr, NEW paddr \in PAddr,
           AddEntryToCVU(data, index, vaddr, paddr)
    PROVE  /\ CVUTypeOK'
           /\ \E victim \in 0 .. cvuTableSize :
                 /\ cvuTable' = [i \in Slot |->
                        IF i = victim THEN newEntry(data, index, vaddr, paddr)
                                      ELSE cvuTable[i]]
                 /\ \A i \in Slot : queued(i) => i = victim \/ queued(i)'
<1>1. InvalidEntries \in Seq(Slot)
  BY DEF CVUTypeOK
<1>2. PICK victim \in victims :
        /\ cvuTable' = [i \in Slot |->
               IF i = victim THEN newEntry(data, index, vaddr, paddr)
                             ELSE cvuTable[i]]
        /\ InvalidEntries' = IF InvalidEntries = <<>> THEN <<>>
                                                      ELSE Tail(InvalidEntries)
        /\ outOfBounds' = (outOfBounds \/ victim \notin Slot)
  BY DEF AddEntryToCVU
<1>3. victim \in 0 .. cvuTableSize
  <2>1. CASE InvalidEntries = <<>>
    BY <1>2, <2>1 DEF victims
  <2>2. CASE InvalidEntries # <<>>
    <3>1. victim = Head(InvalidEntries) /\ Head(InvalidEntries) \in Slot
      BY <1>1, <1>2, <2>2 DEF victims
    <3>2. QED
      BY <3>1, CVUAssumption DEF Slot
  <2>3. QED
    BY <2>1, <2>2
<1>4. newEntry(data, index, vaddr, paddr) \in tableEntry
  BY DEF newEntry, tableEntry
<1>5. CVUTypeOK'
  <2>1. cvuTable' \in [Slot -> tableEntry]
    BY <1>2, <1>4 DEF CVUTypeOK
  <2>2. InvalidEntries' \in Seq(Slot)
    BY <1>1, <1>2
  <2>3. QED
    BY <1>2, <2>1, <2>2 DEF CVUTypeOK
<1>6. ASSUME NEW i \in Slot, queued(i) PROVE i = victim \/ queued(i)'
  <2>1. InvalidEntries # <<>>
    BY <1>6 DEF queued
  <2>2. victim = Head(InvalidEntries)
    BY <1>2, <2>1 DEF victims
  <2>3. QED
    BY <1>1, <1>2, <1>6, <2>1, <2>2, TailQueue DEF queued
<1>7. QED
  BY <1>2, <1>3, <1>5, <1>6

----------------------------------------------------------------------------
\* The inductive invariant.  OneEntryPerKey and FreeSlotsQueued need nothing
\* beyond the types, because the queue may name a slot twice: only that no
\* invalid slot is missing from it is kept.
CVUInv == CVUTypeOK /\ FreeSlotsQueued /\ OneEntryPerKey

\* storeInvalidate preserves the invariant: what it invalidates it queues.
LEMMA StorePreserves ==
    ASSUME CVUInv, NEW vaddr \in VAddr, NEW paddr \in PAddr,
           Store(vaddr, paddr)
    PROVE  CVUInv'
<1>1. CVUTypeOK /\ storeInvalidate(vaddr, paddr)
  BY DEF CVUInv, Store
<1>2. FreeSlotsQueued'
  <2>1. \A i \in Slot : cvuTable[i].valid \/ queued(i)
    BY DEF CVUInv, FreeSlotsQueued, queued
  <2>2. \A i \in Slot : cvuTable'[i].valid \/ queued(i)'
    BY <1>1, <2>1, StoreEffect
  <2>3. QED
    BY <2>2 DEF FreeSlotsQueued, queued
<1>3. OneEntryPerKey'
  <2>1. OneEntryPerKey
    BY DEF CVUInv
  <2>2. \A i \in Slot :
          /\ cvuTable'[i].valid => cvuTable[i].valid
          /\ cvuTable'[i].vaddr = cvuTable[i].vaddr
          /\ cvuTable'[i].index = cvuTable[i].index
          /\ cvuTable'[i].data = cvuTable[i].data
    BY <1>1, StoreEffect
  <2>3. QED
    BY <2>1, <2>2 DEF OneEntryPerKey
<1>4. QED
  BY <1>1, <1>2, <1>3, StoreEffect DEF CVUInv

\* AddEntryToCVU preserves the invariant: the slot it unqueues becomes valid,
\* and the key it adds is not in the table, by the check before the call.
LEMMA LoadPreserves ==
    ASSUME CVUInv, NEW data \in Data, NEW index \in Index,
           NEW vaddr \in VAddr, NEW paddr \in PAddr,
           ConstantLoad(data, index, vaddr, paddr)
    PROVE  CVUInv'
<1>1. CVUTypeOK /\ AddEntryToCVU(data, index, vaddr, paddr)
  BY DEF CVUInv, ConstantLoad
<1>2. CVUTypeOK'
  BY <1>1, AddEffect
<1>3. PICK victim \in 0 .. cvuTableSize :
        /\ cvuTable' = [i \in Slot |->
               IF i = victim THEN newEntry(data, index, vaddr, paddr)
                             ELSE cvuTable[i]]
        /\ \A i \in Slot : queued(i) => i = victim \/ queued(i)'
  BY <1>1, AddEffect
<1>4. FreeSlotsQueued'
  <2>1. \A i \in Slot : cvuTable[i].valid \/ queued(i)
    BY DEF CVUInv, FreeSlotsQueued, queued
  <2>2. \A i \in Slot : cvuTable'[i].valid \/ queued(i)'
    BY <1>3, <2>1 DEF newEntry
  <2>3. QED
    BY <2>2 DEF FreeSlotsQueued, queued
<1>5. OneEntryPerKey'
  <2>1. \A i \in Slot : ~( /\ cvuTable[i].valid
                           /\ cvuTable[i].vaddr = vaddr
                           /\ cvuTable[i].index = index
                           /\ cvuTable[i].data = data )
    BY DEF ConstantLoad, verifyEntryInCVU
  <2>2. QED
    BY <1>3, <2>1 DEF CVUInv, OneEntryPerKey, newEntry
<1>6. QED
  BY <1>2, <1>4, <1>5 DEF CVUInv

\* The inductive invariant holds throughout.
LEMMA CVUInvariant == CVUSpec => []CVUInv
<1>1. CVUInit => CVUInv
  <2>. SUFFICES ASSUME CVUInit PROVE CVUInv
    OBVIOUS
  <2>1. FreeSlotsQueued
    <3>1. ASSUME NEW i \in Slot
          PROVE  \E n \in DOMAIN InvalidEntries : InvalidEntries[n] = i
      <4>1. i + 1 \in 1 .. cvuTableSize /\ (i + 1) - 1 = i
        BY CVUAssumption DEF Slot
      <4>2. QED
        BY <4>1 DEF CVUInit
    <3>2. QED
      BY <3>1 DEF FreeSlotsQueued
  <2>2. OneEntryPerKey
    BY DEF CVUInit, OneEntryPerKey, zeroedEntry
  <2>3. QED
    BY <2>1, <2>2, InitTypeOK DEF CVUInv
<1>2. CVUInv /\ [CVUNext]_cvuVars => CVUInv'
  <2>. SUFFICES ASSUME CVUInv, [CVUNext]_cvuVars PROVE CVUInv'
    OBVIOUS
  <2>1. CASE CVUNext
    BY <2>1, StorePreserves, LoadPreserves DEF CVUNext
  <2>2. CASE UNCHANGED cvuVars
    BY <2>2 DEF cvuVars, CVUInv, CVUTypeOK, FreeSlotsQueued, OneEntryPerKey
  <2>3. QED
    BY <2>1, <2>2
<1>3. QED
  BY <1>1, <1>2, PTL DEF CVUSpec

\* The table and the queue of the CVU keep their types: every queued slot is a
\* slot of the table.
THEOREM CVUTypeCorrect == CVUSpec => []CVUTypeOK
BY CVUInvariant, PTL DEF CVUInv

\* No slot leaks: AddEntryToCVU evicts a random entry only when every slot is
\* in use.
THEOREM NoSlotLeaks == CVUSpec => []FreeSlotsQueued
BY CVUInvariant, PTL DEF CVUInv

\* verifyEntryInCVU finds at most one entry.
THEOREM KeysUnique == CVUSpec => []OneEntryPerKey
BY CVUInvariant, PTL DEF CVUInv

----------------------------------------------------------------------------
\* Seen as facts, storeInvalidate forgets those about its two addresses.
LEMMA StoreForgets ==
    ASSUME CVUInv, NEW vaddr \in VAddr, NEW paddr \in PAddr,
           Store(vaddr, paddr)
    PROVE  F!Forget(vaddr, paddr)
<1>1. CVUTypeOK /\ storeInvalidate(vaddr, paddr)
  BY DEF CVUInv, Store
<1>2. liveFacts' = {f \in liveFacts : f.vaddr # vaddr /\ f.paddr # paddr}
  <2>1. ASSUME NEW i \in Slot
        PROVE  cvuTable'[i].valid <=> /\ cvuTable[i].valid
                                      /\ cvuTable[i].vaddr # vaddr
                                      /\ cvuTable[i].paddr # paddr
    <3>1. cvuTable'[i].valid <=>
            cvuTable[i].valid /\ i \notin storeMatches(vaddr, paddr)
      BY <1>1, StoreEffect
    <3>2. QED
      BY <3>1 DEF storeMatches
  <2>2. \A i \in Slot : /\ cvuTable'[i].vaddr = cvuTable[i].vaddr
                        /\ cvuTable'[i].paddr = cvuTable[i].paddr
                        /\ cvuTable'[i].index = cvuTable[i].index
                        /\ cvuTable'[i].data = cvuTable[i].data
    BY <1>1, StoreEffect
  <2>3. ASSUME NEW f \in liveFacts'
        PROVE  f \in liveFacts /\ f.vaddr # vaddr /\ f.paddr # paddr
    BY <2>1, <2>2, <2>3 DEF liveFacts
  <2>4. ASSUME NEW f \in liveFacts, f.vaddr # vaddr, f.paddr # paddr
        PROVE  f \in liveFacts'
    BY <2>1, <2>2, <2>4 DEF liveFacts
  <2>5. QED
    BY <2>3, <2>4
<1>3. QED
  BY <1>2 DEF F!Forget

\* Seen as facts, AddEntryToCVU learns one and drops at most one, or writes
\* past the table and changes nothing.
LEMMA LoadLearns ==
    ASSUME CVUInv, NEW data \in Data, NEW index \in Index,
           NEW vaddr \in VAddr, NEW paddr \in PAddr,
           ConstantLoad(data, index, vaddr, paddr)
    PROVE  \/ F!Learn([vaddr |-> vaddr, paddr |-> paddr, index |-> index,
                       data |-> data])
           \/ liveFacts' = liveFacts
<1>. DEFINE f == [vaddr |-> vaddr, paddr |-> paddr, index |-> index,
                  data |-> data]
            asFact(e) == [vaddr |-> e.vaddr, paddr |-> e.paddr,
                          index |-> e.index, data |-> e.data]
<1>1. CVUTypeOK /\ AddEntryToCVU(data, index, vaddr, paddr)
  BY DEF CVUInv, ConstantLoad
<1>2. PICK victim \in 0 .. cvuTableSize :
        cvuTable' = [i \in Slot |->
               IF i = victim THEN newEntry(data, index, vaddr, paddr)
                             ELSE cvuTable[i]]
  BY <1>1, AddEffect
<1>. DEFINE kept == {asFact(cvuTable[i]) :
                        i \in {j \in Slot : cvuTable[j].valid /\ j # victim}}
            dropped == liveFacts \ kept
<1>3. CASE victim \notin Slot
  <2>1. cvuTable' = cvuTable
    BY <1>1, <1>2, <1>3 DEF CVUTypeOK
  <2>2. QED
    BY <2>1 DEF liveFacts
<1>4. CASE victim \in Slot
  <2>1. \A g, h \in dropped : g = h
    BY DEF liveFacts
  <2>2. liveFacts' = kept \cup {f}
    BY <1>2, <1>4 DEF liveFacts, newEntry
  <2>3. kept \subseteq liveFacts
    BY DEF liveFacts
  <2>4. liveFacts' = (liveFacts \ dropped) \cup {f}
    BY <2>2, <2>3
  <2>5. f \notin liveFacts
    BY DEF ConstantLoad, verifyEntryInCVU, liveFacts
  <2>6. QED
    BY <2>1, <2>4, <2>5 DEF F!Learn
<1>5. QED
  BY <1>3, <1>4

\* The CVU implements Facts: it invents no fact, loses at most one when it
\* learns one, and a committed store removes exactly the facts about its
\* addresses, in one step.
THEOREM CVUImplementsFacts == CVUSpec => RemembersFacts
<1>1. CVUInit => F!Init
  BY DEF CVUInit, F!Init, liveFacts, zeroedEntry
<1>2. CVUInv /\ [CVUNext]_cvuVars => [F!Next]_liveFacts
  <2>. SUFFICES ASSUME CVUInv, [CVUNext]_cvuVars PROVE [F!Next]_liveFacts
    OBVIOUS
  <2>1. ASSUME NEW vaddr \in VAddr, NEW paddr \in PAddr, Store(vaddr, paddr)
        PROVE  F!Next
    BY <2>1, StoreForgets DEF F!Next
  <2>2. ASSUME NEW data \in Data, NEW index \in Index, NEW vaddr \in VAddr,
               NEW paddr \in PAddr, ConstantLoad(data, index, vaddr, paddr)
        PROVE  [F!Next]_liveFacts
    <3>1. [vaddr |-> vaddr, paddr |-> paddr, index |-> index, data |-> data]
            \in F!Fact
      BY DEF F!Fact
    <3>2. QED
      BY <2>2, <3>1, LoadLearns DEF F!Next
  <2>3. CASE UNCHANGED cvuVars
    BY <2>3 DEF cvuVars, liveFacts
  <2>4. QED
    BY <2>1, <2>2, <2>3 DEF CVUNext
<1>3. QED
  BY <1>1, <1>2, CVUInvariant, PTL DEF CVUSpec, RemembersFacts, F!Spec

-----------------------------------------------------------------------------
\* The loop around the pipeline.

TP == INSTANCE LVPTProofs WITH Value <- Data, Addr <- VAddr \cup {0},
                               PC <- PC \cup {0}

\* The assumptions of the LVPT hold of the instance that LVP makes of it.
LEMMA LVPTInstance ==
    /\ tableSize \in Nat \ {0} /\ tableSize % 4 = 0
    /\ maxValue \in Nat
    /\ threshold \in 0 .. maxValue
    /\ PC \cup {0} \subseteq Nat
    /\ VAddr \cup {0} \subseteq Nat
    /\ zero \in Data
BY LVPAssumption, CVUAssumption

\* updateTable keeps the shape of both tables.
LEMMA UpdateKeepsType ==
    ASSUME T!LVPTTypeOK, NEW u \in Update,
           T!updateTable(u.value, u.addr, u.pc, u.predict, u.constant)
    PROVE  T!LVPTTypeOK'
<1>1. /\ u.value \in Data /\ u.addr \in VAddr \cup {0} /\ u.pc \in PC \cup {0}
      /\ u.predict \in BOOLEAN /\ u.constant \in BOOLEAN
  BY DEF Update
<1>2. T!LVPTTypeOK = TP!LVPTTypeOK
  BY DEF T!LVPTTypeOK, TP!LVPTTypeOK, T!Entry, TP!Entry
<1>3. T!updateTable(u.value, u.addr, u.pc, u.predict, u.constant) =
      TP!updateTable(u.value, u.addr, u.pc, u.predict, u.constant)
  BY DEF T!updateTable, TP!updateTable, T!lvptVars, TP!lvptVars,
         T!increased, TP!increased, T!decreased, TP!decreased,
         T!indexLCT, TP!indexLCT, T!tableIndex, TP!tableIndex, T!tagOf, TP!tagOf
<1>4. (T!LVPTTypeOK)' = (TP!LVPTTypeOK)'
  BY DEF T!LVPTTypeOK, TP!LVPTTypeOK, T!Entry, TP!Entry
<1>5. QED
  BY <1>1, <1>2, <1>3, <1>4, LVPTInstance, TP!UpdateTypeOK

\* What read() returns for an address of the program is a prediction.
LEMMA ReadsPrediction ==
    ASSUME T!LVPTTypeOK, NEW pc \in PC
    PROVE  T!read(pc) \in Prediction
<1>1. /\ T!tableIndex(pc) \in 0 .. tableSize - 1
      /\ T!indexLCT(pc) \in 0 .. (tableSize \div 4) - 1
  BY LVPTInstance, TP!IndexInTable
     DEF T!tableIndex, TP!tableIndex, T!indexLCT, TP!indexLCT
<1>2. /\ valueTable[T!tableIndex(pc)].value \in Data
      /\ predictTable[T!indexLCT(pc)] \in 0 .. maxValue
  BY <1>1 DEF T!LVPTTypeOK, T!Entry
<1>3. 0 \in Index /\ T!tableIndex(pc) \in Index
  BY <1>1, LVPAssumption
<1>4. CASE ~T!hasEntry(pc)
  BY <1>3, <1>4, LVPTInstance DEF T!read, T!noPrediction, Prediction
<1>5. CASE T!hasEntry(pc)
  <2>1. predictTable[T!indexLCT(pc)] \in Nat
    BY <1>2, LVPTInstance
  <2>2. (predictTable[T!indexLCT(pc)] >= threshold) \in BOOLEAN
    OBVIOUS
  <2>3. QED
    BY <1>2, <1>3, <1>5, <2>1, <2>2 DEF T!read, Prediction
<1>6. QED
  BY <1>4, <1>5

----------------------------------------------------------------------------
\* The inductive invariant.  An entry agrees with memory at its physical
\* address; for a store to find the entries of every synonym, and for a hit to
\* speak of the address the load reads, the physical address has to be the
\* translation of the virtual one.
entriesTranslated ==
    \A i \in Slot : cvuTable[i].valid =>
        /\ cvuTable[i].vaddr \in VAddr
        /\ cvuTable[i].paddr = translate[cvuTable[i].vaddr]
LVPInv == LVPTypeOK /\ entriesTranslated /\ EntriesAgreeWithMemory

\* The program starts with empty tables.
LEMMA LVPInitInv == LVPInit => LVPInv
<1>. SUFFICES ASSUME LVPInit PROVE LVPInv
  OBVIOUS
<1>1. T!LVPTTypeOK
  BY LVPTInstance DEF LVPInit, T!LVPTInit, T!LVPTTypeOK, T!Entry
<1>2. LVPTypeOK
  <2>1. CVUTypeOK
    BY InitTypeOK DEF LVPInit
  <2>2. cleared \in Update
    BY CVUAssumption DEF Update, cleared
  <2>3. memory \in [PAddr -> Data]
    BY CVUAssumption DEF LVPInit
  <2>4. inFlight \in Seq(FlightInst)
    BY DEF LVPInit
  <2>5. QED
    BY <1>1, <2>1, <2>2, <2>3, <2>4 DEF LVPInit, LVPTypeOK
<1>3. entriesTranslated /\ EntriesAgreeWithMemory
  BY DEF LVPInit, CVUInit, zeroedEntry, entriesTranslated, EntriesAgreeWithMemory
<1>4. QED
  BY <1>2, <1>3 DEF LVPInv

\* Fetch1::evaluate touches neither the CVU nor memory.
LEMMA FetchPreserves ==
    ASSUME LVPInv, NEW newInsts \in Seq(FlightInst),
           Fetch1Evaluate(newInsts), stores' \in Nat
    PROVE  LVPInv'
<1>1. cvuTable' = cvuTable /\ memory' = memory /\ UNCHANGED cvuVars
  BY DEF Fetch1Evaluate, cvuVars
<1>2. T!LVPTTypeOK'
  BY UpdateKeepsType DEF LVPInv, LVPTypeOK, Fetch1Evaluate
<1>3. CVUTypeOK'
  BY <1>1 DEF LVPInv, LVPTypeOK, CVUTypeOK, cvuVars
<1>4. cleared \in Update
  BY CVUAssumption DEF Update, cleared
<1>5. inFlight' \in Seq(FlightInst)
  BY DEF LVPInv, LVPTypeOK, Fetch1Evaluate
<1>6. LVPTypeOK'
  BY <1>1, <1>2, <1>3, <1>4, <1>5 DEF LVPInv, LVPTypeOK, Fetch1Evaluate
<1>7. entriesTranslated' /\ EntriesAgreeWithMemory'
  BY <1>1 DEF LVPInv, entriesTranslated, EntriesAgreeWithMemory
<1>8. QED
  BY <1>6, <1>7 DEF LVPInv

\* A CVU hit does not change what a load commits.
LEMMA PacketIsMemory ==
    ASSUME LVPInv, NEW inst \in FlightInst
    PROVE  packetdata(inst, memory[translate[inst.op.vaddr]]) =
               memory[translate[inst.op.vaddr]]
BY DEF LVPInv, entriesTranslated, EntriesAgreeWithMemory, packetdata,
       verifyEntryInCVU, FlightInst

\* A load may add an entry, which agrees with memory because it read memory.
LEMMA LoadKeepsCoherent ==
    ASSUME LVPInv, CommitLoad
    PROVE  LVPInv'
<1>. DEFINE inst == Head(inFlight)
            v == inst.op.vaddr
            data == packetdata(inst, memory[translate[v]])
<1>1. inFlight \in Seq(FlightInst) /\ inFlight # <<>>
  BY DEF LVPInv, LVPTypeOK, CommitLoad, commits
<1>2. inst \in FlightInst
  BY <1>1
<1>3. /\ v \in VAddr /\ inst.op.pc \in PC
      /\ inst.pred.predict \in BOOLEAN /\ inst.pred.value \in Data
      /\ inst.pred.index \in Index
  BY <1>2 DEF FlightInst, Op, Prediction
<1>4. translate[v] \in PAddr /\ memory[translate[v]] \in Data
  BY <1>3, LVPAssumption DEF LVPInv, LVPTypeOK
<1>5. data = memory[translate[v]]
  BY <1>2, PacketIsMemory
<1>. HIDE DEF inst, data
<1>6. CVUTypeOK' /\ entriesTranslated' /\ EntriesAgreeWithMemory'
  <2>1. memory' = memory
    BY DEF CommitLoad
  <2>2. CASE addsEntry(inst, data)
    <3>1. AddEntryToCVU(data, inst.pred.index, v, translate[v])
      BY <2>2 DEF CommitLoad, inst, data
    <3>2. CVUTypeOK' /\ \E victim \in 0 .. cvuTableSize :
            cvuTable' = [i \in Slot |->
                IF i = victim THEN newEntry(data, inst.pred.index, v, translate[v])
                              ELSE cvuTable[i]]
      BY <1>3, <1>4, <1>5, <3>1, AddEffect DEF LVPInv, LVPTypeOK
    <3>3. QED
      BY <1>3, <1>5, <2>1, <3>2 DEF LVPInv, newEntry, entriesTranslated,
                                    EntriesAgreeWithMemory
  <2>3. CASE ~addsEntry(inst, data)
    <3>1. UNCHANGED cvuVars
      BY <2>3 DEF CommitLoad, inst, data
    <3>2. QED
      BY <2>1, <3>1 DEF cvuVars, LVPInv, LVPTypeOK, CVUTypeOK,
                        entriesTranslated, EntriesAgreeWithMemory
  <2>4. QED
    BY <2>2, <2>3
<1>7. branch' \in Update
  <2>1. branch' = outcome(inst, data)
    BY DEF CommitLoad, inst, data
  <2>2. QED
    BY <1>3, <1>4, <1>5, <2>1 DEF outcome, Update
<1>8. T!LVPTTypeOK'
  BY DEF LVPInv, LVPTypeOK, CommitLoad, commits, T!LVPTTypeOK
<1>9. LVPTypeOK'
  <2>1. /\ memCommitted' = TRUE /\ inFlight' = Tail(inFlight)
        /\ eToF1' = eToF1 /\ stores' = stores /\ branches' = branches
        /\ memory' = memory
    BY DEF CommitLoad, commits
  <2>2. /\ memory \in [PAddr -> Data] /\ eToF1 \in Update
        /\ stores \in Nat /\ branches \in Nat
    BY DEF LVPInv, LVPTypeOK
  <2>3. inFlight' \in Seq(FlightInst)
    BY <1>1, <2>1
  <2>4. QED
    BY <1>6, <1>7, <1>8, <2>1, <2>2, <2>3, Zenon DEF LVPTypeOK
<1>10. QED
  BY <1>6, <1>9 DEF LVPInv

\* A store invalidates the entries of every virtual address of the word.
LEMMA StoreKeepsCoherent ==
    ASSUME LVPInv, NEW value \in Data, CommitStore(value)
    PROVE  LVPInv'
<1>. DEFINE inst == Head(inFlight)
            v == inst.op.vaddr
            data == packetdata(inst, value)
<1>1. inFlight \in Seq(FlightInst) /\ inFlight # <<>>
  BY DEF LVPInv, LVPTypeOK, CommitStore, commits
<1>2. inst \in FlightInst
  BY <1>1
<1>3. v \in VAddr /\ inst.pred.value \in Data
  BY <1>2 DEF FlightInst, Op, Prediction
<1>4. translate[v] \in PAddr
  BY <1>3, LVPAssumption
<1>5. data \in Data
  BY <1>3 DEF packetdata
<1>. HIDE DEF inst, data
<1>6. /\ storeInvalidate(v, translate[v])
      /\ memory' = [memory EXCEPT ![translate[v]] = data]
  BY DEF CommitStore, inst, data
<1>7. memory \in [PAddr -> Data] /\ memory' \in [PAddr -> Data] /\ CVUTypeOK
  BY <1>4, <1>5, <1>6 DEF LVPInv, LVPTypeOK
<1>8. /\ CVUTypeOK'
      /\ \A i \in Slot :
            /\ cvuTable'[i].valid =
                 (cvuTable[i].valid /\ i \notin storeMatches(v, translate[v]))
            /\ cvuTable'[i].vaddr = cvuTable[i].vaddr
            /\ cvuTable'[i].paddr = cvuTable[i].paddr
            /\ cvuTable'[i].data = cvuTable[i].data
  BY <1>3, <1>4, <1>6, <1>7, StoreEffect
<1>9. ASSUME NEW i \in Slot, cvuTable'[i].valid
      PROVE  /\ cvuTable'[i].vaddr \in VAddr
             /\ cvuTable'[i].paddr = translate[cvuTable'[i].vaddr]
             /\ cvuTable'[i].data = memory'[cvuTable'[i].paddr]
  <2>1. cvuTable[i].valid /\ i \notin storeMatches(v, translate[v])
    BY <1>8, <1>9
  <2>2. cvuTable[i].paddr # translate[v]
    BY <2>1 DEF storeMatches
  <2>3. /\ cvuTable[i].vaddr \in VAddr
        /\ cvuTable[i].paddr = translate[cvuTable[i].vaddr]
        /\ cvuTable[i].data = memory[cvuTable[i].paddr]
    BY <2>1 DEF LVPInv, entriesTranslated, EntriesAgreeWithMemory
  <2>4. cvuTable[i].paddr \in PAddr
    BY <2>3, LVPAssumption
  <2>5. memory'[cvuTable[i].paddr] = memory[cvuTable[i].paddr]
    BY <1>6, <1>7, <2>2, <2>4
  <2>6. QED
    BY <1>8, <2>3, <2>5
<1>10. entriesTranslated' /\ EntriesAgreeWithMemory'
  BY <1>9 DEF entriesTranslated, EntriesAgreeWithMemory
<1>11. cleared \in Update
  BY CVUAssumption DEF Update, cleared
<1>12. T!LVPTTypeOK'
  BY DEF LVPInv, LVPTypeOK, CommitStore, commits, T!LVPTTypeOK
<1>13. LVPTypeOK'
  BY <1>1, <1>7, <1>8, <1>11, <1>12
     DEF LVPInv, LVPTypeOK, CommitStore, commits
<1>14. QED
  BY <1>10, <1>13 DEF LVPInv

\* A branch disturbs the latch and what is in flight only.
LEMMA BranchPreserves ==
    ASSUME LVPInv, NEW garbage \in Uninitialised, NEW streamChange \in BOOLEAN,
           CommitBranch(garbage, streamChange)
    PROVE  LVPInv'
<1>1. garbage \in Update
  <2>1. CASE garbage = cleared
    BY <2>1, CVUAssumption DEF Update, cleared
  <2>2. CASE garbage # cleared
    <3>1. PICK d \in Data, pc \in PC, predict \in BOOLEAN :
            garbage = [value |-> d, addr |-> 0, pc |-> pc, predict |-> predict,
                       constant |-> TRUE]
      BY <2>2 DEF Uninitialised
    <3>2. QED
      BY <3>1 DEF Update
  <2>3. QED
    BY <2>1, <2>2
<1>2. inFlight' \in Seq(FlightInst)
  BY DEF LVPInv, LVPTypeOK, CommitBranch
<1>3. T!LVPTTypeOK' /\ CVUTypeOK'
  BY DEF LVPInv, LVPTypeOK, CommitBranch, T!LVPTTypeOK, CVUTypeOK, cvuVars
<1>4. branches' \in Nat
  BY DEF LVPInv, LVPTypeOK, CommitBranch
<1>5. LVPTypeOK'
  BY <1>1, <1>2, <1>3, <1>4 DEF LVPInv, LVPTypeOK, CommitBranch
<1>6. entriesTranslated' /\ EntriesAgreeWithMemory'
  BY DEF LVPInv, CommitBranch, cvuVars, entriesTranslated, EntriesAgreeWithMemory
<1>7. QED
  BY <1>5, <1>6 DEF LVPInv

\* Fetch2 makes instructions with predictions of a line.
LEMMA FetchedInsts ==
    ASSUME LVPInv, NEW fetchAddr \in DOMAIN lines
    PROVE  fetched(fetchAddr) \in Seq(FlightInst)
<1>1. fetchAddr \in PC /\ lines[fetchAddr] \in Seq(Op)
  BY LVPAssumption
<1>2. T!read(fetchAddr) \in Prediction
  BY <1>1, ReadsPrediction DEF LVPInv, LVPTypeOK
<1>3. ASSUME NEW i \in DOMAIN lines[fetchAddr]
      PROVE  [op |-> lines[fetchAddr][i], pred |-> T!read(fetchAddr)]
                 \in FlightInst
  BY <1>1, <1>2 DEF FlightInst
<1>4. DOMAIN lines[fetchAddr] = 1 .. Len(lines[fetchAddr])
      /\ Len(lines[fetchAddr]) \in Nat
  BY <1>1
<1>5. QED
  BY <1>3, <1>4 DEF fetched

\* The number of stores in a line is a natural number.
LEMMA StoresCounted ==
    ASSUME LVPInv, NEW fetchAddr \in DOMAIN lines, ProcessResponse(fetchAddr)
    PROVE  stores' \in Nat
<1>. DEFINE all == DOMAIN lines[fetchAddr]
            some == {i \in all : lines[fetchAddr][i].kind = "store"}
<1>1. all = 1 .. Len(lines[fetchAddr]) /\ Len(lines[fetchAddr]) \in Nat
  BY LVPAssumption
<1>2. IsFiniteSet(all)
  BY <1>1, FS_Interval
<1>3. IsFiniteSet(some)
  BY <1>2, FS_Subset
<1>4. Cardinality(some) \in Nat
  BY <1>3, FS_CardinalityType
<1>5. QED
  BY <1>4 DEF ProcessResponse, LVPInv, LVPTypeOK

\* Every step of a cycle preserves the invariant.
LEMMA LVPStep == LVPInv /\ [LVPNext]_lvpVars => LVPInv'
<1>. SUFFICES ASSUME LVPInv, [LVPNext]_lvpVars PROVE LVPInv'
  OBVIOUS
<1>1. ASSUME NEW fetchAddr \in DOMAIN lines, ProcessResponse(fetchAddr)
      PROVE  LVPInv'
  BY <1>1, FetchedInsts, StoresCounted, FetchPreserves DEF ProcessResponse
<1>2. CASE NoLine
  <2>1. <<>> \in Seq(FlightInst) /\ stores' \in Nat
    BY <1>2 DEF NoLine, LVPInv, LVPTypeOK
  <2>2. QED
    BY <1>2, <2>1, FetchPreserves DEF NoLine
<1>3. CASE CommitLoad
  BY <1>3, LoadKeepsCoherent
<1>4. ASSUME NEW value \in Data, CommitStore(value)
      PROVE  LVPInv'
  BY <1>4, StoreKeepsCoherent
<1>5. ASSUME NEW garbage \in Uninitialised, NEW streamChange \in BOOLEAN,
             CommitBranch(garbage, streamChange)
      PROVE  LVPInv'
  BY <1>5, BranchPreserves
<1>6. CASE UNCHANGED lvpVars
  BY <1>6 DEF lvpVars, cvuVars, LVPInv, LVPTypeOK, CVUTypeOK, T!LVPTTypeOK,
              entriesTranslated, EntriesAgreeWithMemory
<1>7. QED
  BY <1>1, <1>2, <1>3, <1>4, <1>5, <1>6 DEF LVPNext

\* The inductive invariant holds in every reachable state.
THEOREM LVPInvariant == LVPSpec => []LVPInv
BY LVPInitInv, LVPStep, PTL DEF LVPSpec

\* Every variable of the prediction loop keeps its type; among them, garbage in
\* the eToF1 latch never leaves a counter of the LCT out of range.
THEOREM LVPTypeCorrect == LVPSpec => []LVPTypeOK
<1>1. LVPInv => LVPTypeOK
  BY DEF LVPInv
<1>2. QED
  BY <1>1, LVPInvariant, PTL

\* A valid CVU entry agrees with memory (execute.cc, handleMemResponse: stores
\* invalidate, right predictions add), for every program, every number of
\* entries and every mapping of virtual to physical addresses.
THEOREM LVPCoherent == LVPSpec => []EntriesAgreeWithMemory
<1>1. LVPInv => EntriesAgreeWithMemory
  BY DEF LVPInv
<1>2. QED
  BY <1>1, LVPInvariant, PTL
=============================================================================
