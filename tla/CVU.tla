-------------------------------- MODULE CVU --------------------------------
(***************************************************************************)
(* The Constant Verification Unit (src/cpu/myminor/CVU.cc): a small        *)
(* content-addressed table of (vaddr, paddr, LVPT index, data) entries and *)
(* the FIFO InvalidEntries of slots that may be filled next.               *)
(*                                                                         *)
(* The operations are actions on cvuTable and InvalidEntries; the modules  *)
(* that own a CVU take them with INSTANCE.  A write to the slot one past   *)
(* the table, which the random victim can name, lands outside the table:   *)
(* the table keeps its contents and outOfBounds records the write.         *)
(***************************************************************************)
EXTENDS Naturals, Sequences, FiniteSets

CONSTANTS
    cvuTableSize,   \* tableSizeCVU
    VAddr,          \* virtual addresses of data accesses
    PAddr,          \* physical addresses of data accesses
    Index,          \* LVPT indices that instructions carry
    Data,           \* the 8-byte values read from response packets
    zero            \* the all-zero value

ASSUME CVUAssumption ==
    /\ cvuTableSize \in Nat \ {0}
    /\ VAddr \subseteq Nat
    /\ PAddr \subseteq Nat
    /\ Index \subseteq Nat
    /\ zero \in Data

VARIABLES
    cvuTable,       \* slot -> entry
    InvalidEntries, \* slots to fill next, oldest first
    outOfBounds     \* an entry was written past the end of the table

cvuVars == <<cvuTable, InvalidEntries, outOfBounds>>

Slot == 0 .. cvuTableSize - 1

tableEntry == [valid : BOOLEAN, vaddr : VAddr \cup {0}, paddr : PAddr \cup {0},
               index : Index \cup {0}, data : Data]

\* A slot as resize() in the constructor leaves it.
zeroedEntry == [valid |-> FALSE, vaddr |-> 0, paddr |-> 0, index |-> 0,
                data |-> zero]

\* Variant: the constructor pushes 1 .. tableSize.
listFromOne ==
    /\ cvuTable = [i \in Slot |-> zeroedEntry]
    /\ InvalidEntries = [n \in 1 .. cvuTableSize |-> n]
    /\ outOfBounds = FALSE

CVUInit ==
    /\ cvuTable = [i \in Slot |-> zeroedEntry]
    /\ InvalidEntries = [n \in 1 .. cvuTableSize |-> n - 1]
    /\ outOfBounds = FALSE

----------------------------------------------------------------------------
\* Variant: the search stops at the first match, as in verifyEntryInCVU.
firstMatch(vaddr, paddr) ==
    {i \in Slot : /\ cvuTable[i].vaddr = vaddr \/ cvuTable[i].paddr = paddr
                  /\ \A j \in 0 .. i - 1 : /\ cvuTable[j].vaddr # vaddr
                                            /\ cvuTable[j].paddr # paddr}

\* Variant: entries are matched by virtual address alone.
matchesVirtual(vaddr, paddr) == {i \in Slot : cvuTable[i].vaddr = vaddr}

\* The slots whose entry has one of the store's addresses.  The loop does not
\* look at valid.
storeMatches(vaddr, paddr) ==
    {i \in Slot : cvuTable[i].vaddr = vaddr \/ cvuTable[i].paddr = paddr}

\* The listing of a set of slots in the order the loop over hitIndex visits
\* them (a set with one sequence).
inSlotOrder(slots) ==
    {s \in [1 .. Cardinality(slots) -> slots] :
        /\ \A i \in slots : \E n \in DOMAIN s : s[n] = i
        /\ \A m, n \in DOMAIN s : m < n => s[m] < s[n]}

\* Variant: the invalidated slots are not queued.
invalidateUnqueued(vaddr, paddr) ==
    /\ cvuTable' = [i \in Slot |->
           [cvuTable[i] EXCEPT !.valid = @ /\ i \notin storeMatches(vaddr, paddr)]]
    /\ UNCHANGED <<InvalidEntries, outOfBounds>>

\* Variant: a committed store leaves the CVU alone.
storeIgnored(vaddr, paddr) == UNCHANGED cvuVars

\* A committed store invalidates every entry with its address and queues the
\* slots for reuse, the ones that were invalid already included.
storeInvalidate(vaddr, paddr) ==
    LET hits == storeMatches(vaddr, paddr) IN
    /\ cvuTable' = [i \in Slot |->
           [cvuTable[i] EXCEPT !.valid = @ /\ i \notin hits]]
    /\ \E freed \in inSlotOrder(hits) : InvalidEntries' = InvalidEntries \o freed
    /\ UNCHANGED outOfBounds

\* The victims of AddEntryToCVU: the front of InvalidEntries or, when the list
\* is empty, any result of rand() % (tableSize + 1).
victims == IF InvalidEntries = <<>> THEN 0 .. cvuTableSize
                                    ELSE {Head(InvalidEntries)}

newEntry(data, index, vaddr, paddr) ==
    [valid |-> TRUE, vaddr |-> vaddr, paddr |-> paddr, index |-> index,
     data |-> data]

AddEntryToCVU(data, index, vaddr, paddr) ==
    \E victim \in victims :
        /\ cvuTable' = [i \in Slot |->
               IF i = victim THEN newEntry(data, index, vaddr, paddr)
                             ELSE cvuTable[i]]
        /\ InvalidEntries' = IF InvalidEntries = <<>> THEN <<>>
                                                      ELSE Tail(InvalidEntries)
        /\ outOfBounds' = (outOfBounds \/ victim \notin Slot)

\* A load the LVPT calls constant hits when a valid entry has its address,
\* LVPT index and predicted value.
verifyEntryInCVU(address, index, data, constant) ==
    /\ constant
    /\ \E i \in Slot :
         /\ cvuTable[i].valid
         /\ cvuTable[i].vaddr = address
         /\ cvuTable[i].index = index
         /\ cvuTable[i].data = data

----------------------------------------------------------------------------
\* The CVU on its own, driven as Execute::handleMemResponse drives it: stores
\* invalidate, and a load whose value is not verified yet adds an entry.
\* MaxQueued bounds InvalidEntries, which nothing in the code bounds.
CONSTANT MaxQueued

ASSUME QueueBoundAssumption == MaxQueued \in Nat

Store(vaddr, paddr) ==
    /\ Len(InvalidEntries) + cvuTableSize <= MaxQueued
    /\ storeInvalidate(vaddr, paddr)

\* Variant: an entry is added for every constant load, verified or not.
alwaysAdd(data, index, vaddr, paddr) == AddEntryToCVU(data, index, vaddr, paddr)

ConstantLoad(data, index, vaddr, paddr) ==
    /\ ~verifyEntryInCVU(vaddr, index, data, TRUE)
    /\ AddEntryToCVU(data, index, vaddr, paddr)

CVUNext ==
    \/ \E vaddr \in VAddr, paddr \in PAddr : Store(vaddr, paddr)
    \/ \E data \in Data, index \in Index, vaddr \in VAddr, paddr \in PAddr :
           ConstantLoad(data, index, vaddr, paddr)

CVUSpec == CVUInit /\ [][CVUNext]_cvuVars

----------------------------------------------------------------------------
CVUTypeOK ==
    /\ cvuTable \in [Slot -> tableEntry]
    /\ InvalidEntries \in Seq(Slot)
    /\ outOfBounds \in BOOLEAN

\* No slot leaks: every invalid slot is in InvalidEntries, however stores and
\* fills interleave, so AddEntryToCVU resorts to evicting a random entry only
\* when every slot of the table is in use.
FreeSlotsQueued ==
    \A i \in Slot : cvuTable[i].valid
                    \/ \E n \in DOMAIN InvalidEntries : InvalidEntries[n] = i

\* At most one valid entry holds a given (vaddr, index, data), so the first
\* match that verifyEntryInCVU stops at is the only one and a fill after an
\* eviction never leaves a second copy to outlive an invalidation.
OneEntryPerKey ==
    \A i, j \in Slot :
        /\ cvuTable[i].valid /\ cvuTable[j].valid
        /\ cvuTable[i].vaddr = cvuTable[j].vaddr
        /\ cvuTable[i].index = cvuTable[j].index
        /\ cvuTable[i].data = cvuTable[j].data
        => i = j

\* The valid entries, read as facts.
liveFacts ==
    {[vaddr |-> cvuTable[i].vaddr, paddr |-> cvuTable[i].paddr,
      index |-> cvuTable[i].index, data |-> cvuTable[i].data] :
        i \in {j \in Slot : cvuTable[j].valid}}

F == INSTANCE Facts WITH facts <- liveFacts

\* The table with its queue of slots implements a set of facts: whatever slot
\* an entry is written to, no fact is invented, one fact at most is lost, and
\* a store removes exactly the facts about its addresses.
RemembersFacts == F!Spec
=============================================================================
