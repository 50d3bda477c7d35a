------------------------------- MODULE Facts -------------------------------
(***************************************************************************)
(* What the CVU promises to the rest of the core: it remembers a set of    *)
(* facts "the load with this LVPT index reads this data at this address".  *)
(* It may forget facts, never more than one when it learns one, but it     *)
(* never invents one, and a committed store makes it forget every fact     *)
(* about the addresses of the store at once, and no other.                 *)
(***************************************************************************)
EXTENDS Naturals

CONSTANTS VAddr, PAddr, Index, Data

VARIABLE facts

Fact == [vaddr : VAddr, paddr : PAddr, index : Index, data : Data]

Init == facts = {}

Forget(vaddr, paddr) ==
    facts' = {f \in facts : f.vaddr # vaddr /\ f.paddr # paddr}

\* Learn a new fact, dropping some other fact.
Learn(f) ==
    /\ f \notin facts
    /\ \E dropped \in SUBSET facts :
         /\ \A g, h \in dropped : g = h
         /\ facts' = (facts \ dropped) \cup {f}

Next ==
    \/ \E vaddr \in VAddr, paddr \in PAddr : Forget(vaddr, paddr)
    \/ \E f \in Fact : Learn(f)

Spec == Init /\ [][Next]_facts
=============================================================================
