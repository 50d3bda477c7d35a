----------------------------- MODULE LastValue -----------------------------
(***************************************************************************)
(* What the value table promises: a partial map from instruction addresses *)
(* to the last value installed for them.  Installing a value may displace  *)
(* the values of other addresses but alters none of them.                  *)
(***************************************************************************)
CONSTANTS PC, Value

VARIABLE last       \* pc -> {} or the set of its last value

Init == last = [pc \in PC |-> {}]

Install(pc, value) ==
    \E displaced \in SUBSET (PC \ {pc}) :
        last' = [q \in PC |-> IF q = pc THEN {value}
                              ELSE IF q \in displaced THEN {} ELSE last[q]]

Next == \E pc \in PC, value \in Value : Install(pc, value)

Spec == Init /\ [][Next]_last
=============================================================================
