----------------------------- MODULE InstQueue -----------------------------
(***************************************************************************)
(* What the stages between Fetch2 and Execute promise: a queue of          *)
(* micro-ops for each thread, which Execute takes in order and which are   *)
(* numbered one after the other.  Scoreboard.tla assumes no more of what   *)
(* arrives.                                                                *)
(***************************************************************************)
EXTENDS Naturals, Sequences

CONSTANTS Thread, Groups    \* what Fetch2 may send at a time

VARIABLES
    fetched,    \* instructions sent
    waiting,    \* micro-ops sent and not taken
    taken       \* execSeqNum of the last one taken

\* The micro-ops of the instructions after the n-th, which decompose as in g.
microops(n, g) ==
    LET F[k \in 0 .. Len(g)] ==
          IF k = 0 THEN <<>>
          ELSE F[k - 1] \o [u \in 1 .. g[k] |-> <<n + k, u>>]
    IN  F[Len(g)]

Init ==
    /\ fetched = [t \in Thread |-> 0]
    /\ waiting = [t \in Thread |-> <<>>]
    /\ taken = [t \in Thread |-> 0]

Send(t, g) ==
    /\ fetched' = [fetched EXCEPT ![t] = @ + Len(g)]
    /\ UNCHANGED taken
    /\ waiting' = [waiting EXCEPT ![t] = @ \o microops(fetched[t], g)]

Take(t) ==
    /\ taken' = [taken EXCEPT ![t] = @ + 1]
    /\ UNCHANGED fetched
    /\ waiting[t] # <<>>
    /\ waiting' = [waiting EXCEPT ![t] = Tail(@)]

Next == \E t \in Thread : Take(t) \/ \E g \in Groups : Send(t, g)

Spec == Init /\ [][Next]_<<fetched, waiting, taken>>
=============================================================================
