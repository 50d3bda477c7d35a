------------------------------ MODULE MCFetch ------------------------------
(***************************************************************************)
(* An instance of Fetch for TLC.                                           *)
(***************************************************************************)
EXTENDS Fetch

\* Four instructions in two lines: a jump over the line's end and one back.
Branches == [pc \in 0 .. 3 |-> CASE pc = 1 -> {3} [] pc = 2 -> {1} [] OTHER -> {}]

none == [streams |-> 0, predictions |-> 0, faults |-> 0, suspends |-> 0,
         drains |-> 0]

\* The rarer events, a few at a time.
FewEvents == {[none EXCEPT !.streams = 1, !.predictions = 1],
              [none EXCEPT !.faults = 1],
              [none EXCEPT !.predictions = 1, !.suspends = 1],
              [none EXCEPT !.drains = 1]}
=============================================================================
