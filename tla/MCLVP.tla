------------------------------- MODULE MCLVP -------------------------------
(***************************************************************************)
(* An instance of LVP for TLC: a line with two loads and a line with a     *)
(* store, all of one physical word.                                        *)
(***************************************************************************)
EXTENDS LVP, TLC

inst(pc, kind, vaddr) == [pc |-> pc, kind |-> kind, vaddr |-> vaddr]

TwoLoads == (0 :> <<inst(0, "load", 1), inst(4, "load", 2)>>)
            @@ (6 :> <<inst(6, "store", 1)>>)

\* Two virtual addresses of one physical word.
Synonym == [v \in VAddr |-> 1]
=============================================================================
