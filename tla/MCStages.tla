----------------------------- MODULE MCStages ------------------------------
(***************************************************************************)
(* Two threads, wide and narrow stages, one slow latch, the smallest       *)
(* buffers in front of Decode and ExecuteDummy.                            *)
(***************************************************************************)
EXTENDS StagesQueue

Threads == {0, 1}
MCMaxInsts == [t \in Threads |-> 3 - 2 * t]
MCGroups == {<<1>>, <<2, 1>>}
MCCapacity == [decode |-> 1, executeDummy |-> 1, execute |-> 2]
MCDelay == [decode |-> 1, executeDummy |-> 1, execute |-> 2]
MCWidth == [fetch2 |-> 2, decode |-> 2, executeDummy |-> 1]
MCMore == [decode |-> FALSE, executeDummy |-> TRUE, execute |-> TRUE]
=============================================================================
