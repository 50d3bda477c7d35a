----------------------------- MODULE MCExecute -----------------------------
(***************************************************************************)
(* Instances of Execute for TLC.                                           *)
(***************************************************************************)
EXTENDS Execute

staticInst(k, class, srcs, dests, final) ==
    [kind |-> k, opClass |-> class, srcs |-> srcs, dests |-> dests,
     memRef |-> k \in {"load", "store"}, lastMicroop |-> final]

\* Two architectural registers, the second banked, and one that no scoreboard
\* tracks.
Registers == {"r1", "r2", "misc"}
Entries == {1, 2, 3}
User == [r \in Registers |-> IF r = "r1" THEN 1 ELSE IF r = "r2" THEN 2 ELSE 0]
Banked == [User EXCEPT !["r2"] = 3]

load == staticInst("load", "mem", <<"r1">>, {"r1", "r2"}, TRUE)
store == staticInst("store", "mem", <<"r1", "r2">>, {}, TRUE)
microop == staticInst("alu", "int", <<"misc", "r2">>, {"r1"}, FALSE)
barrier == staticInst("barrier", "int", <<>>, {}, TRUE)
nop == staticInst("nocost", "none", <<>>, {"r1"}, TRUE)
fault == staticInst("fault", "none", <<>>, {}, TRUE)

unit(classes, opLat, issueLat, commitLat, assumedLat, relativeLat) ==
    [opClasses |-> classes, opLat |-> opLat, issueLat |-> issueLat,
     cantForward |-> {},
     timing |-> [lats |-> <<relativeLat>>, extraCommitLat |-> commitLat,
                 extraAssumedLat |-> assumedLat, suppress |-> FALSE]]

\* A slow unit for everything and a fast one for memory references, which asks
\* for its operands late: a reference reaches the end of its unit before the
\* older instructions it needs, and before an older reference, reach theirs.
Units == (0 :> unit({"int", "mem"}, 3, 2, 0, 0, 1))
         @@ (1 :> unit({"mem"}, 1, 1, 1, 1, 3))
ZeroOne == {0, 1}
OneThread == {0}
BothFlattenings == {User, Banked}
Ops == {load, store, microop, barrier, nop, fault}

\* Writers and a store, then anything but a store, then readers and what waits
\* for the rest: few enough programs for the liveness property.
OneThreadOps == [t \in {0} |-> <<{load, store, microop, nop},
                                {load, microop, barrier, nop, fault},
                                {load, store, barrier, fault}>>]

TwoThreads == {0, 1}
move == staticInst("alu", "int", <<>>, {"r1"}, TRUE)
LoadsAndMoves == {load, move}
TwoThreadOps == [t \in {0, 1} |-> [n \in 1 .. MaxInsts |-> LoadsAndMoves]]
LongUnits == (0 :> unit({"int"}, 2, 1, 0, 0, 1))
             @@ (1 :> unit({"mem"}, 2, 1, 0, 1, 1))
UserOnly == {User}
=============================================================================
