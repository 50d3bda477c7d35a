------------------------------- MODULE MCLSQ -------------------------------
(***************************************************************************)
(* Instances of LSQ for TLC.                                               *)
(***************************************************************************)
EXTENDS LSQ

Identity == [v \in 0 .. 7 |-> v]

OneByteData == {<<0>>, <<1>>}
TwoByteData == {<<a, b>> : a, b \in {0, 1}}
OneByteZero == <<0>>
TwoByteZero == <<0, 0>>

loadOf(order, vaddr, n, pred) ==
    [kind |-> "load", order |-> order, vaddr |-> vaddr,
     data |-> [b \in 1 .. n |-> 0], pred |-> pred]
storeOf(order, vaddr, data, pred) ==
    [kind |-> "store", order |-> order, vaddr |-> vaddr, data |-> data,
     pred |-> pred]
barrierOp == [noOp EXCEPT !.kind = "barrier"]
branchOp == noOp

constantPred(value) == [predict |-> TRUE, constant |-> TRUE, value |-> value,
                        index |-> 0, counter |-> thresholdLCT]

\* Words that only accesses of their size touch, loads with predictions.
PredictedLoads == {loadOf("normal", v, 2, p) : v \in {0, 6},
                      p \in {noPred, constantPred(<<0, 0>>), constantPred(<<1, 1>>)}}
WordStores == {storeOf("normal", v, <<1, 1>>, noPred) : v \in {0, 6}}

\* Accesses that contain, overlap and miss one another; the load of the two
\* bytes at 3 crosses a line.
SizedLoads ==
    {loadOf("normal", a[1], a[2], noPred) : a \in {<<2, 2>>, <<3, 1>>, <<3, 2>>}}
SizedStores == {storeOf("normal", 2, <<1, 1>>, noPred),
                storeOf("normal", 3, <<0>>, noPred)}

ValueOps == PredictedLoads \cup WordStores \cup SizedLoads \cup SizedStores

\* Strictly ordered, LL/SC and plain accesses of one byte, a load that contains
\* it, a store that crosses a line, and branches.
OrderedOps ==
    {loadOf("normal", 2, 2, noPred)} \cup
    {loadOf(o, 3, 1, noPred) : o \in {"normal", "strict", "llsc"}}
    \cup {storeOf(o, 3, <<0>>, noPred) : o \in {"strict", "llsc"}}
    \cup {storeOf("normal", 3, <<1, 1>>, noPred)}
    \cup {branchOp}

LiveOps == {loadOf("normal", 2, 1, noPred), loadOf("strict", 1, 1, noPred),
            storeOf("normal", 1, <<1>>, noPred), storeOf("release", 1, <<1>>, noPred),
            barrierOp, branchOp}

\* A load and a store that share a fetched line, hence a prediction.
SharedLineOps == {loadOf("normal", 1, 1, constantPred(<<0>>)),
                  storeOf("normal", 1, <<1>>, constantPred(<<0>>))}

\* Constant loads at more addresses than the CVU has entries.
EvictingOps == {loadOf("normal", v, 1, constantPred(<<0>>)) : v \in {1, 2}}
=============================================================================
