-------------------------------- MODULE LVPT -------------------------------
(***************************************************************************)
(* The Load Value Prediction Table (src/cpu/myminor/LVPT.cc): a            *)
(* direct-mapped table of tagged last values and, beside it, the Load      *)
(* Classification Table (LCT) predictTable of saturating counters, one for *)
(* every four adjacent indices.                                            *)
(*                                                                         *)
(* tableSize is a power of two, so the masks of the code are remainders.   *)
(***************************************************************************)
EXTENDS Naturals

CONSTANTS
    tableSize,      \* tableSizeLVPT
    threshold,      \* thresholdLCT
    maxValue,       \* maxValueLCT
    PC,             \* addresses that lines are fetched from and loads have
    Value,          \* 8-byte load values
    Addr,           \* data addresses
    zero            \* the all-zero value

ASSUME LVPTAssumption ==
    /\ tableSize \in Nat \ {0} /\ tableSize % 4 = 0
    /\ maxValue \in Nat
    /\ threshold \in 0 .. maxValue      \* the fatal() of the constructor
    /\ PC \subseteq Nat
    /\ Addr \subseteq Nat
    /\ zero \in Value

VARIABLES
    valueTable,     \* index -> last value installed, with its tag
    predictTable    \* the LCT

lvptVars == <<valueTable, predictTable>>

Entry == [valid : BOOLEAN, tag : Nat, addr : Addr \cup {0}, value : Value]

tableIndex(pc) == pc % tableSize
indexLCT(pc) == tableIndex(pc) \div 4
tagOf(pc) == pc - tableIndex(pc)

LVPTInit ==
    /\ valueTable = [i \in 0 .. tableSize - 1 |->
                       [valid |-> FALSE, tag |-> 0, addr |-> 0, value |-> zero]]
    /\ predictTable = [i \in 0 .. (tableSize \div 4) - 1 |-> 0]

----------------------------------------------------------------------------
\* Variant: the counter does not saturate.
increasedPastMax(counter) == counter + 1

increased(counter) == IF counter >= maxValue THEN counter ELSE counter + 1
decreased(counter) == IF counter = 0 THEN 0 ELSE counter - 1

\* constant: the counter is to change; predict: the prediction was right.
updateTable(data, addr, pc, predict, constant) ==
    IF ~constant
      THEN UNCHANGED lvptVars
      ELSE /\ predictTable' = [predictTable EXCEPT ![indexLCT(pc)] =
                                 IF predict THEN increased(@) ELSE decreased(@)]
           /\ valueTable' = IF predict THEN valueTable
                ELSE [valueTable EXCEPT ![tableIndex(pc)] =
                        [valid |-> TRUE, tag |-> tagOf(pc), addr |-> addr,
                         value |-> data]]

\* Variant: tags are not compared.
hasUntaggedEntry(pc) == valueTable[tableIndex(pc)].valid

hasEntry(pc) ==
    /\ valueTable[tableIndex(pc)].valid
    /\ valueTable[tableIndex(pc)].tag = tagOf(pc)

noPrediction == [predict |-> FALSE, constant |-> FALSE, value |-> zero,
                 index |-> 0, counter |-> 0]

\* What read() hands to the fetched line (the copied pc and address are only
\* logged).
read(pc) ==
    IF ~hasEntry(pc)
      THEN noPrediction
      ELSE [predict |-> TRUE,
            constant |-> predictTable[indexLCT(pc)] >= threshold,
            value |-> valueTable[tableIndex(pc)].value,
            index |-> tableIndex(pc),
            counter |-> predictTable[indexLCT(pc)]]

----------------------------------------------------------------------------
\* The table on its own, under every update Execute can send to Fetch1.
LVPTNext ==
    \E data \in Value, addr \in Addr, pc \in PC, predict, constant \in BOOLEAN :
        updateTable(data, addr, pc, predict, constant)

LVPTSpec == LVPTInit /\ [][LVPTNext]_lvptVars

----------------------------------------------------------------------------
\* Both tables keep their shape and every counter of the LCT stays between 0
\* and maxValueLCT: updateTable neither wraps below zero nor overshoots.
LVPTTypeOK ==
    /\ valueTable \in [0 .. tableSize - 1 -> Entry]
    /\ predictTable \in [0 .. (tableSize \div 4) - 1 -> 0 .. maxValue]

\* The prediction for each address, as a partial map.
predicted == [pc \in PC |-> IF hasEntry(pc) THEN {read(pc).value} ELSE {}]

L == INSTANCE LastValue WITH last <- predicted

\* Behind tags and shared slots the table is a lossy map from instruction
\* addresses to values: what read() predicts for an address is the value the
\* last misprediction at that very address installed, never one installed for
\* another address that shares the slot.
PredictsLastValue == L!Spec
=============================================================================
