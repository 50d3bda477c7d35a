-------------------------------- MODULE LVP --------------------------------
(***************************************************************************)
(* Load value prediction around the pipeline: Fetch1 reads the LVPT once   *)
(* for a fetched line, Fetch2 copies the prediction to every instruction   *)
(* of the line, Execute compares it at commit, fills or consults the CVU   *)
(* and sends the outcome back to the LVPT in the lvptIn fields of the      *)
(* BranchData latch eToF1.                                                 *)
(*                                                                         *)
(* A cycle of Pipeline::evaluate is some commits, at most one of them a    *)
(* memory access (executeMemoryCommitLimit), then Fetch1::evaluate and the *)
(* advance of the latch.  The LSQ is abstracted: at commit a load finds in *)
(* its packet what memory holds, and a store performs.                     *)
(***************************************************************************)
EXTENDS CVU

CONSTANTS
    tableSize, threshold, maxValue,     \* the LVPT and LCT
    PC,
    lines,          \* fetch address -> loads and stores of the line, in order
    translate,      \* virtual address -> physical address
    MaxInFlight,    \* bound on instructions between Fetch1 and commit
    MaxStores,      \* bound on stores fetched
    MaxBranches     \* bound on branches that commit

Op == [pc : PC, kind : {"load", "store"}, vaddr : VAddr]

ASSUME LVPAssumption ==
    /\ translate \in [VAddr -> PAddr]
    /\ {MaxInFlight, MaxStores, MaxBranches} \subseteq Nat
    /\ tableSize \in Nat \ {0} /\ tableSize % 4 = 0
    /\ 0 .. tableSize - 1 \subseteq Index
    /\ maxValue \in Nat /\ threshold \in 0 .. maxValue
    /\ PC \subseteq Nat /\ DOMAIN lines \subseteq PC
    /\ \A a \in DOMAIN lines : lines[a] \in Seq(Op)

VARIABLES
    valueTable, predictTable,   \* the LVPT
    inFlight,                   \* fetched instructions with their predictions
    branch,                     \* Execute's end of eToF1 in this cycle
    eToF1,                      \* Fetch1's end
    memCommitted,               \* a memory access has committed in this cycle
    memory,
    stores, branches            \* stores fetched and branches committed so far

T == INSTANCE LVPT WITH Value <- Data, Addr <- VAddr \cup {0},
                        PC <- PC \cup {0}

lvpVars == <<cvuVars, valueTable, predictTable, inFlight, branch, eToF1,
             memCommitted, memory, stores, branches>>

\* The lvptOut fields of an instruction, as far as Execute looks at them.
Prediction == [predict : BOOLEAN, constant : BOOLEAN, value : Data,
               index : Index, counter : Nat]
FlightInst == [op : Op, pred : Prediction]

\* The lvptIn fields of a BranchData: what updateTable is called with.
Update == [value : Data, addr : VAddr \cup {0}, pc : PC \cup {0},
           predict : BOOLEAN, constant : BOOLEAN]
\* No counter to change: the other fields are not looked at.  The latch clears
\* the element it hands to Execute.
cleared == [value |-> zero, addr |-> 0, pc |-> 0, predict |-> FALSE,
            constant |-> FALSE]
\* What may be found in lvptIn fields that are not initialised.
Uninitialised == {cleared} \cup
    {[value |-> d, addr |-> 0, pc |-> pc, predict |-> predict,
      constant |-> TRUE] : d \in Data, pc \in PC, predict \in BOOLEAN}

LVPInit ==
    /\ CVUInit /\ T!LVPTInit
    /\ inFlight = <<>>
    /\ branch = cleared /\ eToF1 = cleared
    /\ memCommitted = FALSE
    /\ memory = [p \in PAddr |-> zero]
    /\ stores = 0 /\ branches = 0

----------------------------------------------------------------------------
\* Fetch1::evaluate.  The LVPT is read before it is updated with the outcome
\* that Execute sent in the previous cycle, and it is updated in every cycle.

\* Fetch2 gives the line's prediction to each of its instructions.
fetched(fetchAddr) ==
    [i \in DOMAIN lines[fetchAddr] |->
        [op |-> lines[fetchAddr][i], pred |-> T!read(fetchAddr)]]

Fetch1Evaluate(newInsts) ==
    /\ newInsts # <<>> => Len(inFlight) < MaxInFlight
    /\ inFlight' = inFlight \o newInsts
    /\ T!updateTable(eToF1.value, eToF1.addr, eToF1.pc, eToF1.predict,
                     eToF1.constant)
    /\ eToF1' = branch /\ branch' = cleared
    /\ memCommitted' = FALSE
    /\ UNCHANGED <<cvuVars, memory, branches>>

ProcessResponse(fetchAddr) ==
    /\ stores' = stores + Cardinality({i \in DOMAIN lines[fetchAddr] :
                                          lines[fetchAddr][i].kind = "store"})
    /\ stores' <= MaxStores
    /\ Fetch1Evaluate(fetched(fetchAddr))

NoLine == Fetch1Evaluate(<<>>) /\ UNCHANGED stores

----------------------------------------------------------------------------
\* Execute::handleMemResponse.
commits(kind) ==
    /\ ~memCommitted
    /\ inFlight # <<>> /\ Head(inFlight).op.kind = kind
    /\ memCommitted' = TRUE
    /\ inFlight' = Tail(inFlight)
    /\ UNCHANGED <<valueTable, predictTable, eToF1, stores, branches>>

\* What the packet holds once a CVU hit has replaced its data.
packetdata(inst, data) ==
    IF verifyEntryInCVU(inst.op.vaddr, inst.pred.index, inst.pred.value,
                        inst.pred.constant)
      THEN inst.pred.value ELSE data

\* A right prediction whose counter is at the threshold goes into the CVU.
addsEntry(inst, data) ==
    /\ inst.pred.predict /\ data = inst.pred.value
    /\ inst.pred.counter = threshold
    /\ ~verifyEntryInCVU(inst.op.vaddr, inst.pred.index, inst.pred.value, TRUE)

\* Variant: a right prediction is reported as a wrong one.
outcomeInverted(inst, data) ==
    [value |-> data, addr |-> inst.op.vaddr, pc |-> inst.op.pc,
     predict |-> ~(inst.pred.predict /\ data = inst.pred.value),
     constant |-> TRUE]

\* change_counter, as the LVPT is told of it.
outcome(inst, data) ==
    [value |-> data, addr |-> inst.op.vaddr, pc |-> inst.op.pc,
     predict |-> inst.pred.predict /\ data = inst.pred.value,
     constant |-> TRUE]

CommitLoad ==
    /\ commits("load")
    /\ LET inst == Head(inFlight)
           v == inst.op.vaddr
           data == packetdata(inst, memory[translate[v]])
       IN /\ IF addsEntry(inst, data)
               THEN AddEntryToCVU(data, inst.pred.index, v, translate[v])
               ELSE UNCHANGED cvuVars
          /\ branch' = outcome(inst, data)
    /\ UNCHANGED memory

\* A store changes no counter.
CommitStore(value) ==
    /\ commits("store")
    /\ LET inst == Head(inFlight)
           v == inst.op.vaddr
           data == packetdata(inst, value)
       IN /\ memory' = [memory EXCEPT ![translate[v]] = data]
          /\ storeInvalidate(v, translate[v])
    /\ branch' = cleared

\* updateBranchData builds a new BranchData: the outcome of a load committed
\* in the same cycle is lost, and nothing initialises the lvptIn fields.  A stream change drops what is in flight.
CommitBranch(garbage, streamChange) ==
    /\ branches < MaxBranches
    /\ branches' = branches + 1
    /\ branch' = garbage
    /\ inFlight' = IF streamChange THEN <<>> ELSE inFlight
    /\ UNCHANGED <<cvuVars, valueTable, predictTable, eToF1, memCommitted,
                   memory, stores>>

LVPNext ==
    \/ \E fetchAddr \in DOMAIN lines : ProcessResponse(fetchAddr)
    \/ NoLine
    \/ CommitLoad
    \/ \E value \in Data : CommitStore(value)
    \/ \E garbage \in Uninitialised, streamChange \in BOOLEAN :
           CommitBranch(garbage, streamChange)

LVPSpec == LVPInit /\ [][LVPNext]_lvpVars

----------------------------------------------------------------------------
LVPTypeOK ==
    /\ CVUTypeOK /\ T!LVPTTypeOK
    /\ inFlight \in Seq(FlightInst)
    /\ memory \in [PAddr -> Data]
    /\ branch \in Update /\ eToF1 \in Update
    /\ memCommitted \in BOOLEAN
    /\ stores \in Nat /\ branches \in Nat

\* A valid CVU entry agrees with memory, under whatever the LVPT predicts,
\* stale predictions in flight, garbage in the latch, and loads and stores that
\* share a line's prediction; hence a load that skips the cache on a CVU hit
\* commits what the cache would have returned.
EntriesAgreeWithMemory ==
    \A i \in Slot : cvuTable[i].valid =>
        cvuTable[i].data = memory[cvuTable[i].paddr]

\* The program keeps executing the line of the load and its accesses commit.
LVPFairSpec ==
    /\ LVPSpec
    /\ \A fetchAddr \in DOMAIN lines : SF_lvpVars(ProcessResponse(fetchAddr))
    /\ SF_lvpVars(CommitLoad)
    /\ SF_lvpVars(\E value \in Data : CommitStore(value))
    /\ WF_lvpVars(NoLine)

\* The load that a line is fetched at is predicted, and the CVU verifies it.
verified(fetchAddr) ==
    /\ T!read(fetchAddr).constant
    /\ verifyEntryInCVU(lines[fetchAddr][1].vaddr, T!read(fetchAddr).index,
                        T!read(fetchAddr).value, TRUE)

\* "If threshhold is now at constant value, add to CVU" (execute.cc,
\* handleMemResponse): a load at the start of a line, in a program that goes on
\* fetching it and has ceased to change memory, ends up verified for good,
\* whatever stores, branches, stale predictions and evictions came before.
EventuallyVerified ==
    \A fetchAddr \in DOMAIN lines :
        lines[fetchAddr][1].kind = "load" => <>[]verified(fetchAddr)
=============================================================================
