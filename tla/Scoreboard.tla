----------------------------- MODULE Scoreboard -----------------------------
(***************************************************************************)
(* The scoreboard of each thread (src/cpu/myminor/scoreboard.cc) and the   *)
(* in-order flow of instructions it keeps count of: inputBuffer ->         *)
(* inFlightInsts -> completed, with memory references handed to the LSQ    *)
(* anywhere in between.                                                    *)
(*                                                                         *)
(* ScoreboardSpec says when Execute marks, waits and clears, and leaves    *)
(* out why and in which cycle: Execute.tla adds the functional units, the  *)
(* LSQ, streams and time, and implements it.  Times are cycles from now.   *)
(***************************************************************************)
EXTENDS Integers, Sequences, FiniteSets

CONSTANTS
    Thread,
    RegId,          \* architectural registers
    Index,          \* entries of a scoreboard
    untracked,      \* findIndex found no entry
    Flattening,     \* what flattenRegId and findIndex make of a register in
                    \* each mode of a thread
    resetMode,      \* the mode threads start in
    Op,             \* static instructions
    FUIndex,        \* functional units
    noCostFUIndex,
    Cycles          \* latencies

invalidFUIndex == -1

ASSUME ScoreboardAssumption ==
    /\ untracked \notin Index
    /\ Flattening \subseteq [RegId -> Index \cup {untracked}]
    /\ resetMode \in Flattening
    /\ invalidFUIndex \notin FUIndex \cup {noCostFUIndex}
    /\ Cycles \subseteq Nat
    /\ \A op \in Op : /\ op.srcs \in Seq(RegId) /\ op.dests \subseteq RegId
                      /\ op.memRef \in BOOLEAN

VARIABLES
    regMap,             \* the thread's mode
    execSeqNum,         \* of the last instruction that arrived
    inputBuffer,        \* execSeqNums
    inFlightInsts,      \* execSeqNums, oldest first
    insts,              \* what the instructions in both carry
    numResults, numUnpredictableResults, returnCycle, writingInst, fuIndices

resultVars == <<numResults, numUnpredictableResults, returnCycle, writingInst,
                fuIndices>>
flowVars == <<execSeqNum, inputBuffer, inFlightInsts>>
scoreboardVars == <<regMap, flowVars, insts, resultVars>>

waiting(t) == {inputBuffer[t][k] : k \in DOMAIN inputBuffer[t]}
inFlight(t) == {inFlightInsts[t][k] : k \in DOMAIN inFlightInsts[t]}
headInst(t) == Head(inFlightInsts[t])

ScoreboardInit ==
    /\ regMap = [t \in Thread |-> resetMode]
    /\ execSeqNum = [t \in Thread |-> 0]
    /\ inputBuffer = [t \in Thread |-> <<>>]
    /\ inFlightInsts = [t \in Thread |-> <<>>]
    /\ insts = [t \in Thread |-> <<>>]
    /\ numResults = [t \in Thread |-> [i \in Index |-> 0]]
    /\ numUnpredictableResults = [t \in Thread |-> [i \in Index |-> 0]]
    /\ returnCycle = [t \in Thread |-> [i \in Index |-> 0]]
    /\ writingInst = [t \in Thread |-> [i \in Index |-> 0]]
    /\ fuIndices = [t \in Thread |-> [i \in Index |-> invalidFUIndex]]

----------------------------------------------------------------------------
\* The scoreboard.

srcRegs(op) == {op.srcs[k] : k \in DOMAIN op.srcs}

\* The entries of registers regs of thread t in its present mode.
flatten(t, regs) == {regMap[t][r] : r \in regs} \ {untracked}

\* The largest element of a set of numbers.
largest(S) == CHOOSE x \in S : \A y \in S : y <= x

\* Variant: the oldest writer still in flight is enough.
oldestWriter(t, op) ==
    LET written == {m \in inFlight(t) : insts[t][m].flatDestRegIdx
                                        \cap flatten(t, srcRegs(op)) # {}}
    IN  IF written = {} THEN 0
        ELSE CHOOSE m \in written : \A k \in written : m <= k

execSeqNumToWaitFor(t, op) ==
    largest({0} \cup {writingInst[t][i] : i \in flatten(t, srcRegs(op))})

\* How long before its producer's returnCycle the k-th source may be read.
relativeLatency(lats, k) ==
    IF lats = <<>> THEN 0 ELSE lats[IF k > Len(lats) THEN Len(lats) ELSE k]

canInstIssue(t, op, lats, cantForward, later) ==
    \A k \in DOMAIN op.srcs :
        LET i == regMap[t][op.srcs[k]]
            lat == IF i \in Index /\ fuIndices[t][i] \in cantForward THEN 0
                   ELSE relativeLatency(lats, k)
        IN  i \in Index => /\ returnCycle[t][i] <= later + lat
                           /\ numUnpredictableResults[t][i] = 0

markupInstDests(t, n, dests, fu, retire_time, mark_unpredictable) ==
    /\ numResults' = [numResults EXCEPT ![t] =
          [i \in Index |-> IF i \in dests THEN @[i] + 1 ELSE @[i]]]
    /\ numUnpredictableResults' = [numUnpredictableResults EXCEPT ![t] =
          [i \in Index |-> IF i \in dests /\ mark_unpredictable
                           THEN @[i] + 1 ELSE @[i]]]
    /\ returnCycle' = [returnCycle EXCEPT ![t] =
          [i \in Index |-> IF i \in dests THEN retire_time ELSE @[i]]]
    /\ writingInst' = [writingInst EXCEPT ![t] =
          [i \in Index |-> IF i \in dests /\ n > @[i] THEN n ELSE @[i]]]
    /\ fuIndices' = [fuIndices EXCEPT ![t] =
          [i \in Index |-> IF i \in dests /\ n > writingInst[t][i]
                           THEN fu ELSE @[i]]]

\* Clear the entries dests, the last result of which may be still to come.
clearEntries(t, dests, clear_unpredictable) ==
    LET last == {i \in dests : numResults[t][i] = 1}
    IN  /\ numResults' = [numResults EXCEPT ![t] =
              [i \in Index |-> IF i \in dests THEN @[i] - 1 ELSE @[i]]]
        /\ numUnpredictableResults' = [numUnpredictableResults EXCEPT ![t] =
              [i \in Index |-> IF i \in dests /\ clear_unpredictable /\ @[i] # 0
                               THEN @[i] - 1 ELSE @[i]]]
        /\ returnCycle' = [returnCycle EXCEPT ![t] =
              [i \in Index |-> IF i \in last THEN 0 ELSE @[i]]]
        /\ writingInst' = [writingInst EXCEPT ![t] =
              [i \in Index |-> IF i \in last THEN 0 ELSE @[i]]]
        /\ fuIndices' = [fuIndices EXCEPT ![t] =
              [i \in Index |-> IF i \in last THEN invalidFUIndex ELSE @[i]]]

\* Variant: flatten the destinations again, in the mode of the thread now.
clearFlattenedAgain(t, inst, clear_unpredictable) ==
    clearEntries(t, flatten(t, inst.op.dests), clear_unpredictable)

clearInstDests(t, inst, clear_unpredictable) ==
    clearEntries(t, inst.flatDestRegIdx, clear_unpredictable)
----------------------------------------------------------------------------
\* The flow of instructions through Execute.

\* An instruction as it comes from the latch.  flatSrcs, which the code does
\* not keep, is the entries its sources had when it was issued.
newInst(op) ==
    [op |-> op, flatSrcs |-> {}, flatDestRegIdx |-> {}, instToWaitFor |-> 0,
     canEarlyIssue |-> FALSE, inLSQ |-> FALSE]

arrive(t, op) ==
    LET n == execSeqNum[t] + 1
    IN  /\ execSeqNum' = [execSeqNum EXCEPT ![t] = n]
        /\ inputBuffer' = [inputBuffer EXCEPT ![t] = Append(@, n)]
        /\ insts' = [insts EXCEPT ![t] =
              [m \in DOMAIN @ \cup {n} |-> IF m = n THEN newInst(op) ELSE @[m]]]
        /\ UNCHANGED <<regMap, inFlightInsts, resultVars>>

\* The first k instructions of the input are popped without being issued.
discardInputs(t, k) ==
    /\ inputBuffer' = [inputBuffer EXCEPT ![t] = SubSeq(@, k + 1, Len(@))]
    /\ UNCHANGED <<regMap, execSeqNum, inFlightInsts, insts, resultVars>>

\* Execute::issue, once it has found a unit for the next instruction: barrier
\* is the last memory barrier issued.
issueInst(t, fu, retire_time, mark_unpredictable, early, barrier) ==
    LET n == Head(inputBuffer[t])
        op == insts[t][n].op
        dests == flatten(t, op.dests)
        wait == largest({execSeqNumToWaitFor(t, op), barrier})
    IN  /\ inputBuffer' = [inputBuffer EXCEPT ![t] = Tail(@)]
        /\ inFlightInsts' = [inFlightInsts EXCEPT ![t] = Append(@, n)]
        /\ insts' = [insts EXCEPT ![t][n] =
              [op |-> op, flatSrcs |-> flatten(t, srcRegs(op)),
               flatDestRegIdx |-> dests,
               instToWaitFor |-> IF early THEN wait ELSE 0,
               canEarlyIssue |-> early, inLSQ |-> FALSE]]
        /\ markupInstDests(t, n, dests, fu, retire_time, mark_unpredictable)
        /\ UNCHANGED <<regMap, execSeqNum>>

\* A memory reference goes to the LSQ, or faults on its way there early.
accessMemory(t, n) ==
    /\ insts' = [insts EXCEPT ![t][n].inLSQ = TRUE]
    /\ UNCHANGED <<regMap, flowVars, resultVars>>
faultEarly(t, n) ==
    /\ insts' = [insts EXCEPT ![t][n].canEarlyIssue = FALSE]
    /\ UNCHANGED <<regMap, flowVars, resultVars>>

\* The end of an iteration of the loop of commit that completes inst: it pops
\* the head of inFlightInsts, whichever that is.
completeInst(t, inst) ==
    /\ inFlightInsts' = [inFlightInsts EXCEPT ![t] = Tail(@)]
    /\ clearInstDests(t, inst, inst.op.memRef)
    /\ UNCHANGED <<execSeqNum, inputBuffer, insts>>

\* A cycle ends; the last references to completed instructions go with it.
passTime ==
    /\ returnCycle' = [t \in Thread |-> [i \in Index |->
          IF returnCycle[t][i] = 0 THEN 0 ELSE returnCycle[t][i] - 1]]
    /\ insts' = [t \in Thread |->
          [n \in waiting(t) \cup inFlight(t) |-> insts[t][n]]]
    /\ UNCHANGED <<regMap, flowVars, numResults, numUnpredictableResults,
                   writingInst, fuIndices>>

changeMode(t) ==
    \E f \in Flattening : regMap' = [regMap EXCEPT ![t] = f]

----------------------------------------------------------------------------
\* What Execute relies on: memory references overtake older instructions on
\* their way to the LSQ only as far as instToWaitFor allows, and everything
\* else happens in program order.

mayAccess(t, n) ==
    /\ insts[t][n].op.memRef /\ ~insts[t][n].inLSQ
    /\ \/ n = headInst(t)
       \/ insts[t][n].canEarlyIssue /\ headInst(t) > insts[t][n].instToWaitFor

ThreadNext(t) ==
    \/ \E op \in Op : arrive(t, op)
    \/ \E k \in 1 .. Len(inputBuffer[t]) : discardInputs(t, k)
    \/ /\ inputBuffer[t] # <<>>
       /\ \E fu \in FUIndex \cup {noCostFUIndex}, retire_time \in Cycles,
             mark_unpredictable, early \in BOOLEAN,
             barrier \in 0 .. execSeqNum[t] :
            issueInst(t, fu, retire_time, mark_unpredictable, early, barrier)
    \/ \E n \in inFlight(t) : mayAccess(t, n) /\ accessMemory(t, n)
    \/ \E n \in inFlight(t) : mayAccess(t, n) /\ faultEarly(t, n)
    \/ /\ inFlightInsts[t] # <<>>
       /\ completeInst(t, insts[t][headInst(t)])
       /\ changeMode(t)
    \/ changeMode(t) /\ UNCHANGED <<flowVars, insts, resultVars>>

ScoreboardNext == passTime \/ \E t \in Thread : ThreadNext(t)

ScoreboardSpec == ScoreboardInit /\ [][ScoreboardNext]_scoreboardVars

----------------------------------------------------------------------------
\* Properties.

writers(t, i) == {n \in inFlight(t) : i \in insts[t][n].flatDestRegIdx}

\* The counts and the names in a scoreboard (numResults and writingInst) are
\* those of the in-flight instructions that write the register, whatever was
\* issued, discarded or completed, and in whatever mode the thread was then:
\* numResults never wraps below zero, and writingInst is the youngest writer.
ScoreboardExact ==
    \A t \in Thread, i \in Index :
        /\ numResults[t][i] = Cardinality(writers(t, i))
        /\ \A n \in writers(t, i) : n <= writingInst[t][i]
        /\ writingInst[t][i] \in writers(t, i) \cup {0}

\* A memory reference given to the LSQ, possibly ahead of older instructions
\* (early_memory_issue in Execute::commit), reads no register that an older
\* instruction has still to write.
ReadsAfterWrites ==
    \A t \in Thread : \A m, n \in inFlight(t) :
        m < n /\ insts[t][n].inLSQ
            => insts[t][m].flatDestRegIdx \cap insts[t][n].flatSrcs = {}
=============================================================================
