------------------------------- MODULE Stages -------------------------------
(***************************************************************************)
(* Decode and ExecuteDummy (src/cpu/myminor/decode.cc, executeDummy.cc),   *)
(* the latches and input buffers between Fetch2 and Execute (buffers.hh),  *)
(* and Pipeline::evaluate around them: the order of the stages, idling on  *)
(* the advice of the activity recorder, and draining.                      *)
(*                                                                         *)
(* Fetch2 sends and Execute takes instructions when they like; Fetch.tla   *)
(* and Execute.tla say when.  A cycle of Pipeline::evaluate is             *)
(*                                                                         *)
(*   between -> execute -> executeDummy -> decode -> fetch2 -> idle        *)
(*                                                                         *)
(* with a step for each iteration of the loops of the stages.  A latch and *)
(* an input buffer go by the name of the stage they feed.  StagesQueue.tla *)
(* says what the stages are for.                                           *)
(***************************************************************************)
EXTENDS Integers, Sequences, FiniteSets

CONSTANTS
    Thread,
    MaxInsts,       \* thread -> bound on its instructions
    Groups,         \* what Fetch2 may send: micro-ops of each instruction
    threadPolicy,   \* "SingleThreaded", "RoundRobin" or "Random"
    capacity,       \* stage -> size of its input buffer
    delay,          \* stage -> delay of the latch that feeds it
    outputWidth,    \* stage -> width of the groups it sends
    processMoreThanOneInput

Stage == {"decode", "executeDummy", "execute"}
nextStage == [fetch2 |-> "decode", decode |-> "executeDummy",
              executeDummy |-> "execute"]
evaluatedNext == [execute |-> "executeDummy", executeDummy |-> "decode",
                  decode |-> "fetch2"]

ASSUME StagesAssumption ==
    /\ Thread = 0 .. Cardinality(Thread) - 1
    /\ MaxInsts \in [Thread -> Nat]
    /\ Groups \subseteq Seq(Nat \ {0}) \ {<<>>}
    /\ capacity \in [Stage -> Nat \ {0}] /\ delay \in [Stage -> Nat \ {0}]
    /\ outputWidth \in [DOMAIN nextStage -> Nat \ {0}]
    /\ \A g \in Groups : Len(g) <= outputWidth["fetch2"]
    /\ processMoreThanOneInput \in [Stage -> BOOLEAN]

VARIABLES
    fetched,            \* instructions sent to a thread's Decode
    latch,              \* outputWire first, inputWire last
    queue, numReservedSlots, inputIndex, threadPriority,
    microopPC,          \* micro-ops made of Decode's next macro-op
    execSeqNum,         \* ExecuteDummy's; Decode's is overwritten
    taken,              \* execSeqNum of the last instruction Execute took
    evaluating,         \* where Pipeline::evaluate is, and a stage's locals
    activity,           \* cycles until the latest activity() is forgotten
    stageActive, running, needToSignalDrained,
    fetching,           \* Fetch1 and Fetch2 are not drained
    drained             \* from signalDrainDone to drainResume

pipeVars == <<latch, queue, numReservedSlots, inputIndex, microopPC>>
idleVars == <<activity, stageActive, running, needToSignalDrained, fetching,
              drained>>
vars == <<fetched, pipeVars, threadPriority, execSeqNum, taken, evaluating,
          idleVars>>

bubble == <<>>
none == -1
at(s) == [stage |-> s, started |-> FALSE, tid |-> none, out |-> <<>>,
          more |-> FALSE]
between == at("between")

Init ==
    /\ fetched = [t \in Thread |-> 0]
    /\ latch = [s \in Stage |-> [k \in 1 .. delay[s] + 1 |-> bubble]]
    /\ queue = [s \in Stage |-> [t \in Thread |-> <<>>]]
    /\ numReservedSlots = [s \in Stage |-> [t \in Thread |-> 0]]
    /\ inputIndex = [s \in Stage |-> [t \in Thread |-> 1]]
    /\ threadPriority = [s \in Stage |-> 0]
    /\ microopPC = [t \in Thread |-> 0]
    /\ execSeqNum = [t \in Thread |-> 0]
    /\ taken = [t \in Thread |-> 0]
    /\ evaluating = between
    /\ activity = 0 /\ stageActive = {}
    /\ running = FALSE /\ needToSignalDrained = FALSE
    /\ fetching = TRUE /\ drained = FALSE

----------------------------------------------------------------------------
\* Input buffers, latches and thread policies.

canReserve(s, t) == Len(queue[s][t]) + numReservedSlots[s][t] < capacity[s]
isEmpty(s) == \A k \in DOMAIN latch[s] : latch[s][k] = bubble

\* A group of the given width, the rest of which is bubbles.
padded(insts, width) ==
    [k \in 1 .. width |-> IF k <= Len(insts) THEN insts[k] ELSE bubble]

chosen(s, S) ==
    CASE threadPolicy = "SingleThreaded" -> S \cap {0}
      [] threadPolicy = "Random" -> S
      [] OTHER ->
           LET distance(t) == (t - threadPriority[s] - 1) % Cardinality(Thread)
           IN  {t \in S : \A u \in S : distance(t) <= distance(u)}

\* Variant: the latch between ExecuteDummy and Execute is forgotten.
latencyBeforeDummy == CHOOSE d \in {delay[s] : s \in Stage \ {"execute"}} :
                        \A s \in Stage \ {"execute"} : delay[s] <= d

longestLatency == CHOOSE d \in {delay[s] : s \in Stage} :
                    \A s \in Stage : delay[s] <= d

\* What a stage has to do with its output: the next latch, a slot reserved for
\* it in the next input buffer, and activity in the pipeline.
send(s, t, insts) ==
    LET to == nextStage[s]
    IN  /\ latch' = [latch EXCEPT ![to][delay[to] + 1] =
              [threadId |-> t, insts |-> padded(insts, outputWidth[s])]]
        /\ numReservedSlots' = [numReservedSlots EXCEPT ![to][t] = @ + 1]
        /\ activity' = longestLatency + 1

----------------------------------------------------------------------------
\* The stages.

\* The start of evaluate: what comes out of the latch is put into the input
\* buffer, where it takes the space reserved for it, and a thread is chosen.
pushTail(s) ==
    LET data == latch[s][1]
    IN  IF data = bubble THEN UNCHANGED <<latch, queue, numReservedSlots>>
        ELSE LET t == data.threadId
             IN  /\ latch' = [latch EXCEPT ![s][1] = bubble]
                 /\ queue' = [queue EXCEPT ![s][t] = Append(@, data.insts)]
                 /\ numReservedSlots' = [numReservedSlots EXCEPT ![s][t] =
                       IF @ # 0 THEN @ - 1 ELSE 0]

\* Variant: threads are not blocked.
readyUnblocked(s) == {t \in Thread : s # "execute" /\ queue'[s][t] # <<>>}

\* The thread a stage with input and somewhere to put it works on, if any;
\* Execute may look at all of them.
ready(s) ==
    {t \in Thread : /\ s # "execute" /\ queue'[s][t] # <<>>
                    /\ canReserve(nextStage[s], t)}

StartStage(s) ==
    /\ IF s = "execute" THEN evaluating = between /\ running
       ELSE evaluating = at(s)
    /\ pushTail(s)
    /\ IF chosen(s, ready(s)) = {}
       THEN /\ evaluating' = [at(s) EXCEPT !.started = TRUE, !.more = TRUE]
            /\ UNCHANGED threadPriority
       ELSE \E t \in chosen(s, ready(s)) :
              /\ evaluating' = [at(s) EXCEPT !.started = TRUE, !.more = TRUE,
                                             !.tid = t]
              /\ threadPriority' = [threadPriority EXCEPT ![s] = t]
    /\ UNCHANGED <<fetched, inputIndex, microopPC, execSeqNum, taken, idleVars>>

\* The condition of the loops.
packing(s, t) ==
    /\ evaluating.stage = s /\ evaluating.started /\ evaluating.more
    /\ queue[s][t] # <<>>
    /\ s # "execute" => /\ evaluating.tid = t
                        /\ Len(evaluating.out) < outputWidth[s]

nextInst(s, t) == Head(queue[s][t])[inputIndex[s][t]]

\* Variant: the index is not reset at the end of a group.
stepOnly(s, t, insts) ==
    LET ends == inputIndex[s][t] = Len(Head(queue[s][t]))
    IN  /\ inputIndex' = [inputIndex EXCEPT ![s][t] = @ + 1]
        /\ queue' = [queue EXCEPT ![s][t] = IF ends THEN Tail(@) ELSE @]
        /\ evaluating' = [evaluating EXCEPT
              !.out = @ \o insts, !.more = ends => processMoreThanOneInput[s]]
        /\ UNCHANGED <<fetched, latch, numReservedSlots, threadPriority,
                       idleVars>>

\* Step past the next instruction of the input, for which insts is put into the
\* output, and to the next group at the end of one.
stepInput(s, t, insts) ==
    LET ends == inputIndex[s][t] = Len(Head(queue[s][t]))
    IN  /\ inputIndex' = [inputIndex EXCEPT ![s][t] = IF ends THEN 1 ELSE @ + 1]
        /\ queue' = [queue EXCEPT ![s][t] = IF ends THEN Tail(@) ELSE @]
        /\ evaluating' = [evaluating EXCEPT
              !.out = @ \o insts, !.more = ends => processMoreThanOneInput[s]]
        /\ UNCHANGED <<fetched, latch, numReservedSlots, threadPriority,
                       idleVars>>

\* Variant: ExecuteDummy numbers bubbles too.
numberBubble(s, t) ==
    /\ packing(s, t) /\ nextInst(s, t) = bubble
    /\ stepInput(s, t, <<>>)
    /\ execSeqNum' = IF s = "executeDummy"
                     THEN [execSeqNum EXCEPT ![t] = @ + 1] ELSE execSeqNum
    /\ UNCHANGED <<microopPC, taken>>

SkipBubble(s, t) ==
    /\ packing(s, t) /\ nextInst(s, t) = bubble
    /\ stepInput(s, t, <<>>)
    /\ UNCHANGED <<microopPC, execSeqNum, taken>>

\* Decode: a micro-op that is not the last of its macro-op ...
microop(t) == [num |-> nextInst("decode", t).num, uop |-> microopPC[t] + 1]
Decompose(t) ==
    /\ packing("decode", t) /\ nextInst("decode", t) # bubble
    /\ microopPC[t] + 1 < nextInst("decode", t).uops
    /\ microopPC' = [microopPC EXCEPT ![t] = @ + 1]
    /\ evaluating' = [evaluating EXCEPT !.out = Append(@, microop(t))]
    /\ UNCHANGED <<fetched, latch, queue, numReservedSlots, inputIndex,
                   threadPriority, execSeqNum, taken, idleVars>>

\* ... and the last one, or an instruction or a fault that is passed on.
DecodeInst(t) ==
    /\ packing("decode", t) /\ nextInst("decode", t) # bubble
    /\ microopPC[t] + 1 = nextInst("decode", t).uops
    /\ stepInput("decode", t, <<microop(t)>>)
    /\ microopPC' = [microopPC EXCEPT ![t] = 0]
    /\ UNCHANGED <<execSeqNum, taken>>

\* ExecuteDummy numbers the instructions.
PassInst(t) ==
    /\ packing("executeDummy", t) /\ nextInst("executeDummy", t) # bubble
    /\ execSeqNum' = [execSeqNum EXCEPT ![t] = @ + 1]
    /\ stepInput("executeDummy", t,
          <<[inst |-> nextInst("executeDummy", t), execSeqNum |-> execSeqNum'[t]]>>)
    /\ UNCHANGED <<microopPC, taken>>

\* Execute issues or discards an instruction.
TakeInst(t) ==
    /\ packing("execute", t) /\ nextInst("execute", t) # bubble
    /\ taken' = [taken EXCEPT ![t] = nextInst("execute", t).execSeqNum]
    /\ stepInput("execute", t, <<>>)
    /\ UNCHANGED <<microopPC, execSeqNum>>

\* The end of evaluate; Execute may stop taking instructions at any time.
worksOn(s) ==
    \E t \in Thread : queue[s][t] # <<>> /\ canReserve(nextStage[s], t)
EndStage(s) ==
    /\ evaluating.stage = s /\ evaluating.started
    /\ s # "execute" => \A t \in Thread : ~packing(s, t)
    /\ IF evaluating.out # <<>> THEN send(s, evaluating.tid, evaluating.out)
       ELSE UNCHANGED <<latch, numReservedSlots, activity>>
    /\ UNCHANGED queue
    /\ stageActive' = IF s # "execute" /\ worksOn(s)' THEN stageActive \cup {s}
                      ELSE stageActive
    /\ evaluating' = at(evaluatedNext[s])
    /\ UNCHANGED <<fetched, inputIndex, microopPC, threadPriority, execSeqNum,
                   taken, running, needToSignalDrained, fetching, drained>>

\* Fetch2 sends a group of instructions or not.
Fetch2Sends(t, g) ==
    /\ evaluating = at("fetch2")
    /\ fetching /\ fetched[t] + Len(g) <= MaxInsts[t]
    /\ canReserve("decode", t)
    /\ send("fetch2", t, [k \in DOMAIN g |-> [num |-> fetched[t] + k, uops |-> g[k]]])
    /\ fetched' = [fetched EXCEPT ![t] = @ + Len(g)]
    /\ evaluating' = at("idle")
    /\ UNCHANGED <<queue, inputIndex, microopPC, threadPriority, execSeqNum,
                   taken, stageActive, running, needToSignalDrained, fetching,
                   drained>>
Fetch2Waits ==
    /\ evaluating = at("fetch2")
    /\ evaluating' = at("idle")
    /\ UNCHANGED <<fetched, pipeVars, threadPriority, execSeqNum, taken, idleVars>>

----------------------------------------------------------------------------
\* Pipeline.

advanced(s) == Append(Tail(latch[s]), bubble)

\* Variant: ExecuteDummy's output is not asked.
drainedBeforeDummy(l, executeDrained) ==
    /\ ~fetching /\ executeDrained
    /\ \A s \in Stage : \A t \in Thread : queue[s][t] = <<>>
    /\ \A s \in Stage \ {"execute"} : \A k \in DOMAIN l[s] : l[s][k] = bubble

\* Pipeline::isDrained, of latches l; executeDrained is the part of Execute's
\* answer that is not its input buffer.
isDrained(l, executeDrained) ==
    /\ ~fetching /\ executeDrained
    /\ \A s \in Stage : /\ \A t \in Thread : queue[s][t] = <<>>
                        /\ \A k \in DOMAIN l[s] : l[s][k] = bubble

\* Variant: a drain does not keep an idle pipeline going.
idlesInDrain(executeDrained) ==
    LET left == IF activity = 0 THEN 0 ELSE activity - 1
        signal == needToSignalDrained /\ isDrained(latch', executeDrained)
    IN  /\ evaluating = at("idle")
        /\ latch' = [s \in Stage |-> advanced(s)]
        /\ activity' = left
        /\ stageActive' = {}
        /\ running' = ~(signal \/ (left = 0 /\ stageActive = {}))
        /\ needToSignalDrained' = (needToSignalDrained /\ ~signal)
        /\ drained' = (drained \/ signal)
        /\ evaluating' = between
        /\ UNCHANGED <<fetched, queue, numReservedSlots, inputIndex, microopPC,
                       threadPriority, execSeqNum, taken, fetching>>

\* The end of Pipeline::evaluate: the latches advance, the activity recorder
\* forgets, and the pipeline stops if it is idle, or drained.
EndCycle(executeDrained) ==
    LET left == IF activity = 0 THEN 0 ELSE activity - 1
        idle == left = 0 /\ stageActive = {}
        signal == needToSignalDrained /\ isDrained(latch', executeDrained)
    IN  /\ evaluating = at("idle")
        /\ latch' = [s \in Stage |-> advanced(s)]
        /\ activity' = left
        /\ stageActive' = {}
        /\ running' = ~(signal \/ (idle /\ ~needToSignalDrained))
        /\ needToSignalDrained' = (needToSignalDrained /\ ~signal)
        /\ drained' = (drained \/ signal)
        /\ evaluating' = between
        /\ UNCHANGED <<fetched, queue, numReservedSlots, inputIndex, microopPC,
                       threadPriority, execSeqNum, taken, fetching>>

\* Another stage (CPU, Fetch1, Fetch2, Execute) wakes the pipeline up or keeps
\* it going, for reasons of its own, or a thread is activated.
WakeupOnEvent ==
    /\ evaluating = between
    /\ running' = TRUE
    /\ stageActive' = stageActive \cup {"others"}
    /\ fetching' \in {fetching, fetching \/ ~(needToSignalDrained \/ drained)}
    /\ UNCHANGED <<fetched, pipeVars, threadPriority, execSeqNum, taken,
                   evaluating, activity, needToSignalDrained, drained>>

Drain(executeDrained) ==
    /\ evaluating = between /\ ~needToSignalDrained /\ ~drained
    /\ running' = TRUE
    /\ stageActive' = stageActive \cup {"others"}
    /\ drained' = isDrained(latch, executeDrained)
    /\ needToSignalDrained' = ~drained'
    /\ UNCHANGED <<fetched, pipeVars, threadPriority, execSeqNum, taken,
                   evaluating, activity, fetching>>

\* A drain, or the suspension of the threads, halts Fetch1, and Fetch2 runs out
\* of lines.
HaltFetch ==
    /\ evaluating = between /\ fetching
    /\ fetching' = FALSE
    /\ UNCHANGED <<fetched, pipeVars, threadPriority, execSeqNum, taken,
                   evaluating, activity, stageActive, running,
                   needToSignalDrained, drained>>

DrainResume ==
    /\ evaluating = between /\ drained
    /\ drained' = FALSE /\ fetching' = TRUE /\ running' = TRUE
    /\ stageActive' = stageActive \cup {"others"}
    /\ UNCHANGED <<fetched, pipeVars, threadPriority, execSeqNum, taken,
                   evaluating, activity, needToSignalDrained>>
----------------------------------------------------------------------------
EndsCycle == \E executeDrained \in BOOLEAN : EndCycle(executeDrained)

Evaluate ==
    \/ \E s \in Stage : StartStage(s) \/ EndStage(s)
    \/ \E s \in Stage, t \in Thread : SkipBubble(s, t)
    \/ \E t \in Thread : Decompose(t) \/ DecodeInst(t) \/ PassInst(t) \/ TakeInst(t)
    \/ \E t \in Thread, g \in Groups : Fetch2Sends(t, g)
    \/ Fetch2Waits
    \/ EndsCycle

Next ==
    \/ Evaluate
    \/ WakeupOnEvent
    \/ \E executeDrained \in BOOLEAN : Drain(executeDrained)
    \/ HaltFetch
    \/ DrainResume

executeHasInput == \E t \in Thread : queue["execute"][t] # <<>>
ExecuteWorks(t) == TakeInst(t) \/ SkipBubble("execute", t)

\* The pipeline ticks while it is running; Execute gets round to its input, for
\* which it wakes up if it has any (EventuallyEmpty in Execute.tla), and to
\* emptying its units and the LSQ; a drain halts the fetching of instructions.
Spec ==
    /\ Init /\ [][Next]_vars
    /\ WF_vars(Evaluate)
    /\ WF_vars(WakeupOnEvent /\ executeHasInput)
    /\ \A t \in Thread : SF_vars(ExecuteWorks(t))
    /\ SF_vars(EndsCycle /\ drained')
    /\ SF_vars(HaltFetch /\ needToSignalDrained)

----------------------------------------------------------------------------
\* Properties.

inLatch(s, t) == {k \in DOMAIN latch[s] :
                    latch[s][k] # bubble /\ latch[s][k].threadId = t}

StagesTypeOK ==
    /\ evaluating.stage \in Stage \cup {"between", "fetch2", "idle"}
    /\ evaluating.tid \in Thread \cup {none}
    /\ activity \in 0 .. longestLatency + 1
    /\ stageActive \subseteq {"decode", "executeDummy", "others"}
    /\ \A s \in Stage : Len(latch[s]) = delay[s] + 1
    /\ \A s \in Stage, t \in Thread :
         inputIndex[s][t] \in 1 .. IF queue[s][t] = <<>> THEN 1
                                   ELSE Len(Head(queue[s][t]))

\* Slots are reserved in an input buffer exactly for the groups on their way to
\* it, and a stage only sends when there is one: no group finds the buffer full
\* ("No space to push data into queue", buffers.hh:440) and none is leaked, so
\* that a buffer never looks full when it is not.
ReservationsExact ==
    \A s \in Stage, t \in Thread :
        /\ numReservedSlots[s][t] = Cardinality(inLatch(s, t))
        /\ Len(queue[s][t]) + numReservedSlots[s][t] <= capacity[s]

\* The pipeline does not stop with a group in a latch, or with input that Decode
\* or ExecuteDummy can work on (activateStage and activity in their evaluate).
StopsOnlyIdle ==
    ~running =>
        \A s \in Stage : isEmpty(s) /\ (s # "execute" => ~worksOn(s))

\* A drain completes: what is in the stages always gets to Execute, and the
\* pipeline goes on ticking until it has signalled the end.
DrainCompletes == needToSignalDrained ~> drained
=============================================================================
