---------------------------- MODULE StagesQueue -----------------------------
(***************************************************************************)
(* The stages between Fetch2 and Execute implement a queue of micro-ops    *)
(* for each thread (InstQueue.tla): the refinement mapping collects what   *)
(* is in their input buffers, latches and outputs.                         *)
(***************************************************************************)
EXTENDS Stages, SequencesExt

\* The micro-ops of thread t between Fetch2 and Execute, oldest first.
real(g) == SelectSeq(g, LAMBDA i : i # bubble)
sent(s, t) == FlattenSeq([k \in DOMAIN latch[s] |->
                 IF k \in inLatch(s, t) THEN real(latch[s][k].insts) ELSE <<>>])
left(s, t) ==
    LET all == FlattenSeq(queue[s][t])
    IN  real(SubSeq(all, inputIndex[s][t], Len(all)))
packed(s, t) ==
    IF evaluating.stage = s /\ evaluating.tid = t THEN evaluating.out ELSE <<>>
uops(i) == [u \in 1 .. i.uops |-> <<i.num, u>>]
undecoded(t) ==
    LET insts == left("decode", t) \o sent("decode", t)
        all == FlattenSeq([k \in DOMAIN insts |-> uops(insts[k])])
    IN  SubSeq(all, microopPC[t] + 1, Len(all))
unnumbered(t) ==
    LET insts == left("executeDummy", t) \o sent("executeDummy", t)
                 \o packed("decode", t)
    IN  [k \in DOMAIN insts |-> <<insts[k].num, insts[k].uop>>]
numbered(t) ==
    LET insts == left("execute", t) \o sent("execute", t)
                 \o packed("executeDummy", t)
    IN  [k \in DOMAIN insts |-> <<insts[k].inst.num, insts[k].inst.uop>>]
inPipeline == [t \in Thread |-> numbered(t) \o unnumbered(t) \o undecoded(t)]

\* The stages implement InstQueue: whatever the threads, widths, delays, blocked
\* stages and idle cycles, Execute is given the micro-ops of the instructions
\* Fetch2 sent, in order, each once, and numbered without a gap.
Queue == INSTANCE InstQueue WITH waiting <- inPipeline
QueueSpec == Queue!Spec

\* Pipeline::isDrained says so only when there is no instruction left.
DrainedEmpty == drained => \A t \in Thread : inPipeline[t] = <<>>
=============================================================================
