-------------------------------- MODULE LSQ --------------------------------
(***************************************************************************)
(* The load/store queue of Execute (src/cpu/myminor/lsq.cc) with the parts *)
(* of Execute::commit, issue and handleMemResponse that drive it, and the  *)
(* CVU it owns.                                                            *)
(*                                                                         *)
(* insts[n] is the instruction with execSeqNum n and, once it is pushed,   *)
(* its LSQRequest; the queues hold these numbers.  inFlightInsts is        *)
(* head .. Len(insts).  One clock cycle of Execute::evaluate is            *)
(*                                                                         *)
(*   idle -> step -> issue -> commit -> idle                               *)
(*                                                                         *)
(* (LSQ::step, the loop of StoreBuffer::step, commit); while trying holds, *)
(* a call of tryToSendToTransfers is under way and nothing else happens.   *)
(* The TLB, the data cache and new instructions act between cycles.        *)
(***************************************************************************)
EXTENDS CVU, SequencesExt

CONSTANTS
    MaxInsts,           \* bound on instructions issued
    MaxBarriers,        \* bound on barriers issued
    MaxStreams,         \* bound on interrupts and drains
    Ops,                \* instructions that may be issued
    Byte,               \* values of a byte of memory
    translate,          \* virtual byte address -> physical byte address
    lineWidth,
    requestsSize, transfersSize, numSlots, storeLimitPerCycle,
    inMemorySystemLimit,
    thresholdLCT,
    DelayedTLB,         \* TRUE: a translation may be delayed (table walks)
    TLBFaults,          \* possible answers of the TLB to "does it fault?"
    Predicates          \* possible results of an instruction's predicate

ASSUME LSQAssumption ==
    /\ {MaxInsts, MaxBarriers, MaxStreams, thresholdLCT} \subseteq Nat
    /\ {lineWidth, requestsSize, transfersSize, numSlots, storeLimitPerCycle,
        inMemorySystemLimit} \subseteq Nat \ {0}
    /\ 0 \in Byte
    /\ DelayedTLB \in BOOLEAN
    /\ TLBFaults \subseteq BOOLEAN /\ Predicates \subseteq BOOLEAN
    /\ \A op \in Ops :
         /\ op.kind \in {"load", "store", "barrier", "other"}
         /\ op.order \in {"normal", "strict", "llsc", "release"}

VARIABLES
    insts, head,
    requests, transfers, slots,         \* slots: the store buffer
    state, retryRequest,
    numAccessesInMemorySystem, numAccessesInDTLB, numStoresInTransfers,
    numAccessesIssuedToMemory, numUnissuedAccesses,
    lastMemBarrier, streamSeqNum,
    phase, trying, issue_count, active, \* active: Execute ticks next cycle
    memory,             \* what the memory system holds
    inMemory,           \* packets <<n, fragment>> not answered, oldest first
    architectural,      \* memory as the committed stores leave it
    misread,            \* the use_CVU_value of loads that got a wrong value
    miswritten          \* stores that committed a wrong value

queueVars == <<requests, transfers, numStoresInTransfers>>
storeBufferVars == <<slots, numUnissuedAccesses>>
portVars == <<state, retryRequest, numAccessesInMemorySystem, memory, inMemory>>
commitVars == <<head, streamSeqNum, architectural, misread, miswritten>>
lsqVars == <<insts, queueVars, storeBufferVars, portVars, commitVars, cvuVars,
             numAccessesInDTLB, numAccessesIssuedToMemory, lastMemBarrier,
             phase, trying, issue_count, active>>

LSQInit ==
    /\ CVUInit
    /\ insts = <<>> /\ head = 1
    /\ requests = <<>> /\ transfers = <<>> /\ slots = <<>>
    /\ state = "MemoryRunning" /\ retryRequest = 0
    /\ numAccessesInMemorySystem = 0 /\ numAccessesInDTLB = 0
    /\ numStoresInTransfers = 0 /\ numAccessesIssuedToMemory = 0
    /\ numUnissuedAccesses = 0
    /\ lastMemBarrier = 0 /\ streamSeqNum = 1
    /\ phase = "idle" /\ trying = FALSE /\ issue_count = 0 /\ active = FALSE
    /\ memory = [a \in {translate[v] : v \in DOMAIN translate} |-> 0]
    /\ inMemory = <<>>
    /\ architectural = memory
    /\ misread = {} /\ miswritten = {}

----------------------------------------------------------------------------
\* Instructions and their requests.

\* LSQRequestState, and where the instruction is before and after that.
RequestState == {"InTranslation", "Translated", "Failed", "RequestIssuing",
    "StoreToStoreBuffer", "RequestNeedsRetry", "StoreInStoreBuffer",
    "StoreBufferIssuing", "StoreBufferNeedsRetry", "Complete"}
InstState == RequestState \cup {"InFU", "Performed", "Dropped"}

noPred == [predict |-> FALSE, constant |-> FALSE, value |-> zero,
           index |-> 0, counter |-> 0]
\* An instruction that is not a memory access.
noOp == [kind |-> "other", order |-> "normal", vaddr |-> 0, data |-> <<>>,
         pred |-> noPred]

\* An instruction as Execute::issue puts it in flight.
newInst(op) ==
    [kind |-> op.kind, order |-> op.order, vaddr |-> op.vaddr,
     data |-> op.data, pred |-> op.pred, stream |-> streamSeqNum,
     state |-> "InFU",
     waitFor |-> IF op.kind \in {"load", "store"} THEN lastMemBarrier ELSE 0,
     translated |-> 0, sent |-> 0, retired |-> 0,
     use_CVU_value |-> FALSE, issuedToMemory |-> FALSE,
     fault |-> FALSE, failed |-> FALSE, failedSC |-> FALSE]

\* What is kept of n once its request is deleted: whether it took effect.
deleted(n, fate) ==
    [newInst(noOp) EXCEPT !.kind = insts[n].kind, !.stream = 0, !.waitFor = 0,
                          !.state = fate]

isMemRef(n) == insts[n].kind \in {"load", "store"}
\* A FailedDataRequest is a SpecialDataRequest, made with isLoad set.
isLoad(n) == insts[n].kind = "load" \/ insts[n].failed
isBarrier(n) == insts[n].kind = "barrier"
bufferable(n) == insts[n].order = "normal"
instIsRightStream(n) == insts[n].stream = streamSeqNum
instIsHeadInst(n) == n = head
inFlight(n) == n \in head .. Len(insts)

size(n) == Len(insts[n].data)
paddr(n) == translate[insts[n].vaddr]
line(addr) == addr \div lineWidth
numFragments(n) ==
    line(insts[n].vaddr + size(n) - 1) - line(insts[n].vaddr) + 1
\* Variant: every fragment carries the bytes of the first.
firstFragment(n, k) ==
    {b \in 1 .. size(n) :
        line(insts[n].vaddr + b - 1) = line(insts[n].vaddr)}

\* The bytes of the k-th fragment, as positions in the data.
fragment(n, k) ==
    {b \in 1 .. size(n) :
        line(insts[n].vaddr + b - 1) = line(insts[n].vaddr) + k - 1}

sentAllPackets(n) == insts[n].sent = numFragments(n)
hasPacketsInMemSystem(n) == insts[n].sent # insts[n].retired

\* Variant: ranges that share one byte only do not overlap.
overlapsByTwo(m, n) ==
    paddr(m) + 1 < paddr(n) + size(n) /\ paddr(n) + 1 < paddr(m) + size(m)

\* containsAddrRangeOf, on the physical ranges that start at each request's
\* paddr.
overlaps(m, n) == paddr(m) < paddr(n) + size(n) /\ paddr(n) < paddr(m) + size(m)
covers(m, n) ==
    paddr(m) <= paddr(n) /\ paddr(n) + size(n) <= paddr(m) + size(m)

\* canForwardDataToLoad: the youngest slot that overlaps request n; 0: none.
\* Barriers have no packet.
forwardingSlot(n) ==
    SelectLastInSeq(slots, LAMBDA m : ~isBarrier(m) /\ overlaps(m, n))

\* Variant: off by one.
canInsertOneMore == Len(slots) <= numSlots

canInsert == Len(slots) < numSlots

canSendToMemorySystem ==
    /\ state = "MemoryRunning"
    /\ numAccessesInMemorySystem < inMemorySystemLimit

----------------------------------------------------------------------------
\* The data cache port.

\* Memory after the cache performs the k-th packet of store n.
cacheWrites(n, k) ==
    [a \in DOMAIN memory |->
        LET bs == {b \in fragment(n, k) : translate[insts[n].vaddr + b - 1] = a}
        IN IF bs = {} THEN memory[a] ELSE insts[n].data[Max(bs)]]

\* The data of load n after its k-th packet.  A packet flagged use_CVU_value is
\* answered without an access and keeps the bytes it was allocated with.
cacheReads(n, k) ==
    IF insts[n].use_CVU_value
      THEN [1 .. size(n) -> Byte]
      ELSE {[b \in 1 .. size(n) |->
                IF b \in fragment(n, k)
                  THEN memory[translate[insts[n].vaddr + b - 1]]
                  ELSE insts[n].data[b]]}

issued(n, newState) ==
    [insts[n] EXCEPT !.state = newState, !.sent = @ + 1,
                     !.issuedToMemory = @ \/ ~bufferable(n)]

\* sendTimingReq accepts the next packet of request n.
packetAccepted(n, newState) ==
    LET k == insts[n].sent + 1 IN
    /\ inMemory' = Append(inMemory, <<n, k>>)
    /\ numAccessesInMemorySystem' = numAccessesInMemorySystem + 1
    /\ state' = "MemoryRunning"
    /\ memory' = IF insts[n].kind = "store" THEN cacheWrites(n, k) ELSE memory
    /\ \E data \in IF insts[n].kind = "store" THEN {insts[n].data}
                                              ELSE cacheReads(n, k) :
         insts' = [insts EXCEPT ![n] = [issued(n, newState) EXCEPT !.data = data]]

\* sendTimingReq refuses the packet: the port blocks until recvReqRetry.
packetRefused(n, newState) ==
    /\ state' = "MemoryNeedsRetry"
    /\ retryRequest' = n
    /\ insts' = [insts EXCEPT ![n].state = newState,
                              ![n].issuedToMemory = @ \/ ~bufferable(n)]
    /\ UNCHANGED <<memory, inMemory, numAccessesInMemorySystem>>

moveFromRequestsToTransfers(n) ==
    /\ requests' = Tail(requests)
    /\ transfers' = Append(transfers, n)
    /\ numStoresInTransfers' = numStoresInTransfers + (IF isLoad(n) THEN 0 ELSE 1)

----------------------------------------------------------------------------
\* tryToSendToTransfers, on the request at the front of requests (the call
\* returns at once for any other).  Each action is one way through it.
front == Head(requests)

\* Variant: requests move on while the port waits for a retry.
movableInRetry(n) ==
    insts[n].state # "InTranslation" /\ Len(transfers) < transfersSize

\* The port is free, the request translated and there is room in transfers.
movable(n) ==
    /\ state # "MemoryNeedsRetry"
    /\ insts[n].state # "InTranslation"
    /\ Len(transfers) < transfersSize

settled(n) == insts[n].state \in {"Complete", "Failed"}
\* Right stream, no fault: the access itself is considered.
accessible(n) == ~settled(n) /\ instIsRightStream(n) /\ ~insts[n].fault
toStoreBuffer(n) == insts[n].kind = "store" /\ bufferable(n)

\* Variant: a load does not wait.
loadNeverWaits(n) == isLoad(n) => numStoresInTransfers >= 0

\* A load waits for the stores in transfers.
loadMayGo(n) == isLoad(n) => numStoresInTransfers = 0

\* What cannot be buffered waits to be the head and for overlapping stores.
headMayGo(n) ==
    ~bufferable(n) => instIsHeadInst(n) /\ forwardingSlot(n) = 0

\* Store conditionals and releases wait for the store buffer as well.
mayAccess(n) ==
    /\ accessible(n) /\ ~toStoreBuffer(n)
    /\ loadMayGo(n) /\ headMayGo(n)
    /\ (insts[n].kind = "store" /\ insts[n].order = "llsc")
         \/ insts[n].order = "release" => slots = <<>>

forwards(n) ==
    /\ insts[n].kind = "load" /\ insts[n].order # "llsc"
    /\ forwardingSlot(n) # 0

stops(n) ==
    IF ~movable(n) THEN TRUE
    ELSE IF accessible(n) /\ ~toStoreBuffer(n)
    THEN \/ ~mayAccess(n)
         \/ forwards(n) /\ ~covers(slots[forwardingSlot(n)], n)
         \/ ~forwards(n) /\ ~canSendToMemorySystem
    ELSE ~settled(n) /\ ~instIsRightStream(n) /\ hasPacketsInMemSystem(n)

\* Frames: what a call of tryToSendToTransfers, and a step of the store
\* buffer, leave alone.
tryFrame == UNCHANGED <<storeBufferVars, commitVars, cvuVars, numAccessesInDTLB,
                        lastMemBarrier, phase, issue_count, active>>
stepFrame == UNCHANGED <<queueVars, commitVars, cvuVars, numAccessesInDTLB,
                         numAccessesIssuedToMemory, trying, active>>

Stall ==
    /\ trying /\ stops(front)
    /\ trying' = FALSE
    /\ UNCHANGED <<insts, queueVars, portVars, numAccessesIssuedToMemory>>
    /\ tryFrame

\* The request goes on to transfers without an access.
pass(request) ==
    /\ trying' = FALSE
    /\ insts' = [insts EXCEPT ![front] = request]
    /\ moveFromRequestsToTransfers(front)
    /\ UNCHANGED <<portVars, numAccessesIssuedToMemory>>
    /\ tryFrame

\* Completed, failed, wrong-stream and faulting requests.
Skip ==
    /\ trying /\ ~stops(front) /\ ~accessible(front)
    /\ pass([insts[front] EXCEPT !.state = "Complete"])

MoveStore ==
    /\ trying /\ ~stops(front) /\ accessible(front) /\ toStoreBuffer(front)
    /\ pass([insts[front] EXCEPT !.state = "StoreToStoreBuffer"])

forwardStoreData(n, m) ==
    [b \in 1 .. size(n) |-> insts[m].data[paddr(n) - paddr(m) + b]]

Forward ==
    /\ trying /\ ~stops(front) /\ mayAccess(front) /\ forwards(front)
    /\ pass([insts[front] EXCEPT !.state = "Complete",
                !.data = forwardStoreData(front, slots[forwardingSlot(front)])])

\* handleLockedWrite decides that a store conditional is not performed.
FailSC ==
    /\ trying /\ ~stops(front) /\ mayAccess(front)
    /\ insts[front].kind = "store" /\ insts[front].order = "llsc"
    /\ pass([insts[front] EXCEPT !.state = "Complete", !.failedSC = TRUE])

\* tryToSend.  An access that cannot be buffered can no longer be discarded
\* from the moment it is first tried.
sends ==
    /\ trying /\ ~stops(front) /\ mayAccess(front) /\ ~forwards(front)
    /\ trying' = FALSE
    /\ numAccessesIssuedToMemory' = numAccessesIssuedToMemory +
           (IF bufferable(front) \/ insts[front].issuedToMemory THEN 0 ELSE 1)

SendAccepted ==
    /\ sends
    /\ packetAccepted(front, "RequestIssuing")
    /\ IF insts[front].sent + 1 = numFragments(front)
         THEN moveFromRequestsToTransfers(front)
         ELSE UNCHANGED queueVars
    /\ UNCHANGED retryRequest
    /\ tryFrame

SendRefused ==
    /\ sends
    /\ packetRefused(front, "RequestNeedsRetry")
    /\ UNCHANGED queueVars
    /\ tryFrame

----------------------------------------------------------------------------
\* LSQ::step and StoreBuffer::step.

StartCycle ==
    /\ phase = "idle" /\ ~trying /\ active
    /\ DelayedTLB \/ numAccessesInDTLB = 0
    /\ phase' = "step"
    /\ trying' = (requests # <<>>)
    /\ active' = FALSE
    /\ UNCHANGED <<insts, queueVars, storeBufferVars, portVars, commitVars,
                   cvuVars, numAccessesInDTLB, numAccessesIssuedToMemory,
                   lastMemBarrier, issue_count>>

\* The barriers that lead the store buffer; a BarrierDataRequest is complete
\* from the start.
leadingBarriers ==
    {i \in DOMAIN slots : \A j \in 1 .. i : isBarrier(slots[j])}

\* clearMemBarrier for each of them, oldest first.
ClearBarriers ==
    /\ phase = "step" /\ ~trying
    /\ numUnissuedAccesses # 0 /\ state = "MemoryRunning"
    /\ LET n == Cardinality(leadingBarriers) IN
         /\ slots' = SubSeq(slots, n + 1, Len(slots))
         /\ numUnissuedAccesses' = numUnissuedAccesses - n
         /\ lastMemBarrier' =
              IF \E i \in 1 .. n : slots[i] >= lastMemBarrier THEN 0
                                                             ELSE lastMemBarrier
         /\ insts' = [m \in DOMAIN insts |->
              IF \E i \in 1 .. n : slots[i] = m
                THEN deleted(m, "Performed") ELSE insts[m]]
    /\ phase' = "issue" /\ issue_count' = 0
    /\ UNCHANGED portVars
    /\ stepFrame

SkipStoreBuffer ==
    /\ phase = "step" /\ ~trying
    /\ numUnissuedAccesses = 0 \/ state # "MemoryRunning"
    /\ phase' = "commit"
    /\ UNCHANGED <<insts, storeBufferVars, portVars, lastMemBarrier, issue_count>>
    /\ stepFrame

\* The first slot that the loop does not step over; 0: none.
nextSlot ==
    SelectInSeq(slots, LAMBDA m :
        ~(insts[m].state = "StoreBufferIssuing" /\ sentAllPackets(m)))

issues ==
    /\ phase = "issue"
    /\ issue_count < storeLimitPerCycle
    /\ canSendToMemorySystem
    /\ nextSlot # 0 /\ ~isBarrier(slots[nextSlot])

\* countIssuedStore once the last packet has gone; the loop goes on only then.
StoreAccepted ==
    /\ issues
    /\ packetAccepted(slots[nextSlot], "StoreBufferIssuing")
    /\ IF insts[slots[nextSlot]].sent + 1 = numFragments(slots[nextSlot])
         THEN /\ numUnissuedAccesses' = numUnissuedAccesses - 1
              /\ issue_count' = issue_count + 1
              /\ UNCHANGED phase
         ELSE /\ phase' = "commit" /\ issue_count' = 0
              /\ UNCHANGED numUnissuedAccesses
    /\ UNCHANGED <<slots, retryRequest, lastMemBarrier>>
    /\ stepFrame

StoreRefused ==
    /\ issues
    /\ packetRefused(slots[nextSlot], "StoreBufferNeedsRetry")
    /\ phase' = "commit" /\ issue_count' = 0
    /\ UNCHANGED <<storeBufferVars, lastMemBarrier>>
    /\ stepFrame

EndStep ==
    /\ phase = "issue" /\ ~issues
    /\ phase' = "commit" /\ issue_count' = 0
    /\ UNCHANGED <<insts, storeBufferVars, portVars, lastMemBarrier>>
    /\ stepFrame

----------------------------------------------------------------------------
\* Events between cycles.
between == phase = "idle" /\ ~trying

\* Variant: the event wakes nothing.
noWakeup == UNCHANGED active

\* cpu.wakeupOnEvent(Pipeline::ExecuteStageId).
wakeupOnEvent == active' = TRUE

\* finish() of the translation of the next fragment.  Fragments are translated
\* one after another; a fault ends the translation.
Finish(n) ==
    /\ between /\ insts[n].state = "InTranslation"
    /\ \E fault \in TLBFaults :
         IF ~fault /\ insts[n].translated + 1 < numFragments(n)
           THEN /\ insts' = [insts EXCEPT ![n].translated = @ + 1]
                /\ UNCHANGED <<numAccessesInDTLB, trying>>
           ELSE /\ insts' = [insts EXCEPT ![n].translated = @ + 1,
                        ![n].state = "Translated", ![n].fault = fault]
                /\ numAccessesInDTLB' = numAccessesInDTLB - 1
                /\ trying' = (n = front)
    /\ wakeupOnEvent
    /\ UNCHANGED <<queueVars, storeBufferVars, portVars, commitVars, cvuVars,
                   numAccessesIssuedToMemory, lastMemBarrier, phase,
                   issue_count>>

\* retireResponse completes the request with its last fragment.
lastFragment(n) == insts[n].retired + 1 = numFragments(n)

\* The physical line of a packet.
packetLine(packet) ==
    line(translate[insts[packet[1]].vaddr +
                   Min(fragment(packet[1], packet[2])) - 1])

\* A packet of request n is answered.
recvTimingResp(n) ==
    /\ numAccessesInMemorySystem' = numAccessesInMemorySystem - 1
    /\ IF ~lastFragment(n)
         THEN insts' = [insts EXCEPT ![n].retired = @ + 1] /\ UNCHANGED slots
         ELSE IF insts[n].state \in {"StoreBufferIssuing", "StoreBufferNeedsRetry"}
         THEN /\ insts' = [insts EXCEPT ![n] = deleted(n, "Performed")]
              /\ slots' = Remove(slots, n)
         ELSE /\ insts' = [insts EXCEPT ![n].retired = @ + 1,
                                        ![n].state = "Complete"]
              /\ UNCHANGED slots
    /\ wakeupOnEvent
    /\ UNCHANGED <<queueVars, numUnissuedAccesses, state, retryRequest, memory,
                   commitVars, cvuVars, numAccessesInDTLB,
                   numAccessesIssuedToMemory, lastMemBarrier, phase, trying,
                   issue_count>>

\* The cache answers the accesses to one line in order, those it skips at
\* once; otherwise responses overtake one another.
RecvTimingResp(i) ==
    /\ between
    /\ \/ insts[inMemory[i][1]].use_CVU_value
       \/ \A j \in 1 .. i - 1 : packetLine(inMemory[j]) # packetLine(inMemory[i])
    /\ inMemory' = RemoveAt(inMemory, i)
    /\ recvTimingResp(inMemory[i][1])

\* The retry sends the packet again: accepted or refused once more.  It does
\* not wake Execute.
retryFrame == UNCHANGED <<slots, commitVars, cvuVars, numAccessesInDTLB,
                          numAccessesIssuedToMemory, lastMemBarrier, phase,
                          trying, issue_count, active>>

RetryRequest ==
    /\ between /\ state = "MemoryNeedsRetry"
    /\ insts[retryRequest].state = "RequestNeedsRetry"
    /\ packetAccepted(retryRequest, "RequestIssuing")
    /\ IF insts[retryRequest].sent + 1 = numFragments(retryRequest)
         THEN moveFromRequestsToTransfers(retryRequest) /\ retryRequest' = 0
         ELSE UNCHANGED <<queueVars, retryRequest>>
    /\ UNCHANGED numUnissuedAccesses
    /\ retryFrame

RetryStore ==
    /\ between /\ state = "MemoryNeedsRetry"
    /\ insts[retryRequest].state = "StoreBufferNeedsRetry"
    /\ packetAccepted(retryRequest, "StoreBufferIssuing")
    /\ IF insts[retryRequest].sent + 1 = numFragments(retryRequest)
         THEN numUnissuedAccesses' = numUnissuedAccesses - 1 /\ retryRequest' = 0
         ELSE UNCHANGED <<numUnissuedAccesses, retryRequest>>
    /\ UNCHANGED queueVars
    /\ retryFrame

\* Execute::issue.
Issue(op) ==
    /\ between /\ Len(insts) < MaxInsts
    /\ op.kind = "barrier" =>
         Cardinality({n \in DOMAIN insts : isBarrier(n)}) < MaxBarriers
    /\ insts' = Append(insts, newInst(op))
    /\ lastMemBarrier' = IF op.kind = "barrier" THEN Len(insts) + 1
                                                ELSE lastMemBarrier
    /\ active' = TRUE
    /\ UNCHANGED <<queueVars, storeBufferVars, portVars, commitVars, cvuVars,
                   numAccessesInDTLB, numAccessesIssuedToMemory, phase, trying,
                   issue_count>>

----------------------------------------------------------------------------
\* Execute::commit.
committing == phase = "commit" /\ ~trying
commitFrame == UNCHANGED <<portVars, numAccessesInDTLB, phase, issue_count>>

\* Variant: any access still in its functional unit.
anyMemRef(n) == inFlight(n) /\ isMemRef(n) /\ insts[n].state = "InFU"

\* The front of inFUMemInsts.
nextMemRef(n) ==
    /\ inFlight(n) /\ isMemRef(n) /\ insts[n].state = "InFU"
    /\ \A m \in head .. n - 1 : isMemRef(m) => insts[m].state # "InFU"

\* Variant: barriers are not considered.
barrierIgnored(n) == lastMemBarrier \in Nat

\* No barrier older than n is incomplete, as far as lastMemBarrier tells.
barrierAllows(n) == lastMemBarrier = 0 \/ lastMemBarrier >= n

\* executeMemRefInst: the head, or a younger access whose dependencies are
\* met, goes to the LSQ, unless an older barrier is incomplete.  active: the
\* functional unit moves the access behind it.
pushes(n, request, nowTried) ==
    /\ committing
    /\ nextMemRef(n) /\ instIsRightStream(n)
    /\ n = head \/ head > insts[n].waitFor
    /\ barrierAllows(n)
    /\ Len(requests) < requestsSize
    /\ insts' = [insts EXCEPT ![n] = request]
    /\ requests' = Append(requests, n)
    /\ trying' = (nowTried /\ requests = <<>>)
    /\ active' = (active \/ \E m \in n + 1 .. Len(insts) :
                                isMemRef(m) /\ insts[m].state = "InFU")
    /\ UNCHANGED <<portVars, storeBufferVars, commitVars, cvuVars, phase,
                   issue_count, transfers, numStoresInTransfers,
                   numAccessesIssuedToMemory, lastMemBarrier>>

\* The load is answered by the CVU rather than by the cache.
usesCVU(n) ==
    /\ insts[n].kind = "load"
    /\ verifyEntryInCVU(insts[n].vaddr, insts[n].pred.index,
                        insts[n].pred.value, insts[n].pred.constant)

pushed(n) == [insts[n] EXCEPT !.use_CVU_value = usesCVU(n)]

\* pushRequest with a translation that has to wait for its turn.
PushRequest(n) ==
    /\ DelayedTLB \/ numFragments(n) > 1
    /\ pushes(n, [pushed(n) EXCEPT !.state = "InTranslation"], FALSE)
    /\ numAccessesInDTLB' = numAccessesInDTLB + 1

\* pushRequest with finish() called from translateTiming.
PushTranslated(n) ==
    /\ numFragments(n) = 1
    /\ \E fault \in TLBFaults :
         pushes(n, [pushed(n) EXCEPT !.state = "Translated",
                        !.translated = 1, !.fault = fault], TRUE)
    /\ UNCHANGED numAccessesInDTLB

PushFailed(n) ==
    /\ FALSE \in Predicates
    /\ pushes(n, [insts[n] EXCEPT !.state = "Failed", !.failed = TRUE], FALSE)
    /\ UNCHANGED numAccessesInDTLB

\* findResponse.
responds(n) ==
    /\ transfers # <<>> /\ Head(transfers) = n
    /\ \/ insts[n].state = "Complete"
       \/ insts[n].state = "StoreToStoreBuffer" /\ canInsert

\* Variant: loads count as stores.
popLoadAsStore(n) ==
    /\ transfers' = Tail(transfers)
    /\ numStoresInTransfers' = numStoresInTransfers - 1
    /\ UNCHANGED <<requests, numAccessesIssuedToMemory>>

\* Variant: the count of issued accesses is not decremented.
popKeepingIssued(n) ==
    /\ transfers' = Tail(transfers)
    /\ numStoresInTransfers' = numStoresInTransfers - (IF isLoad(n) THEN 0 ELSE 1)
    /\ UNCHANGED <<requests, numAccessesIssuedToMemory>>

popResponse(n) ==
    /\ transfers' = Tail(transfers)
    /\ numStoresInTransfers' = numStoresInTransfers - (IF isLoad(n) THEN 0 ELSE 1)
    /\ numAccessesIssuedToMemory' = numAccessesIssuedToMemory -
           (IF insts[n].issuedToMemory THEN 1 ELSE 0)
    /\ UNCHANGED requests

\* The head leaves inFlightInsts.
retire(request) ==
    /\ insts' = [insts EXCEPT ![head] = request]
    /\ head' = head + 1

answered == committing /\ inFlight(head) /\ responds(head)

\* A response whose instruction is of another stream is dropped.
DiscardResponse ==
    /\ answered /\ ~instIsRightStream(head)
    /\ popResponse(head)
    /\ retire(deleted(head, "Dropped"))
    /\ UNCHANGED <<storeBufferVars, streamSeqNum, architectural, misread,
                   miswritten, cvuVars, lastMemBarrier, trying, active>>
    /\ commitFrame

\* handleMemResponse with a translation fault: the fault changes the stream.
CommitFault ==
    /\ answered /\ instIsRightStream(head) /\ insts[head].fault
    /\ popResponse(head)
    /\ retire(deleted(head, "Dropped"))
    /\ streamSeqNum' = streamSeqNum + 1
    /\ UNCHANGED <<storeBufferVars, architectural, misread, miswritten, cvuVars,
                   lastMemBarrier, trying, active>>
    /\ commitFrame

\* handleMemResponse without a packet, and of a store conditional that failed.
CommitFailed ==
    /\ answered /\ instIsRightStream(head) /\ ~insts[head].fault
    /\ insts[head].failed \/ insts[head].failedSC
    /\ popResponse(head)
    /\ retire(deleted(head, "Dropped"))
    /\ UNCHANGED <<storeBufferVars, streamSeqNum, architectural, misread,
                   miswritten, cvuVars, lastMemBarrier, trying, active>>
    /\ commitFrame

completes(kind) ==
    /\ answered /\ instIsRightStream(head) /\ insts[head].kind = kind
    /\ ~insts[head].fault /\ ~insts[head].failed /\ ~insts[head].failedSC

\* The packet's data, which a CVU hit replaces by the predicted value, for
\* stores as for loads.
hitsCVU(n) ==
    verifyEntryInCVU(insts[n].vaddr, insts[n].pred.index, insts[n].pred.value,
                     insts[n].pred.constant)
packetData(n) == IF hitsCVU(n) THEN SubSeq(insts[n].pred.value, 1, size(n))
                               ELSE insts[n].data

\* handleMemResponse of a load.  The value compared with the prediction is
\* eight bytes read from the packet, whatever follows a shorter one included.
CommitLoad ==
    /\ completes("load")
    /\ LET n == head
           p == insts[n].pred
           v == insts[n].vaddr
       IN /\ misread' = misread \cup
               (IF packetData(n) = [b \in 1 .. size(n) |->
                                        architectural[translate[v + b - 1]]]
                  THEN {} ELSE {insts[n].use_CVU_value})
          /\ \E packetdata \in {d \in Data : IsPrefix(packetData(n), d)} :
               IF /\ p.predict /\ packetdata = p.value
                  /\ p.counter = thresholdLCT
                  /\ ~verifyEntryInCVU(v, p.index, p.value, TRUE)
                 THEN AddEntryToCVU(packetdata, p.index, v, paddr(n))
                 ELSE UNCHANGED cvuVars
    /\ popResponse(head)
    /\ retire(deleted(head, "Performed"))
    /\ UNCHANGED <<storeBufferVars, streamSeqNum, architectural, miswritten,
                   lastMemBarrier, trying, active>>
    /\ commitFrame

\* The memory the program order prescribes after the head's store.
storesArchitecturally(n) ==
    architectural' = [a \in DOMAIN architectural |->
        LET bs == {b \in 1 .. size(n) : translate[insts[n].vaddr + b - 1] = a}
        IN IF bs = {} THEN architectural[a] ELSE insts[n].data[Max(bs)]]

\* handleMemResponse of a store that goes to the store buffer.
CommitStore ==
    /\ completes("store") /\ insts[head].state = "StoreToStoreBuffer"
    /\ storesArchitecturally(head)
    /\ miswritten' = miswritten \cup
         (IF packetData(head) = insts[head].data THEN {} ELSE {head})
    /\ storeInvalidate(insts[head].vaddr, paddr(head))
    /\ slots' = Append(slots, head)
    /\ numUnissuedAccesses' = numUnissuedAccesses + 1
    /\ wakeupOnEvent
    /\ popResponse(head)
    /\ retire([insts[head] EXCEPT !.state = "StoreInStoreBuffer",
                                  !.data = packetData(head)])
    /\ UNCHANGED <<streamSeqNum, misread, lastMemBarrier, trying>>
    /\ commitFrame

\* handleMemResponse of a store already performed: it invalidates nothing.
CommitDirectStore ==
    /\ completes("store") /\ insts[head].state = "Complete"
    /\ storesArchitecturally(head)
    /\ popResponse(head)
    /\ retire(deleted(head, "Performed"))
    /\ UNCHANGED <<storeBufferVars, streamSeqNum, misread, miswritten, cvuVars,
                   lastMemBarrier, trying, active>>
    /\ commitFrame

\* Instructions committed or dropped from their functional unit.
fromFU(kind) ==
    /\ committing /\ inFlight(head)
    /\ insts[head].state = "InFU" /\ insts[head].kind = kind

\* commitInst, then completeMemBarrierInst puts an entry in the store buffer.
CommitBarrier ==
    /\ fromFU("barrier") /\ instIsRightStream(head)
    /\ canInsert
    /\ slots' = Append(slots, head)
    /\ numUnissuedAccesses' = numUnissuedAccesses + 1
    /\ wakeupOnEvent
    /\ retire([insts[head] EXCEPT !.state = "Complete"])
    /\ UNCHANGED <<queueVars, numAccessesIssuedToMemory, streamSeqNum,
                   architectural, misread, miswritten, cvuVars, lastMemBarrier,
                   trying>>
    /\ commitFrame

\* Any other instruction: it may branch, or fault, and change the stream.
CommitOther ==
    /\ fromFU("other") /\ instIsRightStream(head)
    /\ retire(deleted(head, "Performed"))
    /\ streamSeqNum' \in {streamSeqNum, streamSeqNum + 1}
    /\ UNCHANGED <<queueVars, storeBufferVars, numAccessesIssuedToMemory,
                   architectural, misread, miswritten, cvuVars, lastMemBarrier,
                   trying, active>>
    /\ commitFrame

\* A discarded barrier is cleared at once.
DiscardInst ==
    /\ \E kind \in {"load", "store", "barrier", "other"} : fromFU(kind)
    /\ ~instIsRightStream(head)
    /\ lastMemBarrier' = IF isBarrier(head) /\ head >= lastMemBarrier
                           THEN 0 ELSE lastMemBarrier
    /\ retire(deleted(head, "Dropped"))
    /\ UNCHANGED <<queueVars, storeBufferVars, numAccessesIssuedToMemory,
                   streamSeqNum, architectural, misread, miswritten, cvuVars,
                   trying, active>>
    /\ commitFrame

\* Variant: the LSQ is not asked.
interruptible == TRUE

isInbetweenInsts == numAccessesIssuedToMemory = 0

\* takeInterrupt, and the HaltFetch of a drain: both wait for isInbetweenInsts.
ChangeStream ==
    /\ committing /\ isInbetweenInsts
    /\ streamSeqNum < MaxStreams
    /\ streamSeqNum' = streamSeqNum + 1
    /\ active' = TRUE
    /\ UNCHANGED <<insts, head, queueVars, storeBufferVars,
                   numAccessesIssuedToMemory, architectural, misread,
                   miswritten, cvuVars, lastMemBarrier, trying>>
    /\ commitFrame

\* need_to_tick.
lsqNeedsToTick ==
    /\ canSendToMemorySystem
    /\ \/ /\ requests # <<>> /\ insts[front].state # "InTranslation"
          /\ Len(transfers) < transfersSize
       \/ numUnissuedAccesses # 0

EndCycle ==
    /\ committing
    /\ phase' = "idle"
    /\ active' = \/ active
                 \/ lsqNeedsToTick
                 \/ inFlight(head) /\ (insts[head].state = "InFU" \/ responds(head))
    /\ UNCHANGED <<insts, queueVars, storeBufferVars, portVars, commitVars,
                   cvuVars, numAccessesInDTLB, numAccessesIssuedToMemory,
                   lastMemBarrier, trying, issue_count>>

TryToSendToTransfers ==
    \/ Stall \/ Skip \/ MoveStore \/ Forward \/ FailSC
    \/ SendAccepted \/ SendRefused

StoreBufferStep ==
    ClearBarriers \/ SkipStoreBuffer \/ StoreAccepted \/ StoreRefused \/ EndStep

Push ==
    \E n \in DOMAIN insts : PushRequest(n) \/ PushTranslated(n) \/ PushFailed(n)

Commit ==
    \/ DiscardResponse \/ CommitFault \/ CommitFailed \/ CommitLoad
    \/ CommitStore \/ CommitDirectStore \/ CommitBarrier \/ CommitOther
    \/ DiscardInst

Respond == \E i \in DOMAIN inMemory : RecvTimingResp(i)
Translate == \E n \in DOMAIN insts : Finish(n)

LSQNext ==
    \/ TryToSendToTransfers \/ StartCycle \/ StoreBufferStep
    \/ Push \/ Commit \/ ChangeStream \/ EndCycle
    \/ Translate \/ Respond \/ RetryRequest \/ RetryStore
    \/ \E op \in Ops : Issue(op)

LSQSpec == LSQInit /\ [][LSQNext]_lsqVars

----------------------------------------------------------------------------
prediction == [predict : BOOLEAN, constant : BOOLEAN, value : Data,
               index : Index \cup {0}, counter : Nat]

LSQTypeOK ==
    /\ CVUTypeOK
    /\ \A n \in DOMAIN insts :
         /\ insts[n].state \in InstState /\ insts[n].pred \in prediction
         /\ insts[n].data \in Seq(Byte)
    /\ {head, numAccessesInMemorySystem, numAccessesInDTLB,
        numStoresInTransfers, numAccessesIssuedToMemory, numUnissuedAccesses,
        streamSeqNum, issue_count} \subseteq Nat
    /\ {retryRequest, lastMemBarrier} \subseteq {0} \cup DOMAIN insts
    /\ {requests, transfers, slots} \subseteq Seq(DOMAIN insts)
    /\ state \in {"MemoryRunning", "MemoryNeedsRetry"}
    /\ phase \in {"idle", "step", "issue", "commit"}
    /\ {trying, active} \subseteq BOOLEAN

\* The counters mean what lsq.hh says they do, through squashes, faults,
\* retries and partly sent requests: packets in the memory system, requests in
\* the TLB, stores in transfers, accesses that must not be discarded, and store
\* buffer entries still to be issued or cleared.
CountersAgree ==
    /\ numAccessesInMemorySystem = Len(inMemory)
    /\ numAccessesInDTLB =
         Cardinality({n \in DOMAIN insts : insts[n].state = "InTranslation"})
    /\ numStoresInTransfers =
         Cardinality({i \in DOMAIN transfers : ~isLoad(transfers[i])})
    /\ numAccessesIssuedToMemory =
         Cardinality({n \in DOMAIN insts : insts[n].issuedToMemory})
    /\ numUnissuedAccesses =
         Cardinality({i \in DOMAIN slots :
                         isBarrier(slots[i]) \/ ~sentAllPackets(slots[i])})

\* No queue is ever pushed beyond its size (the "pushing anyway" and "store
\* buffer insertion without space" warnings), nor the memory system given more
\* packets than inMemorySystemLimit.
QueuesBounded ==
    /\ Len(requests) <= requestsSize
    /\ Len(transfers) <= transfersSize
    /\ Len(slots) <= numSlots
    /\ Len(inMemory) <= inMemorySystemLimit

\* Accesses stay in program order from the functional units to the store
\* buffer, early issue and retries notwithstanding, and the store buffer holds
\* committed instructions only.
InProgramOrder ==
    LET waiting == transfers \o requests IN
    /\ \A i, j \in DOMAIN waiting : i < j => waiting[i] < waiting[j]
    /\ \A i \in DOMAIN waiting : inFlight(waiting[i])
    /\ \A i, j \in DOMAIN slots : i < j => slots[i] < slots[j]
    /\ \A i \in DOMAIN slots : slots[i] < head

\* No panic or assertion of the LSQ can be reached: a response finds its
\* request in a state that expects one, a retry finds the refused request still
\* at the front of requests with room in transfers, or in the store buffer.
NoPanic ==
    /\ \A i \in DOMAIN inMemory :
         insts[inMemory[i][1]].state \in {"RequestIssuing", "RequestNeedsRetry",
                                     "StoreBufferIssuing", "StoreBufferNeedsRetry"}
    /\ state = "MemoryNeedsRetry" =>
         \/ /\ insts[retryRequest].state = "RequestNeedsRetry"
            /\ requests # <<>> /\ front = retryRequest
            /\ Len(transfers) < transfersSize
         \/ /\ insts[retryRequest].state = "StoreBufferNeedsRetry"
            /\ Contains(slots, retryRequest)
    /\ trying => /\ requests # <<>>
                 /\ state = "MemoryRunning" =>
                      insts[front].state \in {"InTranslation", "Translated",
                          "RequestIssuing", "Failed", "Complete"}

\* A load that was sent to memory or forwarded commits with the bytes of the
\* latest stores before it in program order, whether they come from memory or
\* from the store buffer, however its translation, its packets and their
\* responses are delayed, and whatever predictions, hits and fills do meanwhile.
UnflaggedReadLatest == FALSE \notin misread

\* What the CVU vouches for is so: the value of a valid entry is what a load
\* from its address must return in program order, whatever loads and stores
\* were in flight when the entry was made.
CVUCoherent ==
    \A i \in Slot : cvuTable[i].valid =>
        \A b \in DOMAIN cvuTable[i].data :
            cvuTable[i].data[b] =
                architectural[translate[cvuTable[i].vaddr + b - 1]]

\* "use predicted value for this" (lsq.cc, pushRequest): a load for which the
\* cache access was skipped commits with the predicted value.
FlaggedUsePredicted ==
    completes("load") /\ insts[head].use_CVU_value =>
        packetData(head) = SubSeq(insts[head].pred.value, 1, size(head))

\* A store commits the bytes the instruction stored.
StoresKeepData == miswritten = {}

\* Memory follows program order: once every committed store has been sent and
\* no uncommitted one has been performed, memory holds what the committed
\* stores leave in program order.
MemoryCatchesUp ==
    /\ \A i \in DOMAIN slots : ~isBarrier(slots[i]) => sentAllPackets(slots[i])
    /\ numAccessesIssuedToMemory = 0
    => memory = architectural

\* No access younger than a committed or in-flight barrier reaches memory
\* while an access older than the barrier is still to be performed.
BarrierOrder ==
    \A b, o, y \in DOMAIN insts :
        /\ o < b /\ b < y
        /\ isBarrier(b) /\ insts[b].state # "Dropped"
        /\ isMemRef(y) /\ (insts[y].sent > 0 \/ insts[y].state = "Performed")
        /\ isMemRef(o)
        => insts[o].state \in {"Performed", "Dropped"}

\* An access that may have a side effect is never dropped once it has been
\* sent: neither a mispredicted branch nor an interrupt squashes it.
IssuedNeverDropped ==
    [][\A n \in DOMAIN insts :
          insts[n].issuedToMemory => insts'[n].state # "Dropped"]_lsqVars

----------------------------------------------------------------------------
\* A wakeup is never lost: Execute ticks whenever active, the cache answers,
\* retries until it accepts, and the TLB answers.
LSQFairSpec ==
    /\ LSQSpec
    /\ WF_lsqVars(TryToSendToTransfers)
    /\ WF_lsqVars(StartCycle)
    /\ WF_lsqVars(StoreBufferStep)
    /\ WF_lsqVars(EndCycle)
    /\ SF_lsqVars(Push) /\ SF_lsqVars(Commit)
    /\ SF_lsqVars(Translate) /\ SF_lsqVars(Respond)
    /\ SF_lsqVars(RetryRequest \/ RetryStore)

quiet ==
    /\ head > Len(insts)
    /\ requests = <<>> /\ transfers = <<>> /\ slots = <<>>
    /\ inMemory = <<>> /\ lastMemBarrier = 0

\* Everything issued is eventually committed or dropped and every store
\* buffered eventually performed: no cycle of waits between the queues, the
\* store buffer, barriers and the retry protocol, and Execute never sleeps with
\* work that nothing will wake it for.
EventuallyQuiet == <>[]quiet
=============================================================================
