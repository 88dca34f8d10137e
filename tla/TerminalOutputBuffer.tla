------------------------ MODULE TerminalOutputBuffer ------------------------
(***************************************************************************)
(* core/terminal_output_buffer.go: the bounded PTY payload buffer that one *)
(* terminal generation shares between its Live and its History consumer,   *)
(* and the resident byte budget that all the buffers of a daemon share.    *)
(*                                                                         *)
(* One action is one critical section of buffer.mu or of budget.mu, so the *)
(* interleavings are those of the code (finishConsumer, which only closes  *)
(* a channel, is part of the section before it).  The threads of a buffer  *)
(* are its pump (the goroutine of Terminal.watchOutput that reads the PTY, *)
(* calls Write and at the end Seal, Wait and Close), its two consumers     *)
(* (run), the terminal operation that aborts it (abortOutputBuffer) and a  *)
(* caller of Flush.                                                        *)
(*                                                                         *)
(* A payload node is identified by its sequence number.  Every section     *)
(* that clears a pending bit ends with reclaimLocked, so between sections  *)
(* the node list is exactly the set of sequence numbers with a pending     *)
(* consumer.  A byte count that the code keeps in a local variable (freed) *)
(* is the cardinality of the set of bytes it counts; the counters that     *)
(* outlive a section (resident, budget.resident, pendingGapBytes) are      *)
(* integers updated as the code updates them.                              *)
(***************************************************************************)
EXTENDS Integers, FiniteSets

CONSTANTS
    Buffers,        \* one output buffer per terminal generation
    DropBuffers,    \* the buffers configured with overflow "drop"; the others block
    HistoryBuffers, \* the buffers created with historyEnabled
    CapacityBytes,  \* config.CapacityBytes
    MaxBytes,       \* budget.maxBytes
    ChunkBytes,     \* terminalOutputChunkBytes
    ChunkSizes,     \* the lengths of the chunks the PTY delivers
    AbortBuffers,   \* the buffers whose terminal may be closed or restarted
    FlushBuffers,   \* the buffers somebody may flush
    FailingBuffers, \* the buffers whose ingest callbacks may return an error
    MaxSeq          \* bound: sequence numbers a buffer may assign

ASSUME ConstantsAssumption ==
    /\ DropBuffers \subseteq Buffers
    /\ HistoryBuffers \subseteq Buffers
    /\ AbortBuffers \subseteq Buffers
    /\ FlushBuffers \subseteq Buffers
    /\ FailingBuffers \subseteq Buffers
    /\ IsFiniteSet(Buffers)
    /\ CapacityBytes \in Nat \ {0}
    /\ MaxBytes \in Nat \ {0}
    /\ ChunkBytes \in Nat \ {0}
    /\ ChunkSizes \subseteq 1 .. ChunkBytes
    /\ \A n \in ChunkSizes : n <= CapacityBytes
    /\ MaxSeq \in Nat

Consumers == {"live", "history"}
Roles == Consumers \cup {"pump", "abort", "flush"}
Seqs == 1 .. MaxSeq

VARIABLES
    pending,    \* pending[b][s]: the consumers that still need node s
    length,     \* length[b][s]: the bytes that sequence number s stands for
    nextSeq,    \* the last sequence number assigned
    resident,   \* buffer.resident
    closed,
    sealed,
    cons,       \* terminalOutputConsumerState of every consumer
    budget,     \* terminalOutputResidentBudget
    pump,       \* the chunk in the pump's hand and its eviction pass
    flush,      \* the consumer and target of the running Flush
    pc,         \* the critical section every thread enters next
    owed,       \* bytes a thread has taken from a buffer, not yet released
    asleep,     \* <<buffer, role>> waiting on buffer.cond
    parked      \* buffers whose pump waits on budget.cond

vars == <<pending, length, nextSeq, resident, closed, sealed, cons, budget,
          pump, flush, pc, owed, asleep, parked>>

nodeVars == <<pending, length, nextSeq, resident, cons>>

-----------------------------------------------------------------------------
(* Bytes and nodes.                                                        *)

\* The payload bytes of the sequence numbers S of buffer b.
BytesOf(b, S) ==
    {x \in ({b} \X S) \X (1 .. ChunkBytes) : x[2] <= length[b][x[1][2]]}

\* The chunk the pump of b holds, as long as it has no sequence number.
InHand(b) == ({b} \X {0}) \X (1 .. pump[b].size)

\* The node list of buffer b.
Nodes(b) == {s \in Seqs : pending[b][s] # {}}

Least(S) == CHOOSE s \in S : \A t \in S : s <= t
Greatest(S) == IF S = {} THEN 0 ELSE CHOOSE s \in S : \A t \in S : t <= s

\* Fault: the node behind s is taken whether or not the consumer needs it.
NextNodeUnmasked(S, s) == s + 1

\* nextPendingNodeLocked: the first node of S after s, 0 if there is none.
NextPending(S, s) == IF \E t \in S : t > s THEN Least({t \in S : t > s}) ELSE 0

Larger(m, n) == IF m > n THEN m ELSE n

\* outputNodeInFlightLocked
InFlight(st, s) == st.first # 0 /\ st.first <= s /\ s <= st.last

\* Fault: an overflow takes the batch that is being ingested as well.
QueuedWithInFlight(b, c) == {s \in Seqs : c \in pending[b][s]}

\* The queued nodes of consumer c that an overflow may still drop.
Queued(b, c) == {s \in Seqs : c \in pending[b][s] /\ ~InFlight(cons[b][c], s)}

HasActiveConsumer(b) == \E c \in Consumers : cons[b][c].active
AcceptingOutput(b) == ~closed[b] /\ ~sealed[b] /\ HasActiveConsumer(b)
Blocks(b) == b \notin DropBuffers
\* Fault: the incoming chunk is left out of the capacity check.
OverCapacityWithoutChunk(b) == resident[b] > CapacityBytes
OverCapacity(b) == resident[b] + pump[b].size > CapacityBytes

\* Fault: a second loss overwrites the count of the first.
AddGapOverwriting(st, through, bytes) ==
    [st EXCEPT !.gapBytes = bytes, !.gapSeq = through]

\* addGapLocked
AddGap(st, through, bytes) ==
    IF bytes = 0 THEN st
    ELSE [st EXCEPT !.gapBytes = @ + bytes, !.gapSeq = Larger(@, through)]

\* The queued nodes D of a consumer become part of its pending gap.
Gapped(b, st, D) ==
    AddGap(st, Greatest(D), Cardinality(BytesOf(b, D)))

-----------------------------------------------------------------------------
(* Condition variables, reclaiming nodes and paying the budget back.       *)

Goto(b, r, label) == pc' = [pc EXCEPT ![b][r] = label]
At(b, r, label) == pc[b][r] = label /\ <<b, r>> \notin asleep

\* buffer.cond.Broadcast
Broadcast(b) == asleep' = asleep \ ({b} \X Roles)

\* The masks of b's nodes once each consumer c has given up dropped[c].
Without(b, dropped) ==
    [s \in Seqs |-> {c \in pending[b][s] : s \notin dropped[c]}]

\* reclaimLocked: the bytes of the nodes that nobody needs under the masks left.
Freed(b, left) == BytesOf(b, {s \in Nodes(b) : left[s] = {}})

\* The masks of b become left and thread <<owner, r>> owes the budget the
\* reclaimed bytes, with the bytes in extra that it had reserved for nothing.
Reclaim(b, left, owner, r, extra) ==
    /\ pending' = [pending EXCEPT ![b] = left]
    /\ resident' = [resident EXCEPT ![b] = @ - Cardinality(Freed(b, left))]
    /\ owed' = [owed EXCEPT ![owner][r] = Freed(b, left) \cup extra]

\* Where a thread goes on after budget.release; release(0) does nothing.
AfterRelease == [rel_local |-> "local", rel_read |-> "read", rel_seal |-> "seal",
                 rel_evict |-> "evict", rel_unreg |-> "unregister",
                 rel_next |-> "next", rel_wake |-> "wake"]

GotoRelease(b, r, bytes, label) ==
    Goto(b, r, IF bytes = {} THEN AfterRelease[label] ELSE label)

\* Fault: the budget is paid back without waking the writers that wait for it.
ReleaseSilently(b, r) ==
    /\ pc[b][r] \in DOMAIN AfterRelease
    /\ budget' = [budget EXCEPT !.resident =
                      Larger(0, @ - Cardinality(owed[b][r]))]
    /\ owed' = [owed EXCEPT ![b][r] = {}]
    /\ Goto(b, r, AfterRelease[pc[b][r]])
    /\ UNCHANGED <<nodeVars, closed, sealed, pump, flush, asleep, parked>>

\* budget.release: the counter is clamped at zero and every waiter is woken.
Release(b, r) ==
    /\ pc[b][r] \in DOMAIN AfterRelease
    /\ budget' = [budget EXCEPT !.resident =
                      Larger(0, @ - Cardinality(owed[b][r]))]
    /\ owed' = [owed EXCEPT ![b][r] = {}]
    /\ parked' = {}
    /\ Goto(b, r, AfterRelease[pc[b][r]])
    /\ UNCHANGED <<nodeVars, closed, sealed, pump, flush, asleep>>

-----------------------------------------------------------------------------
(* Overflow.                                                               *)

\* The consumers that dropOldestLocked leaves pending on node s.
Pinned(b, s) == {c \in pending[b][s] : InFlight(cons[b][c], s)}

\* The nodes dropOldestLocked visits: it walks from the head until the nodes
\* that are no longer pending add up to the required bytes.
Visited(b, required) ==
    {s \in Nodes(b) :
        Cardinality(BytesOf(b, {t \in Nodes(b) : t < s /\ Pinned(b, t) = {}})) < required}

DropOldestSets(b, required) ==
    [c \in Consumers |-> Visited(b, required) \cap Queued(b, c)]

\* dropOldestLocked, run by the pump of owner.
DropOldest(b, required, owner) ==
    LET dropped == DropOldestSets(b, required)
        left == Without(b, dropped)
        Moved(c, st) ==
            IF st.next \in dropped[c]
            THEN [st EXCEPT !.next = NextPending({s \in Seqs : c \in left[s]}, st.next)]
            ELSE st
    IN  /\ Reclaim(b, left, owner, "pump", {})
        /\ cons' = [cons EXCEPT ![b] =
               [c \in Consumers |-> Gapped(b, Moved(c, cons[b][c]), dropped[c])]]

\* dropIncomingLocked: the chunk in the pump's hand gets a sequence number and
\* becomes, with everything queued, an ordered gap of every active consumer.
DropIncoming(b) ==
    LET seq == nextSeq[b] + 1
        dropped == [c \in Consumers |-> IF cons[b][c].active THEN Queued(b, c) ELSE {}]
        Lose(c, st) ==
            IF st.active
            THEN AddGap(Gapped(b, [st EXCEPT !.next = 0], dropped[c]), seq, pump[b].size)
            ELSE st
    IN  /\ nextSeq' = [nextSeq EXCEPT ![b] = seq]
        /\ length' = [length EXCEPT ![b][seq] = pump[b].size]
        /\ Reclaim(b, Without(b, dropped), b, "pump", {})
        /\ cons' = [cons EXCEPT ![b] = [c \in Consumers |-> Lose(c, cons[b][c])]]
        /\ Broadcast(b)
        /\ GotoRelease(b, "pump", Freed(b, Without(b, dropped)), "rel_read")

-----------------------------------------------------------------------------
(* The pump: Terminal.watchOutput, Write and writeChunk.                   *)

\* A chunk arrives.  Write cuts a payload into chunks of at most ChunkBytes
\* and CapacityBytes; a payload of several chunks is several reads here.
PumpRead(b) ==
    /\ At(b, "pump", "read")
    /\ nextSeq[b] < MaxSeq
    /\ \E n \in ChunkSizes : pump' = [pump EXCEPT ![b].size = n]
    /\ Goto(b, "pump", "local")
    /\ UNCHANGED <<nodeVars, closed, sealed, budget, flush, owed, asleep, parked>>

\* The PTY output ends.
PumpEOF(b) ==
    /\ At(b, "pump", "read")
    /\ Goto(b, "pump", "seal")
    /\ UNCHANGED <<nodeVars, closed, sealed, budget, pump, flush, owed, asleep, parked>>

\* The select of the pump sees buffer.Closed().
PumpClosed(b) == closed[b] /\ PumpEOF(b)

\* writeChunk up to the reservation: the chunk must fit the buffer.
WriteLocal(b) ==
    /\ At(b, "pump", "local")
    /\ \/ /\ AcceptingOutput(b) /\ OverCapacity(b) /\ Blocks(b)
          /\ asleep' = asleep \cup {<<b, "pump">>}
          /\ UNCHANGED <<nodeVars, pc, owed>>
       \/ /\ AcceptingOutput(b) /\ OverCapacity(b) /\ ~Blocks(b)
          /\ LET left == Without(b, DropOldestSets(b, pump[b].size))
             IN  IF Freed(b, left) # {}
                 THEN /\ DropOldest(b, pump[b].size, b)
                      /\ Goto(b, "pump", "rel_local")
                      /\ UNCHANGED <<length, nextSeq, asleep>>
                 ELSE DropIncoming(b)
       \/ /\ AcceptingOutput(b) /\ ~OverCapacity(b)
          /\ Goto(b, "pump", "accept")
          /\ UNCHANGED <<nodeVars, owed, asleep>>
       \/ /\ closed[b] \/ sealed[b]
          /\ Goto(b, "pump", "seal")
          /\ UNCHANGED <<nodeVars, owed, asleep>>
       \/ /\ ~closed[b] /\ ~sealed[b] /\ ~HasActiveConsumer(b)
          /\ Goto(b, "pump", "read")
          /\ UNCHANGED <<nodeVars, owed, asleep>>
    /\ UNCHANGED <<closed, sealed, budget, pump, flush, parked>>

\* reserve looks at the buffer before it takes budget.mu, at first and again
\* whenever budget.cond.Wait has returned ...
ReserveCheck(b) ==
    /\ At(b, "pump", "accept") /\ b \notin parked
    /\ Goto(b, "pump", IF AcceptingOutput(b) THEN "reserve" ELSE "refused")
    /\ UNCHANGED <<nodeVars, closed, sealed, budget, pump, flush, owed, asleep, parked>>

\* Fault: the chunk being reserved is left out of the comparison.
FitsAlmost(b) == budget.resident <= MaxBytes

Fits(b) == budget.resident + pump[b].size <= MaxBytes

\* ... then charges the chunk, waits (block) or starts an eviction pass over
\* the drop buffers (drop).
Reserve(b) ==
    /\ At(b, "pump", "reserve")
    /\ \/ /\ budget.closed
          /\ Goto(b, "pump", "refused")
          /\ UNCHANGED <<budget, pump, parked>>
       \/ /\ ~budget.closed /\ Fits(b)
          /\ budget' = [budget EXCEPT !.resident = @ + pump[b].size]
          /\ Goto(b, "pump", "append")
          /\ UNCHANGED <<pump, parked>>
       \/ /\ ~budget.closed /\ ~Fits(b) /\ Blocks(b)
          /\ parked' = parked \cup {b}
          /\ Goto(b, "pump", "accept")
          /\ UNCHANGED <<budget, pump>>
       \/ /\ ~budget.closed /\ ~Fits(b) /\ ~Blocks(b)
          /\ pump' = [pump EXCEPT
                 ![b].candidates = budget.buffers \cap DropBuffers,
                 ![b].remaining = budget.resident + pump[b].size - MaxBytes]
          /\ Goto(b, "pump", "evict")
          /\ UNCHANGED <<budget, parked>>
    /\ UNCHANGED <<nodeVars, closed, sealed, flush, owed, asleep>>

\* dropForAggregate on one candidate, in the order of a map iteration.
Evict(b) ==
    /\ At(b, "pump", "evict")
    /\ \E d \in pump[b].candidates :
          LET freed == Freed(d, Without(d, DropOldestSets(d, pump[b].remaining)))
              rest == pump[b].remaining - Cardinality(freed)
          IN  /\ DropOldest(d, pump[b].remaining, b)
              /\ Broadcast(d)
              /\ pump' = [pump EXCEPT
                     ![b].candidates = IF rest <= 0 THEN {} ELSE @ \ {d},
                     ![b].remaining = rest]
              /\ GotoRelease(b, "pump", freed, "rel_evict")
    /\ UNCHANGED <<length, nextSeq, closed, sealed, budget, flush, parked>>

\* The eviction pass is over: one more attempt, never a wait.
ReserveRetry(b) ==
    /\ At(b, "pump", "evict") /\ pump[b].candidates = {}
    /\ \/ /\ ~budget.closed /\ Fits(b)
          /\ budget' = [budget EXCEPT !.resident = @ + pump[b].size]
          /\ Goto(b, "pump", "append")
       \/ /\ budget.closed \/ ~Fits(b)
          /\ Goto(b, "pump", "refused")
          /\ UNCHANGED budget
    /\ pump' = [pump EXCEPT ![b].remaining = 0]
    /\ UNCHANGED <<nodeVars, closed, sealed, flush, owed, asleep, parked>>

\* Fault: a refused chunk becomes a gap under the block policy too.
WriteRefusedAsGap(b) ==
    /\ At(b, "pump", "refused")
    /\ \/ /\ closed[b] \/ sealed[b]
          /\ Goto(b, "pump", "seal")
          /\ UNCHANGED <<nodeVars, owed, asleep>>
       \/ /\ ~closed[b] /\ ~sealed[b]
          /\ DropIncoming(b)
    /\ UNCHANGED <<closed, sealed, budget, pump, flush, parked>>

\* writeChunk after a reservation that failed.
WriteRefused(b) ==
    /\ At(b, "pump", "refused")
    /\ \/ /\ closed[b] \/ sealed[b] \/ Blocks(b)
          /\ Goto(b, "pump", "seal")
          /\ UNCHANGED <<nodeVars, owed, asleep>>
       \/ /\ ~closed[b] /\ ~sealed[b] /\ ~Blocks(b)
          /\ DropIncoming(b)
    /\ UNCHANGED <<closed, sealed, budget, pump, flush, parked>>

\* A consumer that has a gap to hear of first gets no payload behind it.
BehindGap(st) == st.gapBytes > 0 \/ st.flyGapSeq # 0

\* writeChunk after a reservation: the chunk becomes a node, or part of a gap.
AppendChunk(b) ==
    /\ At(b, "pump", "append")
    /\ \/ /\ closed[b] \/ sealed[b]
          /\ owed' = [owed EXCEPT ![b]["pump"] = InHand(b)]
          /\ Goto(b, "pump", "rel_seal")
          /\ UNCHANGED <<nodeVars, asleep>>
       \/ /\ ~closed[b] /\ ~sealed[b]
          /\ LET seq == nextSeq[b] + 1
                 mask == {c \in Consumers : cons[b][c].active /\ ~BehindGap(cons[b][c])}
                 dropped == [c \in Consumers |->
                                IF cons[b][c].active /\ c \notin mask THEN Queued(b, c) ELSE {}]
                 left == Without(b, dropped)
                 freed == Freed(b, left)
                 Take(c, st) ==
                     CASE c \in mask ->
                            IF st.next = 0 /\ st.first = 0 THEN [st EXCEPT !.next = seq] ELSE st
                       [] st.active /\ c \notin mask ->
                            AddGap(Gapped(b, [st EXCEPT !.next = IF st.first = 0 THEN 0 ELSE @],
                                          dropped[c]), seq, pump[b].size)
                       [] OTHER -> st
             IN  /\ nextSeq' = [nextSeq EXCEPT ![b] = seq]
                 /\ length' = [length EXCEPT ![b][seq] = pump[b].size]
                 /\ cons' = [cons EXCEPT ![b] = [c \in Consumers |-> Take(c, cons[b][c])]]
                 /\ pending' = [pending EXCEPT ![b] = [left EXCEPT ![seq] = mask]]
                 /\ resident' = [resident EXCEPT ![b] =
                        @ - Cardinality(freed) + (IF mask = {} THEN 0 ELSE pump[b].size)]
                 /\ owed' = [owed EXCEPT ![b]["pump"] =
                        freed \cup (IF mask = {} THEN InHand(b) ELSE {})]
                 /\ GotoRelease(b, "pump", freed \cup (IF mask = {} THEN InHand(b) ELSE {}),
                                "rel_read")
          /\ Broadcast(b)
    /\ UNCHANGED <<closed, sealed, budget, pump, flush, parked>>

\* Fault: sealing does not wake the consumers that wait for output.
SealSilently(b) ==
    /\ At(b, "pump", "seal")
    /\ sealed' = [sealed EXCEPT ![b] = TRUE]
    /\ Goto(b, "pump", "wake_sealed")
    /\ UNCHANGED <<nodeVars, closed, budget, pump, flush, owed, asleep, parked>>

\* Seal: the two critical sections of buffer.mu and of budget.wake.
Seal(b) ==
    /\ At(b, "pump", "seal")
    /\ sealed' = [sealed EXCEPT ![b] = TRUE]
    /\ Broadcast(b)
    /\ Goto(b, "pump", "wake_sealed")
    /\ UNCHANGED <<nodeVars, closed, budget, pump, flush, owed, parked>>

SealWake(b) ==
    /\ At(b, "pump", "wake_sealed")
    /\ parked' = {}
    /\ Goto(b, "pump", "wait")
    /\ UNCHANGED <<nodeVars, closed, sealed, budget, pump, flush, owed, asleep>>

-----------------------------------------------------------------------------
(* Close and Wait, called by the pump at its end and by abortOutputBuffer. *)

\* Where the two callers of Close stand before it and after it.
Closers == {"pump", "abort"}
AfterClose == [pump |-> "exited", abort |-> "wait"]

\* A terminal close or restart aborts the buffer, at any moment.
AbortStart(b) ==
    /\ pc[b]["abort"] = "idle" /\ b \in AbortBuffers
    /\ Goto(b, "abort", "close")
    /\ UNCHANGED <<nodeVars, closed, sealed, budget, pump, flush, owed, asleep, parked>>

Close(b, r) ==
    /\ r \in Closers /\ pc[b][r] = "close"
    /\ \/ /\ closed[b]
          /\ Goto(b, r, AfterClose[r])
          /\ UNCHANGED <<nodeVars, closed, owed, asleep>>
       \/ /\ ~closed[b]
          /\ closed' = [closed EXCEPT ![b] = TRUE]
          /\ LET dropped == [c \in Consumers |-> IF cons[b][c].active THEN Queued(b, c) ELSE {}]
                 Stop(c, st) ==
                     LET lost == IF st.active
                                 THEN Gapped(b, [st EXCEPT !.next = 0], dropped[c])
                                 ELSE st
                     IN  [lost EXCEPT !.active = FALSE, !.done = @ \/ pc[b][c] = "new"]
             IN  /\ cons' = [cons EXCEPT ![b] = [c \in Consumers |-> Stop(c, cons[b][c])]]
                 /\ Reclaim(b, Without(b, dropped), b, r, {})
                 /\ GotoRelease(b, r, Freed(b, Without(b, dropped)), "rel_unreg")
          /\ Broadcast(b)
          /\ UNCHANGED <<length, nextSeq>>
    /\ UNCHANGED <<sealed, budget, pump, flush, parked>>

\* budget.unregister
Unregister(b, r) ==
    /\ r \in Closers /\ pc[b][r] = "unregister"
    /\ budget' = [budget EXCEPT !.buffers = @ \ {b}]
    /\ parked' = {}
    /\ Goto(b, r, AfterClose[r])
    /\ UNCHANGED <<nodeVars, closed, sealed, pump, flush, owed, asleep>>

\* Wait: both consumers have finished.  The pump then closes the buffer.
AfterWait == [pump |-> "close", abort |-> "exited"]

Wait(b, r) ==
    /\ r \in Closers /\ pc[b][r] = "wait"
    /\ \A c \in Consumers : cons[b][c].done
    /\ Goto(b, r, AfterWait[r])
    /\ UNCHANGED <<nodeVars, closed, sealed, budget, pump, flush, owed, asleep, parked>>

\* budget.close at daemon shutdown.
BudgetClose ==
    /\ ~budget.closed
    /\ budget' = [budget EXCEPT !.closed = TRUE]
    /\ parked' = {}
    /\ UNCHANGED <<nodeVars, closed, sealed, pump, flush, pc, owed, asleep>>

-----------------------------------------------------------------------------
(* The consumers: run, next, completeBatch and completeGap.                *)

\* run: a consumer that starts after a close only finishes.
Run(b, c) ==
    /\ pc[b][c] = "new"
    /\ \/ /\ cons[b][c].active /\ ~closed[b]
          /\ Goto(b, c, "next")
          /\ UNCHANGED cons
       \/ /\ ~cons[b][c].active \/ closed[b]
          /\ cons' = [cons EXCEPT ![b][c].done = TRUE]
          /\ Goto(b, c, "exited")
    /\ UNCHANGED <<pending, length, nextSeq, resident, closed, sealed, budget, pump,
                   flush, owed, asleep, parked>>

\* The nodes next coalesces into one batch for consumer c.
Batch(b, c) ==
    LET mine == {s \in Seqs : c \in pending[b][s] /\ s >= cons[b][c].next}
    IN  {s \in mine : Cardinality(BytesOf(b, {t \in mine : t <= s})) <= ChunkBytes}

\* Fault: the end of the stream is seen before the last gap is reported.
DrainedOfPayload(st) == st.next = 0

\* Nothing is left to hand to the consumer.
Drained(st) == st.gapBytes = 0 /\ st.next = 0

\* next: a pending gap comes first, then payload; a drained consumer of a
\* sealed buffer and every consumer of a closed one finish.
NextBatch(b, c) ==
    LET st == cons[b][c]
    IN  /\ At(b, c, "next")
        /\ \/ /\ st.active /\ Drained(st) /\ ~sealed[b] /\ ~closed[b]
              /\ asleep' = asleep \cup {<<b, c>>}
              /\ UNCHANGED <<cons, pc>>
           \/ /\ ~st.active \/ closed[b] \/ (sealed[b] /\ Drained(st))
              /\ cons' = [cons EXCEPT ![b][c].done = TRUE]
              /\ Goto(b, c, "exited")
              /\ UNCHANGED asleep
           \/ /\ st.active /\ ~closed[b] /\ st.gapBytes > 0
              /\ cons' = [cons EXCEPT ![b][c] =
                     [@ EXCEPT !.flyGapSeq = st.gapSeq, !.flyGapBytes = st.gapBytes,
                               !.gapSeq = 0, !.gapBytes = 0]]
              /\ Goto(b, c, "gap")
              /\ UNCHANGED asleep
           \/ /\ st.active /\ ~closed[b] /\ st.gapBytes = 0 /\ st.next # 0
              /\ cons' = [cons EXCEPT ![b][c] =
                     [@ EXCEPT !.first = st.next, !.last = Greatest(Batch(b, c))]]
              /\ Goto(b, c, "ingest")
              /\ UNCHANGED asleep
        /\ UNCHANGED <<pending, length, nextSeq, resident, closed, sealed, budget, pump,
                       flush, owed, parked>>

\* A consumer that failed holds nothing any more; Flush waits for the failure
\* callback that follows.
Unavailable(st) ==
    [st EXCEPT !.active = FALSE, !.next = 0, !.gapBytes = 0, !.gapSeq = 0,
               !.failed = TRUE, !.failurePending = TRUE]

\* The nodes of one consumer leave and the thread pays the budget.
GiveUp(b, c, nodes, label) ==
    LET left == Without(b, [d \in Consumers |-> IF d = c THEN nodes ELSE {}])
    IN  /\ Reclaim(b, left, b, c, {})
        /\ GotoRelease(b, c, Freed(b, left), label)
        /\ Broadcast(b)
        /\ UNCHANGED <<length, nextSeq, closed, sealed, budget, pump, flush, parked>>

\* completeBatch after ingest returned, without or with an error.
CompleteBatch(b, c) ==
    LET st == cons[b][c]
        mine == {s \in Seqs : c \in pending[b][s]}
        base == [st EXCEPT !.first = 0, !.last = 0, !.completed = Larger(@, st.last),
                           !.next = NextPending(mine, st.last)]
    IN  /\ At(b, c, "ingest")
        /\ \/ /\ GiveUp(b, c, {s \in mine : st.first <= s /\ s <= st.last}, "rel_next")
              /\ cons' = [cons EXCEPT ![b][c] = base]
           \/ /\ b \in FailingBuffers
              /\ GiveUp(b, c, {s \in mine : st.first <= s}, "rel_wake")
              /\ cons' = [cons EXCEPT ![b][c] = Unavailable(base)]

\* completeGap after the gap callback returned.  markLiveParserStale always
\* returns an error: only the History consumer survives a gap.
CompleteGap(b, c) ==
    LET st == cons[b][c]
        queue == {s \in Seqs : c \in pending[b][s] /\ st.next # 0 /\ s >= st.next}
        base == [st EXCEPT !.flyGapSeq = 0, !.flyGapBytes = 0]
    IN  /\ At(b, c, "gap")
        /\ \/ /\ c = "history"
              /\ GiveUp(b, c, {}, "rel_next")
              /\ cons' = [cons EXCEPT ![b][c] =
                              [base EXCEPT !.completed = Larger(@, st.flyGapSeq)]]
           \/ /\ GiveUp(b, c, queue, "rel_wake")
              /\ cons' = [cons EXCEPT ![b][c] = Unavailable(base)]

\* budget.wake after a failure.
FailureWake(b, c) ==
    /\ At(b, c, "wake")
    /\ parked' = {}
    /\ Goto(b, c, "failed")
    /\ UNCHANGED <<nodeVars, closed, sealed, budget, pump, flush, owed, asleep>>

\* Fault: completeFailureHandling forgets the broadcast.
FailureHandledSilently(b, c) ==
    /\ At(b, c, "failed")
    /\ cons' = [cons EXCEPT ![b][c] = [@ EXCEPT !.failurePending = FALSE, !.done = TRUE]]
    /\ Goto(b, c, "exited")
    /\ UNCHANGED <<pending, length, nextSeq, resident, closed, sealed, budget, pump,
                   flush, owed, asleep, parked>>

\* The failure callback has returned: completeFailureHandling, then run ends.
FailureHandled(b, c) ==
    /\ At(b, c, "failed")
    /\ cons' = [cons EXCEPT ![b][c] = [@ EXCEPT !.failurePending = FALSE, !.done = TRUE]]
    /\ Broadcast(b)
    /\ Goto(b, c, "exited")
    /\ UNCHANGED <<pending, length, nextSeq, resident, closed, sealed, budget, pump,
                   flush, owed, parked>>

-----------------------------------------------------------------------------
(* Flush.                                                                  *)

\* One pass of Flush's loop for consumer c and the sequence number target.
FlushPass(b, c, target) ==
    LET st == cons[b][c]
    IN  \/ /\ st.failed /\ ~st.failurePending
           /\ Goto(b, "flush", "flush_error")
           /\ UNCHANGED asleep
        \/ /\ ~st.failed /\ (~st.active \/ st.completed >= target)
           /\ Goto(b, "flush", "flush_ok")
           /\ UNCHANGED asleep
        \/ /\ \/ st.failed /\ st.failurePending
              \/ ~st.failed /\ st.active /\ st.completed < target
           /\ Goto(b, "flush", "check")
           /\ asleep' = asleep \cup {<<b, "flush">>}

FlushStart(b) ==
    /\ pc[b]["flush"] = "idle" /\ b \in FlushBuffers
    /\ \E c \in Consumers :
          /\ flush' = [flush EXCEPT ![b] = [consumer |-> c, target |-> nextSeq[b]]]
          /\ FlushPass(b, c, nextSeq[b])
    /\ UNCHANGED <<nodeVars, closed, sealed, budget, pump, owed, parked>>

FlushWoken(b) ==
    /\ At(b, "flush", "check")
    /\ FlushPass(b, flush[b].consumer, flush[b].target)
    /\ UNCHANGED <<nodeVars, closed, sealed, budget, pump, flush, owed, parked>>

\* The context of the caller is cancelled while Flush waits.
FlushCancel(b) ==
    /\ pc[b]["flush"] = "check" /\ <<b, "flush">> \in asleep
    /\ Goto(b, "flush", "flush_cancelled")
    /\ Broadcast(b)
    /\ UNCHANGED <<nodeVars, closed, sealed, budget, pump, flush, owed, parked>>

-----------------------------------------------------------------------------

\* newTerminalOutputBuffer
NewConsumer(active) ==
    [active |-> active, done |-> ~active, next |-> 0, first |-> 0, last |-> 0,
     flyGapSeq |-> 0, flyGapBytes |-> 0, completed |-> 0, gapBytes |-> 0,
     gapSeq |-> 0, failed |-> FALSE, failurePending |-> FALSE]

Enabled(b, c) == c = "live" \/ b \in HistoryBuffers

Init ==
    /\ pending = [b \in Buffers |-> [s \in Seqs |-> {}]]
    /\ length = [b \in Buffers |-> [s \in Seqs |-> 0]]
    /\ nextSeq = [b \in Buffers |-> 0]
    /\ resident = [b \in Buffers |-> 0]
    /\ closed = [b \in Buffers |-> FALSE]
    /\ sealed = [b \in Buffers |-> FALSE]
    /\ cons = [b \in Buffers |-> [c \in Consumers |-> NewConsumer(Enabled(b, c))]]
    /\ budget = [resident |-> 0, closed |-> FALSE, buffers |-> Buffers]
    /\ pump = [b \in Buffers |-> [size |-> 0, candidates |-> {}, remaining |-> 0]]
    /\ flush = [b \in Buffers |-> [consumer |-> "live", target |-> 0]]
    /\ pc = [b \in Buffers |->
                [r \in Roles |-> CASE r \in Consumers -> IF Enabled(b, r) THEN "new" ELSE "exited"
                                   [] r = "pump" -> "read"
                                   [] OTHER -> "idle"]]
    /\ owed = [b \in Buffers |-> [r \in Roles |-> {}]]
    /\ asleep = {}
    /\ parked = {}

PumpStep(b) ==
    \/ WriteLocal(b) \/ ReserveCheck(b) \/ Reserve(b) \/ Evict(b)
    \/ ReserveRetry(b) \/ WriteRefused(b) \/ AppendChunk(b) \/ Seal(b) \/ SealWake(b)
    \/ PumpClosed(b)

CloserStep(b, r) == Close(b, r) \/ Unregister(b, r) \/ Wait(b, r)

ConsumerStep(b, c) ==
    \/ Run(b, c) \/ NextBatch(b, c) \/ CompleteBatch(b, c) \/ CompleteGap(b, c)
    \/ FailureWake(b, c) \/ FailureHandled(b, c)

Environment(b) ==
    PumpRead(b) \/ PumpEOF(b) \/ AbortStart(b) \/ FlushStart(b) \/ FlushCancel(b)

Next ==
    \/ \E b \in Buffers :
          \/ PumpStep(b)
          \/ FlushWoken(b)
          \/ Environment(b)
          \/ \E r \in Roles : Release(b, r)
          \/ \E r \in Closers : CloserStep(b, r)
          \/ \E c \in Consumers : ConsumerStep(b, c)
    \/ BudgetClose

\* Every goroutine keeps running and every callback returns; nothing forces
\* output to arrive, a terminal to close or a caller to flush.
Fairness ==
    \A b \in Buffers :
        /\ WF_vars(PumpStep(b))
        /\ WF_vars(FlushWoken(b))
        /\ \A r \in Roles : WF_vars(Release(b, r))
        /\ \A r \in Closers : WF_vars(CloserStep(b, r))
        /\ \A c \in Consumers : WF_vars(ConsumerStep(b, c))

Spec == Init /\ [][Next]_vars
FairSpec == Spec /\ Fairness

-----------------------------------------------------------------------------
(* The stream that a buffer presents to its consumers.                     *)

ConsumerView(b, c) ==
    LET st == cons[b][c]
        V(kind, pos, run, bytes) ==
            [kind |-> kind, pos |-> pos, run |-> run, bytes |-> bytes]
    IN  CASE st.failed -> V("failed", 0, {}, 0)
          [] ~st.failed /\ st.first # 0 ->
                V("payload", st.completed,
                  {s \in Seqs : InFlight(st, s) /\ c \in pending[b][s]}, 0)
          [] ~st.failed /\ st.first = 0 /\ st.flyGapSeq # 0 ->
                V("gap", st.completed, (st.completed + 1) .. st.flyGapSeq, st.flyGapBytes)
          [] OTHER -> V(IF pc[b][c] = "exited" THEN "ended" ELSE "idle", st.completed, {}, 0)

Stream == INSTANCE OutputStream WITH
    Streams <- Buffers, Readers <- Consumers, MaxSize <- ChunkBytes, Limit <- MaxSeq,
    size <- length, written <- nextSeq, cutOff <- closed,
    view <- [b \in Buffers |-> [c \in Consumers |-> ConsumerView(b, c)]]

-----------------------------------------------------------------------------
(* Properties.                                                             *)

PumpLabels == {"read", "local", "accept", "reserve", "evict", "refused", "append",
               "seal", "wake_sealed", "wait", "close", "unregister", "exited",
               "rel_local", "rel_read", "rel_seal", "rel_evict", "rel_unreg"}
AbortLabels == {"idle", "close", "rel_unreg", "unregister", "wait", "exited"}
ConsumerLabels == {"new", "next", "ingest", "gap", "rel_next", "rel_wake", "wake",
                   "failed", "exited"}
FlushLabels == {"idle", "check", "flush_ok", "flush_error", "flush_cancelled"}
Labels == [r \in Roles |-> CASE r = "pump" -> PumpLabels
                             [] r = "abort" -> AbortLabels
                             [] r = "flush" -> FlushLabels
                             [] OTHER -> ConsumerLabels]

AllBytes == (Buffers \X (0 .. MaxSeq)) \X (1 .. ChunkBytes)

ConsumerStates ==
    [active : BOOLEAN, done : BOOLEAN, next : 0 .. MaxSeq, first : 0 .. MaxSeq,
     last : 0 .. MaxSeq, flyGapSeq : 0 .. MaxSeq, flyGapBytes : Nat,
     completed : 0 .. MaxSeq, gapBytes : Nat, gapSeq : 0 .. MaxSeq,
     failed : BOOLEAN, failurePending : BOOLEAN]

PumpStates ==
    [size : ChunkSizes \cup {0}, candidates : SUBSET DropBuffers, remaining : Int]
BudgetStates == [resident : Nat, closed : BOOLEAN, buffers : SUBSET Buffers]

PcOK ==
    /\ pc \in [Buffers -> [Roles -> UNION {Labels[r] : r \in Roles}]]
    /\ \A b \in Buffers, r \in Roles : pc[b][r] \in Labels[r]

\* The fields of terminalOutputBuffer, its consumers and the budget keep their
\* types, and every thread stands at a label of its own code.
TypeOK ==
    /\ pending \in [Buffers -> [Seqs -> SUBSET Consumers]]
    /\ length \in [Buffers -> [Seqs -> 0 .. ChunkBytes]]
    /\ nextSeq \in [Buffers -> 0 .. MaxSeq]
    /\ resident \in [Buffers -> Int]
    /\ closed \in [Buffers -> BOOLEAN]
    /\ sealed \in [Buffers -> BOOLEAN]
    /\ cons \in [Buffers -> [Consumers -> ConsumerStates]]
    /\ budget \in BudgetStates
    /\ pump \in [Buffers -> PumpStates]
    /\ flush \in [Buffers -> [consumer : Consumers, target : 0 .. MaxSeq]]
    /\ PcOK
    /\ owed \in [Buffers -> [Roles -> SUBSET AllBytes]]
    /\ asleep \subseteq Buffers \X Roles
    /\ parked \subseteq Buffers

\* The last sequence number a consumer has been handed, as payload or as gap.
Handed(st) ==
    CASE st.first # 0 -> st.last
      [] st.first = 0 /\ st.flyGapSeq # 0 -> st.flyGapSeq
      [] OTHER -> st.completed

\* ... and the last one that it has been handed or that its next gap covers.
Frontier(st) == IF st.gapBytes > 0 THEN st.gapSeq ELSE Handed(st)

\* No payload is lost silently, duplicated or reordered: until a consumer
\* fails, what it has completed, what it has in flight, its pending gap and
\* its queued nodes follow one another without a hole up to the last sequence
\* number, and the cursor state.next stands at the head of the queue.
StreamContiguous ==
    \A b \in Buffers, c \in Consumers :
        LET st == cons[b][c]
            mine == {s \in Seqs : c \in pending[b][s]}
            inFlight == {s \in Seqs : InFlight(st, s)}
        IN  Enabled(b, c) /\ ~st.failed =>
                /\ st.first # 0 => st.first = st.completed + 1 /\ st.first <= st.last
                /\ st.flyGapSeq # 0 => st.first = 0 /\ st.completed < st.flyGapSeq
                /\ st.gapBytes > 0 => Handed(st) < st.gapSeq
                /\ mine = inFlight \cup (Frontier(st) + 1) .. nextSeq[b]
                /\ IF st.first # 0
                   THEN st.next \in {0, st.first}
                   ELSE st.next = IF mine = {} THEN 0 ELSE Frontier(st) + 1

\* A gap reports exactly the bytes that are missing: DroppedBytes of the gap in
\* flight and pendingGapBytes are the lengths of the sequence numbers they
\* cover, so a consumer can tell how much of the stream it never saw.
GapBytesExact ==
    \A b \in Buffers, c \in Consumers :
        LET st == cons[b][c]
        IN  Enabled(b, c) /\ ~st.failed =>
                /\ st.flyGapBytes =
                      IF st.flyGapSeq = 0 THEN 0
                      ELSE Cardinality(BytesOf(b, (st.completed + 1) .. st.flyGapSeq))
                /\ st.gapBytes =
                      IF st.gapSeq = 0 THEN 0
                      ELSE Cardinality(BytesOf(b, (Handed(st) + 1) .. st.gapSeq))

\* The buffer implements the stream: whatever overflows, closes, fails or races,
\* every consumer is handed contiguous runs of payload and exact gaps, keeps a
\* batch it is ingesting, and leaves a sealed buffer only when it has accounted
\* for all of the output.
ImplementsStream == Stream!Spec

\* buffer.resident counts the retained payload and never exceeds the capacity,
\* although writeChunk checks it in one critical section and appends in a later
\* one (the comment above Write).
CapacityHeld ==
    \A b \in Buffers :
        /\ resident[b] = Cardinality(BytesOf(b, Nodes(b)))
        /\ resident[b] <= CapacityBytes

\* The bytes the budget is charged for: retained nodes, bytes taken out and not
\* yet released, and chunks reserved and not yet appended.
Charged ==
    (UNION {BytesOf(b, Nodes(b)) : b \in Buffers})
    \cup (UNION {owed[b][r] : b \in Buffers, r \in Roles})
    \cup (UNION {InHand(b) : b \in {x \in Buffers : pc[x]["pump"] = "append"}})

\* The shared budget is a hard limit and leaks nothing: budget.resident is at
\* every moment the number of bytes charged to it.
BudgetExact == budget.resident = Cardinality(Charged) /\ budget.resident <= MaxBytes

\* Under the block policy no byte becomes a gap while the buffer is open, not
\* even when the budget refuses a reservation at shutdown.
BlockLosesNothing ==
    \A b \in Buffers \ DropBuffers, c \in Consumers :
        ~closed[b] => cons[b][c].gapBytes = 0 /\ cons[b][c].flyGapSeq = 0

\* No wake-up of buffer.cond is lost: a thread asleep there is one whose wait
\* loop would put it to sleep again.
SleepersHaveReason ==
    \A b \in Buffers :
        /\ <<b, "pump">> \in asleep => AcceptingOutput(b) /\ OverCapacity(b)
        /\ \A c \in Consumers : <<b, c>> \in asleep =>
              LET st == cons[b][c]
              IN  st.active /\ st.gapBytes = 0 /\ st.next = 0 /\ ~sealed[b] /\ ~closed[b]
        /\ <<b, "flush">> \in asleep =>
              LET st == cons[b][flush[b].consumer]
              IN  IF st.failed THEN st.failurePending
                  ELSE st.active /\ st.completed < flush[b].target

\* A closed buffer is torn down: its pump and its consumers end, and it gives
\* every byte back to the budget.
CloseDrains ==
    \A b \in Buffers :
        closed[b] ~> /\ \A r \in {"pump", "live", "history"} : pc[b][r] = "exited"
                     /\ Nodes(b) = {} /\ resident[b] = 0
                     /\ \A r \in Roles : owed[b][r] = {}

\* A writer blocked by capacity or by the budget gets on: a chunk it has read
\* is written, refused or dropped.
WriteReturns ==
    \A b \in Buffers :
        pc[b]["pump"] = "local" ~> pc[b]["pump"] \in {"read", "wait", "close", "exited"}

\* Flush does not wait for ever, whatever output arrives behind its target.
FlushReturns == \A b \in FlushBuffers : pc[b]["flush"] = "check" ~> pc[b]["flush"] # "check"

=============================================================================
