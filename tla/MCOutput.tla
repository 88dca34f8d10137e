------------------------------ MODULE MCOutput ------------------------------
(***************************************************************************)
(* TerminalOutputBuffer for TLC: two specifications, each of two instances *)
(* that share the constants and differ in what the environment does.       *)
(***************************************************************************)
EXTENDS TerminalOutputBuffer

VARIABLE focus

-----------------------------------------------------------------------------
(* Safety of one buffer: its stream through overflows of every size, or    *)
(* its failures and a Flush with two chunks that fill it.                  *)

NoFlush(b) == pc'[b]["flush"] = "idle"
NoIngestError(b) ==
    \A c \in Consumers : pc[b][c] = "ingest" => cons'[b][c].failed = cons[b][c].failed

StreamStep ==
    /\ Next
    /\ \A b \in Buffers : NoFlush(b) /\ NoIngestError(b)

FailureStep ==
    /\ Next
    /\ \A b \in Buffers : pump'[b].size \in {0, CapacityBytes} /\ nextSeq'[b] <= 2

BufferNext ==
    /\ \/ focus = "stream" /\ StreamStep
       \/ focus = "failures" /\ FailureStep
    /\ UNCHANGED focus

BufferInit == Init /\ focus \in {"stream", "failures"}

BufferSpec == BufferInit /\ [][BufferNext]_<<vars, focus>>

-----------------------------------------------------------------------------
(* Progress: a buffer with a Flush, or the buffers that share the budget.  *)
(* The buffers outside of the focus have ended: their terminal was closed  *)
(* before it gave any output, after a Flush that had nothing to wait for.  *)

Ended(r) == IF r = "flush" THEN "flush_ok" ELSE "exited"

OutputInit(working) ==
    /\ pending = [b \in Buffers |-> [s \in Seqs |-> {}]]
    /\ length = [b \in Buffers |-> [s \in Seqs |-> 0]]
    /\ nextSeq = [b \in Buffers |-> 0]
    /\ resident = [b \in Buffers |-> 0]
    /\ closed = [b \in Buffers |-> b \notin working]
    /\ sealed = [b \in Buffers |-> b \notin working]
    /\ cons = [b \in Buffers |->
                  [c \in Consumers |-> NewConsumer(b \in working /\ Enabled(b, c))]]
    /\ budget = [resident |-> 0, closed |-> FALSE, buffers |-> working]
    /\ pump = [b \in Buffers |-> [size |-> 0, candidates |-> {}, remaining |-> 0]]
    /\ flush = [b \in Buffers |-> [consumer |-> "live", target |-> 0]]
    /\ pc = [b \in Buffers |->
                [r \in Roles |->
                    CASE b \notin working -> Ended(r)
                      [] b \in working /\ r \in Consumers ->
                            IF Enabled(b, r) THEN "new" ELSE "exited"
                      [] b \in working /\ r = "pump" -> "read"
                      [] OTHER -> "idle"]]
    /\ owed = [b \in Buffers |-> [r \in Roles |-> {}]]
    /\ asleep = {}
    /\ parked = {}

\* The PTY gives one chunk to a buffer that is aborted while others work.
ReadsOnce(b) ==
    pc[b]["pump"] = "read" /\ pc'[b]["pump"] = "local" => nextSeq[b] = 0

ProgressNext ==
    /\ Next
    /\ \A b \in AbortBuffers \ FlushBuffers : ReadsOnce(b)
    /\ UNCHANGED focus

ProgressInit ==
    \/ focus = "flush" /\ OutputInit(FlushBuffers)
    \/ focus = "budget" /\ OutputInit(Buffers \ FlushBuffers)

ProgressSpec == ProgressInit /\ [][ProgressNext]_<<vars, focus>> /\ Fairness
=============================================================================
