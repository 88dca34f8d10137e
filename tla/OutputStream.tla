---------------------------- MODULE OutputStream ----------------------------
(***************************************************************************)
(* What a terminal output buffer promises to the consumers of its stream,  *)
(* with nothing about capacity, budgets, nodes, masks or condition         *)
(* variables.                                                              *)
(*                                                                         *)
(* The output of a terminal is a growing log of chunks.  Each consumer     *)
(* reads the log once, from its start, as contiguous runs of chunks: a run *)
(* is either handed over as payload or reported as a gap that names the    *)
(* exact number of bytes it stands for.  A consumer that neither fails nor *)
(* is cut off by a close ends only when it has accounted for every chunk.  *)
(***************************************************************************)
EXTENDS Integers, FiniteSets

CONSTANTS
    Streams,    \* the output streams
    Readers,    \* the consumers of every stream
    MaxSize,    \* the largest chunk, in bytes
    Limit       \* bound: chunks in a stream

VARIABLES
    size,       \* size[b][s]: the bytes of chunk s
    written,    \* the number of chunks written so far
    sealed,     \* no more chunks will be written
    cutOff,     \* the stream was closed
    view        \* view[b][c]: where reader c of stream b stands

streamVars == <<size, written, sealed, cutOff, view>>

ByteCount(b, S) ==
    Cardinality({x \in S \X (1 .. MaxSize) : x[2] <= size[b][x[1]]})

\* A reader has accounted for the chunks 1 .. pos and holds the chunks in run,
\* or the report that they are missing.
View(kind, pos, run, bytes) ==
    [kind |-> kind, pos |-> pos, run |-> run, bytes |-> bytes]

Init ==
    /\ size = [b \in Streams |-> [s \in 1 .. Limit |-> 0]]
    /\ written = [b \in Streams |-> 0]
    /\ sealed = [b \in Streams |-> FALSE]
    /\ cutOff = [b \in Streams |-> FALSE]
    /\ view \in [Streams -> [Readers -> {View("idle", 0, {}, 0), View("ended", 0, {}, 0)}]]

Write(b) ==
    /\ ~sealed[b] /\ ~cutOff[b] /\ written[b] < Limit
    /\ written' = [written EXCEPT ![b] = @ + 1]
    /\ \E n \in 1 .. MaxSize : size' = [size EXCEPT ![b][written[b] + 1] = n]
    /\ UNCHANGED <<sealed, cutOff, view>>

Seal(b) ==
    /\ sealed' = [sealed EXCEPT ![b] = TRUE]
    /\ UNCHANGED <<size, written, cutOff, view>>

CutOff(b) ==
    /\ cutOff' = [cutOff EXCEPT ![b] = TRUE]
    /\ UNCHANGED <<size, written, sealed, view>>

\* The reader is given the next chunks, or told how many bytes of them it lost.
Hand(b, c) ==
    LET v == view[b][c]
    IN  /\ v.kind = "idle" /\ ~cutOff[b]
        /\ \E through \in (v.pos + 1) .. written[b] :
              LET run == (v.pos + 1) .. through
              IN  view' \in {[view EXCEPT ![b][c] = View("payload", v.pos, run, 0)],
                             [view EXCEPT ![b][c] = View("gap", v.pos, run, ByteCount(b, run))]}
        /\ UNCHANGED <<size, written, sealed, cutOff>>

\* The reader has dealt with what it was given ...
Account(b, c) ==
    LET v == view[b][c]
    IN  /\ v.kind \in {"payload", "gap"}
        /\ view' = [view EXCEPT ![b][c] = View("idle", v.pos + Cardinality(v.run), {}, 0)]
        /\ UNCHANGED <<size, written, sealed, cutOff>>

\* ... or has failed on it, and reads no more.
Fail(b, c) ==
    /\ view[b][c].kind \in {"payload", "gap"}
    /\ view' = [view EXCEPT ![b][c] = View("failed", 0, {}, 0)]
    /\ UNCHANGED <<size, written, sealed, cutOff>>

\* The reader leaves: the stream was closed, or it has ended and the reader
\* has accounted for all of it.
Leave(b, c) ==
    LET v == view[b][c]
    IN  /\ v.kind = "idle"
        /\ cutOff[b] \/ (sealed[b] /\ v.pos = written[b])
        /\ view' = [view EXCEPT ![b][c] = View("ended", v.pos, {}, 0)]
        /\ UNCHANGED <<size, written, sealed, cutOff>>

Next ==
    \E b \in Streams :
        \/ Write(b) \/ Seal(b) \/ CutOff(b)
        \/ \E c \in Readers : Hand(b, c) \/ Account(b, c) \/ Fail(b, c) \/ Leave(b, c)

Spec == Init /\ [][Next]_streamVars

=============================================================================
