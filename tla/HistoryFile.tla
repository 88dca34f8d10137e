----------------------------- MODULE HistoryFile -----------------------------
(***************************************************************************)
(* The line history of one terminal on disk (core/history/linehist:        *)
(* compressed_file.go, with the retention epoch of engine.go and store.go):*)
(* a file of block, boundary and gap records, its index in memory, lines   *)
(* that wait to be flushed, compaction through a temporary file, recovery  *)
(* after a crash, and a reader that holds a frozen view.                   *)
(*                                                                         *)
(* All calls run under the engine's mutex, one at a time; a call is broken *)
(* into the steps between which the process or the machine may stop.       *)
(* Lines have absolute numbers 1, 2, ... that the code does not have: the  *)
(* ghost field base of a file is the number of lines dropped before its    *)
(* first record.  A header has size 1, a line one of LineSizes.  Behind    *)
(* the whole records of the file there may be a tail: a part of a record   *)
(* that a crash or a failed write has left.                                *)
(***************************************************************************)
EXTENDS Integers, Sequences, FiniteSets

CONSTANTS
    LineSizes,        \* encoded sizes of a line
    BlockTarget,      \* compressedBlockTargetBytes
    FileLimit,        \* options.MaxBytes
    MayAge,           \* options.MaxAge is set
    FailingSteps,     \* system calls that may fail
    MaxCalls,         \* calls on the file
    MaxHistoryCrashes \* times that the process stops or the power fails

Failures == {"write", "truncate", "fsync", "temp", "close", "rename", "reopen",
             "syncdir"}

ASSUME HistoryAssumption ==
    /\ LineSizes \subseteq Nat \ {0}
    /\ BlockTarget \in Nat \ {0} /\ FileLimit \in Nat \ {0}
    /\ MayAge \in BOOLEAN
    /\ FailingSteps \subseteq Failures
    /\ MaxCalls \in Nat /\ MaxHistoryCrashes \in Nat

VARIABLES
    disk,     \* the file that the path names: its whole records
    tail,     \* what lies behind them
    durable,  \* how many of its records a power failure cannot take
    older,    \* files that the path may name again: no rename since is synced
    temp,     \* the temporary file of a compaction
    fileState,   \* f.file: "open", "stale" (closed), "nil"; "down": no object
    index,    \* blocks, gapOffsets, persistedLines, writeOffset in memory
    unflushed, \* f.pending and f.pendingBytes
    epoch,    \* f.retentionEpoch
    call,     \* the call in progress
    frozen,   \* the cold part of a frozenView
    calls, crashes

\* History variables: what has happened, for the properties.
VARIABLES
    overdue,  \* a call has failed and no retention check has passed since
    unrolled, \* a rollback has failed and its bytes may still be in the file
    shifted,    \* since the view was frozen a compaction has dropped lines and
              \* failed before it raised the epoch
    secured   \* the last line when Sync last succeeded with every rename synced

historyVars == <<disk, tail, durable, older, temp, fileState, index, unflushed,
                 epoch, call, frozen, calls, crashes, overdue, unrolled, shifted,
                 secured>>

\* The record of a block, a boundary or a gap.  from is a ghost: the absolute
\* number of lines in front of it.  count is the header's lineCount field.
Record(kind, from, count, size) ==
    [kind |-> kind, from |-> from, count |-> count, size |-> size]
NoFile == [base |-> -1, records |-> << >>]
NoTail == [bytes |-> 0, junk |-> FALSE]
Nothing == [count |-> 0, bytes |-> 0]
NoView == [epoch |-> -1, base |-> 0, count |-> 0]
Returned == [name |-> "none", pc |-> "idle", then |-> "return", size |-> 0,
             start |-> 0]

-----------------------------------------------------------------------------
(* Recovery.                                                               *)

EmptyIndex(base) ==
    [base |-> base, blocks |-> << >>, gaps |-> << >>, lines |-> 0,
     records |-> 0, end |-> 0, ok |-> TRUE]

AddGapOffset(gaps, offset) ==
    IF gaps # << >> /\ gaps[Len(gaps)] = offset THEN gaps ELSE Append(gaps, offset)

\* The record passes the checks of recover.
Valid(i, r) ==
    /\ r.kind = "lines" => r.count > 0 /\ r.size > 0
    /\ r.kind = "boundary" => r.count = 0 /\ r.size = 0
    /\ r.kind = "gap" => r.size = 0 /\ r.count =< i.lines

\* One turn of the loop of recover.
Indexed(i, r) ==
    LET i2 == [i EXCEPT !.records = @ + 1, !.end = @ + 1 + r.size,
                        !.ok = @ /\ Valid(i, r)] IN
    CASE r.kind = "lines" ->
            [i2 EXCEPT !.blocks = Append(@, [at |-> i2.records, first |-> i.lines,
                                             count |-> r.count, size |-> r.size]),
                       !.lines = @ + r.count]
      [] r.kind = "boundary" -> i2
      [] r.kind = "gap" -> [i2 EXCEPT !.gaps = AddGapOffset(@, r.count)]

\* The loop of recover: what it has indexed after n records.
Recovery(file) ==
    LET run[n \in 0..Len(file.records)] ==
            IF n = 0 THEN EmptyIndex(file.base)
                     ELSE Indexed(run[n - 1], file.records[n])
    IN run

\* The index of the whole records of a file.
Recovered(file) == Recovery(file)[Len(file.records)]

LastLine(file) == file.base + Recovered(file).lines

-----------------------------------------------------------------------------
(* The tail.  A tail that begins with a header, or with a part of one, is   *)
(* cut off by recovery because the record ends behind the file; of any      *)
(* other, recovery cannot parse the header.                                 *)

\* A record of that many bytes has been written over the tail.
Overwritten(bytes) ==
    IF bytes >= tail.bytes THEN NoTail
    ELSE [bytes |-> tail.bytes - bytes, junk |-> TRUE]

\* Only the first bytes of a record have been written over the tail.
PartWritten(bytes) ==
    IF bytes = 0 THEN tail
    ELSE IF bytes >= tail.bytes THEN [bytes |-> bytes, junk |-> FALSE]
    ELSE [tail EXCEPT !.junk = TRUE]

-----------------------------------------------------------------------------
(* Calls.                                                                  *)

HistoryInit ==
    /\ disk = [base |-> 0, records |-> << >>]
    /\ tail = NoTail
    /\ durable = 0
    /\ older = {}
    /\ temp = NoFile
    /\ fileState = "open"
    /\ index = EmptyIndex(0)
    /\ unflushed = Nothing
    /\ epoch = 0
    /\ call = Returned
    /\ frozen = NoView
    /\ calls = 0
    /\ crashes = 0
    /\ overdue = FALSE
    /\ unrolled = FALSE
    /\ shifted = FALSE
    /\ secured = 0

LineCount == index.lines + unflushed.count

MayFail(step) == step \in FailingSteps

Doing(pc) == call.pc = pc

\* The call goes on with pc, or with what follows a flush or a retention check.
Continue(pc) == call' = [call EXCEPT !.pc = pc]
Proceed ==
    call' = IF call.then = "return" THEN Returned
            ELSE [call EXCEPT !.pc = call.then, !.then = "return"]

\* The call returns an error.  Close joins it and goes on; an Open that fails
\* closes the file.
Fail ==
    /\ overdue' = TRUE
    /\ call' = IF call.name \in {"Close", "Open"}
               THEN [call EXCEPT !.pc = "shut"] ELSE Returned

Begin(name, pc, then, size) ==
    /\ call.pc = "idle"
    /\ fileState # "down"
    /\ calls < MaxCalls
    /\ calls' = calls + 1
    /\ call' = [Returned EXCEPT !.name = name, !.pc = pc, !.then = then,
                                !.size = size]
    /\ UNCHANGED <<disk, tail, durable, older, temp, fileState, index,
                   unflushed, epoch, frozen, crashes, overdue, unrolled, shifted,
                   secured>>

\* AppendLines, one line of the batch.
AppendLines ==
    /\ fileState # "nil"           \* os.ErrInvalid
    /\ \E size \in LineSizes :
        IF unflushed.count > 0 /\ unflushed.bytes + size > BlockTarget
        THEN Begin("AppendLines", "flush", "append", size)
        ELSE Begin("AppendLines", "append", "return", size)

AppendBoundary == Begin("AppendBoundary", "flush", "record", 0)
AppendGap == Begin("AppendGap", "flush", "record", 0)
PruneRetention == fileState # "nil" /\ Begin("PruneRetention", "flush", "limit", 0)
Sync == fileState # "nil" /\ Begin("Sync", "flush", "fsync", 0)
CloseFile ==
    Begin("Close", IF fileState = "nil" THEN "shut" ELSE "flush", "shut", 0)

\* The line joins the pending ones, and a full block is flushed.
AppendPending ==
    /\ Doing("append")
    /\ unflushed' = [count |-> unflushed.count + 1,
                     bytes |-> unflushed.bytes + call.size]
    /\ IF unflushed'.bytes >= BlockTarget
       THEN call' = [call EXCEPT !.pc = "flush", !.then = "return"]
       ELSE call' = Returned
    /\ UNCHANGED <<disk, tail, durable, older, temp, fileState, index, epoch,
                   frozen, calls, crashes, overdue, unrolled, shifted, secured>>

\* A record goes to the end of the file and of the index.
Written(r) ==
    /\ disk' = [disk EXCEPT !.records = Append(@, r)]
    /\ tail' = Overwritten(1 + r.size)
    /\ index' = Indexed(index, r)

\* Mutant: a failed write is not rolled back.
NotRolledBack(bytes) ==
    /\ tail' = PartWritten(bytes)
    /\ UNCHANGED unrolled

\* rollbackPartialRecord truncates the file to writeOffset and seeks there; it
\* ignores an error.
RollbackPartialRecord(bytes) ==
    \/ /\ tail' = NoTail
       /\ unrolled' = FALSE
    \/ /\ MayFail("truncate")
       /\ tail' = PartWritten(bytes)
       /\ unrolled' = TRUE

\* The write of a record with that payload fails before its last byte.
WriteFails(size) ==
    \/ /\ fileState = "open"
       /\ MayFail("write")
       /\ \E bytes \in 0..size : RollbackPartialRecord(bytes)
    \/ /\ fileState # "open"
       /\ UNCHANGED <<tail, unrolled>>

\* flushPending up to enforceLimit.
FlushPending ==
    /\ Doing("flush")
    /\ \/ /\ unflushed.count = 0
          /\ Proceed
          /\ UNCHANGED <<disk, tail, index, unflushed, overdue, unrolled>>
       \/ /\ unflushed.count > 0
          /\ fileState = "open"
          /\ Written(Record("lines", index.base + index.lines, unflushed.count,
                            unflushed.bytes))
          /\ unflushed' = Nothing
          /\ Continue("limit")
          /\ UNCHANGED <<overdue, unrolled>>
       \/ /\ unflushed.count > 0
          /\ WriteFails(unflushed.bytes)
          /\ Fail
          /\ UNCHANGED <<disk, index, unflushed>>
    /\ UNCHANGED <<durable, older, temp, fileState, epoch, frozen, calls, crashes,
                   shifted, secured>>

\* The header that AppendBoundary or AppendGap writes; its flush is done.
AppendRecord ==
    LET gap == call.name = "AppendGap"
        twice == gap /\ index.gaps # << >> /\ index.gaps[Len(index.gaps)] = index.lines
    IN
    /\ Doing("record")
    /\ \/ /\ twice
          /\ call' = Returned
          /\ UNCHANGED <<disk, tail, index, overdue, unrolled>>
       \/ /\ ~twice
          /\ fileState = "open"
          /\ Written(IF gap
                THEN Record("gap", index.base + index.lines, index.lines, 0)
                ELSE Record("boundary", index.base + index.lines, 0, 0))
          /\ call' = [call EXCEPT !.pc = "limit", !.then = "return"]
          /\ UNCHANGED <<overdue, unrolled>>
       \/ /\ ~twice
          /\ WriteFails(0)
          /\ Fail
          /\ UNCHANGED <<disk, index>>
    /\ UNCHANGED <<durable, older, temp, fileState, unflushed, epoch, frozen, calls,
                   crashes, shifted, secured>>

\* Sync of the file.
SyncFile ==
    /\ Doing("fsync")
    /\ \/ /\ fileState = "open"
          /\ durable' = Len(disk.records)
          /\ secured' = IF older = {} THEN LastLine(disk) ELSE secured
          /\ call' = Returned
          /\ UNCHANGED overdue
       \/ /\ fileState # "open" \/ MayFail("fsync")
          /\ Fail
          /\ UNCHANGED <<durable, secured>>
    /\ UNCHANGED <<disk, tail, older, temp, fileState, index, unflushed, epoch,
                   frozen, calls, crashes, unrolled, shifted>>

\* Close syncs and closes whatever the flush has returned.
Shut ==
    /\ Doing("shut")
    /\ fileState' = "down"
    /\ durable' \in {durable} \cup (IF fileState = "open" THEN {Len(disk.records)} ELSE {})
    /\ call' = Returned
    /\ UNCHANGED <<disk, tail, older, temp, index, unflushed, epoch, frozen,
                   calls, crashes, overdue, unrolled, shifted, secured>>

-----------------------------------------------------------------------------
(* Retention.                                                              *)

\* What block i of index x costs in the compacted file: the gaps in it come too.
Cost(x, i) ==
    1 + x.blocks[i].size
      + Cardinality({k \in DOMAIN x.gaps :
            /\ x.gaps[k] > x.blocks[i].first
            /\ i < Len(x.blocks) => x.gaps[k] =< x.blocks[i + 1].first})

\* Mutant: numerator and denominator are swapped.
TargetSwapped == (FileLimit * 4) \div 3

\* The newest blocks that together fit three quarters of the limit are kept.
Target == (FileLimit * 3) \div 4
CostOfNewest(x) ==
    LET used[n \in 0..Len(x.blocks)] ==
            IF n = 0 THEN 0 ELSE used[n - 1] + Cost(x, Len(x.blocks) + 1 - n)
    IN used
SizeStart(x) ==
    CHOOSE start \in 0..Len(x.blocks) :
        /\ CostOfNewest(x)[Len(x.blocks) - start] =< Target
        /\ \A m \in 0..(start - 1) : CostOfNewest(x)[Len(x.blocks) - m] > Target

\* enforceLimit: how many of the first blocks go.  The clock decides how many
\* of them are over age.
EnforceLimit ==
    /\ Doing("limit")
    /\ \E aged \in IF MayAge THEN 0..Len(index.blocks) ELSE {0} :
        LET large == index.end > FileLimit
            start == IF large /\ SizeStart(index) > aged
                     THEN SizeStart(index) ELSE aged
        IN IF fileState # "nil" /\ (aged > 0 \/ large)
           THEN /\ call' = [call EXCEPT !.pc = "temp", !.start = start]
                /\ UNCHANGED overdue
           ELSE Proceed /\ overdue' = FALSE
    /\ UNCHANGED <<disk, tail, durable, older, temp, fileState, index,
                   unflushed, epoch, frozen, calls, crashes, unrolled, shifted,
                   secured>>

\* droppedLines of the file with index x.
Dropped(x, start) ==
    IF start < Len(x.blocks) THEN x.blocks[start + 1].first ELSE x.lines

\* newGapOffsets: the gaps behind the dropped lines, counted from there.
GapsAfter(gaps, dropped) ==
    LET kept[n \in 0..Len(gaps)] ==
            IF n = 0 THEN << >>
            ELSE IF gaps[n] =< dropped THEN kept[n - 1]
            ELSE Append(kept[n - 1], gaps[n] - dropped)
    IN kept[Len(gaps)]

KeptBlocks(file, x, start) ==
    [i \in 1..(Len(x.blocks) - start) |-> file.records[x.blocks[start + i].at]]

\* The markers of a compacted file that begins behind the line base.
GapRecords(base, gaps) ==
    [i \in 1..Len(gaps) |-> Record("gap", base + gaps[i], gaps[i], 0)]

\* Mutant: the gap markers come first in the compacted file.
CompactedGapsFirst(file, x, start) ==
    LET dropped == Dropped(x, start) IN
    [base |-> x.base + dropped,
     records |-> GapRecords(x.base + dropped, GapsAfter(x.gaps, dropped))
                    \o KeptBlocks(file, x, start)]

\* Mutant: the gap markers keep their old offsets.
CompactedUnshifted(file, x, start) ==
    LET dropped == Dropped(x, start)
        gaps == GapsAfter(x.gaps, dropped)
    IN [base |-> x.base + dropped,
        records |-> KeptBlocks(file, x, start) \o [i \in 1..Len(gaps) |->
            Record("gap", x.base + dropped + gaps[i], dropped + gaps[i], 0)]]

\* The compacted file: the kept blocks, then the gaps that are still in it.
Compacted(file, x, start) ==
    LET dropped == Dropped(x, start) IN
    [base |-> x.base + dropped,
     records |-> KeptBlocks(file, x, start)
                    \o GapRecords(x.base + dropped, GapsAfter(x.gaps, dropped))]

\* The new index with the entry of newBlocks for a block that has been copied.
Moved(y, b) ==
    [y EXCEPT !.blocks = Append(@, [b EXCEPT !.at = y.records + 1,
                                             !.first = y.lines]),
              !.lines = @ + b.count, !.records = @ + 1, !.end = @ + 1 + b.size]

\* The loop that copies the blocks: the new index after n of them.
MovedBlocks(x, start) ==
    LET moved[n \in 0..(Len(x.blocks) - start)] ==
            IF n = 0 THEN EmptyIndex(x.base + Dropped(x, start))
                     ELSE Moved(moved[n - 1], x.blocks[start + n])
    IN moved

\* The new index, built beside the compacted file.
Reindexed(x, start) ==
    LET gaps == GapsAfter(x.gaps, Dropped(x, start)) IN
    [MovedBlocks(x, start)[Len(x.blocks) - start] EXCEPT
        !.gaps = gaps, !.records = @ + Len(gaps), !.end = @ + Len(gaps)]

\* rewriteBlocks writes and syncs the temporary file.
WriteTemp ==
    /\ Doing("temp")
    /\ \/ /\ fileState = "open"
          /\ temp' = Compacted(disk, index, call.start)
          /\ Continue("close")
          /\ UNCHANGED overdue
       \/ /\ fileState # "open" \/ MayFail("temp")
          /\ Fail
          /\ UNCHANGED temp
    /\ UNCHANGED <<disk, tail, durable, older, fileState, index, unflushed,
                   epoch, frozen, calls, crashes, unrolled, shifted, secured>>

CloseOld ==
    /\ Doing("close")
    /\ \/ /\ fileState' = "nil"
          /\ Continue("rename")
          /\ UNCHANGED <<temp, overdue>>
       \/ /\ MayFail("close")
          /\ fileState' = "stale"
          /\ temp' = NoFile
          /\ Fail
    /\ UNCHANGED <<disk, tail, durable, older, index, unflushed, epoch, frozen,
                   calls, crashes, unrolled, shifted, secured>>

\* What is left of the file that the path names when power fails before the
\* rename of another one is synced.
Replaced == [base |-> disk.base, records |-> SubSeq(disk.records, 1, durable)]

\* Mutant: the temporary file was not synced before its rename.
RenameUnsynced ==
    /\ Doing("rename")
    /\ temp' = NoFile
    /\ older' = older \cup {Replaced}
    /\ disk' = temp
    /\ tail' = NoTail
    /\ unrolled' = FALSE
    /\ durable' = 0
    /\ Continue("reopen")
    /\ UNCHANGED <<fileState, index, unflushed, epoch, frozen, calls, crashes,
                   overdue, shifted, secured>>

\* The rename publishes the new file; when it fails the old one is opened again.
RenameTemp ==
    /\ Doing("rename")
    /\ temp' = NoFile
    /\ \/ /\ older' = older \cup {Replaced}
          /\ disk' = temp
          /\ tail' = NoTail
          /\ unrolled' = FALSE
          /\ durable' = Len(temp.records)
          /\ Continue("reopen")
          /\ UNCHANGED <<fileState, overdue>>
       \/ /\ MayFail("rename")
          /\ fileState' \in {"open"} \cup (IF MayFail("reopen") THEN {"nil"} ELSE {})
          /\ Fail
          /\ UNCHANGED <<disk, tail, durable, older, unrolled>>
    /\ UNCHANGED <<index, unflushed, epoch, frozen, calls, crashes, shifted, secured>>

\* The new file is opened and its index replaces the old one.
Reopen ==
    /\ Doing("reopen")
    /\ \/ /\ fileState' = "open"
          /\ index' = Reindexed(index, call.start)
          /\ call' = [call EXCEPT !.pc = "syncdir", !.start = Dropped(index, call.start)]
          /\ UNCHANGED overdue
       \/ /\ MayFail("reopen")
          /\ Fail
          /\ UNCHANGED <<fileState, index>>
    /\ UNCHANGED <<disk, tail, durable, older, temp, unflushed, epoch, frozen,
                   calls, crashes, unrolled, shifted, secured>>

\* Mutant: the epoch is not advanced.
SyncDirectoryOnly ==
    /\ Doing("syncdir")
    /\ older' = {}
    /\ Proceed
    /\ overdue' = FALSE
    /\ UNCHANGED <<disk, tail, durable, temp, fileState, index, unflushed, epoch,
                   frozen, calls, crashes, unrolled, shifted, secured>>

\* The directory is synced; only then is the epoch advanced.
SyncDirectory ==
    /\ Doing("syncdir")
    /\ \/ /\ older' = {}
          /\ epoch' = IF call.start > 0 THEN epoch + 1 ELSE epoch
          /\ Proceed
          /\ overdue' = FALSE
          /\ UNCHANGED shifted
       \/ /\ MayFail("syncdir")
          /\ Fail
          /\ shifted' = (shifted \/ call.start > 0)
          /\ UNCHANGED <<older, epoch>>
    /\ UNCHANGED <<disk, tail, durable, temp, fileState, index, unflushed, frozen,
                   calls, crashes, unrolled, secured>>

-----------------------------------------------------------------------------
(* Crashes, opening, and a reader.                                         *)

\* The tail when the process stops: a record that was being written may be there
\* in part.
TailsLeft ==
    IF Doing("flush") /\ fileState = "open"
    THEN {PartWritten(bytes) : bytes \in 0..unflushed.bytes} ELSE {tail}

\* The process stops: the files are as they are, and nothing more is synced.
ProcessStops ==
    /\ fileState # "down"
    /\ crashes < MaxHistoryCrashes
    /\ crashes' = crashes + 1
    /\ tail' \in TailsLeft
    /\ temp' = NoFile
    /\ fileState' = "down"
    /\ call' = Returned
    /\ UNCHANGED <<disk, durable, older, index, unflushed, epoch, frozen, calls,
                   overdue, unrolled, shifted, secured>>

\* The power fails: what was not synced of the file may be gone from some byte
\* on, and a rename that was not synced may be undone.
PowerFails ==
    /\ crashes < MaxHistoryCrashes
    /\ crashes' = crashes + 1
    /\ \/ /\ tail' \in TailsLeft \cup {NoTail}
          /\ durable' = Len(disk.records)
          /\ UNCHANGED disk
       \/ \E n \in durable..(Len(disk.records) - 1) :
            /\ disk' = [disk EXCEPT !.records = SubSeq(@, 1, n)]
            /\ \E bytes \in 0..disk.records[n + 1].size :
                  tail' = [bytes |-> bytes, junk |-> FALSE]
            /\ durable' = n
       \/ /\ disk' \in older
          /\ tail' = NoTail
          /\ durable' = Len(disk'.records)
    /\ older' = {}
    /\ temp' = NoFile
    /\ fileState' = "down"
    /\ call' = Returned
    /\ UNCHANGED <<index, unflushed, epoch, frozen, calls, overdue, unrolled, shifted,
                   secured>>

\* recover returns an error: a header cannot be parsed, or the tail cannot be
\* truncated.  A file that does not begin with a header has been removed by
\* discardObsoleteLineFile.
Unreadable == tail.junk /\ disk.records # << >>
CannotOpen ==
    \/ Unreadable
    \/ ~Recovered(disk).ok
    \/ tail # NoTail /\ MayFail("truncate")

\* OpenCompressedLineFile, and a new Store on it.
OpenFile ==
    /\ fileState = "down"
    /\ calls < MaxCalls
    /\ calls' = calls + 1
    /\ ~Unreadable
    /\ Recovered(disk).ok
    /\ index' = Recovered(disk)
    /\ tail' = NoTail
    /\ unrolled' = FALSE
    /\ fileState' = "open"
    /\ unflushed' = Nothing
    /\ epoch' = 0
    /\ frozen' = NoView
    /\ shifted' = FALSE
    /\ call' = [Returned EXCEPT !.name = "Open", !.pc = "limit"]
    /\ UNCHANGED <<disk, durable, older, temp, crashes, overdue, secured>>

OpenRefused ==
    /\ fileState = "down"
    /\ calls < MaxCalls
    /\ calls' = calls + 1
    /\ CannotOpen
    /\ UNCHANGED <<disk, tail, durable, older, temp, fileState, index, unflushed,
                   epoch, call, frozen, crashes, overdue, unrolled, shifted, secured>>

\* Store.Freeze keeps the range and the epoch; a read compares the epoch.
Freeze ==
    /\ call.pc = "idle"
    /\ fileState = "open"
    /\ frozen' = [epoch |-> epoch, base |-> index.base, count |-> LineCount]
    /\ shifted' = FALSE
    /\ UNCHANGED <<disk, tail, durable, older, temp, fileState, index, unflushed,
                   epoch, call, calls, crashes, overdue, unrolled, secured>>

HistoryNext ==
    \/ AppendLines \/ AppendBoundary \/ AppendGap \/ PruneRetention
    \/ Sync \/ CloseFile
    \/ AppendPending \/ FlushPending \/ AppendRecord \/ SyncFile \/ Shut
    \/ EnforceLimit \/ WriteTemp \/ CloseOld \/ RenameTemp \/ Reopen
    \/ SyncDirectory
    \/ ProcessStops \/ PowerFails \/ OpenFile \/ OpenRefused \/ Freeze

HistorySpec == HistoryInit /\ [][HistoryNext]_historyVars

-----------------------------------------------------------------------------
(* Properties.                                                             *)

Quiet == call.pc = "idle" /\ fileState = "open"

\* Recovery accepts the file whenever the process or the machine stops, also in
\* the middle of writing a record, unless the rollback of a failed write has
\* itself failed: every other tail is the beginning of one record
\* (compressed_file.go 443-459, 505-526, 799-806).
RecoveryAccepts ==
    /\ Recovered(disk).ok
    /\ Unreadable => unrolled

\* What recovery would read from the file is what the index says, between any
\* two calls, whichever writes, rollbacks and compactions have failed before
\* (compressed_file.go 443-477, 505-562, 665-754).
IndexMatchesFile == Quiet => index = Recovered(disk)

\* Line i of the file is the i-th line after the dropped ones, in every image
\* that a crash, a recovery or a compaction leaves: none is lost from the middle,
\* repeated or shifted across a gap marker (compressed_file.go 665-712).
LinesInPlace ==
    LET f == disk  x == Recovered(disk) IN
    /\ \A i \in DOMAIN x.blocks :
          f.records[x.blocks[i].at].from = f.base + x.blocks[i].first
    /\ \A k \in DOMAIN f.records : f.records[k].kind = "gap"
          => f.records[k].from = f.base + f.records[k].count

\* Lines that were in the file when Sync returned are still there after the
\* process has stopped or the power has failed, unless retention has dropped
\* them or the name of the file was itself not durable at the time of the Sync:
\* a compaction failed, or the process stopped, between its rename and its
\* directory sync (compressed_file.go 404-412, 716, 726, 747).
SyncedLinesSurvive == secured =< LastLine(disk)

\* The file is over its limit only after a call that has failed, and only until
\* a later call has enforced the limit; PruneRetention is such a call
\* (compressed_file.go 302-310, 637-657).
WithinLimit == Quiet /\ ~overdue => index.end =< FileLimit

\* A read that the epoch lets through finds the lines that were frozen
\* (engine.go 180-192, store.go 308-321).
FrozenReadsSameLines ==
    Quiet /\ frozen.epoch = epoch
        => frozen.base = index.base /\ frozen.count =< LineCount

\* A directory sync that fails after the new index is installed is all that can
\* make such a read find other lines (compressed_file.go 742-752).
FrozenUnlessShifted == ~shifted => FrozenReadsSameLines
=============================================================================
