-------------------------- MODULE TerminalLifecycle --------------------------
(***************************************************************************)
(* One terminal of the daemon (core/terminal.go, server.go, registry.go,   *)
(* events.go): its processes, the copy of its info in the registry, the    *)
(* revision of its live screen, the raw PTY stream and a client that waits *)
(* for the next revision.                                                  *)
(*                                                                         *)
(* Threads: the operations that hold lifecycleMu (rename, restart, remove) *)
(* one at a time, a resize, for each process the live consumer of its      *)
(* output buffer and the goroutine of watchExit, and the poll.  A step is  *)
(* one critical section; what a thread has cloned in one and uses in a     *)
(* later one is in its locals.  The buffer itself is TerminalOutputBuffer: *)
(* here it is the number of chunks the live consumer has not taken.        *)
(***************************************************************************)
EXTENDS Integers, Sequences

CONSTANTS
    MaxProcess,    \* processes the terminal runs, one after another
    MaxOutput,     \* chunks that the processes write
    MaxResize,     \* resizes
    MaxName,       \* names of the terminal, the first one is 0
    Renaming,      \* bound: processes during which it is renamed
    MaxPolls,      \* polls of the client
    EventBuffer    \* capacity of a subscriber's channel (WithEventBuffer)

ASSUME LifecycleAssumption ==
    /\ MaxProcess \in Nat \ {0} /\ MaxOutput \in Nat
    /\ MaxResize \in Nat /\ MaxName \in Nat
    /\ Renaming \subseteq 1..MaxProcess
    /\ MaxPolls \in Nat /\ EventBuffer \in Nat \ {0}

Processes == 1..MaxProcess
Infos == [state: {"running", "exited", "removed"}, size: 0..MaxResize,
          name: 0..MaxName]
Absent == [state |-> "absent", size |-> 0, name |-> 0]

\* liveRevision counts up; the bounds above keep it finite.
Revisions == Nat

VARIABLES
    info,       \* terminal.info
    process,    \* terminal.process
    registry,   \* the registry's copy of info, or Absent
    handle,     \* server.terminals still has the terminal
    emitted,    \* chunks that have been written
    unread,    \* chunks in the output buffer, by process
    buffer,     \* "none", "open" or "closed", by process
    revision,   \* terminal.liveRevision
    raw,        \* the raw PTY broadcaster: its process, and whether it is open
    historyMu,  \* who holds terminal.historyMu
    liveMu,     \* liveOpMu is held across steps (by Resize only)
    consumer,   \* the live consumer of each process
    exit,       \* the watchExit goroutine of each process
    op,         \* the operation that holds lifecycleMu
    resize,     \* Terminal.Resize
    mailbox,    \* events queued for the poll
    poll        \* the client's request for the next revision

threads == <<consumer, exit, op, resize, poll>>
lifecycleVars == <<info, process, registry, handle, emitted, unread, buffer,
          revision, raw, historyMu, liveMu, consumer, exit, op, resize,
          mailbox, poll>>

Running == [state |-> "running", size |-> 0, name |-> 0]
NoConsumer == [pc |-> "none", rev |-> 0]
Ready == [pc |-> "idle", rev |-> 0]
NoExit == [pc |-> "none", copy |-> Running, rev |-> 0]
Watching == [NoExit EXCEPT !.pc = "wait"]
NoOp == [pc |-> "idle", copy |-> Running, rev |-> 0]
NoResize == [pc |-> "idle", process |-> 0, copy |-> Running, rev |-> 0]

OpSteps == {"idle", "rename", "renameSync", "abort", "swap", "raw", "screen",
            "marker", "sync", "watch", "publish", "close", "closeAbort",
            "closeProcess", "removed"}

RawStreams == [process: Processes, open: BOOLEAN]
LiveConsumers == [pc: {"none", "idle", "apply", "publish", "done"}, rev: Revisions]
Exits == [pc: {"none", "wait", "raw", "marker", "publish", "sync", "done"},
          copy: Infos, rev: Revisions]
LifecycleOps == [pc: OpSteps, copy: Infos, rev: Revisions]
Resizes == [pc: {"idle", "flush", "sync", "publish"}, process: 0..MaxProcess,
            copy: Infos, rev: Revisions]
Polls == [pc: {"idle", "subscribe", "check", "wait"}, observed: Revisions,
          calls: 0..MaxPolls]

LifecycleTypeOK ==
    /\ info \in Infos
    /\ process \in Processes
    /\ registry \in Infos \cup {Absent}
    /\ handle \in BOOLEAN
    /\ emitted \in 0..MaxOutput
    /\ unread \in [Processes -> 0..MaxOutput]
    /\ buffer \in [Processes -> {"none", "open", "closed"}]
    /\ revision \in Revisions
    /\ raw \in RawStreams
    /\ historyMu \in {"free", "exit", "remove"}
    /\ liveMu \in BOOLEAN
    /\ consumer \in [Processes -> LiveConsumers]
    /\ exit \in [Processes -> Exits]
    /\ op \in LifecycleOps
    /\ resize \in Resizes
    /\ mailbox \in Seq(Revisions \cup {-1})
    /\ Len(mailbox) =< EventBuffer
    /\ poll \in Polls

\* RegisterTerminal has spawned process 1 and newTerminal has written the start
\* marker (revision 1) and started its goroutines; the client has fetched that
\* screen (a request that has observed nothing does not wait).
LifecycleInit ==
    /\ info = Running
    /\ process = 1
    /\ registry = Running
    /\ handle = TRUE
    /\ emitted = 0
    /\ unread = [p \in Processes |-> 0]
    /\ buffer = [p \in Processes |-> IF p = 1 THEN "open" ELSE "none"]
    /\ revision = 1
    /\ raw = [process |-> 1, open |-> TRUE]
    /\ historyMu = "free"
    /\ liveMu = FALSE
    /\ consumer = [p \in Processes |-> IF p = 1 THEN Ready ELSE NoConsumer]
    /\ exit = [p \in Processes |-> IF p = 1 THEN Watching ELSE NoExit]
    /\ op = NoOp
    /\ resize = NoResize
    /\ mailbox = << >>
    /\ poll = [pc |-> "idle", observed |-> 1, calls |-> 0]

-----------------------------------------------------------------------------
(* Shared pieces.                                                          *)

\* registry.replace: the ID must be there, and another terminal may have taken a
\* name that this one no longer has in the registry.
SyncInfo(copy) ==
    registry' \in IF registry = Absent THEN {Absent}
                  ELSE {copy} \cup (IF copy.name # registry.name THEN {registry} ELSE {})

RemovedEvent == -1

\* eventBroker.publish for the poll's subscription: a full channel drops.
Publish(event) ==
    mailbox' = IF poll.pc \in {"check", "wait"} /\ Len(mailbox) < EventBuffer
               THEN Append(mailbox, event) ELSE mailbox

\* The info of a terminal that takes no more output.
Over == info.state \in {"exited", "removed"}

\* Mutant: the process is not compared.
FinishRawOfAny(p) == raw' = [raw EXCEPT !.open = FALSE]

\* finishRawPTYProcess.
FinishRaw(p) ==
    raw' = IF raw.process = p THEN [raw EXCEPT !.open = FALSE] ELSE raw

\* buffer.Close drops what the live consumer has not taken.
CloseBuffer(p) ==
    /\ buffer' = [buffer EXCEPT ![p] = "closed"]
    /\ unread' = [unread EXCEPT ![p] = 0]

\* buffer.Wait: the live consumer has returned from its last callback.
ConsumerAtRest(p) == consumer[p].pc \notin {"apply", "publish"}

-----------------------------------------------------------------------------
(* A process, its output and its live consumer.                            *)

\* The process writes a chunk; the pump publishes it raw and buffers it.
Emit(p) ==
    /\ exit[p].pc = "wait"
    /\ buffer[p] = "open"
    /\ emitted < MaxOutput
    /\ emitted' = emitted + 1
    /\ unread' = [unread EXCEPT ![p] = @ + 1]
    /\ UNCHANGED <<info, process, registry, handle, buffer, revision,
                   raw, historyMu, liveMu, threads, mailbox>>

\* ingestProcessLiveOutput, the check before the screen is written.
Ingest(p) ==
    /\ consumer[p].pc = "idle"
    /\ buffer[p] = "open"
    /\ unread[p] > 0
    /\ unread' = [unread EXCEPT ![p] = @ - 1]
    /\ consumer' = [consumer EXCEPT ![p].pc =
          IF process # p THEN "idle" ELSE IF Over THEN "done" ELSE "apply"]
    /\ UNCHANGED <<info, process, registry, handle, emitted, buffer,
                   revision, raw, historyMu, liveMu, exit, op, resize, mailbox,
                   poll>>

\* applyLiveOutput.
ApplyLiveOutput(p) ==
    /\ consumer[p].pc = "apply"
    /\ ~liveMu
    /\ revision' = revision + 1
    /\ consumer' = [consumer EXCEPT ![p] =
                       [pc |-> "publish", rev |-> revision + 1]]
    /\ UNCHANGED <<info, process, registry, handle, emitted, unread,
                   buffer, raw, historyMu, liveMu, exit, op, resize, mailbox,
                   poll>>

\* The second check, and the wake-up of clients.
PublishOutput(p) ==
    /\ consumer[p].pc = "publish"
    /\ IF process = p /\ ~Over THEN Publish(consumer[p].rev)
       ELSE UNCHANGED mailbox
    /\ consumer' = [consumer EXCEPT ![p] = Ready]
    /\ UNCHANGED <<info, process, registry, handle, emitted, unread,
                   buffer, revision, raw, historyMu, liveMu, exit, op, resize,
                   poll>>

-----------------------------------------------------------------------------
(* watchExit and markExited.                                               *)

\* outputDone: the pump has sealed the buffer and the consumer has drained it.
OutputDone(p) ==
    /\ ConsumerAtRest(p)
    /\ unread[p] = 0 \/ consumer[p].pc = "done"

\* The process has exited, by itself, by Kill or by Close, and nothing of its
\* output is left: markExited up to the unlock of terminal.mu; it keeps historyMu.
MarkExited(p) ==
    /\ exit[p].pc = "wait"
    /\ OutputDone(p)
    /\ historyMu = "free"
    /\ IF process # p \/ info.state = "removed"
       THEN /\ exit' = [exit EXCEPT ![p].pc = "done"]
            /\ UNCHANGED <<info, historyMu>>
       ELSE /\ info' = [info EXCEPT !.state = "exited"]
            /\ exit' = [exit EXCEPT ![p].pc = "raw",
                           ![p].copy = [info EXCEPT !.state = "exited"]]
            /\ historyMu' = "exit"
    /\ UNCHANGED <<process, registry, handle, emitted, unread, buffer,
                   revision, raw, liveMu, consumer, op, resize, mailbox, poll>>

\* finishRawPTYProcess of the process that has exited.
ExitRaw(p) ==
    /\ exit[p].pc = "raw"
    /\ FinishRaw(p)
    /\ exit' = [exit EXCEPT ![p].pc = "marker"]
    /\ UNCHANGED <<info, process, registry, handle, emitted, unread,
                   buffer, revision, historyMu, liveMu, consumer, op, resize,
                   mailbox, poll>>

\* appendExitMarker writes the screen, whichever process it is of by now.
ExitMarker(p) ==
    /\ exit[p].pc = "marker"
    /\ ~liveMu
    /\ revision' = revision + 1
    /\ exit' = [exit EXCEPT ![p].pc = "publish", ![p].rev = revision + 1]
    /\ UNCHANGED <<info, process, registry, handle, emitted, unread,
                   buffer, raw, historyMu, liveMu, consumer, op, resize,
                   mailbox, poll>>

ExitPublish(p) ==
    /\ exit[p].pc = "publish"
    /\ Publish(exit[p].rev)
    /\ historyMu' = "free"
    /\ exit' = [exit EXCEPT ![p].pc = "sync", ![p].rev = 0]
    /\ UNCHANGED <<info, process, registry, handle, emitted, unread,
                   buffer, revision, raw, liveMu, consumer, op, resize, poll>>

\* The registry gets the clone taken in MarkExited.
ExitSync(p) ==
    /\ exit[p].pc = "sync"
    /\ SyncInfo(exit[p].copy)
    /\ exit' = [exit EXCEPT ![p] = [NoExit EXCEPT !.pc = "done"]]
    /\ UNCHANGED <<info, process, handle, emitted, unread, buffer,
                   revision, raw, historyMu, liveMu, consumer, op, resize,
                   mailbox, poll>>

-----------------------------------------------------------------------------
(* Operations under lifecycleMu.                                           *)

\* Server.SetMetadata: the registry first, then the terminal, then its clone.
Rename ==
    /\ op.pc = "idle"
    /\ process \in Renaming
    /\ registry # Absent
    /\ \E name \in 0..MaxName :
        /\ registry' = [registry EXCEPT !.name = name]
        /\ op' = [NoOp EXCEPT !.pc = "rename",
                              !.copy = [Running EXCEPT !.name = name]]
    /\ UNCHANGED <<info, process, handle, emitted, unread, buffer,
                   revision, raw, historyMu, liveMu, consumer, exit, resize,
                   mailbox, poll>>

RenameTerminal ==
    /\ op.pc = "rename"
    /\ info' = [info EXCEPT !.name = op.copy.name]
    /\ op' = [op EXCEPT !.pc = "renameSync",
                 !.copy = [info EXCEPT !.name = op.copy.name]]
    /\ UNCHANGED <<process, registry, handle, emitted, unread, buffer,
                   revision, raw, historyMu, liveMu, consumer, exit, resize,
                   mailbox, poll>>

RenameSync ==
    /\ op.pc = "renameSync"
    /\ SyncInfo(op.copy)
    /\ op' = NoOp
    /\ UNCHANGED <<info, process, handle, emitted, unread, buffer,
                   revision, raw, historyMu, liveMu, consumer, exit, resize,
                   mailbox, poll>>

\* RestartTerminal: Spawn has succeeded (a failure changes nothing), and
\* abortOutputBuffer cancels the output of the old process.
Restart ==
    /\ op.pc = "idle"
    /\ handle
    /\ process < MaxProcess
    /\ CloseBuffer(process)
    /\ op' = [NoOp EXCEPT !.pc = "swap"]
    /\ UNCHANGED <<info, process, registry, handle, emitted, revision,
                   raw, historyMu, liveMu, consumer, exit, resize, mailbox,
                   poll>>

\* Mutant: the restart does not wait for the old live consumer.
RestartSwapAtOnce ==
    /\ op.pc = "swap"
    /\ process' = process + 1
    /\ info' = [info EXCEPT !.state = "running"]
    /\ op' = [op EXCEPT !.pc = "raw", !.copy = [info EXCEPT !.state = "running"]]
    /\ UNCHANGED <<registry, handle, emitted, unread, buffer, revision,
                   raw, historyMu, liveMu, consumer, exit, resize, mailbox,
                   poll>>

\* buffer.Wait has returned: the new process is installed.
RestartSwap ==
    /\ op.pc = "swap"
    /\ ConsumerAtRest(process)
    /\ process' = process + 1
    /\ info' = [info EXCEPT !.state = "running"]
    /\ op' = [op EXCEPT !.pc = "raw", !.copy = [info EXCEPT !.state = "running"]]
    /\ UNCHANGED <<registry, handle, emitted, unread, buffer, revision,
                   raw, historyMu, liveMu, consumer, exit, resize, mailbox,
                   poll>>

\* replaceRawPTYProcess.
RestartRaw ==
    /\ op.pc = "raw"
    /\ raw' = [process |-> process, open |-> TRUE]
    /\ op' = [op EXCEPT !.pc = "screen"]
    /\ UNCHANGED <<info, process, registry, handle, emitted, unread,
                   buffer, revision, historyMu, liveMu, consumer, exit, resize,
                   mailbox, poll>>

\* The screen is reset under liveOpMu, then appendStartMarker writes it.
RestartScreen ==
    /\ op.pc \in {"screen", "marker"}
    /\ ~liveMu
    /\ revision' = revision + 1
    /\ op' = [op EXCEPT !.pc = IF @ = "screen" THEN "marker" ELSE "sync",
                        !.rev = revision + 1]
    /\ UNCHANGED <<info, process, registry, handle, emitted, unread,
                   buffer, raw, historyMu, liveMu, consumer, exit, resize,
                   mailbox, poll>>

RestartSync ==
    /\ op.pc = "sync"
    /\ SyncInfo(op.copy)
    /\ op' = [op EXCEPT !.pc = "watch", !.copy = Running]
    /\ UNCHANGED <<info, process, handle, emitted, unread, buffer,
                   revision, raw, historyMu, liveMu, consumer, exit, resize,
                   mailbox, poll>>

\* watchProcess.
RestartWatch ==
    /\ op.pc = "watch"
    /\ buffer' = [buffer EXCEPT ![process] = "open"]
    /\ consumer' = [consumer EXCEPT ![process] = Ready]
    /\ exit' = [exit EXCEPT ![process] = Watching]
    /\ op' = [op EXCEPT !.pc = "publish"]
    /\ UNCHANGED <<info, process, registry, handle, emitted, unread,
                   revision, raw, historyMu, liveMu, resize, mailbox, poll>>

\* The wake-up; Close of the old process changes nothing here.
RestartPublish ==
    /\ op.pc = "publish"
    /\ Publish(op.rev)
    /\ op' = NoOp
    /\ UNCHANGED <<info, process, registry, handle, emitted, unread, buffer,
                   revision, raw, historyMu, liveMu, consumer, exit, resize,
                   poll>>

\* RemoveTerminal: registry.remove and removeTerminalHandle.
Remove ==
    /\ op.pc = "idle"
    /\ handle
    /\ registry' = Absent
    /\ handle' = FALSE
    /\ op' = [NoOp EXCEPT !.pc = "close"]
    /\ UNCHANGED <<info, process, emitted, unread, buffer, revision,
                   raw, historyMu, liveMu, consumer, exit, resize, mailbox,
                   poll>>

\* closeWithReason takes historyMu, so it waits for a markExited in progress.
RemoveClose ==
    /\ op.pc = "close"
    /\ historyMu = "free"
    /\ historyMu' = "remove"
    /\ info' = [info EXCEPT !.state = "removed"]
    /\ CloseBuffer(process)
    /\ op' = [op EXCEPT !.pc = "closeAbort",
                        !.copy = [info EXCEPT !.state = "removed"]]
    /\ UNCHANGED <<process, registry, handle, emitted, revision,
                   raw, liveMu, consumer, exit, resize, mailbox, poll>>

RemoveAbort ==
    /\ op.pc = "closeAbort"
    /\ ConsumerAtRest(process)
    /\ historyMu' = "free"
    /\ op' = [op EXCEPT !.pc = "closeProcess"]
    /\ UNCHANGED <<info, process, registry, handle, emitted, unread,
                   buffer, revision, raw, liveMu, consumer, exit, resize,
                   mailbox, poll>>

\* syncInfo finds no entry; the raw stream is closed after the process.
RemoveProcess ==
    /\ op.pc = "closeProcess"
    /\ SyncInfo(op.copy)
    /\ FinishRaw(process)
    /\ op' = [op EXCEPT !.pc = "removed"]
    /\ UNCHANGED <<info, process, handle, emitted, unread, buffer, revision,
                   historyMu, liveMu, consumer, exit, resize, mailbox, poll>>

RemovePublish ==
    /\ op.pc = "removed"
    /\ Publish(RemovedEvent)
    /\ op' = NoOp
    /\ UNCHANGED <<info, process, registry, handle, emitted, unread,
                   buffer, revision, raw, historyMu, liveMu, consumer, exit,
                   resize, poll>>

-----------------------------------------------------------------------------
(* Resize, which does not take lifecycleMu.                                *)

\* The first check; the flushes that follow are left to TerminalOutputBuffer.
Resize ==
    /\ resize.pc = "idle"
    /\ handle
    /\ ~Over
    /\ info.size < MaxResize
    /\ resize' = [NoResize EXCEPT !.pc = "flush", !.process = process]
    /\ UNCHANGED <<info, process, registry, handle, emitted, unread,
                   buffer, revision, raw, historyMu, liveMu, consumer, exit,
                   op, mailbox, poll>>

\* With liveOpMu and tapOpMu, held until Resize returns: check again, set the
\* size, clone, resize the screen.
ResizeScreen ==
    /\ resize.pc = "flush"
    /\ IF process # resize.process \/ Over
       THEN /\ resize' = NoResize
            /\ UNCHANGED <<info, revision, liveMu>>
       ELSE /\ info' = [info EXCEPT !.size = @ + 1]
            /\ revision' = revision + 1
            /\ liveMu' = TRUE
            /\ resize' = [pc |-> "sync", process |-> 0, rev |-> revision + 1,
                             copy |-> [info EXCEPT !.size = @ + 1]]
    /\ UNCHANGED <<process, registry, handle, emitted, unread, buffer,
                   raw, historyMu, consumer, exit, op, mailbox, poll>>

ResizeSync ==
    /\ resize.pc = "sync"
    /\ SyncInfo(resize.copy)
    /\ resize' = [resize EXCEPT !.pc = "publish", !.copy = Running]
    /\ UNCHANGED <<info, process, handle, emitted, unread, buffer,
                   revision, raw, historyMu, liveMu, consumer, exit, op,
                   mailbox, poll>>

ResizePublish ==
    /\ resize.pc = "publish"
    /\ Publish(resize.rev)
    /\ liveMu' = FALSE
    /\ resize' = NoResize
    /\ UNCHANGED <<info, process, registry, handle, emitted, unread,
                   buffer, revision, raw, historyMu, consumer, exit, op, poll>>

-----------------------------------------------------------------------------
(* NextLiveInvalidation, called with the revision of the screen that the   *)
(* client has just fetched.                                                *)

Poll ==
    /\ poll.pc = "idle"
    /\ handle
    /\ poll.calls < MaxPolls
    /\ poll' = [pc |-> "subscribe", observed |-> revision,
                calls |-> poll.calls + 1]
    /\ UNCHANGED <<info, process, registry, handle, emitted, unread,
                   buffer, revision, raw, historyMu, liveMu, consumer, exit,
                   op, resize, mailbox>>

Subscribe ==
    /\ poll.pc = "subscribe"
    /\ mailbox' = << >>
    /\ poll' = [poll EXCEPT !.pc = "check"]
    /\ UNCHANGED <<info, process, registry, handle, emitted, unread,
                   buffer, revision, raw, historyMu, liveMu, consumer, exit,
                   op, resize>>

\* The poll returns the latest revision, or not found when the terminal has
\* been removed meanwhile; its subscription ends.
Answered ==
    /\ poll' = [poll EXCEPT !.pc = "idle",
                            !.observed = IF handle THEN revision ELSE @]
    /\ mailbox' = << >>

\* Mutant: the revision is not looked at again after subscribing.
CheckNothing ==
    /\ poll.pc = "check"
    /\ ~liveMu
    /\ poll' = [poll EXCEPT !.pc = "wait"]
    /\ UNCHANGED <<info, process, registry, handle, emitted, unread,
                   buffer, revision, raw, historyMu, liveMu, consumer, exit,
                   op, resize, mailbox>>

CheckRevision ==
    /\ poll.pc = "check"
    /\ ~liveMu
    /\ IF revision > poll.observed THEN Answered
       ELSE /\ poll' = [poll EXCEPT !.pc = "wait"]
            /\ UNCHANGED mailbox
    /\ UNCHANGED <<info, process, registry, handle, emitted, unread,
                   buffer, revision, raw, historyMu, liveMu, consumer, exit,
                   op, resize>>

Receive ==
    /\ poll.pc = "wait"
    /\ mailbox # << >>
    /\ ~liveMu
    /\ IF Head(mailbox) = RemovedEvent
       THEN /\ poll' = [poll EXCEPT !.pc = "idle"]
            /\ mailbox' = << >>
       ELSE IF Head(mailbox) > poll.observed THEN Answered
       ELSE /\ mailbox' = Tail(mailbox)
            /\ UNCHANGED poll
    /\ UNCHANGED <<info, process, registry, handle, emitted, unread,
                   buffer, revision, raw, historyMu, liveMu, consumer, exit,
                   op, resize>>

-----------------------------------------------------------------------------
ProcessStep(p) ==
    \/ Ingest(p) \/ ApplyLiveOutput(p) \/ PublishOutput(p)
    \/ MarkExited(p) \/ ExitRaw(p) \/ ExitMarker(p) \/ ExitPublish(p)
    \/ ExitSync(p)

OpStep ==
    \/ RenameTerminal \/ RenameSync
    \/ RestartSwap \/ RestartRaw \/ RestartScreen \/ RestartSync
    \/ RestartWatch \/ RestartPublish
    \/ RemoveClose \/ RemoveAbort \/ RemoveProcess \/ RemovePublish

LifecycleNext ==
    \/ \E p \in Processes : Emit(p) \/ ProcessStep(p)
    \/ Rename \/ Restart \/ Remove \/ OpStep
    \/ Resize \/ ResizeScreen \/ ResizeSync \/ ResizePublish
    \/ Poll \/ Subscribe \/ CheckRevision \/ Receive

LifecycleSpec == LifecycleInit /\ [][LifecycleNext]_lifecycleVars

-----------------------------------------------------------------------------
(* Properties.                                                             *)

\* Revisions that some thread has produced and has yet to announce.
ToPublish ==
    {consumer[p].rev : p \in {q \in Processes : consumer[q].pc = "publish"
                                                /\ process = q /\ ~Over}} \cup
    {exit[p].rev : p \in {q \in Processes : exit[q].pc = "publish"}} \cup
    (IF op.pc \in {"marker", "sync", "watch", "publish"} THEN {op.rev} ELSE {}) \cup
    (IF resize.pc \in {"sync", "publish"} THEN {resize.rev} ELSE {})

\* A poll that sleeps although the screen has a newer revision will be woken:
\* a wake-up newer than what it has observed is queued for it or about to be
\* published, although output, restarts, resizes and the exit marker publish
\* after they have released the lock, out of order, into a bounded channel
\* that drops (server.go 857-866, events.go 92-112, terminal.go 918-928).
PollNotForgotten ==
    poll.pc = "wait" /\ handle /\ revision > poll.observed =>
        \/ \E i \in DOMAIN mailbox : mailbox[i] > poll.observed
        \/ \E r \in ToPublish : r > poll.observed

\* Output of a process reaches the screen only while that process is the
\* terminal's: the check and the write are in different critical sections, and
\* a restart installs its process in between only after the consumer of the old
\* one is at rest (terminal.go 327-334, 899-914).
OldOutputFenced ==
    [][\A p \in Processes :
          consumer[p].pc = "apply" /\ consumer'[p].pc = "publish"
              => process = p]_lifecycleVars

\* No thread stands between two of its critical sections.
Settled ==
    /\ op.pc = "idle" /\ resize.pc = "idle"
    /\ \A p \in Processes : exit[p].pc \in {"none", "wait", "done"}

\* When all is settled, the raw PTY stream is that of the terminal's process, and
\* it is open exactly while the terminal runs: a late markExited of an earlier
\* process does not close the stream of its successor, and a client of a
\* terminal that is over is not left waiting (terminal.go 1079-1107).
RawFollowsTerminal ==
    Settled => raw = [process |-> process, open |-> info.state = "running"]

\* When all is settled, the registry has what the terminal has.
RegistryIsTruth ==
    Settled /\ handle => registry = info
=============================================================================
