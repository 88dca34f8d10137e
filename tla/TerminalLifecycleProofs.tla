----------------------- MODULE TerminalLifecycleProofs -----------------------
(***************************************************************************)
(* The threads of a terminal, for every number of processes, chunks of     *)
(* output, resizes, names and polls: no output of an old process reaches   *)
(* the screen, the raw stream follows the terminal, and a sleeping poll is *)
(* woken as long as its channel has room for five events.                  *)
(***************************************************************************)
EXTENDS TerminalLifecycle, SequenceTheorems, TLAPS

-----------------------------------------------------------------------------
(* The parts of the invariant.                                             *)

\* The bounds hold in between as well: a swap leaves room for a process, a
\* resize for a size, and a chunk that is unread has been written.
WithinBounds ==
    /\ op.pc = "swap" => process < MaxProcess
    /\ resize.pc = "flush" => info.size < MaxResize
    /\ \A p \in Processes : unread[p] =< emitted

\* A live consumer that writes the screen is that of the terminal's process, and
\* is at rest once the process has exited.
ConsumersFenced ==
    \A p \in Processes : ~ConsumerAtRest(p) => process = p /\ info.state # "exited"

\* The steps of a restart after the new process is installed and before it is
\* watched.
Installing == {"raw", "screen", "marker", "sync", "watch"}

\* A process is watched, and its output consumed, from the end of its
\* installation on; one that is on its way out and still the terminal's has marked
\* the terminal as exited.
ExitsInStep ==
    /\ \A p \in Processes :
        /\ p > process \/ (p = process /\ op.pc \in Installing) =>
              exit[p].pc = "none" /\ consumer[p].pc = "none"
        /\ p = process /\ exit[p].pc \in {"raw", "marker", "publish", "sync"} =>
              info.state # "running"
    /\ op.pc \in Installing => info.state = "running"

\* markExited holds historyMu from the check to the wake-up, and so does a remove
\* while it waits for the live consumer.
HistoryHeld ==
    /\ \A p \in Processes : exit[p].pc \in {"raw", "marker", "publish"} =>
        /\ historyMu = "exit"
        /\ \A q \in Processes :
              exit[q].pc \in {"raw", "marker", "publish"} => q = p
    /\ op.pc = "closeAbort" => historyMu = "remove"

\* A terminal that is removed has lost its handle first.
RemovedInStep ==
    /\ info.state = "removed" => ~handle
    /\ op.pc \in {"close", "closeAbort", "closeProcess", "removed"} => ~handle
    /\ op.pc \in {"closeAbort", "closeProcess", "removed"} => info.state = "removed"

\* The raw stream, between the steps that touch it.
RawInStep ==
    /\ op.pc = "raw" => raw.process < process
    /\ op.pc # "raw" =>
        /\ raw.process = process
        /\ info.state = "running" => raw.open
        /\ raw.open => \/ info.state = "running"
                       \/ exit[process].pc = "raw"
                       \/ op.pc \in {"closeAbort", "closeProcess"}

\* The threads that have yet to announce a revision the poll has already seen.
OldOutput == \E p \in Processes : consumer[p].pc = "publish"
                                  /\ consumer[p].rev =< poll.observed
OldExit == \E p \in Processes : exit[p].pc = "publish" /\ exit[p].rev =< poll.observed
OldRestart == op.pc \in {"marker", "sync", "watch", "publish"}
              /\ op.rev =< poll.observed
OldResize == resize.pc \in {"sync", "publish"} /\ resize.rev =< poll.observed

One(b) == IF b THEN 1 ELSE 0
OldOnes == One(OldOutput) + One(OldExit) + One(OldRestart) + One(OldResize)

\* As long as nothing newer is queued, the poll's channel holds at most one event
\* of each thread that was late when the poll subscribed.
FewOldEvents ==
    /\ poll.observed =< revision
    /\ handle /\ poll.pc \in {"check", "wait"}
         /\ (\A i \in DOMAIN mailbox : mailbox[i] =< poll.observed) =>
            Len(mailbox) + OldOnes =< 4

LifecycleInv ==
    /\ LifecycleTypeOK
    /\ WithinBounds
    /\ ConsumersFenced
    /\ ExitsInStep
    /\ HistoryHeld
    /\ RemovedInStep
    /\ RawInStep

PollInv == FewOldEvents /\ PollNotForgotten


-----------------------------------------------------------------------------
(* Types.                                                                  *)

\* Values that the steps write.
LEMMA WrittenTypes ==
    /\ Running \in Infos
    /\ Ready \in LiveConsumers
    /\ Watching \in Exits /\ [NoExit EXCEPT !.pc = "done"] \in Exits
    /\ NoOp \in LifecycleOps
    /\ NoResize \in Resizes
    /\ 0 \in Revisions /\ 1 \in Processes
<1>1. 0 \in 0..MaxResize /\ 0 \in 0..MaxName /\ 0 \in 0..MaxProcess
  BY LifecycleAssumption
<1>2. Running \in Infos
  BY <1>1 DEF Running, Infos
<1>3. 0 \in Revisions /\ 1 \in Processes
  BY LifecycleAssumption DEF Revisions, Processes
<1>4. Watching \in Exits /\ [NoExit EXCEPT !.pc = "done"] \in Exits
  BY <1>2, <1>3 DEF Watching, NoExit, Exits
<1>5. NoOp \in LifecycleOps
  BY <1>2, <1>3 DEF NoOp, LifecycleOps, OpSteps
<1>6. NoResize \in Resizes
  BY <1>1, <1>2, <1>3 DEF NoResize, Resizes
<1>. QED
  BY <1>2, <1>3, <1>4, <1>5, <1>6 DEF Ready, LiveConsumers

\* What the threads have cloned, and the revisions they keep.
LEMMA ReadTypes ==
    ASSUME LifecycleTypeOK
    PROVE  /\ op.copy \in Infos /\ op.rev \in Revisions
           /\ resize.copy \in Infos /\ resize.rev \in Revisions
           /\ \A p \in Processes : /\ exit[p] \in Exits /\ exit[p].copy \in Infos
                                   /\ exit[p].rev \in Revisions
                                   /\ consumer[p] \in LiveConsumers
                                   /\ consumer[p].rev \in Revisions
BY DEF LifecycleTypeOK, LifecycleOps, Resizes, Exits, LiveConsumers

\* A clone of the terminal's info with one field changed.
LEMMA ClonedInfo ==
    ASSUME LifecycleTypeOK
    PROVE  /\ \A s \in {"running", "exited", "removed"} :
                [info EXCEPT !.state = s] \in Infos
           /\ \A n \in 0..MaxName : [info EXCEPT !.name = n] \in Infos
           /\ \A n \in 0..MaxName : [Running EXCEPT !.name = n] \in Infos
           /\ info.size \in 0..MaxResize
<1>1. info \in Infos /\ Running \in Infos
  BY WrittenTypes DEF LifecycleTypeOK
<1>. QED
  BY <1>1 DEF Infos

\* A revision that follows another one.
LEMMA NextRevision ==
    ASSUME LifecycleTypeOK
    PROVE  revision + 1 \in Revisions
BY DEF LifecycleTypeOK, Revisions

\* An event that is published keeps the channel within its capacity.
LEMMA PublishTypes ==
    ASSUME LifecycleTypeOK, NEW e \in Revisions \cup {-1}, Publish(e)
    PROVE  mailbox' \in Seq(Revisions \cup {-1}) /\ Len(mailbox') =< EventBuffer
<1>1. mailbox \in Seq(Revisions \cup {-1}) /\ Len(mailbox) =< EventBuffer
      /\ Len(mailbox) \in Nat /\ EventBuffer \in Nat
  BY LenProperties, LifecycleAssumption DEF LifecycleTypeOK
<1>2. CASE mailbox' = mailbox
  BY <1>1, <1>2
<1>3. CASE mailbox' = Append(mailbox, e) /\ Len(mailbox) < EventBuffer
  <2>1. Append(mailbox, e) \in Seq(Revisions \cup {-1})
        /\ Len(Append(mailbox, e)) = Len(mailbox) + 1
    BY <1>1, AppendProperties
  <2>. QED
    BY <1>1, <1>3, <2>1
<1>. QED
  BY <1>2, <1>3 DEF Publish

\* registry.replace writes a clone or nothing.
LEMMA SyncTypes ==
    ASSUME LifecycleTypeOK, NEW copy \in Infos, SyncInfo(copy)
    PROVE  registry' \in Infos \cup {Absent}
<1>1. registry \in Infos \cup {Absent}
  BY DEF LifecycleTypeOK
<1>. QED
  BY <1>1 DEF SyncInfo

\* A subscription starts and ends with nothing queued.
LEMMA EmptyMailbox ==
    << >> \in Seq(Revisions \cup {-1}) /\ Len(<< >>) =< EventBuffer
<1>1. << >> \in Seq(Revisions \cup {-1}) /\ Len(<< >>) = 0
  BY EmptySeq
<1>. QED
  BY <1>1, LifecycleAssumption

\* The process writes output and its live consumer takes it.
LEMMA TypesOfOutput ==
    ASSUME LifecycleTypeOK, WithinBounds, NEW p \in Processes,
           Emit(p) \/ Ingest(p) \/ ApplyLiveOutput(p) \/ PublishOutput(p)
    PROVE  LifecycleTypeOK'
<1>1. CASE Emit(p)
  <2>1. emitted' \in 0..MaxOutput
    BY <1>1, LifecycleAssumption DEF Emit, LifecycleTypeOK
  <2>2. unread' \in [Processes -> 0..MaxOutput]
    <3>1. unread[p] + 1 \in 0..MaxOutput
      <4>1. unread[p] \in Nat /\ emitted \in Nat /\ unread[p] =< emitted
            /\ emitted < MaxOutput
        BY <1>1, LifecycleAssumption DEF LifecycleTypeOK, WithinBounds, Emit
      <4>. QED
        BY <4>1, LifecycleAssumption
    <3>2. unread' = [unread EXCEPT ![p] = unread[p] + 1]
          /\ unread \in [Processes -> 0..MaxOutput]
      BY <1>1 DEF Emit, LifecycleTypeOK
    <3>. QED
      BY <3>1, <3>2
  <2>. QED
    BY <1>1, <2>1, <2>2 DEF Emit, LifecycleTypeOK, threads
<1>2. CASE Ingest(p)
  <2>1. unread' \in [Processes -> 0..MaxOutput]
    BY <1>2, LifecycleAssumption DEF Ingest, LifecycleTypeOK
  <2>2. consumer' \in [Processes -> LiveConsumers]
    BY ZenonT(30), <1>2, WrittenTypes, ReadTypes, NextRevision DEF Ingest,
       LifecycleTypeOK, LiveConsumers
  <2>. QED
    BY <1>2, <2>1, <2>2 DEF Ingest, LifecycleTypeOK
<1>3. CASE ApplyLiveOutput(p)
  <2>1. revision' \in Revisions
    BY <1>3, NextRevision DEF ApplyLiveOutput, LifecycleTypeOK
  <2>2. consumer' \in [Processes -> LiveConsumers]
    BY <1>3, WrittenTypes, ReadTypes, NextRevision DEF ApplyLiveOutput,
       LifecycleTypeOK, LiveConsumers
  <2>. QED
    BY <1>3, <2>1, <2>2 DEF ApplyLiveOutput, LifecycleTypeOK
<1>4. CASE PublishOutput(p)
  <2>1. consumer' \in [Processes -> LiveConsumers]
    BY <1>4, WrittenTypes, ReadTypes, NextRevision DEF PublishOutput,
       LifecycleTypeOK, LiveConsumers
  <2>2. mailbox' \in Seq(Revisions \cup {-1}) /\ Len(mailbox') =< EventBuffer
    BY <1>4, WrittenTypes, ReadTypes, PublishTypes DEF PublishOutput,
       LifecycleTypeOK
  <2>. QED
    BY <1>4, <2>1, <2>2 DEF PublishOutput, LifecycleTypeOK
<1>. QED
  BY <1>1, <1>2, <1>3, <1>4

\* A process exits.
LEMMA TypesOfExit ==
    ASSUME LifecycleTypeOK, WithinBounds, NEW p \in Processes,
           MarkExited(p) \/ ExitRaw(p) \/ ExitMarker(p) \/ ExitPublish(p) \/
           ExitSync(p)
    PROVE  LifecycleTypeOK'
<1>1. CASE MarkExited(p)
  <2>1. info' \in Infos
    BY <1>1, ClonedInfo, WrittenTypes, ReadTypes DEF MarkExited,
       LifecycleTypeOK, Infos
  <2>2. historyMu' \in {"free", "exit", "remove"}
    BY <1>1 DEF MarkExited, LifecycleTypeOK
  <2>3. exit' \in [Processes -> Exits]
    <3>1. exit \in [Processes -> Exits] /\ exit[p] \in Exits
      BY ReadTypes DEF LifecycleTypeOK
    <3>2. PICK copy \in Infos : copy = [info EXCEPT !.state = "exited"]
      BY ClonedInfo
    <3>3. \/ exit' = [exit EXCEPT ![p].pc = "done"]
          \/ exit' = [exit EXCEPT ![p].pc = "raw", ![p].copy = copy]
      BY <1>1, <3>2 DEF MarkExited
    <3>. QED
      BY <3>1, <3>3 DEF Exits
  <2>. QED
    BY <1>1, <2>1, <2>2, <2>3 DEF MarkExited, LifecycleTypeOK
<1>2. CASE ExitRaw(p)
  <2>1. raw' \in RawStreams
    BY <1>2 DEF ExitRaw, FinishRaw, LifecycleTypeOK, RawStreams
  <2>2. exit' \in [Processes -> Exits]
    BY <1>2, ClonedInfo, WrittenTypes, ReadTypes, NextRevision DEF ExitRaw,
       LifecycleTypeOK, Exits
  <2>. QED
    BY <1>2, <2>1, <2>2 DEF ExitRaw, LifecycleTypeOK
<1>3. CASE ExitMarker(p)
  <2>1. revision' \in Revisions
    BY <1>3, NextRevision DEF ExitMarker, LifecycleTypeOK
  <2>2. exit' \in [Processes -> Exits]
    BY <1>3, ClonedInfo, WrittenTypes, ReadTypes, NextRevision DEF ExitMarker,
       LifecycleTypeOK, Exits
  <2>. QED
    BY <1>3, <2>1, <2>2 DEF ExitMarker, LifecycleTypeOK
<1>4. CASE ExitPublish(p)
  <2>1. historyMu' \in {"free", "exit", "remove"}
    BY <1>4 DEF ExitPublish, LifecycleTypeOK
  <2>2. exit' \in [Processes -> Exits]
    BY <1>4, ClonedInfo, WrittenTypes, ReadTypes, NextRevision DEF
       ExitPublish, LifecycleTypeOK, Exits
  <2>3. mailbox' \in Seq(Revisions \cup {-1}) /\ Len(mailbox') =< EventBuffer
    BY <1>4, ReadTypes, PublishTypes DEF ExitPublish
  <2>. QED
    BY <1>4, <2>1, <2>2, <2>3 DEF ExitPublish, LifecycleTypeOK
<1>5. CASE ExitSync(p)
  <2>1. registry' \in Infos \cup {Absent}
    BY <1>5, ReadTypes, SyncTypes DEF ExitSync
  <2>2. exit' \in [Processes -> Exits]
    BY <1>5, ClonedInfo, WrittenTypes, ReadTypes, NextRevision DEF ExitSync,
       LifecycleTypeOK, Exits
  <2>. QED
    BY <1>5, <2>1, <2>2 DEF ExitSync, LifecycleTypeOK
<1>. QED
  BY <1>1, <1>2, <1>3, <1>4, <1>5

\* The terminal is renamed.
LEMMA TypesOfRename ==
    ASSUME LifecycleTypeOK, WithinBounds,
           Rename \/ RenameTerminal \/ RenameSync
    PROVE  LifecycleTypeOK'
<1>1. CASE Rename
  <2>1. registry' \in Infos \cup {Absent}
    <3>1. registry \in Infos
      BY <1>1 DEF Rename, LifecycleTypeOK
    <3>2. PICK name \in 0..MaxName : registry' = [registry EXCEPT !.name = name]
      BY <1>1 DEF Rename
    <3>. QED
      BY <3>1, <3>2 DEF Infos
  <2>2. op' \in LifecycleOps
    <3>1. PICK name \in 0..MaxName :
            op' = [NoOp EXCEPT !.pc = "rename",
                               !.copy = [Running EXCEPT !.name = name]]
      BY <1>1 DEF Rename
    <3>2. PICK copy \in Infos : copy = [Running EXCEPT !.name = name]
      BY ClonedInfo
    <3>. QED
      BY <3>1, <3>2, WrittenTypes DEF LifecycleOps, OpSteps
  <2>. QED
    BY <1>1, <2>1, <2>2 DEF Rename, LifecycleTypeOK
<1>2. CASE RenameTerminal
  <2>1. info' \in Infos
    BY <1>2, ClonedInfo, WrittenTypes, ReadTypes DEF RenameTerminal,
       LifecycleTypeOK, Infos
  <2>2. op' \in LifecycleOps
    <3>1. op.copy.name \in 0..MaxName
      BY ReadTypes DEF Infos
    <3>2. PICK copy \in Infos : copy = [info EXCEPT !.name = op.copy.name]
      BY <3>1, ClonedInfo
    <3>3. op' = [op EXCEPT !.pc = "renameSync", !.copy = copy] /\ op \in LifecycleOps
      BY <1>2, <3>2 DEF RenameTerminal, LifecycleTypeOK
    <3>. QED
      BY <3>3 DEF LifecycleOps, OpSteps
  <2>. QED
    BY <1>2, <2>1, <2>2 DEF RenameTerminal, LifecycleTypeOK
<1>3. CASE RenameSync
  <2>1. registry' \in Infos \cup {Absent}
    BY <1>3, ReadTypes, SyncTypes DEF RenameSync
  <2>2. op' \in LifecycleOps
    BY <1>3, ClonedInfo, WrittenTypes, ReadTypes, NextRevision DEF RenameSync,
       LifecycleTypeOK, LifecycleOps, OpSteps
  <2>. QED
    BY <1>3, <2>1, <2>2 DEF RenameSync, LifecycleTypeOK
<1>. QED
  BY <1>1, <1>2, <1>3

\* The terminal is restarted.
LEMMA TypesOfRestart ==
    ASSUME LifecycleTypeOK, WithinBounds,
           Restart \/ RestartSwap \/ RestartRaw \/ RestartScreen \/
           RestartSync \/ RestartWatch \/ RestartPublish
    PROVE  LifecycleTypeOK'
<1>1. CASE Restart
  <2>1. unread' \in [Processes -> 0..MaxOutput]
    BY <1>1, LifecycleAssumption DEF Restart, CloseBuffer, LifecycleTypeOK
  <2>2. buffer' \in [Processes -> {"none", "open", "closed"}]
    BY <1>1 DEF Restart, CloseBuffer, LifecycleTypeOK
  <2>3. op' \in LifecycleOps
    BY <1>1, ClonedInfo, WrittenTypes, ReadTypes, NextRevision DEF Restart,
       LifecycleTypeOK, LifecycleOps, OpSteps
  <2>. QED
    BY <1>1, <2>1, <2>2, <2>3 DEF Restart, LifecycleTypeOK
<1>2. CASE RestartSwap
  <2>1. info' \in Infos
    BY <1>2, ClonedInfo, WrittenTypes, ReadTypes DEF RestartSwap,
       LifecycleTypeOK, Infos
  <2>2. process' \in Processes
    BY <1>2, LifecycleAssumption
       DEF RestartSwap, WithinBounds, LifecycleTypeOK, Processes
  <2>3. op' \in LifecycleOps
    BY <1>2, ClonedInfo, WrittenTypes, ReadTypes, NextRevision DEF
       RestartSwap, LifecycleTypeOK, LifecycleOps, OpSteps
  <2>. QED
    BY <1>2, <2>1, <2>2, <2>3 DEF RestartSwap, LifecycleTypeOK
<1>3. CASE RestartRaw
  <2>1. raw' \in RawStreams
    BY <1>3 DEF RestartRaw, LifecycleTypeOK, RawStreams
  <2>2. op' \in LifecycleOps
    BY <1>3, ClonedInfo, WrittenTypes, ReadTypes, NextRevision DEF RestartRaw,
       LifecycleTypeOK, LifecycleOps, OpSteps
  <2>. QED
    BY <1>3, <2>1, <2>2 DEF RestartRaw, LifecycleTypeOK
<1>4. CASE RestartScreen
  <2>1. revision' \in Revisions
    BY <1>4, NextRevision DEF RestartScreen, LifecycleTypeOK
  <2>2. op' \in LifecycleOps
    BY <1>4, ClonedInfo, WrittenTypes, ReadTypes, NextRevision DEF
       RestartScreen, LifecycleTypeOK, LifecycleOps, OpSteps
  <2>. QED
    BY <1>4, <2>1, <2>2 DEF RestartScreen, LifecycleTypeOK
<1>5. CASE RestartSync
  <2>1. registry' \in Infos \cup {Absent}
    BY <1>5, ReadTypes, SyncTypes DEF RestartSync
  <2>2. op' \in LifecycleOps
    BY <1>5, ClonedInfo, WrittenTypes, ReadTypes, NextRevision DEF
       RestartSync, LifecycleTypeOK, LifecycleOps, OpSteps
  <2>. QED
    BY <1>5, <2>1, <2>2 DEF RestartSync, LifecycleTypeOK
<1>6. CASE RestartWatch
  <2>1. buffer' \in [Processes -> {"none", "open", "closed"}]
    BY <1>6 DEF RestartWatch, LifecycleTypeOK
  <2>2. consumer' \in [Processes -> LiveConsumers]
    BY <1>6, WrittenTypes, ReadTypes, NextRevision DEF RestartWatch,
       LifecycleTypeOK, LiveConsumers
  <2>3. exit' \in [Processes -> Exits]
    BY <1>6, ClonedInfo, WrittenTypes, ReadTypes, NextRevision DEF
       RestartWatch, LifecycleTypeOK, Exits
  <2>4. op' \in LifecycleOps
    BY <1>6, ClonedInfo, WrittenTypes, ReadTypes, NextRevision DEF
       RestartWatch, LifecycleTypeOK, LifecycleOps, OpSteps
  <2>. QED
    BY <1>6, <2>1, <2>2, <2>3, <2>4 DEF RestartWatch, LifecycleTypeOK
<1>7. CASE RestartPublish
  <2>1. op' \in LifecycleOps
    BY <1>7, ClonedInfo, WrittenTypes, ReadTypes, NextRevision DEF
       RestartPublish, LifecycleTypeOK, LifecycleOps, OpSteps
  <2>2. mailbox' \in Seq(Revisions \cup {-1}) /\ Len(mailbox') =< EventBuffer
    BY <1>7, ReadTypes, PublishTypes DEF RestartPublish
  <2>. QED
    BY <1>7, <2>1, <2>2 DEF RestartPublish, LifecycleTypeOK
<1>. QED
  BY <1>1, <1>2, <1>3, <1>4, <1>5, <1>6, <1>7

\* The terminal is removed.
LEMMA TypesOfRemove ==
    ASSUME LifecycleTypeOK, WithinBounds,
           Remove \/ RemoveClose \/ RemoveAbort \/ RemoveProcess \/
           RemovePublish
    PROVE  LifecycleTypeOK'
<1>1. CASE Remove
  <2>1. registry' \in Infos \cup {Absent}
    BY <1>1, ClonedInfo, WrittenTypes, ReadTypes DEF Remove, LifecycleTypeOK
  <2>2. handle' \in BOOLEAN
    BY <1>1 DEF Remove, LifecycleTypeOK
  <2>3. op' \in LifecycleOps
    BY <1>1, ClonedInfo, WrittenTypes, ReadTypes, NextRevision DEF Remove,
       LifecycleTypeOK, LifecycleOps, OpSteps
  <2>. QED
    BY <1>1, <2>1, <2>2, <2>3 DEF Remove, LifecycleTypeOK
<1>2. CASE RemoveClose
  <2>1. info' \in Infos
    BY <1>2, ClonedInfo, WrittenTypes, ReadTypes DEF RemoveClose,
       LifecycleTypeOK, Infos
  <2>2. unread' \in [Processes -> 0..MaxOutput]
    BY <1>2, LifecycleAssumption DEF RemoveClose, CloseBuffer, LifecycleTypeOK
  <2>3. buffer' \in [Processes -> {"none", "open", "closed"}]
    BY <1>2 DEF RemoveClose, CloseBuffer, LifecycleTypeOK
  <2>4. historyMu' \in {"free", "exit", "remove"}
    BY <1>2 DEF RemoveClose, LifecycleTypeOK
  <2>5. op' \in LifecycleOps
    BY <1>2, ClonedInfo, WrittenTypes, ReadTypes, NextRevision DEF
       RemoveClose, LifecycleTypeOK, LifecycleOps, OpSteps
  <2>. QED
    BY <1>2, <2>1, <2>2, <2>3, <2>4, <2>5 DEF RemoveClose, LifecycleTypeOK
<1>3. CASE RemoveAbort
  <2>1. historyMu' \in {"free", "exit", "remove"}
    BY <1>3 DEF RemoveAbort, LifecycleTypeOK
  <2>2. op' \in LifecycleOps
    BY <1>3, ClonedInfo, WrittenTypes, ReadTypes, NextRevision DEF
       RemoveAbort, LifecycleTypeOK, LifecycleOps, OpSteps
  <2>. QED
    BY <1>3, <2>1, <2>2 DEF RemoveAbort, LifecycleTypeOK
<1>4. CASE RemoveProcess
  <2>1. registry' \in Infos \cup {Absent}
    BY <1>4, ReadTypes, SyncTypes DEF RemoveProcess
  <2>2. raw' \in RawStreams
    BY <1>4 DEF RemoveProcess, FinishRaw, LifecycleTypeOK, RawStreams
  <2>3. op' \in LifecycleOps
    BY <1>4, ClonedInfo, WrittenTypes, ReadTypes, NextRevision DEF
       RemoveProcess, LifecycleTypeOK, LifecycleOps, OpSteps
  <2>. QED
    BY <1>4, <2>1, <2>2, <2>3 DEF RemoveProcess, LifecycleTypeOK
<1>5. CASE RemovePublish
  <2>1. op' \in LifecycleOps
    BY <1>5, ClonedInfo, WrittenTypes, ReadTypes, NextRevision DEF
       RemovePublish, LifecycleTypeOK, LifecycleOps, OpSteps
  <2>2. mailbox' \in Seq(Revisions \cup {-1}) /\ Len(mailbox') =< EventBuffer
    BY <1>5, PublishTypes DEF RemovePublish, RemovedEvent
  <2>. QED
    BY <1>5, <2>1, <2>2 DEF RemovePublish, LifecycleTypeOK
<1>. QED
  BY <1>1, <1>2, <1>3, <1>4, <1>5

\* The terminal is resized.
LEMMA TypesOfResize ==
    ASSUME LifecycleTypeOK, WithinBounds,
           Resize \/ ResizeScreen \/ ResizeSync \/ ResizePublish
    PROVE  LifecycleTypeOK'
<1>1. CASE Resize
  <2>1. resize' \in Resizes
    <3>1. process \in 0..MaxProcess
      BY LifecycleAssumption DEF LifecycleTypeOK, Processes
    <3>2. resize' = [NoResize EXCEPT !.pc = "flush", !.process = process]
      BY <1>1 DEF Resize
    <3>. QED
      BY <3>1, <3>2, WrittenTypes DEF Resizes
  <2>. QED
    BY <1>1, <2>1 DEF Resize, LifecycleTypeOK
<1>2. CASE ResizeScreen
  <2>1. info' \in Infos
    <3>1. info \in Infos /\ info.size + 1 \in 0..MaxResize
      <4>1. info \in Infos /\ info.size \in 0..MaxResize /\ info.size < MaxResize
        BY <1>2, ClonedInfo DEF ResizeScreen, LifecycleTypeOK, WithinBounds
      <4>. QED
        BY <4>1, LifecycleAssumption
    <3>. DEFINE n == info.size + 1
    <3>2. [info EXCEPT !.size = n] \in Infos
      <4>1. n \in 0..MaxResize /\ info \in Infos
        BY <3>1
      <4>. HIDE DEF n
      <4>. QED
        BY <4>1 DEF Infos
    <3>. QED
      BY <1>2, <3>1, <3>2 DEF ResizeScreen
  <2>2. revision' \in Revisions
    BY <1>2, NextRevision DEF ResizeScreen, LifecycleTypeOK
  <2>3. liveMu' \in BOOLEAN
    BY <1>2 DEF ResizeScreen, LifecycleTypeOK
  <2>4. resize' \in Resizes
    <3>1. CASE resize' = NoResize
      BY <3>1, WrittenTypes
    <3>2. CASE resize' # NoResize
      <4>1. /\ info' \in Infos /\ revision + 1 \in Revisions /\ 0 \in 0..MaxProcess
            /\ resize' = [pc |-> "sync", process |-> 0, rev |-> revision + 1,
                          copy |-> info']
        BY <1>2, <2>1, <3>2, NextRevision, LifecycleAssumption DEF ResizeScreen
      <4>. QED
        BY <4>1 DEF Resizes
    <3>. QED
      BY <3>1, <3>2
  <2>. QED
    BY <1>2, <2>1, <2>2, <2>3, <2>4 DEF ResizeScreen, LifecycleTypeOK
<1>3. CASE ResizeSync
  <2>1. registry' \in Infos \cup {Absent}
    BY <1>3, ReadTypes, SyncTypes DEF ResizeSync
  <2>2. resize' \in Resizes
    BY <1>3, ClonedInfo, WrittenTypes, ReadTypes, NextRevision DEF ResizeSync,
       LifecycleTypeOK, Resizes
  <2>. QED
    BY <1>3, <2>1, <2>2 DEF ResizeSync, LifecycleTypeOK
<1>4. CASE ResizePublish
  <2>1. liveMu' \in BOOLEAN
    BY <1>4 DEF ResizePublish, LifecycleTypeOK
  <2>2. resize' \in Resizes
    BY <1>4, ClonedInfo, WrittenTypes, ReadTypes, NextRevision DEF
       ResizePublish, LifecycleTypeOK, Resizes
  <2>3. mailbox' \in Seq(Revisions \cup {-1}) /\ Len(mailbox') =< EventBuffer
    BY <1>4, ReadTypes, PublishTypes DEF ResizePublish
  <2>. QED
    BY <1>4, <2>1, <2>2, <2>3 DEF ResizePublish, LifecycleTypeOK
<1>. QED
  BY <1>1, <1>2, <1>3, <1>4

\* The client polls.
LEMMA TypesOfPoll ==
    ASSUME LifecycleTypeOK, WithinBounds,
           Poll \/ Subscribe \/ CheckRevision \/ Receive
    PROVE  LifecycleTypeOK'
<1>1. CASE Poll
  <2>1. poll' \in Polls
    <3>1. poll.calls + 1 \in 0..MaxPolls /\ revision \in Revisions
      <4>1. poll.calls \in 0..MaxPolls /\ poll.calls < MaxPolls /\ revision \in Revisions
        BY <1>1 DEF Poll, LifecycleTypeOK, Polls
      <4>. QED
        BY <4>1, LifecycleAssumption
    <3>2. poll' = [pc |-> "subscribe", observed |-> revision, calls |-> poll.calls + 1]
      BY <1>1 DEF Poll
    <3>. QED
      BY <3>1, <3>2 DEF Polls
  <2>. QED
    BY <1>1, <2>1 DEF Poll, LifecycleTypeOK
<1>2. CASE Subscribe
  <2>1. mailbox' \in Seq(Revisions \cup {-1}) /\ Len(mailbox') =< EventBuffer
    BY <1>2, EmptyMailbox DEF Subscribe
  <2>2. poll' \in Polls
    BY <1>2 DEF Subscribe, LifecycleTypeOK, Polls
  <2>. QED
    BY <1>2, <2>1, <2>2 DEF Subscribe, LifecycleTypeOK
<1>3. CASE CheckRevision
  <2>1. mailbox' \in Seq(Revisions \cup {-1}) /\ Len(mailbox') =< EventBuffer
    BY <1>3, EmptyMailbox DEF CheckRevision, Answered, LifecycleTypeOK
  <2>2. poll' \in Polls
    BY ZenonT(30), <1>3 DEF CheckRevision, Answered, LifecycleTypeOK, Polls
  <2>. QED
    BY <1>3, <2>1, <2>2 DEF CheckRevision, LifecycleTypeOK
<1>4. CASE Receive
  <2>1. mailbox' \in Seq(Revisions \cup {-1}) /\ Len(mailbox') =< EventBuffer
    <3>1. CASE mailbox' = << >>
      BY <3>1, EmptyMailbox
    <3>2. CASE mailbox' = Tail(mailbox)
      <4>1. mailbox \in Seq(Revisions \cup {-1}) /\ mailbox # << >>
            /\ Len(mailbox) =< EventBuffer
        BY <1>4 DEF Receive, LifecycleTypeOK
      <4>2. /\ Tail(mailbox) \in Seq(Revisions \cup {-1})
            /\ Len(Tail(mailbox)) = Len(mailbox) - 1 /\ Len(mailbox) \in Nat
        BY <4>1, HeadTailProperties, LenProperties
      <4>. QED
        BY <3>2, <4>1, <4>2, LifecycleAssumption
    <3>. QED
      BY <1>4, <3>1, <3>2 DEF Receive, Answered
  <2>2. poll' \in Polls
    BY ZenonT(30), <1>4 DEF Receive, Answered, LifecycleTypeOK, Polls
  <2>. QED
    BY <1>4, <2>1, <2>2 DEF Receive, LifecycleTypeOK
<1>. QED
  BY <1>1, <1>2, <1>3, <1>4

-----------------------------------------------------------------------------
(* The parts of the invariant, step by step.                               *)

\* The process writes output and its live consumer takes it.
LEMMA StepsOfOutput ==
    ASSUME LifecycleInv, NEW p \in Processes,
           Emit(p) \/ Ingest(p) \/ ApplyLiveOutput(p) \/ PublishOutput(p)
    PROVE  LifecycleInv'
<1>. USE DEF LifecycleInv
<1>0. LifecycleTypeOK'
  BY TypesOfOutput
<1>1. CASE Emit(p)
  <2>1. ConsumersFenced' /\ ExitsInStep' /\ HistoryHeld' /\ RemovedInStep' /\ RawInStep'
    BY <1>1 DEF Emit, threads, ConsumersFenced, ExitsInStep, HistoryHeld,
       RemovedInStep, RawInStep, ConsumerAtRest
  <2>2. WithinBounds'
    <3>1. /\ unread \in [Processes -> 0..MaxOutput] /\ emitted \in Nat
          /\ unread' = [unread EXCEPT ![p] = unread[p] + 1]
          /\ emitted' = emitted + 1
          /\ UNCHANGED <<op, process, resize, info>>
      BY <1>1 DEF Emit, threads, LifecycleTypeOK
    <3>2. ASSUME NEW q \in Processes PROVE unread'[q] =< emitted'
      <4>1. unread[q] \in Nat /\ unread[q] =< emitted
        BY <3>1 DEF WithinBounds
      <4>2. unread'[q] = IF q = p THEN unread[q] + 1 ELSE unread[q]
        BY <3>1
      <4>. QED
        BY <3>1, <4>1, <4>2
    <3>. QED
      BY <3>1, <3>2 DEF WithinBounds
  <2>. QED
    BY <1>0, <2>1, <2>2
<1>2. CASE Ingest(p)
  <2>1. HistoryHeld' /\ RemovedInStep' /\ RawInStep'
    BY <1>2 DEF Ingest, HistoryHeld, RemovedInStep, RawInStep
  <2>2. WithinBounds'
    BY <1>2, LifecycleAssumption DEF Ingest, WithinBounds, LifecycleTypeOK,
       Processes
  <2>3. ConsumersFenced'
    BY <1>2 DEF Ingest, Over, ConsumersFenced, ConsumerAtRest,
       LifecycleTypeOK, Processes, LiveConsumers
  <2>4. ExitsInStep'
    BY <1>2, LifecycleAssumption DEF Ingest, ExitsInStep, Installing,
       LifecycleTypeOK, Processes, LiveConsumers
  <2>. QED
    BY <1>0, <2>1, <2>2, <2>3, <2>4
<1>3. CASE ApplyLiveOutput(p)
  <2>1. WithinBounds' /\ HistoryHeld' /\ RemovedInStep' /\ RawInStep'
    BY <1>3 DEF ApplyLiveOutput, WithinBounds, HistoryHeld, RemovedInStep,
       RawInStep
  <2>2. ConsumersFenced'
    BY <1>3 DEF ApplyLiveOutput, ConsumersFenced, ConsumerAtRest,
       LifecycleTypeOK, Processes, LiveConsumers
  <2>3. ExitsInStep'
    BY <1>3, LifecycleAssumption DEF ApplyLiveOutput, ExitsInStep, Installing,
       LifecycleTypeOK, Processes, LiveConsumers
  <2>. QED
    BY <1>0, <2>1, <2>2, <2>3
<1>4. CASE PublishOutput(p)
  <2>1. WithinBounds' /\ HistoryHeld' /\ RemovedInStep' /\ RawInStep'
    BY <1>4 DEF PublishOutput, WithinBounds, HistoryHeld, RemovedInStep,
       RawInStep
  <2>2. ConsumersFenced'
    BY <1>4 DEF PublishOutput, Over, Ready, ConsumersFenced, ConsumerAtRest,
       LifecycleTypeOK, Processes, LiveConsumers
  <2>3. ExitsInStep'
    BY <1>4, LifecycleAssumption DEF PublishOutput, Ready, ExitsInStep,
       Installing, LifecycleTypeOK, Processes, LiveConsumers
  <2>. QED
    BY <1>0, <2>1, <2>2, <2>3
<1>. QED
  BY <1>1, <1>2, <1>3, <1>4

\* A process exits.
LEMMA StepsOfExit ==
    ASSUME LifecycleInv, NEW p \in Processes,
           MarkExited(p) \/ ExitRaw(p) \/ ExitMarker(p) \/ ExitPublish(p) \/
           ExitSync(p)
    PROVE  LifecycleInv'
<1>. USE DEF LifecycleInv
<1>0. LifecycleTypeOK'
  BY TypesOfExit
<1>1. CASE MarkExited(p)
  <2>1. WithinBounds'
    BY <1>1, LifecycleAssumption DEF MarkExited, WithinBounds,
       LifecycleTypeOK, Processes, Infos
  <2>2. ConsumersFenced'
    BY <1>1 DEF MarkExited, OutputDone, ConsumersFenced, ConsumerAtRest,
       LifecycleTypeOK, Processes, Infos
  <2>3. ExitsInStep'
    BY <1>1, LifecycleAssumption DEF MarkExited, ExitsInStep, Installing,
       LifecycleTypeOK, Processes, Exits, Infos
  <2>4. HistoryHeld'
    <3>1. \A q \in Processes : exit[q].pc \notin {"raw", "marker", "publish"}
      BY <1>1 DEF MarkExited, HistoryHeld
    <3>2. op' = op /\ op.pc # "closeAbort" /\ historyMu = "free"
      BY <1>1 DEF MarkExited, HistoryHeld
    <3>3. \A q \in Processes : q # p => exit'[q] = exit[q]
      BY <1>1 DEF MarkExited, LifecycleTypeOK
    <3>4. \/ exit'[p].pc = "done"
          \/ historyMu' = "exit"
      BY <1>1 DEF MarkExited, LifecycleTypeOK, Exits
    <3>. QED
      BY <3>1, <3>2, <3>3, <3>4 DEF HistoryHeld
  <2>5. RemovedInStep'
    BY <1>1 DEF MarkExited, RemovedInStep, LifecycleTypeOK, Processes, Infos
  <2>6. RawInStep'
    <3>1. UNCHANGED <<op, raw, process>> /\ exit[p].pc = "wait" /\ process \in Processes
      BY <1>1 DEF MarkExited, LifecycleTypeOK
    <3>2. \A q \in Processes : q # p => exit'[q] = exit[q]
      BY <1>1 DEF MarkExited, LifecycleTypeOK
    <3>3. \/ info' = info
          \/ exit'[p].pc = "raw" /\ process = p /\ info'.state = "exited"
      BY <1>1 DEF MarkExited, LifecycleTypeOK, Exits, Infos
    <3>4. op.pc \in Installing => process # p
      BY <3>1 DEF ExitsInStep
    <3>5. op.pc \in {"closeAbort", "closeProcess"} => info' = info
      BY <1>1 DEF MarkExited, RemovedInStep
    <3>. QED
      BY <3>1, <3>2, <3>3, <3>4, <3>5 DEF RawInStep, Installing
  <2>. QED
    BY <1>0, <2>1, <2>2, <2>3, <2>4, <2>5, <2>6
<1>2. CASE ExitRaw(p)
  <2>1. WithinBounds' /\ ConsumersFenced' /\ RemovedInStep'
    BY <1>2 DEF ExitRaw, WithinBounds, ConsumersFenced, RemovedInStep,
       ConsumerAtRest
  <2>2. ExitsInStep'
    BY <1>2, LifecycleAssumption DEF ExitRaw, ExitsInStep, Installing,
       LifecycleTypeOK, Processes, Exits
  <2>3. HistoryHeld'
    BY <1>2 DEF ExitRaw, HistoryHeld, LifecycleTypeOK, Processes, Exits
  <2>4. RawInStep'
    BY <1>2, LifecycleAssumption DEF ExitRaw, FinishRaw, RawInStep,
       ExitsInStep, Installing, RemovedInStep, LifecycleTypeOK, Processes,
       Exits, RawStreams
  <2>. QED
    BY <1>0, <2>1, <2>2, <2>3, <2>4
<1>3. CASE ExitMarker(p)
  <2>1. WithinBounds' /\ ConsumersFenced' /\ RemovedInStep'
    BY <1>3 DEF ExitMarker, WithinBounds, ConsumersFenced, RemovedInStep,
       ConsumerAtRest
  <2>2. ExitsInStep'
    BY <1>3, LifecycleAssumption DEF ExitMarker, ExitsInStep, Installing,
       LifecycleTypeOK, Processes, Exits
  <2>3. HistoryHeld'
    BY <1>3 DEF ExitMarker, HistoryHeld, LifecycleTypeOK, Processes, Exits
  <2>4. RawInStep'
    BY <1>3, LifecycleAssumption DEF ExitMarker, RawInStep, ExitsInStep,
       Installing, RemovedInStep, LifecycleTypeOK, Processes, Exits
  <2>. QED
    BY <1>0, <2>1, <2>2, <2>3, <2>4
<1>4. CASE ExitPublish(p)
  <2>1. WithinBounds' /\ ConsumersFenced' /\ RemovedInStep'
    BY <1>4 DEF ExitPublish, WithinBounds, ConsumersFenced, RemovedInStep,
       ConsumerAtRest
  <2>2. ExitsInStep'
    BY <1>4, LifecycleAssumption DEF ExitPublish, ExitsInStep, Installing,
       LifecycleTypeOK, Processes, Exits
  <2>3. HistoryHeld'
    BY <1>4 DEF ExitPublish, HistoryHeld, LifecycleTypeOK, Processes, Exits
  <2>4. RawInStep'
    BY <1>4, LifecycleAssumption DEF ExitPublish, RawInStep, ExitsInStep,
       Installing, RemovedInStep, LifecycleTypeOK, Processes, Exits
  <2>. QED
    BY <1>0, <2>1, <2>2, <2>3, <2>4
<1>5. CASE ExitSync(p)
  <2>1. WithinBounds' /\ ConsumersFenced' /\ RemovedInStep'
    BY <1>5 DEF ExitSync, WithinBounds, ConsumersFenced, RemovedInStep,
       ConsumerAtRest
  <2>2. ExitsInStep'
    BY <1>5, LifecycleAssumption DEF ExitSync, NoExit, ExitsInStep,
       Installing, LifecycleTypeOK, Processes, Exits
  <2>3. HistoryHeld'
    BY <1>5 DEF ExitSync, NoExit, HistoryHeld, LifecycleTypeOK, Processes,
       Exits
  <2>4. RawInStep'
    BY <1>5, LifecycleAssumption DEF ExitSync, NoExit, RawInStep, ExitsInStep,
       Installing, RemovedInStep, LifecycleTypeOK, Processes, Exits
  <2>. QED
    BY <1>0, <2>1, <2>2, <2>3, <2>4
<1>. QED
  BY <1>1, <1>2, <1>3, <1>4, <1>5

\* The terminal is renamed.
LEMMA StepsOfRename ==
    ASSUME LifecycleInv,
           Rename \/ RenameTerminal \/ RenameSync
    PROVE  LifecycleInv'
<1>. USE DEF LifecycleInv
<1>0. LifecycleTypeOK'
  BY TypesOfRename
<1>1. CASE Rename
  <2>1. ConsumersFenced'
    BY <1>1 DEF Rename, ConsumersFenced, ConsumerAtRest
  <2>2. WithinBounds'
    BY <1>1, LifecycleAssumption DEF Rename, NoOp, WithinBounds,
       LifecycleTypeOK, Processes, LifecycleOps, OpSteps
  <2>3. ExitsInStep'
    BY <1>1, LifecycleAssumption DEF Rename, NoOp, ExitsInStep, Installing,
       LifecycleTypeOK, Processes, LifecycleOps, OpSteps
  <2>4. HistoryHeld'
    BY <1>1 DEF Rename, NoOp, HistoryHeld, LifecycleTypeOK, Processes,
       LifecycleOps, OpSteps
  <2>5. RemovedInStep'
    BY <1>1 DEF Rename, NoOp, RemovedInStep, LifecycleTypeOK, Processes,
       LifecycleOps, OpSteps
  <2>6. RawInStep'
    BY <1>1, LifecycleAssumption DEF Rename, NoOp, RawInStep, ExitsInStep,
       Installing, RemovedInStep, LifecycleTypeOK, Processes, LifecycleOps,
       OpSteps
  <2>. QED
    BY <1>0, <2>1, <2>2, <2>3, <2>4, <2>5, <2>6
<1>2. CASE RenameTerminal
  <2>1. WithinBounds'
    BY <1>2, LifecycleAssumption DEF RenameTerminal, WithinBounds,
       LifecycleTypeOK, Processes, Infos, LifecycleOps, OpSteps
  <2>2. ConsumersFenced'
    BY <1>2 DEF RenameTerminal, ConsumersFenced, ConsumerAtRest,
       LifecycleTypeOK, Processes, Infos
  <2>3. ExitsInStep'
    BY <1>2, LifecycleAssumption DEF RenameTerminal, ExitsInStep, Installing,
       LifecycleTypeOK, Processes, Infos, LifecycleOps, OpSteps
  <2>4. HistoryHeld'
    BY <1>2 DEF RenameTerminal, HistoryHeld, LifecycleTypeOK, Processes,
       LifecycleOps, OpSteps
  <2>5. RemovedInStep'
    BY <1>2 DEF RenameTerminal, RemovedInStep, LifecycleTypeOK, Processes,
       Infos, LifecycleOps, OpSteps
  <2>6. RawInStep'
    BY <1>2, LifecycleAssumption DEF RenameTerminal, RawInStep, ExitsInStep,
       Installing, RemovedInStep, LifecycleTypeOK, Processes, Infos,
       LifecycleOps, OpSteps
  <2>. QED
    BY <1>0, <2>1, <2>2, <2>3, <2>4, <2>5, <2>6
<1>3. CASE RenameSync
  <2>1. ConsumersFenced'
    BY <1>3 DEF RenameSync, ConsumersFenced, ConsumerAtRest
  <2>2. WithinBounds'
    BY <1>3, LifecycleAssumption DEF RenameSync, NoOp, WithinBounds,
       LifecycleTypeOK, Processes, LifecycleOps, OpSteps
  <2>3. ExitsInStep'
    BY <1>3, LifecycleAssumption DEF RenameSync, NoOp, ExitsInStep,
       Installing, LifecycleTypeOK, Processes, LifecycleOps, OpSteps
  <2>4. HistoryHeld'
    BY <1>3 DEF RenameSync, NoOp, HistoryHeld, LifecycleTypeOK, Processes,
       LifecycleOps, OpSteps
  <2>5. RemovedInStep'
    BY <1>3 DEF RenameSync, NoOp, RemovedInStep, LifecycleTypeOK, Processes,
       LifecycleOps, OpSteps
  <2>6. RawInStep'
    BY <1>3, LifecycleAssumption DEF RenameSync, NoOp, RawInStep, ExitsInStep,
       Installing, RemovedInStep, LifecycleTypeOK, Processes, LifecycleOps,
       OpSteps
  <2>. QED
    BY <1>0, <2>1, <2>2, <2>3, <2>4, <2>5, <2>6
<1>. QED
  BY <1>1, <1>2, <1>3

\* The terminal is restarted.
LEMMA StepsOfRestart ==
    ASSUME LifecycleInv,
           Restart \/ RestartSwap \/ RestartRaw \/ RestartScreen \/
           RestartSync \/ RestartWatch \/ RestartPublish
    PROVE  LifecycleInv'
<1>. USE DEF LifecycleInv
<1>0. LifecycleTypeOK'
  BY TypesOfRestart
<1>1. CASE Restart
  <2>1. ConsumersFenced'
    BY <1>1 DEF Restart, ConsumersFenced, ConsumerAtRest
  <2>2. WithinBounds'
    BY <1>1, LifecycleAssumption DEF Restart, CloseBuffer, NoOp, WithinBounds,
       LifecycleTypeOK, Processes, LifecycleOps, OpSteps
  <2>3. ExitsInStep'
    BY <1>1, LifecycleAssumption DEF Restart, NoOp, ExitsInStep, Installing,
       LifecycleTypeOK, Processes, LifecycleOps, OpSteps
  <2>4. HistoryHeld'
    BY <1>1 DEF Restart, NoOp, HistoryHeld, LifecycleTypeOK, Processes,
       LifecycleOps, OpSteps
  <2>5. RemovedInStep'
    BY <1>1 DEF Restart, NoOp, RemovedInStep, LifecycleTypeOK, Processes,
       LifecycleOps, OpSteps
  <2>6. RawInStep'
    BY <1>1, LifecycleAssumption DEF Restart, NoOp, RawInStep, ExitsInStep,
       Installing, RemovedInStep, LifecycleTypeOK, Processes, LifecycleOps,
       OpSteps
  <2>. QED
    BY <1>0, <2>1, <2>2, <2>3, <2>4, <2>5, <2>6
<1>2. CASE RestartSwap
  <2>1. WithinBounds'
    BY <1>2, LifecycleAssumption DEF RestartSwap, WithinBounds,
       LifecycleTypeOK, Processes, Infos, LifecycleOps, OpSteps
  <2>2. ConsumersFenced'
    BY <1>2 DEF RestartSwap, ConsumerAtRest, ConsumersFenced, LifecycleTypeOK,
       Processes, Infos
  <2>3. ExitsInStep'
    BY <1>2, LifecycleAssumption DEF RestartSwap, ExitsInStep, Installing,
       LifecycleTypeOK, Processes, Infos, LifecycleOps, OpSteps
  <2>4. HistoryHeld'
    BY <1>2 DEF RestartSwap, HistoryHeld, LifecycleTypeOK, Processes,
       LifecycleOps, OpSteps
  <2>5. RemovedInStep'
    BY <1>2 DEF RestartSwap, RemovedInStep, LifecycleTypeOK, Processes, Infos,
       LifecycleOps, OpSteps
  <2>6. RawInStep'
    BY <1>2, LifecycleAssumption DEF RestartSwap, RawInStep, ExitsInStep,
       Installing, RemovedInStep, LifecycleTypeOK, Processes, Infos,
       LifecycleOps, OpSteps
  <2>. QED
    BY <1>0, <2>1, <2>2, <2>3, <2>4, <2>5, <2>6
<1>3. CASE RestartRaw
  <2>1. ConsumersFenced'
    BY <1>3 DEF RestartRaw, ConsumersFenced, ConsumerAtRest
  <2>2. WithinBounds'
    BY <1>3, LifecycleAssumption DEF RestartRaw, WithinBounds,
       LifecycleTypeOK, Processes, LifecycleOps, OpSteps
  <2>3. ExitsInStep'
    BY <1>3, LifecycleAssumption DEF RestartRaw, ExitsInStep, Installing,
       LifecycleTypeOK, Processes, LifecycleOps, OpSteps
  <2>4. HistoryHeld'
    BY <1>3 DEF RestartRaw, HistoryHeld, LifecycleTypeOK, Processes,
       LifecycleOps, OpSteps
  <2>5. RemovedInStep'
    BY <1>3 DEF RestartRaw, RemovedInStep, LifecycleTypeOK, Processes,
       LifecycleOps, OpSteps
  <2>6. RawInStep'
    BY <1>3, LifecycleAssumption DEF RestartRaw, RawInStep, ExitsInStep,
       Installing, RemovedInStep, LifecycleTypeOK, Processes, LifecycleOps,
       OpSteps, RawStreams
  <2>. QED
    BY <1>0, <2>1, <2>2, <2>3, <2>4, <2>5, <2>6
<1>4. CASE RestartScreen
  <2>1. ConsumersFenced'
    BY <1>4 DEF RestartScreen, ConsumersFenced, ConsumerAtRest
  <2>2. WithinBounds'
    BY <1>4, LifecycleAssumption DEF RestartScreen, WithinBounds,
       LifecycleTypeOK, Processes, LifecycleOps, OpSteps
  <2>3. ExitsInStep'
    BY <1>4, LifecycleAssumption DEF RestartScreen, ExitsInStep, Installing,
       LifecycleTypeOK, Processes, LifecycleOps, OpSteps
  <2>4. HistoryHeld'
    BY <1>4 DEF RestartScreen, HistoryHeld, LifecycleTypeOK, Processes,
       LifecycleOps, OpSteps
  <2>5. RemovedInStep'
    BY <1>4 DEF RestartScreen, RemovedInStep, LifecycleTypeOK, Processes,
       LifecycleOps, OpSteps
  <2>6. RawInStep'
    BY <1>4, LifecycleAssumption DEF RestartScreen, RawInStep, ExitsInStep,
       Installing, RemovedInStep, LifecycleTypeOK, Processes, LifecycleOps,
       OpSteps
  <2>. QED
    BY <1>0, <2>1, <2>2, <2>3, <2>4, <2>5, <2>6
<1>5. CASE RestartSync
  <2>1. ConsumersFenced'
    BY <1>5 DEF RestartSync, ConsumersFenced, ConsumerAtRest
  <2>2. WithinBounds'
    BY <1>5, LifecycleAssumption DEF RestartSync, WithinBounds,
       LifecycleTypeOK, Processes, LifecycleOps, OpSteps
  <2>3. ExitsInStep'
    BY <1>5, LifecycleAssumption DEF RestartSync, ExitsInStep, Installing,
       LifecycleTypeOK, Processes, LifecycleOps, OpSteps
  <2>4. HistoryHeld'
    BY <1>5 DEF RestartSync, HistoryHeld, LifecycleTypeOK, Processes,
       LifecycleOps, OpSteps
  <2>5. RemovedInStep'
    BY <1>5 DEF RestartSync, RemovedInStep, LifecycleTypeOK, Processes,
       LifecycleOps, OpSteps
  <2>6. RawInStep'
    BY <1>5, LifecycleAssumption DEF RestartSync, RawInStep, ExitsInStep,
       Installing, RemovedInStep, LifecycleTypeOK, Processes, LifecycleOps,
       OpSteps
  <2>. QED
    BY <1>0, <2>1, <2>2, <2>3, <2>4, <2>5, <2>6
<1>6. CASE RestartWatch
  <2>1. WithinBounds'
    BY <1>6, LifecycleAssumption DEF RestartWatch, Ready, Watching, NoExit,
       WithinBounds, LifecycleTypeOK, Processes, LifecycleOps, OpSteps
  <2>2. ConsumersFenced'
    BY <1>6 DEF RestartWatch, Ready, Watching, NoExit, ConsumersFenced,
       ConsumerAtRest, LifecycleTypeOK, Processes, LiveConsumers
  <2>3. ExitsInStep'
    BY <1>6, LifecycleAssumption DEF RestartWatch, Ready, Watching, NoExit,
       ExitsInStep, Installing, LifecycleTypeOK, Processes, LiveConsumers,
       Exits, LifecycleOps, OpSteps
  <2>4. HistoryHeld'
    BY <1>6 DEF RestartWatch, Ready, Watching, NoExit, HistoryHeld,
       LifecycleTypeOK, Processes, Exits, LifecycleOps, OpSteps
  <2>5. RemovedInStep'
    BY <1>6 DEF RestartWatch, Ready, Watching, NoExit, RemovedInStep,
       LifecycleTypeOK, Processes, LifecycleOps, OpSteps
  <2>6. RawInStep'
    BY <1>6, LifecycleAssumption DEF RestartWatch, Ready, Watching, NoExit,
       RawInStep, ExitsInStep, Installing, RemovedInStep, LifecycleTypeOK,
       Processes, Exits, LifecycleOps, OpSteps
  <2>. QED
    BY <1>0, <2>1, <2>2, <2>3, <2>4, <2>5, <2>6
<1>7. CASE RestartPublish
  <2>1. ConsumersFenced'
    BY <1>7 DEF RestartPublish, ConsumersFenced, ConsumerAtRest
  <2>2. WithinBounds'
    BY <1>7, LifecycleAssumption DEF RestartPublish, NoOp, WithinBounds,
       LifecycleTypeOK, Processes, LifecycleOps, OpSteps
  <2>3. ExitsInStep'
    BY <1>7, LifecycleAssumption DEF RestartPublish, NoOp, ExitsInStep,
       Installing, LifecycleTypeOK, Processes, LifecycleOps, OpSteps
  <2>4. HistoryHeld'
    BY <1>7 DEF RestartPublish, NoOp, HistoryHeld, LifecycleTypeOK, Processes,
       LifecycleOps, OpSteps
  <2>5. RemovedInStep'
    BY <1>7 DEF RestartPublish, NoOp, RemovedInStep, LifecycleTypeOK,
       Processes, LifecycleOps, OpSteps
  <2>6. RawInStep'
    BY <1>7, LifecycleAssumption DEF RestartPublish, NoOp, RawInStep,
       ExitsInStep, Installing, RemovedInStep, LifecycleTypeOK, Processes,
       LifecycleOps, OpSteps
  <2>. QED
    BY <1>0, <2>1, <2>2, <2>3, <2>4, <2>5, <2>6
<1>. QED
  BY <1>1, <1>2, <1>3, <1>4, <1>5, <1>6, <1>7

\* The terminal is removed.
LEMMA StepsOfRemove ==
    ASSUME LifecycleInv,
           Remove \/ RemoveClose \/ RemoveAbort \/ RemoveProcess \/
           RemovePublish
    PROVE  LifecycleInv'
<1>. USE DEF LifecycleInv
<1>0. LifecycleTypeOK'
  BY TypesOfRemove
<1>1. CASE Remove
  <2>1. ConsumersFenced'
    BY <1>1 DEF Remove, ConsumersFenced, ConsumerAtRest
  <2>2. WithinBounds'
    BY <1>1, LifecycleAssumption DEF Remove, NoOp, WithinBounds,
       LifecycleTypeOK, Processes, LifecycleOps, OpSteps
  <2>3. ExitsInStep'
    BY <1>1, LifecycleAssumption DEF Remove, NoOp, ExitsInStep, Installing,
       LifecycleTypeOK, Processes, LifecycleOps, OpSteps
  <2>4. HistoryHeld'
    BY <1>1 DEF Remove, NoOp, HistoryHeld, LifecycleTypeOK, Processes,
       LifecycleOps, OpSteps
  <2>5. RemovedInStep'
    BY <1>1 DEF Remove, NoOp, RemovedInStep, LifecycleTypeOK, Processes,
       LifecycleOps, OpSteps
  <2>6. RawInStep'
    BY <1>1, LifecycleAssumption DEF Remove, NoOp, RawInStep, ExitsInStep,
       Installing, RemovedInStep, LifecycleTypeOK, Processes, LifecycleOps,
       OpSteps
  <2>. QED
    BY <1>0, <2>1, <2>2, <2>3, <2>4, <2>5, <2>6
<1>2. CASE RemoveClose
  <2>1. WithinBounds'
    BY <1>2, LifecycleAssumption DEF RemoveClose, CloseBuffer, WithinBounds,
       LifecycleTypeOK, Processes, Infos, LifecycleOps, OpSteps
  <2>2. ConsumersFenced'
    BY <1>2 DEF RemoveClose, ConsumersFenced, ConsumerAtRest, LifecycleTypeOK,
       Processes, Infos
  <2>3. ExitsInStep'
    BY <1>2, LifecycleAssumption DEF RemoveClose, ExitsInStep, Installing,
       LifecycleTypeOK, Processes, Infos, LifecycleOps, OpSteps
  <2>4. HistoryHeld'
    BY <1>2 DEF RemoveClose, HistoryHeld, LifecycleTypeOK, Processes,
       LifecycleOps, OpSteps
  <2>5. RemovedInStep'
    BY <1>2 DEF RemoveClose, RemovedInStep, LifecycleTypeOK, Processes, Infos,
       LifecycleOps, OpSteps
  <2>6. RawInStep'
    BY <1>2, LifecycleAssumption DEF RemoveClose, RawInStep, ExitsInStep,
       Installing, RemovedInStep, LifecycleTypeOK, Processes, Infos,
       LifecycleOps, OpSteps
  <2>. QED
    BY <1>0, <2>1, <2>2, <2>3, <2>4, <2>5, <2>6
<1>3. CASE RemoveAbort
  <2>1. ConsumersFenced'
    BY <1>3 DEF RemoveAbort, ConsumersFenced, ConsumerAtRest
  <2>2. WithinBounds'
    BY <1>3, LifecycleAssumption DEF RemoveAbort, WithinBounds,
       LifecycleTypeOK, Processes, LifecycleOps, OpSteps
  <2>3. ExitsInStep'
    BY <1>3, LifecycleAssumption DEF RemoveAbort, ExitsInStep, Installing,
       LifecycleTypeOK, Processes, LifecycleOps, OpSteps
  <2>4. HistoryHeld'
    BY <1>3 DEF RemoveAbort, HistoryHeld, LifecycleTypeOK, Processes,
       LifecycleOps, OpSteps
  <2>5. RemovedInStep'
    BY <1>3 DEF RemoveAbort, RemovedInStep, LifecycleTypeOK, Processes,
       LifecycleOps, OpSteps
  <2>6. RawInStep'
    BY <1>3, LifecycleAssumption DEF RemoveAbort, RawInStep, ExitsInStep,
       Installing, RemovedInStep, LifecycleTypeOK, Processes, LifecycleOps,
       OpSteps
  <2>. QED
    BY <1>0, <2>1, <2>2, <2>3, <2>4, <2>5, <2>6
<1>4. CASE RemoveProcess
  <2>1. ConsumersFenced'
    BY <1>4 DEF RemoveProcess, ConsumersFenced, ConsumerAtRest
  <2>2. WithinBounds'
    BY <1>4, LifecycleAssumption DEF RemoveProcess, WithinBounds,
       LifecycleTypeOK, Processes, LifecycleOps, OpSteps
  <2>3. ExitsInStep'
    BY <1>4, LifecycleAssumption DEF RemoveProcess, ExitsInStep, Installing,
       LifecycleTypeOK, Processes, LifecycleOps, OpSteps
  <2>4. HistoryHeld'
    BY <1>4 DEF RemoveProcess, HistoryHeld, LifecycleTypeOK, Processes,
       LifecycleOps, OpSteps
  <2>5. RemovedInStep'
    BY <1>4 DEF RemoveProcess, RemovedInStep, LifecycleTypeOK, Processes,
       LifecycleOps, OpSteps
  <2>6. RawInStep'
    BY <1>4, LifecycleAssumption DEF RemoveProcess, FinishRaw, RawInStep,
       ExitsInStep, Installing, RemovedInStep, LifecycleTypeOK, Processes,
       LifecycleOps, OpSteps, RawStreams
  <2>. QED
    BY <1>0, <2>1, <2>2, <2>3, <2>4, <2>5, <2>6
<1>5. CASE RemovePublish
  <2>1. ConsumersFenced'
    BY <1>5 DEF RemovePublish, ConsumersFenced, ConsumerAtRest
  <2>2. WithinBounds'
    BY <1>5, LifecycleAssumption DEF RemovePublish, NoOp, WithinBounds,
       LifecycleTypeOK, Processes, LifecycleOps, OpSteps
  <2>3. ExitsInStep'
    BY <1>5, LifecycleAssumption DEF RemovePublish, NoOp, ExitsInStep,
       Installing, LifecycleTypeOK, Processes, LifecycleOps, OpSteps
  <2>4. HistoryHeld'
    BY <1>5 DEF RemovePublish, NoOp, HistoryHeld, LifecycleTypeOK, Processes,
       LifecycleOps, OpSteps
  <2>5. RemovedInStep'
    BY <1>5 DEF RemovePublish, NoOp, RemovedInStep, LifecycleTypeOK,
       Processes, LifecycleOps, OpSteps
  <2>6. RawInStep'
    BY <1>5, LifecycleAssumption DEF RemovePublish, NoOp, RawInStep,
       ExitsInStep, Installing, RemovedInStep, LifecycleTypeOK, Processes,
       LifecycleOps, OpSteps
  <2>. QED
    BY <1>0, <2>1, <2>2, <2>3, <2>4, <2>5, <2>6
<1>. QED
  BY <1>1, <1>2, <1>3, <1>4, <1>5

\* The terminal is resized.
LEMMA StepsOfResize ==
    ASSUME LifecycleInv,
           Resize \/ ResizeScreen \/ ResizeSync \/ ResizePublish
    PROVE  LifecycleInv'
<1>. USE DEF LifecycleInv
<1>0. LifecycleTypeOK'
  BY TypesOfResize
<1>1. CASE Resize
  <2>1. ConsumersFenced' /\ ExitsInStep' /\ HistoryHeld' /\ RemovedInStep' /\ RawInStep'
    BY <1>1 DEF Resize, ConsumersFenced, ExitsInStep, HistoryHeld,
       RemovedInStep, RawInStep, ConsumerAtRest
  <2>2. WithinBounds'
    BY <1>1, LifecycleAssumption DEF Resize, NoResize, WithinBounds,
       LifecycleTypeOK, Processes, Resizes
  <2>. QED
    BY <1>0, <2>1, <2>2
<1>2. CASE ResizeScreen
  <2>1. HistoryHeld'
    BY <1>2 DEF ResizeScreen, HistoryHeld
  <2>2. WithinBounds'
    BY <1>2, LifecycleAssumption DEF ResizeScreen, NoResize, WithinBounds,
       LifecycleTypeOK, Processes, Infos, Resizes
  <2>3. ConsumersFenced'
    BY <1>2 DEF ResizeScreen, Over, NoResize, ConsumersFenced, ConsumerAtRest,
       LifecycleTypeOK, Processes, Infos
  <2>4. ExitsInStep'
    BY <1>2, LifecycleAssumption DEF ResizeScreen, NoResize, ExitsInStep,
       Installing, LifecycleTypeOK, Processes, Infos
  <2>5. RemovedInStep'
    BY <1>2 DEF ResizeScreen, NoResize, RemovedInStep, LifecycleTypeOK,
       Processes, Infos
  <2>6. RawInStep'
    BY <1>2, LifecycleAssumption DEF ResizeScreen, NoResize, RawInStep,
       ExitsInStep, Installing, RemovedInStep, LifecycleTypeOK, Processes,
       Infos
  <2>. QED
    BY <1>0, <2>1, <2>2, <2>3, <2>4, <2>5, <2>6
<1>3. CASE ResizeSync
  <2>1. ConsumersFenced' /\ ExitsInStep' /\ HistoryHeld' /\ RemovedInStep' /\ RawInStep'
    BY <1>3 DEF ResizeSync, ConsumersFenced, ExitsInStep, HistoryHeld,
       RemovedInStep, RawInStep, ConsumerAtRest
  <2>2. WithinBounds'
    BY <1>3, LifecycleAssumption DEF ResizeSync, WithinBounds,
       LifecycleTypeOK, Processes, Resizes
  <2>. QED
    BY <1>0, <2>1, <2>2
<1>4. CASE ResizePublish
  <2>1. ConsumersFenced' /\ ExitsInStep' /\ HistoryHeld' /\ RemovedInStep' /\ RawInStep'
    BY <1>4 DEF ResizePublish, ConsumersFenced, ExitsInStep, HistoryHeld,
       RemovedInStep, RawInStep, ConsumerAtRest
  <2>2. WithinBounds'
    BY <1>4, LifecycleAssumption DEF ResizePublish, NoResize, WithinBounds,
       LifecycleTypeOK, Processes, Resizes
  <2>. QED
    BY <1>0, <2>1, <2>2
<1>. QED
  BY <1>1, <1>2, <1>3, <1>4

\* The client polls.
LEMMA StepsOfPoll ==
    ASSUME LifecycleInv,
           Poll \/ Subscribe \/ CheckRevision \/ Receive
    PROVE  LifecycleInv'
<1>. USE DEF LifecycleInv
<1>0. LifecycleTypeOK'
  BY TypesOfPoll
<1>1. CASE Poll
  <2>1. WithinBounds' /\ ConsumersFenced' /\ ExitsInStep' /\ HistoryHeld' /\ RemovedInStep' /\ RawInStep'
    BY <1>1 DEF Poll, WithinBounds, ConsumersFenced, ExitsInStep, HistoryHeld,
       RemovedInStep, RawInStep, ConsumerAtRest
  <2>. QED
    BY <1>0, <2>1
<1>2. CASE Subscribe
  <2>1. WithinBounds' /\ ConsumersFenced' /\ ExitsInStep' /\ HistoryHeld' /\ RemovedInStep' /\ RawInStep'
    BY <1>2 DEF Subscribe, WithinBounds, ConsumersFenced, ExitsInStep,
       HistoryHeld, RemovedInStep, RawInStep, ConsumerAtRest
  <2>. QED
    BY <1>0, <2>1
<1>3. CASE CheckRevision
  <2>1. WithinBounds' /\ ConsumersFenced' /\ ExitsInStep' /\ HistoryHeld' /\ RemovedInStep' /\ RawInStep'
    BY <1>3 DEF CheckRevision, WithinBounds, ConsumersFenced, ExitsInStep,
       HistoryHeld, RemovedInStep, RawInStep, ConsumerAtRest
  <2>. QED
    BY <1>0, <2>1
<1>4. CASE Receive
  <2>1. WithinBounds' /\ ConsumersFenced' /\ ExitsInStep' /\ HistoryHeld' /\ RemovedInStep' /\ RawInStep'
    BY <1>4 DEF Receive, WithinBounds, ConsumersFenced, ExitsInStep,
       HistoryHeld, RemovedInStep, RawInStep, ConsumerAtRest
  <2>. QED
    BY <1>0, <2>1
<1>. QED
  BY <1>1, <1>2, <1>3, <1>4

-----------------------------------------------------------------------------
(* The theorems on processes and on the raw stream.                        *)

\* The invariant holds when the terminal has been registered.
LEMMA InitLifecycle ==
    ASSUME LifecycleInit
    PROVE  LifecycleInv
<1>1. LifecycleTypeOK
  <2>1. NoConsumer \in LiveConsumers /\ NoExit \in Exits
    BY WrittenTypes DEF NoConsumer, LiveConsumers, NoExit, Exits
  <2>2. 0 \in 0..MaxOutput /\ 0 \in 0..MaxPolls /\ 1 \in Revisions
    BY LifecycleAssumption DEF Revisions
  <2>3. [process |-> 1, open |-> TRUE] \in RawStreams
    BY WrittenTypes DEF RawStreams
  <2>4. [pc |-> "idle", observed |-> 1, calls |-> 0] \in Polls
    BY <2>2 DEF Polls
  <2>. QED
    BY <2>1, <2>2, <2>3, <2>4, WrittenTypes, EmptyMailbox
       DEF LifecycleInit, LifecycleTypeOK
<1>2. WithinBounds
  BY DEF LifecycleInit, WithinBounds, NoOp, NoResize
<1>3. ConsumersFenced
  BY DEF LifecycleInit, ConsumersFenced, ConsumerAtRest, Ready, NoConsumer
<1>4. ExitsInStep
  BY LifecycleAssumption
     DEF LifecycleInit, ExitsInStep, Installing, Watching, NoExit, NoConsumer,
         NoOp, Processes
<1>5. HistoryHeld
  BY DEF LifecycleInit, HistoryHeld, Watching, NoExit, NoOp
<1>6. RemovedInStep
  BY DEF LifecycleInit, RemovedInStep, NoOp, Running
<1>7. RawInStep
  BY DEF LifecycleInit, RawInStep, NoOp, Running
<1>. QED
  BY <1>1, <1>2, <1>3, <1>4, <1>5, <1>6, <1>7 DEF LifecycleInv

\* Every step keeps the invariant.
LEMMA NextLifecycle ==
    ASSUME LifecycleInv, [LifecycleNext]_lifecycleVars
    PROVE  LifecycleInv'
<1>1. CASE UNCHANGED lifecycleVars
  <2>1. UNCHANGED <<info, process, registry, handle, emitted, unread, buffer,
                    revision, raw, historyMu, liveMu, consumer, exit, op, resize,
                    mailbox, poll>>
    BY <1>1 DEF lifecycleVars
  <2>2. LifecycleTypeOK' /\ WithinBounds'
    BY <2>1 DEF LifecycleInv, LifecycleTypeOK, WithinBounds
  <2>3. ConsumersFenced' /\ ExitsInStep' /\ HistoryHeld'
    BY <2>1 DEF LifecycleInv, ConsumersFenced, ConsumerAtRest, ExitsInStep,
                HistoryHeld
  <2>4. RemovedInStep' /\ RawInStep'
    BY <2>1 DEF LifecycleInv, RemovedInStep, RawInStep
  <2>. QED
    BY <2>2, <2>3, <2>4 DEF LifecycleInv
<1>2. CASE \E p \in Processes : Emit(p) \/ ProcessStep(p)
  BY <1>2, StepsOfOutput, StepsOfExit DEF ProcessStep
<1>3. CASE Rename \/ Restart \/ Remove \/ OpStep
  BY <1>3, StepsOfRename, StepsOfRestart, StepsOfRemove DEF OpStep
<1>4. CASE Resize \/ ResizeScreen \/ ResizeSync \/ ResizePublish
  BY <1>4, StepsOfResize
<1>5. CASE Poll \/ Subscribe \/ CheckRevision \/ Receive
  BY <1>5, StepsOfPoll
<1>. QED
  BY <1>1, <1>2, <1>3, <1>4, <1>5 DEF LifecycleNext

\* The invariant of the threads of a terminal holds in every reachable state.
THEOREM LifecycleInvariant == LifecycleSpec => []LifecycleInv
<1>1. LifecycleInit => LifecycleInv
  BY InitLifecycle
<1>2. LifecycleInv /\ [LifecycleNext]_lifecycleVars => LifecycleInv'
  BY NextLifecycle
<1>. QED
  BY <1>1, <1>2, PTL DEF LifecycleSpec

\* Every variable keeps its type; the chunks that a buffer has not handed over
\* are never negative (terminal.go 327-334, terminal_output_buffer.go).
THEOREM LifecycleTypes == LifecycleSpec => []LifecycleTypeOK
<1>1. LifecycleInv => LifecycleTypeOK
  BY DEF LifecycleInv
<1>. QED
  BY <1>1, LifecycleInvariant, PTL

\* The output of a process reaches the screen only while the process is the
\* terminal's, although the check and the write are two critical sections
\* (terminal.go 327-334, 899-914).
THEOREM NoOldOutput == LifecycleSpec => OldOutputFenced
<1>1. LifecycleInv =>
        [\A p \in Processes : consumer[p].pc = "apply" /\ consumer'[p].pc = "publish"
                              => process = p]_lifecycleVars
  BY DEF LifecycleInv, ConsumersFenced, ConsumerAtRest
<1>. QED
  BY <1>1, LifecycleInvariant, PTL DEF OldOutputFenced

\* When all threads are between operations, the raw PTY stream is that of the
\* terminal's process and is open exactly while the terminal runs
\* (terminal.go 1079-1107).
THEOREM RawStreamFollows == LifecycleSpec => []RawFollowsTerminal
<1>1. LifecycleInv => RawFollowsTerminal
  <2>. SUFFICES ASSUME LifecycleInv, Settled
                PROVE  raw = [process |-> process, open |-> info.state = "running"]
    BY DEF RawFollowsTerminal
  <2>1. op.pc = "idle" /\ exit[process].pc # "raw" /\ raw \in RawStreams
    BY DEF LifecycleInv, LifecycleTypeOK, Settled
  <2>2. raw.process = process /\ (raw.open <=> info.state = "running")
    BY <2>1 DEF LifecycleInv, RawInStep
  <2>3. raw = [process |-> raw.process, open |-> raw.open] /\ raw.open \in BOOLEAN
    BY <2>1 DEF RawStreams
  <2>4. raw.open = (info.state = "running")
    BY <2>2, <2>3
  <2>. QED
    BY <2>2, <2>3, <2>4
<1>. QED
  BY <1>1, LifecycleInvariant, PTL

-----------------------------------------------------------------------------
(* The poll.  A thread that has written the screen announces its revision  *)
(* later; for the poll the revision is old or new.                         *)

\* The threads that have yet to announce a revision the poll has not seen.
NewOutput == \E p \in Processes : /\ consumer[p].pc = "publish" /\ process = p /\ ~Over
                                  /\ consumer[p].rev > poll.observed
NewExit == \E p \in Processes : exit[p].pc = "publish" /\ exit[p].rev > poll.observed
NewRestart == op.pc \in {"marker", "sync", "watch", "publish"}
              /\ op.rev > poll.observed
NewResize == resize.pc \in {"sync", "publish"} /\ resize.rev > poll.observed
NewPending == NewOutput \/ NewExit \/ NewRestart \/ NewResize

\* An event that the poll has not seen is queued for it.
NewQueued == \E i \in DOMAIN mailbox : mailbox[i] > poll.observed

\* PollNotForgotten in terms of the threads.
LEMMA NewOnes ==
    /\ PollNotForgotten <=>
         (poll.pc = "wait" /\ handle /\ revision > poll.observed =>
            NewQueued \/ NewPending)
    /\ PollNotForgotten' <=>
         (poll'.pc = "wait" /\ handle' /\ revision' > poll'.observed =>
            NewQueued' \/ NewPending')
<1>1. NewPending <=> \E r \in ToPublish : r > poll.observed
  BY DEF NewPending, NewOutput, NewExit, NewRestart, NewResize, ToPublish
<1>2. NewPending' <=> \E r \in ToPublish' : r > poll'.observed
  BY DEF NewPending, NewOutput, NewExit, NewRestart, NewResize, ToPublish
<1>3. PollNotForgotten <=>
        (poll.pc = "wait" /\ handle /\ revision > poll.observed =>
            NewQueued \/ \E r \in ToPublish : r > poll.observed)
  BY DEF PollNotForgotten, NewQueued
<1>4. PollNotForgotten' <=>
        (poll'.pc = "wait" /\ handle' /\ revision' > poll'.observed =>
            NewQueued' \/ \E r \in ToPublish' : r > poll'.observed)
  BY DEF PollNotForgotten, NewQueued
<1>. QED
  BY <1>1, <1>2, <1>3, <1>4

\* The queued events and the revision the poll has seen are numbers.
LEMMA QueuedTypes ==
    ASSUME LifecycleTypeOK
    PROVE  /\ poll.observed \in Nat /\ revision \in Nat
           /\ Len(mailbox) \in Nat /\ DOMAIN mailbox = 1..Len(mailbox)
           /\ \A i \in DOMAIN mailbox : mailbox[i] \in Int
           /\ mailbox \in Seq(Int)
<1>1. poll.observed \in Nat /\ revision \in Nat
  BY DEF LifecycleTypeOK, Polls, Revisions
<1>2. mailbox \in Seq(Revisions \cup {-1}) /\ Revisions \cup {-1} \subseteq Int
  BY DEF LifecycleTypeOK, Revisions
<1>3. mailbox \in Seq(Int)
  BY <1>2, SeqMonotonic
<1>4. /\ Len(mailbox) \in Nat /\ DOMAIN mailbox = 1..Len(mailbox)
      /\ mailbox \in [1..Len(mailbox) -> Int]
  BY <1>3, LenProperties
<1>. QED
  BY <1>1, <1>3, <1>4

\* FewOldEvents, with what is queued named.
LEMMA OldQueued ==
    ASSUME LifecycleTypeOK
    PROVE  FewOldEvents <=>
             /\ poll.observed =< revision
             /\ handle /\ poll.pc \in {"check", "wait"} /\ ~NewQueued =>
                  Len(mailbox) + OldOnes =< 4
<1>1. (\A i \in DOMAIN mailbox : mailbox[i] =< poll.observed) <=> ~NewQueued
  BY QueuedTypes DEF NewQueued
<1>. QED
  BY <1>1 DEF FewOldEvents

\* The same after a step.
LEMMA OldQueuedNext ==
    ASSUME LifecycleTypeOK'
    PROVE  FewOldEvents' <=>
             /\ poll'.observed =< revision'
             /\ handle' /\ poll'.pc \in {"check", "wait"} /\ ~NewQueued' =>
                  Len(mailbox') + OldOnes' =< 4
<1>1. poll'.observed \in Nat /\ mailbox' \in Seq(Revisions \cup {-1})
      /\ Revisions \cup {-1} \subseteq Int
  BY DEF LifecycleTypeOK, Polls, Revisions
<1>2. mailbox' \in Seq(Int)
  BY <1>1, SeqMonotonic
<1>3. \A i \in DOMAIN mailbox' : mailbox'[i] \in Int
  BY <1>2, LenProperties
<1>4. (\A i \in DOMAIN mailbox' : mailbox'[i] =< poll'.observed) <=> ~NewQueued'
  BY <1>1, <1>3 DEF NewQueued
<1>. QED
  BY <1>4 DEF FewOldEvents

\* The number of late threads.
LEMMA OldOnesTypes ==
    /\ OldOnes \in 0..4 /\ OldOnes' \in 0..4
BY DEF OldOnes, One

\* It does not grow when no thread becomes late.
LEMMA OldOnesKept ==
    ASSUME OldOutput' => OldOutput, OldExit' => OldExit,
           OldRestart' => OldRestart, OldResize' => OldResize
    PROVE  OldOnes' =< OldOnes
BY DEF OldOnes, One

\* It shrinks when a late thread has announced its revision.
LEMMA OldOnesLess ==
    ASSUME OldOutput' => OldOutput, OldExit' => OldExit,
           OldRestart' => OldRestart, OldResize' => OldResize,
           \/ OldOutput /\ ~OldOutput'
           \/ OldExit /\ ~OldExit'
           \/ OldRestart /\ ~OldRestart'
           \/ OldResize /\ ~OldResize'
    PROVE  OldOnes' + 1 =< OldOnes
BY DEF OldOnes, One

\* A step that publishes nothing: no thread becomes late, none that is new is lost,
\* and one that writes the screen is new.
LEMMA QuietStep ==
    ASSUME LifecycleInv, LifecycleInv', PollInv,
           poll' = poll, mailbox' = mailbox, handle' => handle,
           revision' = revision \/ (revision' = revision + 1 /\ (handle => NewPending')),
           handle => (NewPending => NewPending'),
           OldOutput' => OldOutput, OldExit' => OldExit,
           OldRestart' => OldRestart, OldResize' => OldResize
    PROVE  PollInv'
<1>1. LifecycleTypeOK /\ LifecycleTypeOK'
  BY DEF LifecycleInv
<1>2. /\ poll.observed \in Nat /\ revision \in Nat /\ Len(mailbox) \in Nat
      /\ poll.observed =< revision
  BY <1>1, QueuedTypes, OldQueued DEF PollInv
<1>3. NewQueued' <=> NewQueued
  BY DEF NewQueued
<1>4. FewOldEvents'
  <2>1. poll'.observed =< revision'
    BY <1>2
  <2>2. ASSUME handle', poll'.pc \in {"check", "wait"}, ~NewQueued'
        PROVE  Len(mailbox') + OldOnes' =< 4
    <3>1. Len(mailbox) + OldOnes =< 4
      BY <1>1, <1>3, <2>2, OldQueued DEF PollInv
    <3>2. OldOnes' =< OldOnes
      BY OldOnesKept
    <3>. QED
      BY <1>2, <3>1, <3>2, OldOnesTypes
  <2>. QED
    BY <1>1, <2>1, <2>2, OldQueuedNext
<1>5. PollNotForgotten'
  <2>. SUFFICES ASSUME poll'.pc = "wait", handle', revision' > poll'.observed
                PROVE  NewQueued' \/ NewPending'
    BY NewOnes
  <2>1. CASE revision' = revision
    <3>1. NewQueued \/ NewPending
      BY <2>1, NewOnes DEF PollInv
    <3>. QED
      BY <1>3, <3>1
  <2>. QED
    BY <2>1
<1>. QED
  BY <1>4, <1>5 DEF PollInv

\* A step that publishes an event.  A full channel drops it, but then something
\* new is queued: of the events that are old there are at most four.
LEMMA PublishStep ==
    ASSUME LifecycleInv, LifecycleInv', PollInv, EventBuffer >= 5,
           NEW e \in Revisions, Publish(e),
           poll' = poll, revision' = revision, handle' = handle,
           handle /\ e =< poll.observed =>
              OldOnes' + 1 =< OldOnes /\ (NewPending => NewPending')
    PROVE  PollInv'
<1>1. LifecycleTypeOK /\ LifecycleTypeOK'
  BY DEF LifecycleInv
<1>2. /\ poll.observed \in Nat /\ revision \in Nat /\ Len(mailbox) \in Nat
      /\ poll.observed =< revision /\ mailbox \in Seq(Int)
      /\ DOMAIN mailbox = 1..Len(mailbox)
  BY <1>1, QueuedTypes, OldQueued DEF PollInv
<1>3. e \in Int /\ e \in Nat
  BY DEF Revisions
<1>4. /\ Append(mailbox, e) \in Seq(Int)
      /\ Len(Append(mailbox, e)) = Len(mailbox) + 1
      /\ \A i \in 1..Len(mailbox) : Append(mailbox, e)[i] = mailbox[i]
      /\ Append(mailbox, e)[Len(mailbox) + 1] = e
  BY <1>2, <1>3, AppendProperties
<1>5. DOMAIN Append(mailbox, e) = 1..(Len(mailbox) + 1)
  BY <1>4, LenProperties
<1>6. NewQueued => NewQueued'
  <2>. SUFFICES ASSUME NewQueued PROVE NewQueued'
    OBVIOUS
  <2>1. PICK i \in 1..Len(mailbox) : mailbox[i] > poll.observed
    BY <1>2 DEF NewQueued
  <2>2. CASE mailbox' = mailbox
    BY <2>2 DEF NewQueued
  <2>3. CASE mailbox' = Append(mailbox, e)
    <3>1. i \in DOMAIN mailbox' /\ mailbox'[i] > poll'.observed
      BY <1>2, <1>4, <1>5, <2>1, <2>3
    <3>. QED
      BY <3>1 DEF NewQueued
  <2>. QED
    BY <2>2, <2>3 DEF Publish
<1>. DEFINE Listening == handle /\ poll.pc \in {"check", "wait"}
<1>7. Listening /\ e > poll.observed => NewQueued'
  <2>. SUFFICES ASSUME Listening, e > poll.observed PROVE NewQueued'
    OBVIOUS
  <2>1. CASE Len(mailbox) < EventBuffer
    <3>1. mailbox' = Append(mailbox, e)
      BY <2>1 DEF Publish
    <3>2. Len(mailbox) + 1 \in DOMAIN mailbox'
          /\ mailbox'[Len(mailbox) + 1] > poll'.observed
      BY <1>2, <1>4, <1>5, <3>1
    <3>. QED
      BY <3>2 DEF NewQueued
  <2>2. CASE ~(Len(mailbox) < EventBuffer)
    <3>1. ~(Len(mailbox) + OldOnes =< 4)
      BY <1>2, <2>2, OldOnesTypes, LifecycleAssumption
    <3>2. NewQueued
      BY <1>1, <3>1, OldQueued DEF PollInv
    <3>. QED
      BY <1>6, <3>2
  <2>. QED
    BY <2>1, <2>2
<1>8. FewOldEvents'
  <2>1. poll'.observed =< revision'
    BY <1>2
  <2>2. ASSUME handle', poll'.pc \in {"check", "wait"}, ~NewQueued'
        PROVE  Len(mailbox') + OldOnes' =< 4
    <3>1. Listening /\ ~NewQueued
      BY <1>6, <2>2
    <3>2. e =< poll.observed
      BY <1>2, <1>3, <1>7, <2>2, <3>1
    <3>3. Len(mailbox) + OldOnes =< 4
      BY <1>1, <3>1, OldQueued DEF PollInv
    <3>4. OldOnes' + 1 =< OldOnes
      BY <3>1, <3>2
    <3>5. mailbox' = mailbox \/ mailbox' = Append(mailbox, e)
      BY DEF Publish
    <3>6. Len(mailbox') =< Len(mailbox) + 1 /\ Len(mailbox') \in Nat
      BY <1>2, <1>4, <3>5
    <3>7. OldOnes \in Int /\ OldOnes' \in Int
      BY OldOnesTypes
    <3>8. \A m, n, x, y \in Int :
            m + x =< 4 /\ y + 1 =< x /\ n =< m + 1 => n + y =< 4
      OBVIOUS
    <3>9. Len(mailbox) \in Int /\ Len(mailbox') \in Int
      BY <1>2, <3>6
    <3>. QED
      BY <3>3, <3>4, <3>6, <3>7, <3>8, <3>9, Zenon
  <2>. QED
    BY <1>1, <2>1, <2>2, OldQueuedNext
<1>9. PollNotForgotten'
  <2>. SUFFICES ASSUME poll'.pc = "wait", handle', revision' > poll'.observed
                PROVE  NewQueued' \/ NewPending'
    BY NewOnes
  <2>1. Listening /\ (NewQueued \/ NewPending)
    BY NewOnes DEF PollInv
  <2>2. CASE e > poll.observed
    BY <1>7, <2>1, <2>2
  <2>3. CASE ~(e > poll.observed)
    BY <1>2, <1>3, <1>6, <2>1, <2>3
  <2>. QED
    BY <2>2, <2>3
<1>. QED
  BY <1>8, <1>9 DEF PollInv

\* Steps after the terminal has lost its handle: the poll will find it gone.
LEMMA GoneStep ==
    ASSUME LifecycleInv', PollInv, ~handle', poll' = poll, revision' = revision
    PROVE  PollInv'
<1>1. LifecycleTypeOK'
  BY DEF LifecycleInv
<1>2. poll'.observed =< revision'
  BY DEF PollInv, FewOldEvents
<1>. QED
  BY <1>1, <1>2, OldQueuedNext, NewOnes DEF PollInv

\* Threads that a step leaves alone are as late or as new as before.
LEMMA OutputKept ==
    ASSUME UNCHANGED <<consumer, process, poll>>, info'.state = info.state
    PROVE  (OldOutput' => OldOutput) /\ (NewOutput => NewOutput')
BY DEF OldOutput, NewOutput, Over

\* The same of the goroutines of watchExit.
LEMMA ExitKept ==
    ASSUME UNCHANGED <<exit, poll>>
    PROVE  (OldExit' => OldExit) /\ (NewExit => NewExit')
BY DEF OldExit, NewExit

\* The same of the operation that holds lifecycleMu.
LEMMA RestartKept ==
    ASSUME UNCHANGED <<op, poll>>
    PROVE  (OldRestart' => OldRestart) /\ (NewRestart => NewRestart')
BY DEF OldRestart, NewRestart

\* The same of the resize.
LEMMA ResizeKept ==
    ASSUME UNCHANGED <<resize, poll>>
    PROVE  (OldResize' => OldResize) /\ (NewResize => NewResize')
BY DEF OldResize, NewResize

\* An operation that has written no screen has nothing to announce.
LEMMA RestartSilent ==
    ASSUME op.pc \notin {"marker", "sync", "watch", "publish"},
           op'.pc \notin {"marker", "sync", "watch", "publish"}
    PROVE  (OldRestart' => OldRestart) /\ (NewRestart => NewRestart')
BY DEF OldRestart, NewRestart

\* A process writes output and its consumer takes it: the consumer that writes
\* the screen is that of the terminal's process, so its announcement will be made.
LEMMA PollOutput ==
    ASSUME LifecycleInv, LifecycleInv', PollInv, EventBuffer >= 5,
           NEW p \in Processes,
           Emit(p) \/ Ingest(p) \/ ApplyLiveOutput(p) \/ PublishOutput(p)
    PROVE  PollInv'
<1>0. LifecycleTypeOK /\ consumer \in [Processes -> LiveConsumers]
  BY DEF LifecycleInv, LifecycleTypeOK
<1>1. CASE Emit(p)
  <2>1. UNCHANGED <<consumer, process, info, exit, op, resize, poll, mailbox, handle,
                    revision>>
    BY <1>1 DEF Emit, threads
  <2>2. /\ (OldOutput' => OldOutput) /\ (NewOutput => NewOutput')
        /\ (OldExit' => OldExit) /\ (NewExit => NewExit')
        /\ (OldRestart' => OldRestart) /\ (NewRestart => NewRestart')
        /\ (OldResize' => OldResize) /\ (NewResize => NewResize')
    BY <2>1, OutputKept, ExitKept, RestartKept, ResizeKept
  <2>. QED
    BY <2>1, <2>2, QuietStep DEF NewPending
<1>2. CASE Ingest(p)
  <2>1. UNCHANGED <<process, info, exit, op, resize, poll, mailbox, handle, revision>>
    BY <1>2 DEF Ingest
  <2>2. /\ consumer[p].pc = "idle" /\ consumer'[p].pc # "publish"
        /\ \A q \in Processes : q # p => consumer'[q] = consumer[q]
    BY <1>0, <1>2 DEF Ingest, LiveConsumers
  <2>3. (OldOutput' => OldOutput) /\ (NewOutput => NewOutput')
    BY <2>1, <2>2 DEF OldOutput, NewOutput, Over
  <2>4. /\ (OldExit' => OldExit) /\ (NewExit => NewExit')
        /\ (OldRestart' => OldRestart) /\ (NewRestart => NewRestart')
        /\ (OldResize' => OldResize) /\ (NewResize => NewResize')
    BY <2>1, ExitKept, RestartKept, ResizeKept
  <2>. QED
    BY <2>1, <2>3, <2>4, QuietStep DEF NewPending
<1>3. CASE ApplyLiveOutput(p)
  <2>1. /\ UNCHANGED <<process, info, exit, op, resize, poll, mailbox, handle>>
        /\ revision' = revision + 1
    BY <1>3 DEF ApplyLiveOutput
  <2>2. /\ consumer[p].pc = "apply"
        /\ consumer'[p] = [pc |-> "publish", rev |-> revision + 1]
        /\ \A q \in Processes : q # p => consumer'[q] = consumer[q]
    BY <1>0, <1>3 DEF ApplyLiveOutput
  <2>3. revision \in Nat /\ poll.observed \in Nat /\ poll.observed =< revision
    BY <1>0, QueuedTypes DEF PollInv, FewOldEvents
  <2>4. revision + 1 > poll.observed /\ ~(revision + 1 =< poll.observed)
    BY <2>3
  <2>5. OldOutput' => OldOutput
    BY <2>1, <2>2, <2>4 DEF OldOutput
  <2>6. handle => NewOutput'
    <3>1. process = p /\ info.state # "exited"
      BY <2>2 DEF LifecycleInv, ConsumersFenced, ConsumerAtRest
    <3>2. handle => info.state # "removed"
      BY DEF LifecycleInv, RemovedInStep
    <3>. QED
      BY <2>1, <2>2, <2>4, <3>1, <3>2 DEF NewOutput, Over
  <2>7. /\ (OldExit' => OldExit) /\ (OldRestart' => OldRestart)
        /\ (OldResize' => OldResize)
    BY <2>1, ExitKept, RestartKept, ResizeKept
  <2>. QED
    BY <2>1, <2>5, <2>6, <2>7, QuietStep DEF NewPending
<1>4. CASE PublishOutput(p)
  <2>1. UNCHANGED <<process, info, exit, op, resize, poll, handle, revision>>
    BY <1>4 DEF PublishOutput
  <2>2. /\ consumer[p].pc = "publish" /\ consumer'[p].pc # "publish"
        /\ \A q \in Processes : q # p => consumer'[q] = consumer[q]
    BY <1>0, <1>4 DEF PublishOutput, Ready
  <2>3. \A q \in Processes : consumer[q].pc = "publish" => q = p
    BY <2>2 DEF LifecycleInv, ConsumersFenced, ConsumerAtRest
  <2>4. ~OldOutput' /\ ~NewOutput'
    BY <2>2, <2>3 DEF OldOutput, NewOutput
  <2>5. /\ (OldExit' => OldExit) /\ (NewExit => NewExit')
        /\ (OldRestart' => OldRestart) /\ (NewRestart => NewRestart')
        /\ (OldResize' => OldResize) /\ (NewResize => NewResize')
    BY <2>1, ExitKept, RestartKept, ResizeKept
  <2>6. process = p /\ info.state # "exited"
    BY <2>2 DEF LifecycleInv, ConsumersFenced, ConsumerAtRest
  <2>7. CASE ~handle
    BY <2>1, <2>7, GoneStep
  <2>8. CASE handle
    <3>1. ~Over
      BY <2>6, <2>8 DEF LifecycleInv, RemovedInStep, Over
    <3>2. Publish(consumer[p].rev) /\ consumer[p].rev \in Revisions
      BY <1>0, <1>4, <2>6, <3>1, ReadTypes DEF PublishOutput
    <3>3. ASSUME consumer[p].rev =< poll.observed
          PROVE  OldOnes' + 1 =< OldOnes /\ (NewPending => NewPending')
      <4>1. OldOutput
        BY <2>2, <3>3 DEF OldOutput
      <4>2. ~NewOutput
        <5>1. consumer[p].rev \in Nat /\ poll.observed \in Nat
          BY <1>0, ReadTypes, QueuedTypes DEF Revisions
        <5>2. ~(consumer[p].rev > poll.observed)
          BY <3>3, <5>1
        <5>. QED
          BY <2>3, <5>2 DEF NewOutput
      <4>3. /\ (OldOutput' => OldOutput) /\ (OldExit' => OldExit)
            /\ (OldRestart' => OldRestart) /\ (OldResize' => OldResize)
            /\ OldOutput /\ ~OldOutput'
        BY <2>4, <2>5, <4>1
      <4>4. OldOnes' + 1 =< OldOnes
        BY <4>3, OldOnesLess
      <4>. QED
        BY <2>5, <4>2, <4>4 DEF NewPending
    <3>. QED
      BY <2>1, <3>2, <3>3, PublishStep
  <2>. QED
    BY <2>7, <2>8
<1>. QED
  BY <1>1, <1>2, <1>3, <1>4

\* A process exits.  markExited finds the consumer at rest, so it takes no
\* announcement away; its own one comes before it gives historyMu back.
LEMMA PollExit ==
    ASSUME LifecycleInv, LifecycleInv', PollInv, EventBuffer >= 5,
           NEW p \in Processes,
           MarkExited(p) \/ ExitRaw(p) \/ ExitMarker(p) \/ ExitPublish(p) \/ ExitSync(p)
    PROVE  PollInv'
<1>0. LifecycleTypeOK /\ exit \in [Processes -> Exits]
  BY DEF LifecycleInv, LifecycleTypeOK
<1>1. CASE MarkExited(p)
  <2>1. UNCHANGED <<consumer, process, op, resize, poll, mailbox, handle, revision>>
    BY <1>1 DEF MarkExited
  <2>2. /\ exit[p].pc = "wait" /\ exit'[p].pc # "publish"
        /\ \A q \in Processes : q # p => exit'[q] = exit[q]
    BY <1>0, <1>1 DEF MarkExited, Exits
  <2>3. (OldExit' => OldExit) /\ (NewExit => NewExit')
    BY <2>1, <2>2 DEF OldExit, NewExit
  <2>4. info' = info \/ (process = p /\ consumer[p].pc # "publish")
    BY <1>1 DEF MarkExited, OutputDone, ConsumerAtRest
  <2>5. (OldOutput' => OldOutput) /\ (NewOutput => NewOutput')
    BY <2>1, <2>4 DEF OldOutput, NewOutput, Over
  <2>6. /\ (OldRestart' => OldRestart) /\ (NewRestart => NewRestart')
        /\ (OldResize' => OldResize) /\ (NewResize => NewResize')
    BY <2>1, RestartKept, ResizeKept
  <2>. QED
    BY <2>1, <2>3, <2>5, <2>6, QuietStep DEF NewPending
<1>2. CASE ExitRaw(p) \/ ExitSync(p)
  <2>1. UNCHANGED <<consumer, process, info, op, resize, poll, mailbox, handle, revision>>
    BY <1>2 DEF ExitRaw, ExitSync
  <2>2. /\ exit[p].pc # "publish" /\ exit'[p].pc # "publish"
        /\ \A q \in Processes : q # p => exit'[q] = exit[q]
    BY <1>0, <1>2 DEF ExitRaw, ExitSync, Exits, NoExit
  <2>3. (OldExit' => OldExit) /\ (NewExit => NewExit')
    BY <2>1, <2>2 DEF OldExit, NewExit
  <2>4. /\ (OldOutput' => OldOutput) /\ (NewOutput => NewOutput')
        /\ (OldRestart' => OldRestart) /\ (NewRestart => NewRestart')
        /\ (OldResize' => OldResize) /\ (NewResize => NewResize')
    BY <2>1, OutputKept, RestartKept, ResizeKept
  <2>. QED
    BY <2>1, <2>3, <2>4, QuietStep DEF NewPending
<1>3. CASE ExitMarker(p)
  <2>1. /\ UNCHANGED <<consumer, process, info, op, resize, poll, mailbox, handle>>
        /\ revision' = revision + 1
    BY <1>3 DEF ExitMarker
  <2>2. /\ exit'[p].pc = "publish" /\ exit'[p].rev = revision + 1
        /\ \A q \in Processes : q # p => exit'[q] = exit[q]
    BY <1>0, <1>3 DEF ExitMarker, Exits
  <2>3. revision \in Nat /\ poll.observed \in Nat /\ poll.observed =< revision
    BY <1>0, QueuedTypes DEF PollInv, FewOldEvents
  <2>4. revision + 1 > poll.observed /\ ~(revision + 1 =< poll.observed)
    BY <2>3
  <2>5. (OldExit' => OldExit) /\ NewExit'
    BY <2>1, <2>2, <2>4 DEF OldExit, NewExit
  <2>6. /\ (OldOutput' => OldOutput) /\ (OldRestart' => OldRestart)
        /\ (OldResize' => OldResize)
    BY <2>1, OutputKept, RestartKept, ResizeKept
  <2>. QED
    BY <2>1, <2>5, <2>6, QuietStep DEF NewPending
<1>4. CASE ExitPublish(p)
  <2>1. /\ UNCHANGED <<consumer, process, info, op, resize, poll, handle, revision>>
        /\ Publish(exit[p].rev)
    BY <1>4 DEF ExitPublish
  <2>2. /\ exit[p].pc = "publish" /\ exit'[p].pc # "publish"
        /\ \A q \in Processes : q # p => exit'[q] = exit[q]
    BY <1>0, <1>4 DEF ExitPublish, Exits
  <2>3. \A q \in Processes : exit[q].pc = "publish" => q = p
    BY <2>2 DEF LifecycleInv, HistoryHeld
  <2>4. ~OldExit' /\ ~NewExit'
    BY <2>2, <2>3 DEF OldExit, NewExit
  <2>5. /\ (OldOutput' => OldOutput) /\ (NewOutput => NewOutput')
        /\ (OldRestart' => OldRestart) /\ (NewRestart => NewRestart')
        /\ (OldResize' => OldResize) /\ (NewResize => NewResize')
    BY <2>1, OutputKept, RestartKept, ResizeKept
  <2>6. exit[p].rev \in Revisions
    BY <1>0, ReadTypes
  <2>7. ASSUME exit[p].rev =< poll.observed
        PROVE  OldOnes' + 1 =< OldOnes /\ (NewPending => NewPending')
    <3>1. OldExit
      BY <2>2, <2>7 DEF OldExit
    <3>2. ~NewExit
      <4>1. exit[p].rev \in Nat /\ poll.observed \in Nat
        BY <1>0, <2>6, QueuedTypes DEF Revisions
      <4>2. ~(exit[p].rev > poll.observed)
        BY <2>7, <4>1
      <4>. QED
        BY <2>3, <4>2 DEF NewExit
    <3>3. OldOnes' + 1 =< OldOnes
      BY <2>4, <2>5, <3>1, OldOnesLess
    <3>. QED
      BY <2>5, <3>2, <3>3 DEF NewPending
  <2>. QED
    BY <2>1, <2>6, <2>7, PublishStep
<1>. QED
  BY <1>1, <1>2, <1>3, <1>4

\* The terminal is renamed: nothing is announced here.
LEMMA PollRename ==
    ASSUME LifecycleInv, LifecycleInv', PollInv,
           Rename \/ RenameTerminal \/ RenameSync
    PROVE  PollInv'
<1>1. UNCHANGED <<consumer, process, exit, resize, poll, mailbox, handle, revision>>
  BY DEF Rename, RenameTerminal, RenameSync
<1>2. info'.state = info.state
  BY DEF Rename, RenameTerminal, RenameSync, LifecycleInv, LifecycleTypeOK, Infos
<1>3. op.pc \in {"idle", "rename", "renameSync"}
  BY DEF Rename, RenameTerminal, RenameSync
<1>4. op'.pc \in {"idle", "rename", "renameSync"}
  <2>0. op \in LifecycleOps
    BY DEF LifecycleInv, LifecycleTypeOK
  <2>1. CASE Rename
    <3>1. PICK name : op' = [NoOp EXCEPT !.pc = "rename",
                                         !.copy = [Running EXCEPT !.name = name]]
      BY <2>1 DEF Rename
    <3>. QED
      BY <3>1 DEF NoOp
  <2>2. CASE RenameTerminal
    BY <2>0, <2>2 DEF RenameTerminal, LifecycleOps
  <2>3. CASE RenameSync
    BY <2>3 DEF RenameSync, NoOp
  <2>. QED
    BY <2>1, <2>2, <2>3
<1>5. (OldRestart' => OldRestart) /\ (NewRestart => NewRestart')
  BY <1>3, <1>4, RestartSilent
<1>6. /\ (OldOutput' => OldOutput) /\ (NewOutput => NewOutput')
      /\ (OldExit' => OldExit) /\ (NewExit => NewExit')
      /\ (OldResize' => OldResize) /\ (NewResize => NewResize')
  BY <1>1, <1>2, OutputKept, ExitKept, ResizeKept
<1>. QED
  BY <1>1, <1>5, <1>6, QuietStep DEF NewPending

\* The terminal is restarted: the consumer of the old process is at rest when the
\* new one is installed, and that of the new one starts without output.
LEMMA PollRestart ==
    ASSUME LifecycleInv, LifecycleInv', PollInv, EventBuffer >= 5,
           Restart \/ RestartSwap \/ RestartRaw \/ RestartScreen \/ RestartSync \/
           RestartWatch \/ RestartPublish
    PROVE  PollInv'
<1>0. LifecycleTypeOK /\ op \in LifecycleOps /\ info \in Infos
      /\ consumer \in [Processes -> LiveConsumers] /\ exit \in [Processes -> Exits]
      /\ process \in Processes
  BY DEF LifecycleInv, LifecycleTypeOK
<1>1. CASE Restart \/ RestartRaw
  <2>1. UNCHANGED <<consumer, process, info, exit, resize, poll, mailbox, handle,
                    revision>>
    BY <1>1 DEF Restart, RestartRaw
  <2>2. op.pc \in {"idle", "raw"} /\ op'.pc \in {"swap", "screen"}
    BY <1>0, <1>1 DEF Restart, RestartRaw, NoOp, LifecycleOps
  <2>3. (OldRestart' => OldRestart) /\ (NewRestart => NewRestart')
    BY <2>2, RestartSilent
  <2>4. /\ (OldOutput' => OldOutput) /\ (NewOutput => NewOutput')
        /\ (OldExit' => OldExit) /\ (NewExit => NewExit')
        /\ (OldResize' => OldResize) /\ (NewResize => NewResize')
    BY <2>1, OutputKept, ExitKept, ResizeKept
  <2>. QED
    BY <2>1, <2>3, <2>4, QuietStep DEF NewPending
<1>2. CASE RestartSwap
  <2>1. UNCHANGED <<consumer, exit, resize, poll, mailbox, handle, revision>>
    BY <1>2 DEF RestartSwap
  <2>2. op.pc = "swap" /\ op'.pc = "raw" /\ consumer[process].pc # "publish"
    BY <1>0, <1>2 DEF RestartSwap, ConsumerAtRest, LifecycleOps
  <2>3. (OldRestart' => OldRestart) /\ (NewRestart => NewRestart')
    BY <2>2, RestartSilent
  <2>4. (OldOutput' => OldOutput) /\ (NewOutput => NewOutput')
    BY <2>1, <2>2 DEF OldOutput, NewOutput
  <2>5. /\ (OldExit' => OldExit) /\ (NewExit => NewExit')
        /\ (OldResize' => OldResize) /\ (NewResize => NewResize')
    BY <2>1, ExitKept, ResizeKept
  <2>. QED
    BY <2>1, <2>3, <2>4, <2>5, QuietStep DEF NewPending
<1>3. CASE RestartScreen
  <2>1. /\ UNCHANGED <<consumer, process, info, exit, resize, poll, mailbox, handle>>
        /\ revision' = revision + 1
    BY <1>3 DEF RestartScreen
  <2>2. op'.pc \in {"marker", "sync"} /\ op'.rev = revision + 1
    BY <1>0, <1>3 DEF RestartScreen, LifecycleOps
  <2>3. revision \in Nat /\ poll.observed \in Nat /\ poll.observed =< revision
    BY <1>0, QueuedTypes DEF PollInv, FewOldEvents
  <2>4. revision + 1 > poll.observed /\ ~(revision + 1 =< poll.observed)
    BY <2>3
  <2>5. ~OldRestart' /\ NewRestart'
    BY <2>1, <2>2, <2>4 DEF OldRestart, NewRestart
  <2>6. /\ (OldOutput' => OldOutput) /\ (OldExit' => OldExit)
        /\ (OldResize' => OldResize)
    BY <2>1, OutputKept, ExitKept, ResizeKept
  <2>. QED
    BY <2>1, <2>5, <2>6, QuietStep DEF NewPending
<1>4. CASE RestartSync
  <2>1. UNCHANGED <<consumer, process, info, exit, resize, poll, mailbox, handle,
                    revision>>
    BY <1>4 DEF RestartSync
  <2>2. op.pc = "sync" /\ op'.pc = "watch" /\ op'.rev = op.rev
    BY <1>0, <1>4 DEF RestartSync, LifecycleOps
  <2>3. (OldRestart' => OldRestart) /\ (NewRestart => NewRestart')
    BY <2>1, <2>2 DEF OldRestart, NewRestart
  <2>4. /\ (OldOutput' => OldOutput) /\ (NewOutput => NewOutput')
        /\ (OldExit' => OldExit) /\ (NewExit => NewExit')
        /\ (OldResize' => OldResize) /\ (NewResize => NewResize')
    BY <2>1, OutputKept, ExitKept, ResizeKept
  <2>. QED
    BY <2>1, <2>3, <2>4, QuietStep DEF NewPending
<1>5. CASE RestartWatch
  <2>1. UNCHANGED <<process, info, resize, poll, mailbox, handle, revision>>
    BY <1>5 DEF RestartWatch
  <2>2. op.pc = "watch" /\ op'.pc = "publish" /\ op'.rev = op.rev
    BY <1>0, <1>5 DEF RestartWatch, LifecycleOps
  <2>3. consumer[process].pc = "none" /\ exit[process].pc = "none"
    BY <1>0, <2>2 DEF LifecycleInv, ExitsInStep, Installing
  <2>4. /\ consumer'[process].pc = "idle" /\ exit'[process].pc = "wait"
        /\ \A q \in Processes :
             q # process => consumer'[q] = consumer[q] /\ exit'[q] = exit[q]
    BY <1>0, <1>5 DEF RestartWatch, Ready, Watching, NoExit
  <2>5. (OldRestart' => OldRestart) /\ (NewRestart => NewRestart')
    BY <2>1, <2>2 DEF OldRestart, NewRestart
  <2>6. (OldOutput' => OldOutput) /\ (NewOutput => NewOutput')
    BY <2>1, <2>3, <2>4 DEF OldOutput, NewOutput, Over
  <2>7. (OldExit' => OldExit) /\ (NewExit => NewExit')
    BY <2>1, <2>3, <2>4 DEF OldExit, NewExit
  <2>8. (OldResize' => OldResize) /\ (NewResize => NewResize')
    BY <2>1, ResizeKept
  <2>. QED
    BY <2>1, <2>5, <2>6, <2>7, <2>8, QuietStep DEF NewPending
<1>6. CASE RestartPublish
  <2>1. /\ UNCHANGED <<consumer, process, info, exit, resize, poll, handle, revision>>
        /\ Publish(op.rev)
    BY <1>6 DEF RestartPublish
  <2>2. op.pc = "publish" /\ op'.pc = "idle"
    BY <1>6 DEF RestartPublish, NoOp
  <2>3. ~OldRestart' /\ ~NewRestart'
    BY <2>2 DEF OldRestart, NewRestart
  <2>4. /\ (OldOutput' => OldOutput) /\ (NewOutput => NewOutput')
        /\ (OldExit' => OldExit) /\ (NewExit => NewExit')
        /\ (OldResize' => OldResize) /\ (NewResize => NewResize')
    BY <2>1, OutputKept, ExitKept, ResizeKept
  <2>5. op.rev \in Revisions
    BY <1>0, ReadTypes
  <2>6. ASSUME op.rev =< poll.observed
        PROVE  OldOnes' + 1 =< OldOnes /\ (NewPending => NewPending')
    <3>1. OldRestart
      BY <2>2, <2>6 DEF OldRestart
    <3>2. ~NewRestart
      <4>1. op.rev \in Nat /\ poll.observed \in Nat
        BY <1>0, <2>5, QueuedTypes DEF Revisions
      <4>. QED
        BY <2>6, <4>1 DEF NewRestart
    <3>3. /\ (OldOutput' => OldOutput) /\ (OldExit' => OldExit)
          /\ (OldRestart' => OldRestart) /\ (OldResize' => OldResize)
          /\ OldRestart /\ ~OldRestart'
      BY <2>3, <2>4, <3>1
    <3>4. OldOnes' + 1 =< OldOnes
      BY <3>3, OldOnesLess
    <3>. QED
      BY <2>4, <3>2, <3>4 DEF NewPending
  <2>. QED
    BY <2>1, <2>5, <2>6, PublishStep
<1>. QED
  BY <1>1, <1>2, <1>3, <1>4, <1>5, <1>6

\* The terminal is removed: its handle goes first.
LEMMA PollRemove ==
    ASSUME LifecycleInv, LifecycleInv', PollInv,
           Remove \/ RemoveClose \/ RemoveAbort \/ RemoveProcess \/ RemovePublish
    PROVE  PollInv'
<1>1. UNCHANGED <<poll, revision>>
  BY DEF Remove, RemoveClose, RemoveAbort, RemoveProcess, RemovePublish
<1>2. ~handle'
  BY DEF Remove, RemoveClose, RemoveAbort, RemoveProcess, RemovePublish,
         LifecycleInv, RemovedInStep
<1>. QED
  BY <1>1, <1>2, GoneStep

\* The terminal is resized: the announcement is made before liveOpMu is released.
LEMMA PollResize ==
    ASSUME LifecycleInv, LifecycleInv', PollInv, EventBuffer >= 5,
           Resize \/ ResizeScreen \/ ResizeSync \/ ResizePublish
    PROVE  PollInv'
<1>0. LifecycleTypeOK /\ resize \in Resizes /\ info \in Infos
  BY DEF LifecycleInv, LifecycleTypeOK
<1>1. UNCHANGED <<consumer, process, exit, op, poll, handle>>
  BY DEF Resize, ResizeScreen, ResizeSync, ResizePublish
<1>2. info'.state = info.state
  BY <1>0 DEF Resize, ResizeScreen, ResizeSync, ResizePublish, Infos
<1>3. /\ (OldOutput' => OldOutput) /\ (NewOutput => NewOutput')
      /\ (OldExit' => OldExit) /\ (NewExit => NewExit')
      /\ (OldRestart' => OldRestart) /\ (NewRestart => NewRestart')
  BY <1>1, <1>2, OutputKept, ExitKept, RestartKept
<1>4. CASE Resize
  <2>1. UNCHANGED <<mailbox, revision>> /\ resize.pc = "idle" /\ resize'.pc = "flush"
    BY <1>4 DEF Resize, NoResize
  <2>2. (OldResize' => OldResize) /\ (NewResize => NewResize')
    BY <2>1 DEF OldResize, NewResize
  <2>. QED
    BY <1>1, <1>3, <2>1, <2>2, QuietStep DEF NewPending
<1>5. CASE ResizeScreen
  <2>1. mailbox' = mailbox /\ resize.pc = "flush"
    BY <1>5 DEF ResizeScreen
  <2>2. \/ revision' = revision /\ resize'.pc = "idle"
        \/ /\ revision' = revision + 1
           /\ resize'.pc = "sync" /\ resize'.rev = revision + 1
    BY <1>5 DEF ResizeScreen, NoResize
  <2>3. revision \in Nat /\ poll.observed \in Nat /\ poll.observed =< revision
    BY <1>0, QueuedTypes DEF PollInv, FewOldEvents
  <2>4. revision + 1 > poll.observed /\ ~(revision + 1 =< poll.observed)
    BY <2>3
  <2>5. ~OldResize' /\ ~NewResize /\ (revision' = revision \/ NewResize')
    BY <1>1, <2>1, <2>2, <2>4 DEF OldResize, NewResize
  <2>6. revision' = revision \/ revision' = revision + 1
    BY <2>2
  <2>. QED
    BY <1>1, <1>3, <2>1, <2>5, <2>6, QuietStep DEF NewPending
<1>6. CASE ResizeSync
  <2>1. /\ UNCHANGED <<mailbox, revision>> /\ resize.pc = "sync"
        /\ resize'.pc = "publish" /\ resize'.rev = resize.rev
    BY <1>0, <1>6 DEF ResizeSync, Resizes
  <2>2. (OldResize' => OldResize) /\ (NewResize => NewResize')
    BY <1>1, <2>1 DEF OldResize, NewResize
  <2>. QED
    BY <1>1, <1>3, <2>1, <2>2, QuietStep DEF NewPending
<1>7. CASE ResizePublish
  <2>1. /\ Publish(resize.rev) /\ revision' = revision
        /\ resize.pc = "publish" /\ resize'.pc = "idle"
    BY <1>7 DEF ResizePublish, NoResize
  <2>2. ~OldResize' /\ ~NewResize'
    BY <2>1 DEF OldResize, NewResize
  <2>3. resize.rev \in Revisions
    BY <1>0, ReadTypes
  <2>4. ASSUME resize.rev =< poll.observed
        PROVE  OldOnes' + 1 =< OldOnes /\ (NewPending => NewPending')
    <3>1. OldResize
      BY <2>1, <2>4 DEF OldResize
    <3>2. ~NewResize
      <4>1. resize.rev \in Nat /\ poll.observed \in Nat
        BY <1>0, <2>3, QueuedTypes DEF Revisions
      <4>. QED
        BY <2>4, <4>1 DEF NewResize
    <3>3. OldOnes' + 1 =< OldOnes
      BY <1>3, <2>2, <3>1, OldOnesLess
    <3>. QED
      BY <1>3, <3>2, <3>3 DEF NewPending
  <2>. QED
    BY <1>1, <2>1, <2>3, <2>4, PublishStep
<1>. QED
  BY <1>4, <1>5, <1>6, <1>7

\* The client polls.  It goes to sleep only when it has seen the last revision.
LEMMA PollPoll ==
    ASSUME LifecycleInv, LifecycleInv', PollInv,
           Poll \/ Subscribe \/ CheckRevision \/ Receive
    PROVE  PollInv'
<1>0. LifecycleTypeOK /\ LifecycleTypeOK' /\ poll \in Polls
  BY DEF LifecycleInv, LifecycleTypeOK
<1>1. /\ poll.observed \in Nat /\ revision \in Nat /\ Len(mailbox) \in Nat
      /\ poll.observed =< revision
  BY <1>0, QueuedTypes DEF PollInv, FewOldEvents
<1>2. UNCHANGED <<consumer, process, info, exit, op, resize, handle, revision>>
  BY DEF Poll, Subscribe, CheckRevision, Receive
<1>3. CASE poll'.pc = "idle" /\ poll'.observed =< revision
  <2>1. FewOldEvents'
    BY <1>0, <1>2, <1>3, OldQueuedNext
  <2>. QED
    BY <1>3, <2>1, NewOnes DEF PollInv
<1>4. CASE Poll
  <2>1. poll'.pc = "subscribe" /\ poll'.observed = revision
    BY <1>4 DEF Poll
  <2>2. FewOldEvents'
    BY <1>0, <1>1, <1>2, <2>1, OldQueuedNext
  <2>. QED
    BY <2>1, <2>2, NewOnes DEF PollInv
<1>5. CASE Subscribe
  <2>1. poll'.pc = "check" /\ poll'.observed = poll.observed /\ mailbox' = << >>
    BY <1>0, <1>5 DEF Subscribe, Polls
  <2>2. Len(mailbox') + OldOnes' =< 4
    <3>1. Len(mailbox') = 0
      BY <2>1
    <3>2. \A m, n \in Int : m = 0 /\ n =< 4 => m + n =< 4
      OBVIOUS
    <3>3. Len(mailbox') \in Int /\ OldOnes' \in Int /\ OldOnes' =< 4
      BY <3>1, OldOnesTypes
    <3>. QED
      BY <3>1, <3>2, <3>3, Zenon
  <2>3. FewOldEvents'
    BY <1>0, <1>1, <1>2, <2>1, <2>2, OldQueuedNext
  <2>. QED
    BY <2>1, <2>3, NewOnes DEF PollInv
<1>6. CASE CheckRevision
  <2>1. CASE revision > poll.observed
    <3>1. Answered
      BY <1>6, <2>1 DEF CheckRevision
    <3>2. poll' = [poll EXCEPT !.pc = "idle",
                               !.observed = IF handle THEN revision ELSE poll.observed]
      BY <3>1 DEF Answered
    <3>3. poll'.pc = "idle"
      BY <1>0, <3>2 DEF Polls
    <3>4. poll'.observed = IF handle THEN revision ELSE poll.observed
      BY <1>0, <3>2 DEF Polls
    <3>5. poll'.observed =< revision
      BY <1>1, <3>4
    <3>. QED
      BY <1>3, <3>3, <3>5
  <2>2. CASE ~(revision > poll.observed)
    <3>1. /\ poll.pc = "check" /\ poll'.pc = "wait"
          /\ poll'.observed = poll.observed /\ mailbox' = mailbox
      BY <1>0, <1>6, <2>2 DEF CheckRevision, Polls
    <3>2. OldOnes' = OldOnes
      BY <1>2, <3>1 DEF OldOnes, OldOutput, OldExit, OldRestart, OldResize
    <3>3. NewQueued' <=> NewQueued
      BY <3>1 DEF NewQueued
    <3>4. FewOldEvents'
      <4>1. ASSUME handle, ~NewQueued PROVE Len(mailbox) + OldOnes =< 4
        BY <1>0, <3>1, <4>1, OldQueued DEF PollInv
      <4>. QED
        BY <1>0, <1>1, <1>2, <3>1, <3>2, <3>3, <4>1, OldQueuedNext
    <3>5. ~(revision' > poll'.observed)
      BY <1>2, <2>2, <3>1
    <3>. QED
      BY <3>4, <3>5, NewOnes DEF PollInv
  <2>. QED
    BY <2>1, <2>2
<1>7. CASE Receive
  <2>1. CASE poll' # poll
    <3>1. CASE poll' = [poll EXCEPT !.pc = "idle"]
      <4>1. poll'.pc = "idle" /\ poll'.observed = poll.observed
        BY <1>0, <3>1 DEF Polls
      <4>. QED
        BY <1>1, <1>3, <4>1
    <3>2. CASE Answered
      <4>2. poll' = [poll EXCEPT !.pc = "idle",
                          !.observed = IF handle THEN revision ELSE poll.observed]
        BY <3>2 DEF Answered
      <4>3. poll'.pc = "idle"
        BY <1>0, <4>2 DEF Polls
      <4>4. poll'.observed = IF handle THEN revision ELSE poll.observed
        BY <1>0, <4>2 DEF Polls
      <4>5. poll'.observed =< revision
        BY <1>1, <4>4
      <4>. QED
        BY <1>3, <4>3, <4>5
    <3>. QED
      BY <1>7, <2>1, <3>1, <3>2 DEF Receive
  <2>2. CASE poll' = poll
    <3>1. /\ poll.pc = "wait" /\ mailbox # << >>
          /\ mailbox' = Tail(mailbox) /\ ~(Head(mailbox) > poll.observed)
      BY <1>0, <1>7, <2>2 DEF Receive, Answered, Polls
    <3>2. mailbox \in Seq(Int) /\ DOMAIN mailbox = 1..Len(mailbox)
      BY <1>0, QueuedTypes
    <3>3. /\ Tail(mailbox) \in Seq(Int) /\ Len(Tail(mailbox)) = Len(mailbox) - 1
          /\ \A i \in 1..Len(Tail(mailbox)) : Tail(mailbox)[i] = mailbox[i + 1]
          /\ Head(mailbox) = mailbox[1]
      BY <3>1, <3>2, HeadTailProperties
    <3>4. DOMAIN Tail(mailbox) = 1..(Len(mailbox) - 1)
      BY <3>3, LenProperties
    <3>5. NewQueued => NewQueued'
      <4>. SUFFICES ASSUME NewQueued PROVE NewQueued'
        OBVIOUS
      <4>1. PICK i \in 1..Len(mailbox) : mailbox[i] > poll.observed
        BY <3>2 DEF NewQueued
      <4>2. i # 1
        BY <3>1, <3>3, <4>1
      <4>3. i - 1 \in 1..(Len(mailbox) - 1) /\ (i - 1) + 1 = i
        BY <1>1, <4>2
      <4>4. mailbox'[i - 1] = mailbox[i] /\ i - 1 \in DOMAIN mailbox'
        BY <3>1, <3>3, <3>4, <4>3
      <4>. QED
        BY <2>2, <4>1, <4>4 DEF NewQueued
    <3>6. OldOnes' = OldOnes /\ (NewPending' <=> NewPending)
      BY <1>2, <2>2 DEF OldOnes, OldOutput, OldExit, OldRestart, OldResize,
                        NewPending, NewOutput, NewExit, NewRestart, NewResize, Over
    <3>7. FewOldEvents'
      <4>1. ASSUME handle', ~NewQueued' PROVE Len(mailbox') + OldOnes' =< 4
        <5>1. Len(mailbox) + OldOnes =< 4
          BY <1>0, <1>2, <3>1, <3>5, <4>1, OldQueued DEF PollInv
        <5>2. Len(mailbox') = Len(mailbox) - 1
          BY <3>1, <3>3
        <5>3. OldOnes \in Int
          BY OldOnesTypes
        <5>. QED
          BY <1>1, <3>6, <5>1, <5>2, <5>3
      <4>2. poll'.observed =< revision'
        BY <1>1, <1>2, <2>2
      <4>. QED
        BY <1>0, <4>1, <4>2, OldQueuedNext
    <3>8. PollNotForgotten'
      BY <1>2, <2>2, <3>5, <3>6, NewOnes DEF PollInv
    <3>. QED
      BY <3>7, <3>8 DEF PollInv
  <2>. QED
    BY <2>1, <2>2
<1>. QED
  BY <1>4, <1>5, <1>6, <1>7

\* The capacity of a subscriber's channel leaves room for one event of each of the
\* four threads that may be late, and one more.  The server's is 64
\* (server.go 223).
RoomForAll == EventBuffer >= 5

\* A poll that sleeps while the screen has a newer revision will be woken, although
\* the threads announce their revisions late, out of order and into a channel that
\* drops (server.go 857-866, events.go 92-112, terminal.go 918-928).
THEOREM PollIsWoken ==
    ASSUME RoomForAll
    PROVE  LifecycleSpec => []PollNotForgotten
<1>1. LifecycleInit => PollInv
  <2>. SUFFICES ASSUME LifecycleInit PROVE PollInv
    OBVIOUS
  <2>1. poll.pc = "idle" /\ poll.observed = 1 /\ revision = 1
    BY DEF LifecycleInit
  <2>. QED
    BY <2>1 DEF PollInv, FewOldEvents, PollNotForgotten
<1>2. LifecycleInv /\ LifecycleInv' /\ PollInv /\ [LifecycleNext]_lifecycleVars
        => PollInv'
  <2>. SUFFICES ASSUME LifecycleInv, LifecycleInv', PollInv,
                       [LifecycleNext]_lifecycleVars
                PROVE  PollInv'
    OBVIOUS
  <2>0. EventBuffer >= 5
    BY DEF RoomForAll
  <2>1. CASE UNCHANGED lifecycleVars
    <3>1. UNCHANGED <<consumer, process, info, exit, op, resize, poll, mailbox, handle,
                      revision>>
      BY <2>1 DEF lifecycleVars
    <3>2. /\ (OldOutput' => OldOutput) /\ (NewOutput => NewOutput')
          /\ (OldExit' => OldExit) /\ (NewExit => NewExit')
          /\ (OldRestart' => OldRestart) /\ (NewRestart => NewRestart')
          /\ (OldResize' => OldResize) /\ (NewResize => NewResize')
      BY <3>1, OutputKept, ExitKept, RestartKept, ResizeKept
    <3>. QED
      BY <3>1, <3>2, QuietStep DEF NewPending
  <2>2. CASE \E p \in Processes : Emit(p) \/ ProcessStep(p)
    BY <2>0, <2>2, PollOutput, PollExit DEF ProcessStep
  <2>3. CASE Rename \/ Restart \/ Remove \/ OpStep
    BY <2>0, <2>3, PollRename, PollRestart, PollRemove DEF OpStep
  <2>4. CASE Resize \/ ResizeScreen \/ ResizeSync \/ ResizePublish
    BY <2>0, <2>4, PollResize
  <2>5. CASE Poll \/ Subscribe \/ CheckRevision \/ Receive
    BY <2>5, PollPoll
  <2>. QED
    BY <2>1, <2>2, <2>3, <2>4, <2>5 DEF LifecycleNext
<1>3. PollInv => PollNotForgotten
  BY DEF PollInv
<1>. QED
  BY <1>1, <1>2, <1>3, LifecycleInvariant, PTL DEF LifecycleSpec
=============================================================================
