# AnyTTY: a verification project in TLA+

AnyTTY keeps terminal processes in a daemon of the user and lets clients reach
them locally, through SSH, directly over WebRTC, or through AnyTTY Cloud (a
Controller with a PostgreSQL database, and Edges that carry signalling and
relayed traffic). This directory holds TLA+ modules translated from the Go
code, the TLC configurations that check them on small instances, and theorems
checked by TLAPS. Paths below are relative to the repository.

`PROJECT.json` lists the components, the runs, which source lines every
definition stands for, the mutants that show each property can fail, the
hazards of the code and the theorems.

## 1. Inventory

| Component | State | Operations | Hard behaviour | What makes it correct |
| --- | --- | --- | --- | --- |
| Terminal output buffer, `core/terminal_output_buffer.go` | linked payload nodes with a pending mask, a cursor per consumer, gaps, resident bytes, a budget shared by all terminals | Write, run (Live and History), Flush, Seal, Close, Wait, eviction across buffers | two mutexes, two condition variables, checks and effects in different critical sections, failing callbacks, overflow while a batch is being ingested | nothing is lost silently, duplicated or reordered; gaps are exact; both byte limits are hard; no lost wake-up; a close gives everything back |
| Relay reservations, `cloud/edge/reservation`, `cloud/edge/runtime`, `cloud/edge/controllerlink`, `cloud/controller/postgres/usage_store.go` | durable journal and memory groups of the Edge, rows and usage period of the account, messages in transit | reserve, renew, settle, query, replay, expose, relay, drain, lazy recovery | crashes between two journal transactions, lost answers, answers after a timeout, replays, expiry, two reservations racing for a quota | what is charged is what was relayed, or the whole hold; no traffic without a record; no hold is forgotten; the quota holds; the journal drains |
| Terminal lifecycle, `core/terminal.go`, `core/server.go`, `core/registry.go` | process, generation, state, registry entry | create, restart, kill, remove, exit | an exit racing a restart, output of an old generation | the registry agrees with the terminal; no output crosses generations |
| Live screen, `core/protocol_live_screen_baseline.go`, `core/live*` | confirmed and offered baselines, pins, byte counters, revisions | acquire, offer, expire, clear, long poll | a pinned baseline replaced by a newer one, expiry and close racing | bytes are returned exactly once; a delta is only sent against what the client has |
| History store, `core/history/linehist` | blocks of a compressed file, index, gaps | append, flush, recover, compact | crash within an append or a compaction | a prefix of the acknowledged lines survives |
| Raw PTY stream, `core/raw_pty_stream.go`, `core/raw_pty_protocol.go` | broadcaster with a bounded queue for each subscriber, one stream per channel | publish, start, forward, stop, clear | a start that replaces a stream whose forwarder is still running, a full queue | output is delivered in order or its loss is told |
| File transfers, `core/file_transfer.go` | offset, credit and pending acknowledgement of a download; temporary file of an upload | send, acknowledge, finish, cancel, take over | acknowledgements out of step with the sender, a second owner of an upload | no more in flight than the window; the bytes of the file, in order |
| Client sessions, `client/runtime` | generations shared by all owners of a process, current session, configuration key and leases of an endpoint | acquire, ensure, connect, pair, disconnect, close | dials that race or succeed late, a host that replaces another, shared leases | one current session, of the newest generation; no session leaks; a session is reused for its own key only |
| Protocol client, `internal/protocol/client.go` | waiters, abandoned waiters, streams with a bounded queue, frames that came early or late | call, cancel, deliver, open and close a stream | a cancellation racing an answer, frames before the stream exists, overflow | an answer reaches its caller or nobody; a stream is in order and its losses are counted |
| Pairing, `shared/remoteauth` | claims in memory, tickets and grants on disk | publish, resolve, redeem, revoke, compact | two redeemers, a crash between two stores, expiry | a ticket is consumed at most once, by one key |
| Cloud daemon, `cloud/daemon` | daemon record, sessions, revisions | apply state, start and end sessions | a state change while sessions end | nothing runs for a blocked daemon |
| Edge presence, Controller directory | agents, generations, routes | register, replace, expire | reconnects that overlap | a newer connection is not removed by an older one |
| Accounts, commerce, enrolment, certificates, operator | database rows | one transaction per request | serialised by the database | constraints of the schema |
| Transports, WebRTC, SSH, terminal emulator, TUI, web and mobile clients | - | - | mostly I/O, user interface, generated or third-party code | not modelled |

How they interact: a PTY is read by one goroutine of `Terminal.watchOutput`,
which writes to the terminal's output buffer; the Live consumer feeds the
screen projector (from which protocol sessions pull), the History consumer
feeds the line history, whose compressed file is written under the engine's
mutex. Terminal operations (restart, remove) abort the buffer, install a new
process and a new raw broadcaster, and copy the terminal's info to the
registry. A client reaches all this through a session owner, which races the
routes of an endpoint and shares the winner; over the session it pulls screens
(the daemon keeps the last screen as a baseline, to send changed rows only) and
opens resource channels for raw output and files, whose frames the protocol
client sorts into streams. On the cloud side a client's gateway session asks its Edge for a relay
grant; the Edge journals the request, asks the Controller over one control
stream, journals the grant, registers a traffic group and only then gives out
the credential; renewals and the settlement use the same stream, and after
every reconnection the Edge replays its journal.

## 2. Plan

The most important behaviour first. Modules of the upper part are written, those
of the lower part are not.

| | Module | Composes or implements | Checks and theorems |
| --- | --- | --- | --- |
| A | `TerminalOutputBuffer`, `OutputStream`, `MCOutput`, `TerminalOutputBufferProofs`, `OutputStreamProofs` | several buffers and their budget; implements `OutputStream` | section 3 |
| B | `RelayReservations`, `MCRelay`, `RelayReservationsProofs` | Edge, Controller and control stream | section 4 |
| C | `TerminalLifecycle`, `TerminalLifecycleProofs` | server, registry, terminal, exits, a poll; the buffer as a count of chunks | section 5.1 |
| D | `HistoryFile`, `HistoryFileProofs` | file, temporary file, disk with crashes, a frozen reader | section 5.2 |
| E | `LiveBaselines`, `LiveBaselinesProofs` | requests, timer and end of a session | section 5.3 |
| F | `ResourceStreams`, `ResourceStreamsProofs` | daemon, connection, protocol client and user of one channel | section 5.4 |
| G | `SessionOwner`, `MCSessionOwner`, `SessionOwnerProofs` | several owners on one generation authority | section 6 |
| | `MCDaemon` | (A), (C), (D), (E), (F) for TLC | section 5 |
| H | `FileUploads` | the takeover of an upload by a second session | two sessions never write one temporary file |
| I | `ProtocolClient` | callers, read loop, peer | answers, cancellation, abandoned waiters |
| J | `PairingClaims` | claims and ticket store with restart | one-time consumption |
| K | `DaemonLifecycle` | cloud daemon and its sessions | no session under a blocked state |
| L | shutdown of the Edge, limit of its journal | extends (B) | every group is settled or journalled |

## 3. Terminal output buffer

### 3.1 Module and code

`TerminalOutputBuffer` models `core/terminal_output_buffer.go` whole, with the
threads that `Terminal.watchOutput` and `abortOutputBuffer` start. One action
is one critical section of `buffer.mu` or `budget.mu`.

| Model | Code |
| --- | --- |
| `pending[b][s]`, `length[b][s]` | the mask and the payload length of the node with sequence number `s`; between critical sections the list is exactly the nodes with a pending bit, as every section that clears bits ends in `reclaimLocked` |
| `cons[b][c]` | `terminalOutputConsumerState` |
| `resident`, `closed`, `sealed`, `nextSeq` | the fields of that name |
| `budget` | `terminalOutputResidentBudget` |
| `pc`, `pump`, `flush`, `owed` | where each goroutine stands and its local variables (`owed`: bytes freed and not yet released to the budget) |
| `asleep`, `parked` | waiters of `buffer.cond` and of `budget.cond` |
| `PumpRead` ... `AppendChunk` | the loop of `watchOutput`, `Write`, `writeChunk`, `reserve` with its eviction and retry |
| `NextBatch`, `CompleteBatch`, `CompleteGap`, `FailureHandled` | `run`, `next`, `completeBatch`, `completeGap` |
| `Seal`, `AbortStart`, `Close`, `Unregister`, `Wait`, `BudgetClose` | the teardown from both ends and the shutdown of the server |
| `FlushStart`, `FlushWoken`, `FlushCancel` | `Flush` and its context |

Payload bytes are abstracted to their count. A callback either succeeds or
fails (`FailingBuffers` says where it may fail). Statistics are left out.

`OutputStream` is the promise to a consumer, without capacities, nodes or
locks: the output is a log of chunks, handed over as contiguous runs of payload
or as gaps with their exact size, and a consumer that is neither cut off nor
failed leaves only when it has accounted for everything.

### 3.2 Runs

| Run | Instance | Shows |
| --- | --- | --- |
| `output_streams`, focus `stream` | one drop buffer, capacity 2 and budget 3, three chunks of 1 or 2 bytes, both consumers, abort at any point | types, `StreamContiguous`, `GapBytesExact`, `CapacityHeld`, and that the buffer implements `OutputStream` |
| `output_streams`, focus `failures` | the same buffer with two chunks that fill it, callbacks that may fail, a Flush | `StreamContiguous` of the other consumer, `SleepersHaveReason` (no lost wake-up on `buffer.cond`) |
| `output_progress`, focus `flush` | one drop buffer with the Live consumer, callbacks that may fail, a Flush, an abort | `FlushReturns` |
| `output_progress`, focus `budget` | two block buffers that starve each other, one aborted with one chunk | `CloseDrains`, `WriteReturns` |
| `daemon_parts`, focus `output` | a drop and a block buffer on one budget of a single chunk, server shutdown, an abort | `BudgetExact` (hard limit, no leak), `BlockLosesNothing` |

Bounds. `MaxSeq` (chunks written) is 2 or 3: a batch in flight, a gap behind it
and a queued node behind the gap need three sequence numbers; merging two gaps
needs two overflows, which chunks of two sizes against a capacity of 2 give. The
budget of 3 is above the capacity, so that the capacity is what holds, and is
still met, by bytes a consumer has given back and not yet released.
`MCOutput` has two instances in each of its specifications, chosen by `focus` in
the initial state: they share the constants and differ in what the environment
does. In `output_progress` the buffers outside of the focus have ended.
Two buffers suffice for eviction and for starvation, as the code treats every
other buffer alike.
`CHECK_DEADLOCK FALSE`: a terminal whose process has ended stops.

Fairness (`Fairness`): weak fairness of each goroutine's own steps, which the Go
scheduler gives to a goroutine that is ready, and of a callback's return (they
only parse and write files). The producer of output, the abort, the
failure of a callback and the cancellation of a Flush are not fair. A woken
waiter is a step of that goroutine, so a lost wake-up is not repaired by
fairness.

### 3.3 Theorems

Two modules prove, for every set of buffers, every mix of policies and all
sizes and bounds that satisfy the named assumptions of `TerminalOutputBuffer`,
every safety property its runs check.

| Module | Theorem | States |
| --- | --- | --- |
| `TerminalOutputBufferProofs` | `TypeCorrect`, `CapacityCorrect` | `TypeOK`, `CapacityHeld` |
| | `BudgetCorrect` | `BudgetExact` |
| `OutputStreamProofs` | `StreamCorrect`, `GapBytesCorrect` | `StreamContiguous`, `GapBytesExact` |
| | `BlockCorrect`, `WakeUpCorrect` | `BlockLosesNothing`, `SleepersHaveReason` |
| | `StreamImplemented` | `ImplementsStream`, that is `Spec => Stream!Spec` |

Capacity. `CapacityHeld` is not inductive: `writeChunk` tests the capacity, unlocks,
reserves budget (perhaps evicting from other buffers) and appends in a later
section. The invariant adds what makes the late append safe (`WriterOK`): while
the pump is between the test and the append, its chunk still fits, because only
the pump adds payload and every other thread can only remove some. `Retained`
says which sequence numbers may be pending and that `resident` counts them. The
proof has one step per action, with lemmas on cardinalities of byte sets for
`reclaimLocked` and `dropOldestLocked`.

Budget. The counter is paid back in a later section than the one that takes the
nodes out, by whichever thread took them. `OwedApart` says that such bytes are
nobody else's: their thread stands before a release, they are of nodes that are
gone or of the pump's own chunk, and no other thread owes them. The proof then
follows each byte (`InNode`, `InReserve`, `InDebt`) through every step. It also
shows that the clamp at zero in `release` never takes effect.

Stream. `StreamInv` puts the state of a consumer in a line: what it has completed,
then the batch or the gap in its hand (`HandOK`), then the pending gap (`GapOK`),
then the queue up to the last sequence number (`QueueOK`). The cursor stands at
the start of the queue unless a batch is in flight. Two facts carry it. An
assigned sequence number stands for at least one byte (`LengthsOK`), so
`addGapLocked`, which ignores a loss of no bytes, never ignores a chunk. And
`dropOldestLocked`, which walks the list of all consumers and stops in the
middle, takes a prefix of each consumer's queue, so what it adds to a gap lies
directly behind it. The bytes of adjacent stretches add up, which makes merged gaps
exact. `PhaseOK` ties the fields to where the goroutine stands and says that a
consumer is active exactly until it fails or the buffer is closed.

Block policy and wake-ups. `BlockLosesNothing` is inductive together with these
invariants. For `SleepersHaveReason` a sleeper is shown to stand at its own wait
loop (`SleepInv`). The overflow in `writeChunk` drops nodes without a broadcast:
no consumer needs one, since a consumer asleep has no node to lose, and the pump
itself is awake. `WakeUpCorrect` covers the wake-ups of `buffer.cond`; that a
writer parked on the budget is woken is part of `WriteReturns`, which is model-checked.

Refinement. The view of a consumer is a function of its hand and its label
(`ViewIn`); a step that leaves all hands alone leaves all views alone
(`HandsKept`, `ViewsKept`). So the pump, the evictions, `Close` and the releases
map to `Write`, `Seal`, `CutOff` or a stutter. The steps of the consumers map to
`Hand`, `Account`, `Fail` and `Leave`, where `StreamInv` supplies the guards: the
batch starts behind the position, the gap has the weight of its run, a drained
consumer of a sealed buffer has reached the last number.

Liveness (`FlushReturns`, `CloseDrains`, `WriteReturns`) is model-checked only.

## 4. Relay reservations

### 4.1 Module and code

A step of the Edge is one journal transaction with the memory change and the
send that follow it, so that a crash may fall between any two. A step of the
Controller is one database transaction.

| Model | Code |
| --- | --- |
| `row`, `usage`, `expired`, `entitled` | `relay_reservations`, `usage_periods`, `authorized_until` against the clock, the result of `effectiveRelayPolicy` |
| `record` | the bbolt journal: its stages, the sequence number of the grant, the pending renewal, the settlement |
| `group`, `moved` | `data.relayGroups`, and (history variable) the bytes really relayed |
| `op` | the operation that holds `relayOperationLock` of a reservation and where it stands |
| `client` | the gateway session that asked |
| `replay` | `startRelayReplay` and `replayRelayJournal`: passes run one after the other, each over a list read at its start |
| `link`, `toController`, `toEdge` | the control stream, FIFO each way, emptied when it breaks |
| `ReserveRelayAt`, `RenewRelayAt`, `SettleRelayAt`, `QueryRelayAt` | the transactions of `usage_store.go`, with the lazy recovery of expired rows |
| `RequestRelay`, `RenewRelay`, `CloseRelaySession`, `ReplayRecord` and the steps `Register` ... `AcceptAck` | the operations of `server.go` and their continuations |
| `Timeout`, `MarkExposedFails`, `DrainFails`, `LinkBreak`, `Crash`, `Expire`, `Lapse` | what may go wrong |
| `Micro` (external) | a `timestamptz` column keeps microseconds of the nanoseconds the Edge stamps |

Abstractions: ingress and egress are one count; identities and digests never
change and their checks always succeed; there is one account, one Edge and one
usage period. `relayOperationLock` is a stripe of mutexes chosen by a hash:
two reservations may share one, which only removes interleavings that the model
has. Bytes may pass until the group is drained, also after the Edge's own clock
has passed the authorization: more than the code allows.

### 4.2 Runs

| Run | Instance | Shows |
| --- | --- | --- |
| `relay_accounting`, first initial state | one reservation, after another one was settled, two renewals, two errors, a break, a crash, expiry, loss of the entitlement | types (no counter of the period below zero), `ChargedExactly`, `TrafficIsJournaled`, `HoldIsJournaled`, `RenewalInStep`, `UsageBalanced` |
| `relay_accounting`, second initial state | two reservations of hold 2 against a quota of 3, an error, a break, a crash, expiry of both | the same properties, of which `UsageBalanced` is the point |
| `relay_drains` | two admitted reservations, a break and a crash | `JournalDrains` |
| `relay_lost_ack` | one reservation, a time stamp between two microseconds, a break | violated: finding 1 |
| `relay_stale_rejection` | two reservations, concurrency 1, four timeouts | violated: finding 2 |

Bounds. Two bytes per session tell uncharged, partly and fully charged apart. With a hold of 2
and a quota of 3 the second reservation is admitted only when the first was
settled for at most one byte, and is rejected while the first is held or when it
was charged in full. Two renewals let the answer of
one reach the waiter of the next. One crash and one break reach every pair of
a durable stage and a row state; `MaxPasses` bounds replay passes that wait.

`MCRelay` has both as initial states; the second one has most of the bounds on
faults (`faults`) used up.

What the passing runs do not say: `HoldIsJournaled` holds with the errors of
`relay_accounting`; it fails when four calls time out while two reservations
compete for one place (finding 2). In `relay_drains`
nothing is rejected, expires or times out, and the clock is as coarse as the
database's: `JournalDrains` fails with finding 1, and also with
`MaxConcurrency = 1`, because a replayed request that is rejected for lack of
entitlement ends the pass (`cloud/edge/runtime/server.go:1315`) and later records
wait for the next session of the stream; the model lets a rejection be of that
kind or not. A break empties the stream in both directions: a request that the
Controller has already received on the old stream and commits after the query of
the next session is not modelled.

Fairness: the Controller answers, answers are read, replay passes and
operations run, and `runControllerLink` reconnects. Clients owe nothing, and
breaks, crashes and errors are bounded by the constants.

### 4.3 Theorems

`RelayReservationsProofs` proves for all reservations, holds, quotas and bounds
on faults: `RelayTypes` (`TypeOK`: no column of the usage period falls below
zero), `ExactSettlements` (`ChargedExactly`), `JournalBeforeTraffic`
(`TrafficIsJournaled`), `UsageAgrees` (`UsageBalanced`) and `RenewalsInStep`
(`RenewalInStep`); under a hypothesis, as it is false in general (finding 2),
`HoldsJournaled` and `HoldsWithoutTimeouts` (`HoldIsJournaled`).

None of them is inductive alone: what the Edge may do next depends on where its
operation stands, on the durable stage of the record, and on answers that are
still in the stream. `RelayInv` adds

- `OpsInStep`: an operation that is past its journal transaction finds the stage
  which that transaction wrote, since `relayOperationLock` keeps every other
  operation of the reservation out;
- `GroupsInStep`: the traffic group of a reservation follows the stage of its
  record, and bytes have moved only in a stage that says so;
- `SettlementsFinal`: an exact settlement, wherever it is (journal, stream
  to the Controller, row), states the bytes that moved, and the
  group it was taken from carries no more traffic (`Static`);
- `SequencesBounded`, `FactsInStep`: sequence numbers come from renewals that
  have happened; only a settled row has a settlement.

`UsageBalanced` compares two columns with sums over the rows; its proof writes
the sums as cardinalities of sets of bytes, and one lemma per transaction of
`usage_store.go` says how such a set changes, the lazy recovery of several
expired rows included.

`RenewalInStep` is proved on top of `RelayInv`, by a second inductive invariant.
`NumbersInStep` says which numbers a record has at each stage, that the row is
between the number the journal has applied and the largest it has given out
(`Top`), that no renewal under way asks for more than `Top`, and that an answer
that grants something carries a number its row has reached. The last two are
what makes late and repeated messages harmless: an old renewal cannot advance
the row, and the journal applies only a number that the row already has. They
are claimed only for a reservation whose record exists or is yet to be made;
what the row does after the record is deleted no longer concerns the Edge.
Every step of the Edge is shown to do one of five things to a record
(`Renumbers`), every transaction of the Controller to advance at most one row by
one (`Advances`).

`HoldsJournaled` says that finding 2 is the only way to lose a hold. Its
hypothesis `RejectionsTrue` is about the moment at which an operation that waits
for `reserve` takes a rejection: the Controller does not hold the reservation,
and no other copy of the request is under way that could make it do so. Then
`HoldIsJournaled` holds for all constants, through timeouts, late and lost
answers, breaks, crashes, expiry and replays. The hypothesis holds in every
state of `relay_accounting`, with its timeouts, and fails in
`relay_stale_rejection`. The inductive invariant is `HoldsInStep`: a record that
is gone belongs to a row that is settled, or is unknown and not asked for; an
operation at `ack`, `revoke` or `ack_renew` and an answer in transit that ends a
reservation belong to a settled row. Every step of the Edge keeps the record or
has one of these reasons to delete it (`KeepsHold`); every transaction leaves
settled rows settled, makes a row known only on a `reserve`, and answers with
what is true at that moment (`Decides`).

`HoldsWithoutTimeouts` discharges the hypothesis where no call times out
(`NoTimeout`, on the steps): each message in transit then belongs to an operation
that waits for it, with at most one message for each operation (`InTurn`), and so a
rejection cannot be overtaken by a second copy of its request. Breaks and
crashes do not disturb this, since the stream is emptied with them. A lost hold
therefore needs a call whose context has run out while its request or
its answer was under way.

## 5. Parts of the daemon

Run `daemon_parts` (`MCDaemon`, `Daemon.cfg`) checks five modules that share no
variable. `focus` is chosen in the initial state and says which of them takes
the steps, so the state space is the sum of theirs and not the product, and the
properties of all five are invariants of one specification. Section 3 has the
output buffers. `CHECK_DEADLOCK FALSE` here and in section 6: terminals end,
files are closed, and clients leave. The lifecycle has two instances, `terminal`
and `poll`, with different bounds.

### 5.1 Terminal lifecycle

`TerminalLifecycle` is one terminal: `core/terminal.go`, the terminal
operations of `core/server.go`, `core/registry.go`, `core/events.go`.

| Model | Code |
| --- | --- |
| `info`, `process`, `registry`, `handle` | `terminal.info`, `terminal.process`, the registry's copy, `server.terminals` |
| `unread`, `buffer`, `consumer` | the output buffer of each process, as far as its live consumer sees it (`TerminalOutputBuffer` has the rest) |
| `raw` | the raw broadcaster and the process it belongs to |
| `exit` | the `watchExit` goroutine of each process |
| `op` | rename, restart and remove, which hold `lifecycleMu`, one at a time |
| `resize`, `historyMu`, `liveMu` | `Terminal.Resize`, which takes no lifecycle lock, and the two mutexes that are held across steps |
| `poll`, `mailbox` | a client that waits for the next revision, and its bounded channel of events |

A thread's locals hold what it has cloned in one critical section and uses in a
later one. The text of markers, input, signals and resource usage are left out;
creation is the initial state (`RegisterTerminal` has returned).

Properties. `PollNotForgotten`: a sleeping poll that has missed a revision will
still be woken, though threads publish after unlocking and the channel drops.
`OldOutputFenced`: output of a process reaches the screen only while that
process is the terminal's; only the wait for the old consumer in
`abortOutputBuffer` guarantees it. `RawFollowsTerminal`: when nothing is in
progress the raw stream is that of the process and open exactly while it runs.
`RegistryIsTruth` is violated (finding 3).

`registry.replace` refuses a clone whose name another terminal has taken in the
meantime; it can do so only while the name of the clone is no longer the one the
registry has (`SyncInfo`).

Bounds. Two processes (one restart). With focus `terminal` one chunk, one resize
and two names, and no poll; the terminal is renamed (`Renaming`) under its first
process only, as no property of the run looks at names. With focus `poll` three
chunks, one poll and a channel of 5 events, and neither resizes nor renames: there
are six events, so the channel does fill and drop. `PollNotForgotten` needs a channel that is larger
than the number of old events that threads may still announce; with 4 or fewer
an event is dropped that nothing replaces (the default of the code is 64).

Theorems. `TerminalLifecycleProofs` proves `LifecycleTypes`, `NoOldOutput`
(`OldOutputFenced`) and `RawStreamFollows` (`RawFollowsTerminal`) for all numbers of processes,
chunks, resizes and polls. `LifecycleInv` adds which consumers may
still run while a newer process is being installed (`ConsumersFenced`), what an
exit thread has seen when it is past the test of `markExited` (`ExitsInStep`),
who holds `historyMu` (`HistoryHeld`), what removal has ended (`RemovedInStep`)
and the broadcaster at each step of a restart (`RawInStep`).
`PollIsWoken` (`PollNotForgotten`) is proved for every channel of at least five
events (`RoomForAll`). `FewOldEvents` is the argument: events in the channel
that announce nothing new, together with the threads that have yet to publish
one, are at most four: live output, exit, restart and one resize. So a channel
that drops an event holds one that wakes the poll. The five is tight (TLC finds
a lost wake-up with four), and the default of the server is 64
(`core/server.go:223`), which `WithEventBuffer` may change. The model has one
resize at a time; each concurrent one more would take one place more. Revisions
are natural numbers in the theorems.

### 5.2 History file

`HistoryFile` is `core/history/linehist/compressed_file.go` with the retention
epoch of `engine.go` and `store.go`. Calls run one at a time under the engine's
mutex; a call is broken into the steps between which the process or the machine
may stop, and after which a system call may fail.

| Model | Code |
| --- | --- |
| `disk`, `tail`, `durable`, `older`, `temp` | the file as a sequence of whole records and the part of a record behind them; how many records a power failure cannot take; the files that the path would name again if renames not yet synced were lost; the temporary file of a compaction |
| `fileState`, `index`, `unflushed`, `epoch` | `f.file`, the index in memory, `f.pending`, `f.retentionEpoch` |
| `AppendLines` ... `CloseFile` | the entry points; each starts with the flush the code starts with |
| `FlushPending`, `AppendRecord`, `SyncFile`, `Shut` | what they go on with; `Proceed` is the return of a flush or a retention check to the call that made it |
| `WriteFails`, `RollbackPartialRecord` | a write that fails after some bytes, and its rollback, which may fail too |
| `EnforceLimit`, `WriteTemp`, `CloseOld`, `RenameTemp`, `Reopen`, `SyncDirectory` | retention and compaction |
| `Recovery`, `Recovered`, `Unreadable` | the loop of `recover`, and the tail whose header it cannot parse (line 517) |
| `ProcessStops`, `PowerFails` | the process stops, also within the write of a record; the machine stops, and everything not synced may be gone from some byte on, renames included |
| `OpenFile`, `OpenRefused` | `OpenCompressedLineFile`, with recovery, and its error |
| `overdue`, `unrolled`, `shifted`, `acked`, `secured` | history: a failed call, a failed rollback, a compaction without its epoch, what `Sync` has acknowledged, and what it has acknowledged with all renames synced |
| `SizeStart`, `Compacted`, `Reindexed` | what retention keeps, the file `rewriteBlocks` writes, the index it builds beside it |
| `Freeze` | a reader that keeps line numbers and the epoch |

Lines have absolute numbers, which the code does not have (ghost fields `base`
and `from`); contents, encoding and compression are left out. A header has one
unit of size, so a header written in part is no tail at all, which is how recovery
treats it. A tail that begins with a header is cut off, because its record ends
behind the file. A tail is `junk` when a shorter record has been written over
what a failed rollback has left: there recovery finds a header where none is.
`Seek` in `rollbackPartialRecord` is taken to succeed. Not modelled: file systems
that leave zeros where unsynced bytes were, and the directory entry of a file that
has just been created.

Properties. `RecoveryAccepts`: recovery accepts what a stop of the process or the
machine leaves, at every moment, unless a rollback has failed. `IndexMatchesFile`:
between two calls recovery would read what the index says. `LinesInPlace`: every
line and every gap marker is where it belongs. `WithinLimit`: a call that has
enforced the limit leaves the file within it. `SyncedLinesSurvive` and
`FrozenUnlessShifted` say how far `Sync` and the epoch can be relied on: `Sync`
protects what it acknowledges if the last rename has been synced, and a frozen
view is right unless a compaction has failed at its directory sync. Without the
second condition it is violated (`FrozenReadsSameLines`, finding 6); without the
first, `Sync` is less than it says (section 8).

Bounds. Four calls and two crashes: two appends that fill a block, a call that
compacts and one that meets what compaction, a rollback or recovery has left. A
limit of 5 with blocks of 2 or 3 is passed by the second block. All eight
system calls may fail, in any combination.

Theorems. `HistoryFileProofs` proves the six properties of the run for every set
of line sizes, every limit and block size, any number of calls and crashes and
every set of failing system calls, with no further hypothesis: `RecoveryCorrect`
(`RecoveryAccepts`), `IndexCorrect` (`IndexMatchesFile`), `LinesCorrect`
(`LinesInPlace`), `LimitCorrect` (`WithinLimit`), `FrozenCorrect`
(`FrozenUnlessShifted`) and `SyncedCorrect` (`SyncedLinesSurvive`).

None of the properties is inductive. `IndexMatchesFile` speaks of the moments
between calls, and says nothing of the temporary file, of the files that lost
renames bring back, or of a file that a crash cuts off behind some record. The
theorem `HistoryInvariant` adds:

- `FilesWhole`: each of these files, cut off behind any of its records, is
  accepted by recovery, with every check it makes of a record (`Valid`), and the
  index recovery builds of it is sound: the blocks are not empty and follow each
  other, gaps are in order, and every record stands at the line it was written
  for.
- `IndexInStep`: the index is what recovery would read from the file that is
  open; while a compaction is under way, the temporary file (later the file that
  has replaced the old one) reads as `Reindexed(index, call.start)`, although the
  index in memory is still the old one. A call that stops in between, by a
  failure or a crash, leaves one or the other pair.
- `PendingInStep`: a line that waits in `f.pending` has at least a byte, so that
  no flush writes the empty block that recovery would refuse.
- `TailInStep`: while the file is open only a failed rollback has left bytes behind
  its records, and only over such bytes is a record written that does not cover
  them; a tail that recovery cannot read therefore goes back to a failed rollback.
- `LimitInStep`: the limit is kept but by a call that is still checking it, and
  the file a compaction is about to publish fits.

Two facts about operators carry it. `CompactedWhole`: recovery of the file that
`rewriteBlocks` writes gives the index that it builds beside it, so that the two
computations of the code agree. `EndIsCost`: the end of that file is what the
loop of `enforceLimit` has counted for the blocks it keeps, with their gap
markers; therefore it fits. `FrozenInStep` and `SyncedInStep` carry the last two
theorems: but for a failed directory sync, only between the new index and the
directory sync may a view of the present epoch be wrong; what `Sync` has secured
lies in the durable part of the file and in every file that an unsynced rename may
bring back.

The loops (`Recovery`, `CostOfNewest`, `GapsAfter`, `MovedBlocks`) are recursive
functions. What they return is proved by induction on the number of turns, stated
about a set of numbers (`Induction`, from the least element of a set), as the
provers cannot instantiate the library's theorems with a predicate.

### 5.3 Live screen baselines

`LiveBaselines` is `core/protocol_live_screen_baseline.go` and the request that
uses it, `ApplicationLiveScreenNext`. `confirmed` and `offered` are the two
halves of the cache, `request` is where each request stands and whether it has
pinned a baseline, `timer` is the expiry timer; a session ends in two steps, as
`requests.Wait()` lies between them. The rows of a screen are data: a
baseline has a revision and a size. Other sessions are the bytes they hold of
the server's limit; they may take what an offer has given back before it reserves
again, so an offer may be refused that would have fitted. A request that was
admitted before the session ends may acquire its baseline after that, until
`requests.Wait()` returns.

Properties. `BytesExact`, `PinsMatchRequests`, `TimerIsSet`.

Bounds. Two requests on two terminals reach a pinned baseline with a newer offer
behind it; limits of 3 (session), 4 (server) and 1 (entries) each refuse
something that the other two admit.

Theorems. `LiveBaselinesProofs` proves `BaselineBytesExact`, `BaselinePins` and
`BaselineTimer` for all terminals, requests, sizes and limits. `BaselineInv`
adds that sizes are within the limits (`Bounded`) and that a session which is
being torn down has no request left that could put a baseline back (`Served`:
`requests.Wait()` lies between the two steps). The bytes of the cache are a
set with one element per byte (`CachedBytes`), so that dropping, replacing and
merging a half are facts about cardinalities.

### 5.4 Resource streams

`ResourceStreams` is one resource channel from end to end.

| Model | Code |
| --- | --- |
| `download`, `SendData`, `TakeAck`, `SendFinish`, `ReleaseFileTransfer`, `ReceiveAck`, `ReceiveCancel` | `core/file_transfer.go` |
| `published`, `rawOpen`, `forwarder`, `rawStream`, `PublishRaw` ... `ClearRaw` | `core/raw_pty_stream.go`, `core/raw_pty_protocol.go` |
| `toDaemon`, `toClient` | the connection: reliable and in order, as the transports are |
| `current`, `retired`, `early`, `opener`, `stream`, `ClientReads` ... `SendEarly` | the read loop and the streams of `internal/protocol/client.go` |
| `user`, `StartStream` ... `StopStream` | `client/adapter/protocol/application_client.go`; `cmd/anytty/file_command.go` and `clients/ui/src/files/fileApi.ts` differ in `AckWhen` |

Abstractions: a chunk is one unit of payload, so the limits on frames and on
bytes of a stream are one limit. The connection stays up. The first opening is
that of `bindApplicationAttachment`, the second that of `Stream`, after the user
has left. What the user's goroutine does between two frames is one step with the
frame it takes, as nobody else looks at its locals. `client.reused` keeps the
frames of a left channel for a reopening of the same channel, which the daemon
never offers; its limits are left out. The file stays readable and does not change
during the download (`hashFile` and `Read` succeed until the file is closed). A
cancellation is handled in the order in which it is read, as by the read loop; in
the code a request goroutine handles it, which only delays it. Frames that a
stream drops after it has told the user of a loss, or has ended, are not counted by
the ghost of `SyncLostExact`, as the user no longer reads.

Properties. `WindowHeld`: the daemon is never further ahead of the
acknowledgements than its window. `RetainedExact`: places of a stream are given
back once, through overflow, errors and closing. `SyncLostExact`: output a
living stream drops is counted and reported. `DataInOrder` and
`AckAccepted` are violated (findings 4 and 5).

Bounds. Five chunks are two windows of 2 and a rest, so credit is renewed twice;
two raw chunks against a subscriber queue of 1 and a client queue of 2 overflow
on both sides; two openings let an old forwarder meet a new stream.

Theorems. `ResourceStreamsProofs` proves `WindowIsHeld`, `PlacesReturned`
(`RetainedExact`) and `LossesCounted` (`SyncLostExact`) for all windows, queue
lengths, numbers of chunks and openings and both habits of acknowledging.
`WindowHeld` needs `AcksInOrder`: the credit that an acknowledgement in transit
or in the daemon's one-place channel grants starts where that of the one
before it ends, and the last one ends at what the user has acknowledged. The
other two are invariants of one stream (`StreamKept`), proved once for each
operation on a stream and then for each action that calls it. `Count` is a
cardinality of positions and not the length of a filtered sequence, whose
properties need induction. The lost count of the code stays at 2^32 - 1 when it
gets there; the one of the model goes on.

## 6. Client sessions

### 6.1 Module and code

`SessionOwner` is `client/runtime/session_owner.go` and `planned_session.go`,
for one endpoint (endpoints share only the `closed` flag of an owner).

| Model | Code |
| --- | --- |
| `generation`, `authCurrent` | `SessionGenerationAuthority`, shared by the owners of a process |
| `current`, `config`, `closed`, `shared` | the fields of an owner |
| `acquireLocks`, `refs`, `entry`, `token` | the acquire entry of the endpoint in each owner, its reference count, the entry a call refers to, and who has the token of each entry (a channel of capacity one) |
| `Refer`, `TakeToken`, `StopWaiting`, `Return`, `Release` | `acquireEndpoint` and the function it returns: an entry is found or created and counted; the token is received, or the call gives up; the token is given back in one step and the reference in a later one |
| `session`, `watched` | the life of each dialled session, named by generation and route, and its `removeWhenDone` goroutine |
| `caller` | the call in progress: taking the token, reuse, new generation, retiring the old session, racing the dials, adopting the winner, publishing it, filing the key |
| `lease`, `cleanup`, `closing` | the caller's lease; what a caller, and what any other goroutine, has taken under the lock and ends after it |
| `madeFor` | history: the key a session was dialled for |
| `DialEnds`, `DialFails`, `CloseLate`, `SessionDies` | the connector and the peer |
| `Disconnect`, `CloseOwner`, `FinishCleanup`, `CloseLease`, `LeaseFollows` | the ends |

Left out: sticky routes and selections (they choose the order of routes),
endpoint events and watchers. A caller's token returns to the channel in the same
step as the last critical section of its call; nothing the model has lies between.

### 6.2 Runs

`client_sessions` has two owners on one authority, as when a host is replaced,
the old one being closed; one caller acquires shared leases and another ensures,
connects without a key or pairs, over two routes and two generations.
`NoLeakedSession`, `AuthorityHasOwner`, `ReuseSameKey` and `OneCallConnects` hold,
and under fairness `LeasesEnd` and `WaitersServed`, that a call which waits for the
token gets it or finds its owner closed. `MCSessionOwner` has two instances: all
entry points with plans of one route (focus `calls`), and plans that race both
routes, next to acquisitions by route and pairing (focus `race`); all of them at
once would be ten times as many states, too many for liveness, and the theorems
cover the safety properties there. Routes are interchangeable, so one of them
stands for every plan with a single route. A race needs two dials, hence two
routes; a late dial and a stale key need one newer generation, hence two. The last
generation is also where the counter is exhausted. Two callers suffice for an
entry that is created, shared, deleted and created again; with one waiter more the
reference count only gets larger, which the theorems cover.

Fairness: goroutines run, a connector answers or fails (the adapters use
deadlines), and a waiting receiver of the token channel is served, which Go's
channels do in order. A call that has given its token back also gives up its
reference, and some goroutine of an owner that has taken leases or a session ends
them. Nobody has to start, disconnect or close anything, and
peers need not fail.

### 6.3 Theorems

`SessionOwnerProofs` proves `SessionTypes`, `NothingLeaks` (`NoLeakedSession`),
`PublishedHasOwner` (`AuthorityHasOwner`), `OneConnects` (`OneCallConnects`) and
`EntriesInUse` (`EntryInUse`) for all owners, callers, routes, keys and
generations.
`SessionInv` adds what a call may rely on at each of its steps, though it
holds no lock between them (`CallersInStep`), that calls in progress
have drawn different generations (`GenerationsOwned`), which sessions
exist and are dialled at each stage of their race (`SessionsInStep`), and how
entries, references and tokens belong together (`LocksInStep`). The last is the
argument for the lock: the count of an entry is the number of calls that refer to
it, so the entry is deleted exactly by the last of them, every call of an owner
refers to the same entry, and the one token of that entry is with the one call
that is inside. `ReusedForItsKey`
(`ReuseSameKey`) needs more: between publishing a session and filing its key the
owner's key is that of an older session, and only the token keeps other calls
from reading it. So the theorem has the hypothesis `NoDirectConnect`, no call of the
exported `ConnectRoute` from outside, which takes no token; in the repository
only tests make such a call.

## 7. Findings

1. `cloud/controller/postgres/usage_store.go:668` (run `relay_lost_ack`). The
   replay of an exact settlement whose acknowledgement was lost is compared
   with a time stamp that the database has truncated, and is answered CONFLICT;
   the record stays in the journal and stops every replay pass.
2. `cloud/edge/controllerlink/link.go:351` (run `relay_stale_rejection`).
   Answers are matched to callers by kind and reservation. After timeouts a
   rejection of an earlier copy of a request is taken for the current one, and
   the journal forgets a request that the Controller admits next. The hold is
   charged in full when it expires.
3. `core/terminal.go:1044` (run `terminal_registry`). `markExited` and `Resize`
   clone the info under `terminal.mu` and give the clone to the registry after
   unlocking, without `lifecycleMu`. A restart in between is overwritten, and
   the registry says exited of a terminal that runs, until the next change.
4. `internal/protocol/client.go:616` (run `download_order`). Frames that arrived
   before the stream existed are sent to it after `c.mu` was released; the read
   loop may pass a newer frame on first. A download starts sending before its
   answer is out, so early frames are normal, and the user fails on the offset.
5. `core/file_transfer.go:291` (run `download_ack`). The daemon keeps one
   acknowledgement and wants it to cover the window; the command line
   acknowledges each chunk, and its downloads beyond one window are refused.
6. `core/history/linehist/compressed_file.go:747` (run `history_frozen`). When the
   directory sync of a compaction fails, the error returns before
   `retentionEpoch` is raised, but the lines have moved already: a reader with a
   frozen range is let through and given other lines, which the comment on
   `LinesAtRetention` (`engine.go:180`) rules out.

## 8. Observations without a run

Seen while translating, outside the runs that are kept:

- `core/terminal_output_buffer.go:139`: `reserve` reads `acceptingOutput` before
  it takes `budget.mu`. If `Close` broadcasts in between, the writer of a closed
  buffer sleeps until another buffer releases bytes
  (`docs/TERMINAL_DELIVERY.md:26` wants Close to wake waiters). `CloseDrains`
  holds because the other buffer makes progress.
- `core/history/linehist/compressed_file.go:411`: `Sync` does not sync the
  directory. After a compaction that stopped between its rename and its directory
  sync, by a crash or an error, lines are appended to the new file and synced; a
  loss of power may undo the rename and take them, though `Sync` is to be a
  durability fence (`store.go:287`). `SyncedLinesSurvive` leaves out the lines that
  were synced under such a rename. File systems that commit a pending rename with
  an fsync of the renamed file do not show this.
- `core/history/linehist/compressed_file.go:404`: `Sync` returns nil, and
  `VisitLines` (321) visits nothing, when the file handle is gone;
  `rollbackPartialRecord` ignores its errors (804), and a shorter record written
  over what is left makes the file unreadable to recovery (the exception in
  `RecoveryAccepts`); a crash leaves temporary files of compactions behind.
- `core/server.go:849`: a poll that looks the terminal up before its removal and
  subscribes after it waits until its own context ends. `core/server.go:484`:
  when the spawn fails the history store stays open. The exit marker of an old
  process may be written to the screen of the next.
- `internal/protocol/client.go:995`: frames of channels that were left stay in
  `client.reused`, as channels are not used twice
  (`core/protocol_service.go:1267`); at 64 channels or 8 MiB the connection is
  given up. Line 718: a waiter registered after `failAll` waits for its context.
  When an attachment is reopened, frames of the old forwarder may precede or
  follow the new Ready.
- `core/file_transfer.go:248`: an upload is attached to a session in one critical
  section and registered in a later one; a second takeover in between finds
  nothing to close.
- `client/runtime`: the exported `ConnectRoute` takes no token, `Disconnect`
  keeps the configuration key (harmless: the session it belongs to is gone), and
  a Ready event may follow an Offline one (`planned_session.go:330`).

## 9. Mutants

Every property of a passing run comes with a mutant: an operator next to the
definition it replaces, with the change a plausible bug would make (a missing
broadcast, an off-by-one in a limit, a transaction moved behind the step it
must precede, a key that outlives its session), under which TLC finds the
property violated. Mutants live in the module of their component; the runs of
`MCOutput`, `MCDaemon`, `MCRelay` and `MCSessionOwner` use them through it.

## 10. Not modelled

The components with status `not_modelled` in `PROJECT.json`, each with its
reason. Most of the repository's lines are generated protocol code, the terminal
emulator, user interfaces, and handlers that are a single database transaction:
sequential or I/O, with no state of several actors. Of the modelled parts: the
graceful shutdown of the Edge, the limit of its journal, allocations per session
and the rate limiter's timing; statistics of the output buffer; input, signals
and resource usage of terminals; the history store in memory; uploads; requests
and events of the protocol client; loss of the connection while a stream is
open; sticky routes and endpoint events.

## 11. What is proved and what is only model-checked

| Component | Proved for all constants | Model-checked only |
| --- | --- | --- |
| Output buffer | `TypeOK`, `CapacityHeld`, `BudgetExact`, `StreamContiguous`, `GapBytesExact`, `BlockLosesNothing`, `SleepersHaveReason`, the refinement of `OutputStream` | |
| Relay | `TypeOK`, `ChargedExactly`, `TrafficIsJournaled`, `UsageBalanced`, `RenewalInStep`; `HoldIsJournaled` as long as rejections are true when they are taken, in particular when no call times out | |
| Terminal lifecycle | `LifecycleTypeOK`, `OldOutputFenced`, `RawFollowsTerminal`; `PollNotForgotten` with five places | |
| History file | `RecoveryAccepts`, `IndexMatchesFile`, `LinesInPlace`, `WithinLimit`, `FrozenUnlessShifted`, `SyncedLinesSurvive` | |
| Baselines | `BytesExact`, `PinsMatchRequests`, `TimerIsSet` | |
| Resource streams | `WindowHeld`, `RetainedExact`, `SyncLostExact` | |
| Client sessions | `TypeOK`, `NoLeakedSession`, `AuthorityHasOwner`, `OneCallConnects`, `EntryInUse`; `ReuseSameKey` without direct connects | |

Liveness (`FlushReturns`, `CloseDrains`, `WriteReturns`, `JournalDrains`,
`LeasesEnd`, `WaitersServed`) stays with TLC, as its proof needs `ENABLED`. The proofs assume no
more than the named assumptions of the modules, the hypotheses in the table,
and that a step is a critical section as the sections above describe.
