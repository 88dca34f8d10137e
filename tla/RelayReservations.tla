-------------------------- MODULE RelayReservations --------------------------
(***************************************************************************)
(* Commercial accounting of Relay traffic between an Edge and the          *)
(* Controller: cloud/edge/reservation/journal.go (the durable journal),    *)
(* cloud/edge/runtime/server.go and relay_state.go (the operations that    *)
(* use it), cloud/edge/controllerlink/link.go (request and answer over the *)
(* control stream) and cloud/controller/postgres/usage_store.go (the rows  *)
(* and the usage period of the account).                                   *)
(*                                                                         *)
(* A step of the Edge is one journal transaction with the memory and the   *)
(* send that go with it, so a crash may fall between any two of them.  The *)
(* lock of a reservation (relayOperationLock) lets one operation at a time *)
(* run on it.  A step of the Controller is one database transaction.  The  *)
(* control stream is FIFO both ways; when it breaks, what is in transit is *)
(* lost, and an answer that finds no waiter is dropped.                    *)
(*                                                                         *)
(* Ingress and egress are one byte count.  Identities and digests of a     *)
(* reservation never change, so checks of them always succeed.             *)
(***************************************************************************)
EXTENDS Integers, Sequences, FiniteSets

CONSTANTS
    Reservations,   \* reservation IDs, numbered in the key order of the journal
    Hold,           \* maxBytesPerSession, the bytes one reservation holds
    Quota,          \* quota_bytes of the usage period
    MaxConcurrency, \* relay_max_concurrency of the plan
    ObservedTimes,  \* the clock readings an Edge may stamp on a settlement
    NanosPerMicro,  \* clock ticks in one unit of a database timestamp
    Expiring,       \* the reservations whose authorization may run out
    MaxLapses,      \* bound: losses of the entitlement
    MaxRenew,       \* bound: renewals
    MaxErrors,      \* bound: calls that time out or fail at the Edge
    MaxBreaks,      \* bound: breaks of the control stream
    MaxCrashes,     \* bound: crashes of the Edge
    MaxPasses       \* bound: replay passes waiting for their turn

ASSUME ConstantsAssumption ==
    /\ Reservations \subseteq Nat /\ IsFiniteSet(Reservations)
    /\ Hold \in Nat \ {0} /\ Quota \in Nat /\ MaxConcurrency \in Nat
    /\ ObservedTimes \subseteq Nat /\ NanosPerMicro \in Nat \ {0}
    /\ Expiring \subseteq Reservations /\ MaxLapses \in Nat
    /\ MaxRenew \in Nat /\ MaxErrors \in Nat /\ MaxBreaks \in Nat
    /\ MaxCrashes \in Nat /\ MaxPasses \in Nat \ {0}

VARIABLES
    row,            \* relay_reservations of the Controller
    usage,          \* usage_periods of the Controller
    expired,        \* authorized_until of a row has passed
    entitled,       \* effectiveRelayPolicy finds the account entitled
    record,         \* the journal of the Edge, durable
    group,          \* data.relayGroups, the Edge's memory
    moved,          \* bytes really relayed under a reservation
    client,         \* the ClientGateway session that owns a reservation
    op,             \* the operation that holds the lock of a reservation
    replay,         \* replayRelayJournal: passes wanted, the one running
    link,           \* the control stream: "up" or "down"
    toController,   \* requests in transit, oldest first
    toEdge,         \* answers in transit, oldest first
    faults          \* what has been used of each bound

controllerVars == <<row, usage, expired, entitled>>
trafficVars == <<group, moved>>
vars == <<row, usage, expired, entitled, record, group, moved, client, op, replay,
          link, toController, toEdge, faults>>

-----------------------------------------------------------------------------
(* Data.                                                                   *)

Settlement(kind, bytes, at) == [kind |-> kind, bytes |-> bytes, at |-> at]
NoSettlement == Settlement("none", 0, 0)
NoRow == [state |-> "none", seq |-> 0, fact |-> NoSettlement]
NoRecord == [stage |-> "NONE", seq |-> 0, pending |-> 0, settlement |-> NoSettlement]
NoGroup == [live |-> FALSE, closing |-> FALSE, seq |-> 0, open |-> FALSE,
            carried |-> 0, counted |-> 0]
Idle == [kind |-> "none", pc |-> "idle", fresh |-> FALSE, ack |-> NoSettlement]
NoPass == [wanted |-> 0, running |-> FALSE, todo |-> {}]

Message(kind, r, seq, settlement) ==
    [kind |-> kind, id |-> r, seq |-> seq, settlement |-> settlement]
Answer(kind, r, code, seq, fact) ==
    [kind |-> kind, id |-> r, code |-> code, seq |-> seq, fact |-> fact]

\* An operation that waits stands at the kind of the answer it waits for.
Calls == {"reserve", "query", "renew", "settle"}
Waiting(r) == op[r].pc \in Calls

\* A database timestamp keeps microseconds of the Edge's nanosecond clock.
Micro(at) == at - (at % NanosPerMicro)

-----------------------------------------------------------------------------
(* The Controller: one transaction per event of the control stream.        *)

Total(u) == u.committed + u.recovery + u.held
Due(r) == row[r].state = "held" /\ expired[r]

\* recoverLockedReservation on every reservation of S.
UsageRecovered(S) ==
    [usage EXCEPT !.recovery = @ + Hold * Cardinality(S),
                  !.held = @ - Hold * Cardinality(S)]
RowsRecovered(S) ==
    [r \in Reservations |->
        IF r \in S
        THEN [row[r] EXCEPT !.state = "settled", !.fact = Settlement("recovery", 0, 0)]
        ELSE row[r]]

\* Fault: a settled row is recovered again.
LazilyAgain(r) == IF row[r].state # "none" /\ expired[r] THEN {r} ELSE {}

\* Row r after the lazy recovery that reserve, renew and query begin with.
Lazily(r) == IF Due(r) THEN {r} ELSE {}
Recover(r) ==
    /\ row' = RowsRecovered(Lazily(r))
    /\ usage' = UsageRecovered(Lazily(r))

Reply(m, code, seq, fact) ==
    /\ toController' = Tail(toController)
    /\ toEdge' = Append(toEdge, Answer(m.kind, m.id, code, seq, fact))

\* The grant of a row that is held, its terminal fact when it is settled.
ReplyWithRow(m, seq) ==
    LET now == RowsRecovered(Lazily(m.id))[m.id]
    IN  IF now.state = "settled"
        THEN Reply(m, "TERMINAL", seq, now.fact)
        ELSE Reply(m, "REPLAY", seq, NoSettlement)

\* Fault: held bytes are left out of the quota check.
AdmissibleUnheld ==
    /\ entitled
    /\ Quota - usage.committed - usage.recovery >= Hold
    /\ Cardinality({r \in Reservations : row[r].state = "held" /\ ~expired[r]}) < MaxConcurrency

\* The checks of reserveRelayAt on a new reservation.
Admissible ==
    /\ entitled
    /\ Quota - Total(usage) >= Hold
    /\ Cardinality({r \in Reservations : row[r].state = "held" /\ ~expired[r]}) < MaxConcurrency

\* reserveRelayAt.  A rejection rolls back the recoveries made on the way.
ReserveRelayAt(m) ==
    LET due == {r \in Reservations : Due(r)}
    IN  \/ /\ row[m.id].state # "none"
           /\ Recover(m.id)
           /\ ReplyWithRow(m, row[m.id].seq)
        \/ /\ row[m.id].state = "none" /\ ~Admissible
           /\ Reply(m, "REJECTED", 0, NoSettlement)
           /\ UNCHANGED <<row, usage>>
        \/ /\ row[m.id].state = "none" /\ Admissible
           /\ row' = [RowsRecovered(due) EXCEPT ![m.id].state = "held"]
           /\ usage' = [UsageRecovered(due) EXCEPT !.held = @ + Hold]
           /\ Reply(m, "APPLIED", 0, NoSettlement)

\* renewRelayAt
RenewRelayAt(m) ==
    LET r == m.id
        next == row[r].state = "held" /\ ~expired[r] /\ m.seq = row[r].seq + 1
    IN  \/ /\ row[r].state = "settled" \/ Due(r) \/ (row[r].state = "held" /\ m.seq = row[r].seq)
           /\ Recover(r)
           /\ ReplyWithRow(m, m.seq)
        \/ /\ \/ row[r].state = "none"
              \/ /\ row[r].state = "held" /\ ~expired[r]
                 /\ m.seq < row[r].seq \/ m.seq > row[r].seq + 1
              \/ next /\ ~entitled
           /\ Reply(m, "REJECTED", m.seq, NoSettlement)
           /\ UNCHANGED <<row, usage>>
        \/ /\ next /\ entitled
           /\ row' = [row EXCEPT ![r].seq = m.seq]
           /\ Reply(m, "APPLIED", m.seq, NoSettlement)
           /\ UNCHANGED usage

\* terminalSettlementResponse: only an equal exact settlement is a replay.
TerminalCode(fact, s) ==
    CASE fact.kind = "exact" /\ s.kind = "exact" ->
            IF fact.bytes = s.bytes /\ fact.at = s.at THEN "REPLAY" ELSE "CONFLICT"
      [] OTHER -> "TERMINAL"

\* The bytes a settlement costs the account.
Charge(s) == IF s.kind = "recovery" THEN Hold ELSE s.bytes

\* settleRelayAt.  The acknowledgement of a fresh settlement carries its own
\* clock reading; what the row keeps is the truncated one.
SettleRelayAt(m) ==
    LET r == m.id
        s == m.settlement
    IN  \/ /\ row[r].state = "none"
           /\ Reply(m, "REJECTED", 0, s)
           /\ UNCHANGED <<row, usage>>
        \/ /\ row[r].state = "settled"
           /\ Reply(m, TerminalCode(row[r].fact, s), 0, row[r].fact)
           /\ UNCHANGED <<row, usage>>
        \/ /\ row[r].state = "held"
           /\ row' = [row EXCEPT ![r].state = "settled",
                                 ![r].fact = [s EXCEPT !.at = Micro(s.at)]]
           /\ usage' = [usage EXCEPT
                  !.committed = @ + (IF s.kind = "exact" THEN Charge(s) ELSE 0),
                  !.recovery = @ + (IF s.kind = "recovery" THEN Charge(s) ELSE 0),
                  !.held = @ - Hold]
           /\ Reply(m, "APPLIED", 0, s)

\* queryRelayAt
QueryRelayAt(m) ==
    \/ /\ row[m.id].state = "none"
       /\ Reply(m, "REJECTED", 0, NoSettlement)
       /\ UNCHANGED <<row, usage>>
    \/ /\ row[m.id].state # "none"
       /\ Recover(m.id)
       /\ ReplyWithRow(m, row[m.id].seq)

ControllerStep ==
    /\ toController # << >>
    /\ LET m == Head(toController)
       IN  \/ m.kind = "reserve" /\ ReserveRelayAt(m)
           \/ m.kind = "renew" /\ RenewRelayAt(m)
           \/ m.kind = "settle" /\ SettleRelayAt(m)
           \/ m.kind = "query" /\ QueryRelayAt(m)
    /\ UNCHANGED <<expired, entitled, record, trafficVars, client, op, replay, link, faults>>

\* The authorization of a held row runs out; a renewal cannot revive it.
Expire(r) ==
    /\ r \in Expiring /\ row[r].state = "held" /\ ~expired[r]
    /\ expired' = [expired EXCEPT ![r] = TRUE]
    /\ UNCHANGED <<row, usage, entitled, record, trafficVars, client, op, replay, link,
                   toController, toEdge, faults>>

\* The subscription, plan, daemon or region stops allowing Relay.
Lapse ==
    /\ entitled /\ faults.lapses < MaxLapses
    /\ faults' = [faults EXCEPT !.lapses = @ + 1]
    /\ entitled' = FALSE
    /\ UNCHANGED <<row, usage, expired, record, trafficVars, client, op, replay, link,
                   toController, toEdge>>

-----------------------------------------------------------------------------
(* The journal.                                                            *)

Stage(r, stage) == record' = [record EXCEPT ![r].stage = stage]

\* ApplyGrant
ApplyGrant(r, seq) ==
    record' = [record EXCEPT ![r].stage = "HELD_UNEXPOSED", ![r].seq = seq]

\* PutSettlement
PutSettlement(r, s) ==
    record' = [record EXCEPT ![r].stage = "SETTLEMENT_DURABLE", ![r].settlement = s]

\* DropRequested, and the deletion of a record by Ack.
Delete(r) == record' = [record EXCEPT ![r] = NoRecord]

\* Ack deletes a record when the terminal fact is one it can verify.
AckValid(r, fact) ==
    \/ record[r].stage = "NONE"
    \/ fact.kind = "recovery"
    \/ fact.kind = "exact" /\ record[r].settlement = fact

-----------------------------------------------------------------------------
(* Operations of the Edge, replay passes and how both end.                 *)

Start(r, kind, pc) ==
    op' = [op EXCEPT ![r] = [kind |-> kind, pc |-> pc, fresh |-> link = "up",
                             ack |-> NoSettlement]]
Goto(r, pc) == op' = [op EXCEPT ![r].pc = pc]
Send(m) == toController' = Append(toController, m)

\* startRelayReplay: one more pass of the current control session.
Queued(p) == [p EXCEPT !.wanted = IF @ < MaxPasses THEN @ + 1 ELSE @]

\* What a finished replayRelayRecord leaves of its pass: an error, the end of
\* the session or of the records ends it.
AfterRecord(p, r, goesOn) ==
    IF goesOn /\ p.todo # {r}
    THEN [p EXCEPT !.todo = @ \ {r}]
    ELSE [p EXCEPT !.running = FALSE, !.todo = {}]

\* The operation on r returns, with or without an error; again says that its
\* caller asks for a replay pass.
Finish(r, ok, again) ==
    /\ op' = [op EXCEPT ![r] = Idle]
    /\ client' = [client EXCEPT ![r] =
           CASE op[r].kind = "request" /\ ok -> "granted"
             [] op[r].kind = "request" /\ ~ok -> "refused"
             [] OTHER -> @]
    /\ replay' = CASE op[r].kind = "replay" -> AfterRecord(replay, r, ok /\ op[r].fresh)
                   [] op[r].kind # "replay" /\ again /\ link = "up" -> Queued(replay)
                   [] OTHER -> replay

\* CloseRelaySession asks for a pass whenever it returns an error.
Fail(r) == Finish(r, FALSE, op[r].kind = "close")

-----------------------------------------------------------------------------
(* RequestRelay, RenewRelay and CloseRelaySession, up to their first wait. *)

\* A client session asks for Relay: the request is durable before it is sent.
RequestRelay(r) ==
    /\ client[r] = "new" /\ op[r] = Idle /\ link = "up"
    /\ client' = [client EXCEPT ![r] = "waiting"]
    /\ Stage(r, "REQUESTED")
    /\ Start(r, "request", "reserve")
    /\ Send(Message("reserve", r, 0, NoSettlement))
    /\ UNCHANGED <<controllerVars, trafficVars, replay, link, toEdge, faults>>

\* The session that owns the credential renews it.
RenewRelay(r) ==
    /\ client[r] = "granted" /\ op[r] = Idle /\ link = "up"
    /\ \/ /\ record[r].stage = "RENEW_PENDING"
          /\ Send(Message("renew", r, record[r].pending, NoSettlement))
          /\ UNCHANGED <<record, faults>>
       \/ /\ record[r].stage = "EXPOSED" /\ faults.renewals < MaxRenew
          /\ faults' = [faults EXCEPT !.renewals = @ + 1]
          /\ record' = [record EXCEPT ![r].stage = "RENEW_PENDING",
                                      ![r].pending = record[r].seq + 1]
          /\ Send(Message("renew", r, record[r].seq + 1, NoSettlement))
    /\ Start(r, "renew", "renew")
    /\ UNCHANGED <<controllerVars, trafficVars, client, replay, link, toEdge>>

\* The client session ends, or goes on over a direct path without Relay.
CloseRelaySession(r) ==
    /\ client[r] \in {"granted", "refused", "direct"} /\ op[r] = Idle
    /\ \/ client' = [client EXCEPT ![r] = "gone"]
       \/ client[r] = "granted" /\ client' = [client EXCEPT ![r] = "direct"]
    /\ \/ /\ record[r].stage = "NONE"
          /\ UNCHANGED <<record, op, replay>>
       \/ /\ record[r].stage = "REQUESTED"
          /\ replay' = IF link = "up" THEN Queued(replay) ELSE replay
          /\ UNCHANGED <<record, op>>
       \/ /\ record[r].stage = "SETTLEMENT_DURABLE"
          /\ Start(r, "close", "deliver")
          /\ UNCHANGED <<record, replay>>
       \/ /\ record[r].stage = "HELD_UNEXPOSED"
          /\ \E at \in ObservedTimes : PutSettlement(r, Settlement("exact", 0, at))
          /\ Start(r, "close", "deliver")
          /\ UNCHANGED replay
       \/ /\ record[r].stage \in {"EXPOSED", "RENEW_PENDING", "CLOSING"}
          /\ Stage(r, "CLOSING")
          /\ Start(r, "close", "closing")
          /\ UNCHANGED replay
    /\ UNCHANGED <<controllerVars, trafficVars, link, toController, toEdge, faults>>

-----------------------------------------------------------------------------
(* The replay of the journal.                                              *)

\* replayRelayJournal lists the records; one pass at a time runs.
ReplayStart ==
    /\ replay.wanted > 0 /\ ~replay.running /\ link = "up"
    /\ LET listed == {r \in Reservations : record[r].stage # "NONE"}
       IN  replay' = [wanted |-> replay.wanted - 1, running |-> listed # {}, todo |-> listed]
    /\ UNCHANGED <<controllerVars, record, trafficVars, client, op, link, toController,
                   toEdge, faults>>

\* replayRelayRecord on the next record of the pass, as it is by now.
ReplayRecord(r) ==
    /\ replay.running /\ r \in replay.todo /\ \A s \in replay.todo : r <= s
    /\ op[r] = Idle /\ \A s \in Reservations : op[s].kind # "replay"
    /\ \/ /\ \/ record[r].stage = "NONE"
             \/ record[r].stage = "EXPOSED" /\ group[r].live
          /\ replay' = AfterRecord(replay, r, TRUE)
          /\ UNCHANGED <<record, op, toController>>
       \/ /\ record[r].stage = "REQUESTED"
          /\ Start(r, "replay", "query")
          /\ Send(Message("query", r, 0, NoSettlement))
          /\ UNCHANGED <<record, replay>>
       \/ /\ record[r].stage = "HELD_UNEXPOSED"
          /\ Start(r, "replay", "unexposed")
          /\ UNCHANGED <<record, replay, toController>>
       \/ /\ record[r].stage = "RENEW_PENDING" /\ group[r].live
          /\ Start(r, "replay", "renew")
          /\ Send(Message("renew", r, record[r].pending, NoSettlement))
          /\ UNCHANGED <<record, replay>>
       \/ /\ record[r].stage \in {"EXPOSED", "RENEW_PENDING"} /\ ~group[r].live
          /\ \E at \in ObservedTimes : PutSettlement(r, Settlement("recovery", 0, at))
          /\ Start(r, "replay", "deliver")
          /\ UNCHANGED <<replay, toController>>
       \/ /\ record[r].stage = "CLOSING"
          /\ Start(r, "replay", "closing")
          /\ UNCHANGED <<record, replay, toController>>
       \/ /\ record[r].stage = "SETTLEMENT_DURABLE"
          /\ Start(r, "replay", "deliver")
          /\ UNCHANGED <<record, replay, toController>>
    /\ UNCHANGED <<controllerVars, trafficVars, client, link, toEdge, faults>>

-----------------------------------------------------------------------------
(* Operations between two waits.                                           *)

\* RequestRelay: RegisterRelayGrant, which may refuse the grant (the daemon is
\* not active, the grant has expired, the limit of live objects is reached).
Register(r) ==
    /\ op[r].pc = "register"
    /\ \/ /\ group' = [group EXCEPT ![r] = [NoGroup EXCEPT !.live = TRUE, !.seq = record[r].seq]]
          /\ Goto(r, "expose")
       \/ /\ Goto(r, "unexposed")
          /\ UNCHANGED group
    /\ UNCHANGED <<controllerVars, record, moved, client, replay, link, toController,
                   toEdge, faults>>

\* Fault: the credential leaves before the journal says so.
MarkExposedLate(r) ==
    /\ op[r].pc = "expose"
    /\ Finish(r, TRUE, FALSE)
    /\ UNCHANGED <<controllerVars, record, trafficVars, link, toController, toEdge, faults>>

\* MarkExposed is the last durable transition before the credential leaves ...
MarkExposed(r) ==
    /\ op[r].pc = "expose"
    /\ Stage(r, "EXPOSED")
    /\ Finish(r, TRUE, FALSE)
    /\ UNCHANGED <<controllerVars, trafficVars, link, toController, toEdge, faults>>

\* ... and when it fails the group is forgotten.
MarkExposedFails(r) ==
    /\ op[r].pc = "expose" /\ faults.errors < MaxErrors
    /\ faults' = [faults EXCEPT !.errors = @ + 1]
    /\ group' = [group EXCEPT ![r] = NoGroup]
    /\ Goto(r, "unexposed")
    /\ UNCHANGED <<controllerVars, record, moved, client, replay, link, toController, toEdge>>

\* exactZeroSettlement of a reservation whose credential never left the Edge:
\* abandonUnexposed, or the replay of REQUESTED and HELD_UNEXPOSED.
SettleUnexposed(r) ==
    /\ op[r].pc = "unexposed"
    /\ \E at \in ObservedTimes : PutSettlement(r, Settlement("exact", 0, at))
    /\ Goto(r, "deliver")
    /\ UNCHANGED <<controllerVars, trafficVars, client, replay, link, toController, toEdge,
                   faults>>

\* finishClosingRelaySession: without the group the bytes are unknown and the
\* whole hold is charged; with it, BeginRelaySessionClose stops admission.
FinishClosing(r) ==
    /\ op[r].pc = "closing"
    /\ \/ /\ ~group[r].live
          /\ \E at \in ObservedTimes : PutSettlement(r, Settlement("recovery", 0, at))
          /\ Goto(r, "deliver")
          /\ UNCHANGED group
       \/ /\ group[r].live
          /\ group' = [group EXCEPT ![r].closing = TRUE]
          /\ Goto(r, "drain")
          /\ UNCHANGED record
    /\ UNCHANGED <<controllerVars, moved, client, replay, link, toController, toEdge, faults>>

\* The allocation of g is closed and its bytes are added to the group.
Drained(g) == [g EXCEPT !.open = FALSE, !.carried = 0, !.counted = @ + g.carried]

\* Fault: the settlement is taken before the allocations are static.
CountedEarly(g) == g.counted

\* The bytes RelaySessionSettlement reports for a group.
Aggregate(g) == Drained(g).counted

\* CloseSessionAllocations, RelaySessionSettlement and PutSettlement.
Drain(r) ==
    /\ op[r].pc = "drain"
    /\ group' = [group EXCEPT ![r] = Drained(@)]
    /\ \E at \in ObservedTimes : PutSettlement(r, Settlement("exact", Aggregate(group[r]), at))
    /\ Goto(r, "deliver")
    /\ UNCHANGED <<controllerVars, moved, client, replay, link, toController, toEdge, faults>>

\* The reservation was terminal at a renewal: its allocations are closed.
Revoke(r) ==
    /\ op[r].pc = "revoke"
    /\ group' = [group EXCEPT ![r] = NoGroup]
    /\ Goto(r, "ack_renew")
    /\ UNCHANGED <<controllerVars, record, moved, client, replay, link, toController, toEdge,
                   faults>>

\* Closing the allocations fails or times out; the group stays closing.
DrainFails(r) ==
    /\ op[r].pc \in {"drain", "revoke"} /\ faults.errors < MaxErrors
    /\ faults' = [faults EXCEPT !.errors = @ + 1]
    /\ Fail(r)
    /\ UNCHANGED <<controllerVars, record, trafficVars, link, toController, toEdge>>

\* ForgetRelayGroup, then deliverSettlement over the session the operation has.
Deliver(r) ==
    /\ op[r].pc = "deliver"
    /\ group' = [group EXCEPT ![r] = NoGroup]
    /\ \/ /\ op[r].fresh
          /\ Send(Message("settle", r, 0, record[r].settlement))
          /\ Goto(r, "settle")
          /\ UNCHANGED <<client, replay>>
       \/ /\ ~op[r].fresh
          /\ Fail(r)
          /\ UNCHANGED toController
    /\ UNCHANGED <<controllerVars, record, moved, link, toEdge, faults>>

\* Ack of the terminal fact that came with a grant: the record is consumed.  A
\* renewal reports the loss of the reservation as an error.
AckTerminal(r) ==
    /\ op[r].pc \in {"ack", "ack_renew"}
    /\ IF AckValid(r, op[r].ack)
       THEN Delete(r) /\ Finish(r, op[r].kind = "replay" /\ op[r].pc = "ack", FALSE)
       ELSE Fail(r) /\ UNCHANGED record
    /\ UNCHANGED <<controllerVars, trafficVars, link, toController, toEdge, faults>>

-----------------------------------------------------------------------------
(* Answers: deliverRelayResponse hands one to the operation that waits for *)
(* an answer of its kind, whichever request it answers.                    *)

\* acceptReserveResponse.  A replay pass goes on behind a rejected request, unless
\* the reason is the entitlement of the account.
AcceptReserve(r, m) ==
    \/ /\ m.code = "REJECTED"
       /\ Delete(r)
       /\ \E consumed \in BOOLEAN : Finish(r, consumed /\ op[r].kind = "replay", FALSE)
    \/ /\ m.code = "TERMINAL"
       /\ ApplyGrant(r, m.seq)
       /\ op' = [op EXCEPT ![r].pc = "ack", ![r].ack = m.fact]
       /\ UNCHANGED <<client, replay>>
    \/ /\ m.code \in {"APPLIED", "REPLAY"}
       /\ ApplyGrant(r, m.seq)
       /\ Goto(r, IF op[r].kind = "request" THEN "register" ELSE "unexposed")
       /\ UNCHANGED <<client, replay>>

\* The replay of REQUESTED after QueryRelay: an unknown reservation is reserved
\* again, a known one is settled unused or already terminal.
AcceptQuery(r, m) ==
    \/ /\ m.code = "REJECTED"
       /\ Send(Message("reserve", r, 0, NoSettlement))
       /\ Goto(r, "reserve")
       /\ UNCHANGED record
    \/ /\ m.code = "TERMINAL"
       /\ ApplyGrant(r, m.seq)
       /\ op' = [op EXCEPT ![r].pc = "ack", ![r].ack = m.fact]
       /\ UNCHANGED toController
    \/ /\ m.code = "REPLAY"
       /\ ApplyGrant(r, m.seq)
       /\ Goto(r, "unexposed")
       /\ UNCHANGED toController

\* RenewRelayGrant extends the group, unless it is closing, out of step with
\* the journal or expired by the Edge's clock.
RenewGroup(g, seq) == IF ~g.closing /\ seq = g.seq + 1 THEN [g EXCEPT !.seq = seq] ELSE g

\* Fault: the journal takes whatever sequence the answer carries.
RenewMismatchIgnored(r, m) == FALSE

\* acceptRenewResponse refuses the answer to another renewal.
RenewMismatch(r, m) == m.seq # record[r].pending

\* acceptRenewResponse: the journal first, then the group.
AcceptRenew(r, m) ==
    \/ /\ RenewMismatch(r, m) \/ m.code = "REJECTED"
       /\ Fail(r)
       /\ UNCHANGED <<record, group>>
    \/ /\ ~RenewMismatch(r, m) /\ m.code = "TERMINAL"
       /\ group' = [group EXCEPT ![r].closing = group[r].live]
       /\ op' = [op EXCEPT ![r].pc = "revoke", ![r].ack = m.fact]
       /\ UNCHANGED <<record, client, replay>>
    \/ /\ ~RenewMismatch(r, m) /\ m.code \in {"APPLIED", "REPLAY"}
       /\ record' = [record EXCEPT ![r].stage = "EXPOSED", ![r].seq = m.seq, ![r].pending = 0]
       /\ \/ /\ group' = [group EXCEPT ![r] = RenewGroup(@, m.seq)]
             /\ Finish(r, group' # group, FALSE)
          \/ /\ expired[r]
             /\ Fail(r)
             /\ UNCHANGED group

\* The end of deliverSettlement: a committed answer deletes the record.
AcceptAck(r, m) ==
    IF m.code \notin {"REJECTED", "CONFLICT"} /\ AckValid(r, m.fact)
    THEN Delete(r) /\ Finish(r, op[r].kind # "request", FALSE)
    ELSE Fail(r) /\ UNCHANGED record

\* An answer arrives; without a waiter it is dropped.
EdgeReceive ==
    /\ toEdge # << >>
    /\ LET m == Head(toEdge)
           r == m.id
       IN  \/ /\ op[r].pc # m.kind
              /\ UNCHANGED <<record, group, client, op, replay, toController>>
           \/ /\ op[r].pc = m.kind /\ m.kind = "reserve"
              /\ AcceptReserve(r, m)
              /\ UNCHANGED <<group, toController>>
           \/ /\ op[r].pc = m.kind /\ m.kind = "query"
              /\ AcceptQuery(r, m)
              /\ UNCHANGED <<group, client, replay>>
           \/ /\ op[r].pc = m.kind /\ m.kind = "renew"
              /\ AcceptRenew(r, m)
              /\ UNCHANGED toController
           \/ /\ op[r].pc = m.kind /\ m.kind = "settle"
              /\ AcceptAck(r, m)
              /\ UNCHANGED <<group, toController>>
    /\ toEdge' = Tail(toEdge)
    /\ UNCHANGED <<controllerVars, moved, link, faults>>

\* Fault: a request whose answer did not come in time is forgotten.
TimeoutForgets(r) ==
    /\ Waiting(r) /\ faults.errors < MaxErrors
    /\ faults' = [faults EXCEPT !.errors = @ + 1]
    /\ IF op[r].kind = "request" THEN Delete(r) ELSE UNCHANGED record
    /\ Finish(r, FALSE, FALSE)
    /\ UNCHANGED <<controllerVars, trafficVars, link, toController, toEdge>>

\* The context of a call runs out while it waits; its answer may come later.
Timeout(r) ==
    /\ Waiting(r) /\ faults.errors < MaxErrors
    /\ faults' = [faults EXCEPT !.errors = @ + 1]
    /\ Finish(r, FALSE, op[r].kind = "close" \/ op[r].pc = "renew"
                        \/ (op[r].kind = "request" /\ op[r].pc = "reserve"))
    /\ UNCHANGED <<controllerVars, record, trafficVars, link, toController, toEdge>>

-----------------------------------------------------------------------------
(* The TURN data plane of a group, with one allocation at a time.          *)

\* A client with the credential allocates.
Allocate(r) ==
    /\ client[r] \in {"granted", "direct", "gone"}
    /\ group[r].live /\ ~group[r].closing /\ ~group[r].open
    /\ group' = [group EXCEPT ![r].open = TRUE]
    /\ UNCHANGED <<controllerVars, record, moved, client, op, replay, link, toController,
                   toEdge, faults>>

\* The limiter of the group lets a byte pass.
RelayByte(r) ==
    /\ group[r].open /\ group[r].carried + group[r].counted < Hold
    /\ group' = [group EXCEPT ![r].carried = @ + 1]
    /\ moved' = [moved EXCEPT ![r] = @ + 1]
    /\ UNCHANGED <<controllerVars, record, client, op, replay, link, toController, toEdge,
                   faults>>

\* The allocation ends: CloseRelayAllocation adds its counters to the group.
Deallocate(r) ==
    /\ group[r].open
    /\ group' = [group EXCEPT ![r] = Drained(@)]
    /\ UNCHANGED <<controllerVars, record, moved, client, op, replay, link, toController,
                   toEdge, faults>>

-----------------------------------------------------------------------------
(* The control stream and the process.                                     *)

\* The stream breaks: whoever waits gets an error, whoever does not will find
\* its session done, and a replay pass ends with its session.
LinkBreak ==
    /\ link = "up" /\ faults.breaks < MaxBreaks
    /\ faults' = [faults EXCEPT !.breaks = @ + 1]
    /\ link' = "down"
    /\ toController' = << >>
    /\ toEdge' = << >>
    /\ op' = [r \in Reservations |-> IF Waiting(r) THEN Idle ELSE [op[r] EXCEPT !.fresh = FALSE]]
    /\ client' = [r \in Reservations |->
                     IF Waiting(r) /\ op[r].kind = "request" THEN "refused" ELSE client[r]]
    /\ replay' = IF \E r \in Reservations : op[r].kind = "replay" /\ ~Waiting(r)
                 THEN [replay EXCEPT !.wanted = 0]
                 ELSE NoPass
    /\ UNCHANGED <<controllerVars, record, trafficVars>>

\* Fault: a new control session does not replay the journal.
ReconnectWithoutReplay ==
    /\ link = "down"
    /\ link' = "up"
    /\ UNCHANGED <<controllerVars, record, trafficVars, client, op, replay, toController, toEdge,
                   faults>>

\* runControllerLink opens the next generation; setControlSession replays.
Reconnect ==
    /\ link = "down"
    /\ link' = "up"
    /\ replay' = Queued(replay)
    /\ UNCHANGED <<controllerVars, record, trafficVars, client, op, toController, toEdge, faults>>

\* The Edge process dies: the journal is all that is left.
Crash ==
    /\ faults.crashes < MaxCrashes
    /\ faults' = [faults EXCEPT !.crashes = @ + 1]
    /\ link' = "down"
    /\ toController' = << >>
    /\ toEdge' = << >>
    /\ op' = [r \in Reservations |-> Idle]
    /\ group' = [r \in Reservations |-> NoGroup]
    /\ client' = [r \in Reservations |-> IF client[r] = "new" THEN "new" ELSE "gone"]
    /\ replay' = NoPass
    /\ UNCHANGED <<controllerVars, record, moved>>

-----------------------------------------------------------------------------

Init ==
    /\ row = [r \in Reservations |-> NoRow]
    /\ usage = [committed |-> 0, recovery |-> 0, held |-> 0]
    /\ expired = [r \in Reservations |-> FALSE]
    /\ entitled = TRUE
    /\ record = [r \in Reservations |-> NoRecord]
    /\ group = [r \in Reservations |-> NoGroup]
    /\ moved = [r \in Reservations |-> 0]
    /\ client = [r \in Reservations |-> "new"]
    /\ op = [r \in Reservations |-> Idle]
    /\ replay = NoPass
    /\ link = "up"
    /\ toController = << >>
    /\ toEdge = << >>
    /\ faults = [errors |-> 0, breaks |-> 0, crashes |-> 0, lapses |-> 0, renewals |-> 0]

\* The steps of an operation that holds the lock of r.
OperationStep(r) ==
    \/ Register(r) \/ MarkExposed(r) \/ SettleUnexposed(r) \/ FinishClosing(r)
    \/ Drain(r) \/ Revoke(r) \/ Deliver(r) \/ AckTerminal(r)

Traffic(r) == Allocate(r) \/ RelayByte(r) \/ Deallocate(r)
ClientStep(r) == RequestRelay(r) \/ RenewRelay(r) \/ CloseRelaySession(r)
Mishap(r) == Timeout(r) \/ MarkExposedFails(r) \/ DrainFails(r)

Next ==
    \/ ControllerStep
    \/ EdgeReceive
    \/ ReplayStart
    \/ LinkBreak
    \/ Reconnect
    \/ Crash
    \/ Lapse
    \/ \E r \in Reservations :
          OperationStep(r) \/ ReplayRecord(r) \/ ClientStep(r) \/ Traffic(r)
          \/ Mishap(r) \/ Expire(r)

\* The Controller answers, the Edge's goroutines run and runControllerLink keeps
\* reconnecting.  Nothing forces a client to ask, renew, relay or close.
Fairness ==
    /\ WF_vars(ControllerStep) /\ WF_vars(EdgeReceive)
    /\ WF_vars(ReplayStart) /\ WF_vars(Reconnect)
    /\ \A r \in Reservations : WF_vars(OperationStep(r)) /\ WF_vars(ReplayRecord(r))

Spec == Init /\ [][Next]_vars
FairSpec == Spec /\ Fairness

-----------------------------------------------------------------------------
(* Properties.                                                             *)

Stages == {"NONE", "REQUESTED", "HELD_UNEXPOSED", "EXPOSED", "RENEW_PENDING", "CLOSING",
           "SETTLEMENT_DURABLE"}
Settlements ==
    [kind : {"none", "exact", "recovery"}, bytes : 0 .. Hold, at : Nat]
Pcs == Calls \cup {"idle", "register", "expose", "unexposed", "closing", "drain", "revoke",
                   "deliver", "ack", "ack_renew"}
Rows == [state : {"none", "held", "settled"}, seq : 0 .. MaxRenew, fact : Settlements]
Records == [stage : Stages, seq : 0 .. MaxRenew, pending : 0 .. MaxRenew,
            settlement : Settlements]
Groups == [live : BOOLEAN, closing : BOOLEAN, seq : 0 .. MaxRenew, open : BOOLEAN,
           carried : 0 .. Hold, counted : 0 .. Hold]
Operations == [kind : {"none", "request", "renew", "close", "replay"}, pc : Pcs,
               fresh : BOOLEAN, ack : Settlements]
Requests == [kind : Calls, id : Reservations, seq : 0 .. MaxRenew, settlement : Settlements]
Answers == [kind : Calls, id : Reservations,
            code : {"APPLIED", "REPLAY", "TERMINAL", "REJECTED", "CONFLICT"},
            seq : 0 .. MaxRenew, fact : Settlements]
Clients == {"new", "waiting", "granted", "refused", "direct", "gone"}

\* Rows, journal records, groups, operations and messages keep their types, and
\* no counter of the usage period is negative.
TypeOK ==
    /\ row \in [Reservations -> Rows]
    /\ usage \in [committed : Nat, recovery : Nat, held : Nat]
    /\ expired \in [Reservations -> BOOLEAN]
    /\ entitled \in BOOLEAN
    /\ record \in [Reservations -> Records]
    /\ group \in [Reservations -> Groups]
    /\ moved \in [Reservations -> 0 .. Hold]
    /\ client \in [Reservations -> Clients]
    /\ op \in [Reservations -> Operations]
    /\ replay \in [wanted : 0 .. MaxPasses, running : BOOLEAN, todo : SUBSET Reservations]
    /\ link \in {"up", "down"}
    /\ toController \in Seq(Requests)
    /\ toEdge \in Seq(Answers)
    /\ faults \in [errors : 0 .. MaxErrors, breaks : 0 .. MaxBreaks, crashes : 0 .. MaxCrashes,
                   lapses : 0 .. MaxLapses, renewals : 0 .. MaxRenew]

\* The account pays for what was relayed: an exact settlement is the number of
\* bytes that really passed, and it is final; whenever that number is lost (a
\* crash, an expired authorization), the whole hold is charged.
ChargedExactly ==
    \A r \in Reservations :
        row[r].state = "settled" /\ row[r].fact.kind = "exact" => row[r].fact.bytes = moved[r]

\* Bytes pass only under a record that a restart will charge for: once traffic
\* is possible, or has happened, the journal says that the credential is out.
TrafficIsJournaled ==
    \A r \in Reservations :
        /\ group[r].open => record[r].stage \in {"EXPOSED", "RENEW_PENDING", "CLOSING"}
        /\ moved[r] > 0 => record[r].stage \notin {"REQUESTED", "HELD_UNEXPOSED"}

\* The rows in a state, and the bytes that exact settlements have charged.
RowsIn(state, kind) ==
    {r \in Reservations : row[r].state = state /\ row[r].fact.kind = kind}
ExactBytes == {x \in Reservations \X (1 .. Hold) :
                  x[1] \in RowsIn("settled", "exact") /\ x[2] <= row[x[1]].fact.bytes}

\* The usage period agrees with the rows at every moment, and what is charged
\* and held together never exceeds the quota.
UsageBalanced ==
    /\ usage.held = Hold * Cardinality(RowsIn("held", "none"))
    /\ usage.recovery = Hold * Cardinality(RowsIn("settled", "recovery"))
    /\ usage.committed = Cardinality(ExactBytes)
    /\ Total(usage) <= Quota

\* The Controller holds nothing that the Edge has forgotten: while a row is
\* held, the journal has the record that will settle it.
HoldIsJournaled ==
    \A r \in Reservations : row[r].state = "held" => record[r].stage # "NONE"

\* A renewal advances row, journal and group in this order and one at a time,
\* so that a lost answer leaves a sequence number that can be repeated.
RenewalInStep ==
    \A r \in Reservations :
        /\ group[r].live => group[r].seq <= record[r].seq
        /\ record[r].stage # "NONE" /\ row[r].state = "held" =>
              /\ row[r].seq \in {record[r].seq, record[r].pending}
              /\ record[r].pending \in {0, record[r].seq + 1}

\* What the shutdown and the replay of settlements rely on: repeating a
\* settlement whose acknowledgement was lost is not a conflict.
LostAckIsReplayed ==
    \A i \in 1 .. Len(toEdge) : toEdge[i].kind = "settle" => toEdge[i].code # "CONFLICT"

\* A record whose client session is over is settled and deleted.
JournalDrains ==
    \A r \in Reservations :
        client[r] = "gone" /\ record[r].stage # "NONE" ~> record[r].stage = "NONE"

=============================================================================
