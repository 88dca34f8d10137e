----------------------- MODULE RelayReservationsProofs -----------------------
(***************************************************************************)
(* Theorems about RelayReservations, for every set of reservations, every  *)
(* hold and quota, every clock and every number of faults.                 *)
(***************************************************************************)
EXTENDS RelayReservations, FiniteSetTheorems, SequenceTheorems, TLAPS

\* Which journal stage the operation on r works on, at each of its program
\* counters, and which of them only the request of a client reaches.
OpInStep(r) ==
    LET pc == op[r].pc  stage == record[r].stage IN
    /\ pc \in {"reserve", "query"} => stage = "REQUESTED"
    /\ pc \in {"register", "expose", "unexposed", "ack"} => stage = "HELD_UNEXPOSED"
    /\ pc \in {"closing", "drain"} => stage = "CLOSING"
    /\ pc \in {"renew", "revoke", "ack_renew"} => stage = "RENEW_PENDING"
    /\ pc \in {"deliver", "settle"} => stage = "SETTLEMENT_DURABLE"
    /\ pc \in {"register", "expose"} => op[r].kind = "request"
    /\ pc = "query" => op[r].kind = "replay"
    /\ op[r].kind = "request" => client[r] = "waiting"
    /\ client[r] = "new" => /\ pc = "idle" /\ stage = "NONE"
                            /\ moved[r] = 0 /\ ~group[r].live
OpsInStep == \A r \in Reservations : OpInStep(r)

\* Which group r may have: the bytes of a live group are the bytes that were
\* relayed, and it is live only under a record that says so.
GroupInStep(r) ==
    LET pc == op[r].pc  g == group[r] IN
    /\ g.open => g.live
    /\ g.live => moved[r] = g.carried + g.counted
    /\ g.live =>
          \/ record[r].stage \in {"EXPOSED", "RENEW_PENDING", "CLOSING"}
          \/ pc = "expose" /\ ~g.open
          \/ pc = "deliver" /\ g.closing /\ ~g.open
    /\ pc = "drain" => g.live /\ g.closing
    /\ pc \in {"ack_renew", "settle"} => ~g.live
    /\ moved[r] > 0 => record[r].stage \notin {"REQUESTED", "HELD_UNEXPOSED"}
GroupsInStep == \A r \in Reservations : GroupInStep(r)

\* No byte will pass under r any more.
Static(r) ==
    /\ ~group[r].open
    /\ group[r].live => group[r].closing
    /\ client[r] # "new"
    /\ ~(op[r].kind = "request" /\ op[r].pc \in {"reserve", "register", "expose"})

\* An exact settlement has the final count.
Final(r, s) == s.kind = "exact" => s.bytes = moved[r] /\ Static(r)

\* Every settlement that is stored, under way or durable has the final count.
SettlementsFinal ==
    /\ \A r \in Reservations :
          /\ row[r].state = "settled" => Final(r, row[r].fact)
          /\ record[r].stage = "SETTLEMENT_DURABLE" => Final(r, record[r].settlement)
    /\ toController \in
          Seq({m \in Requests : m.kind = "settle" => Final(m.id, m.settlement)})

\* No renewal has a number that was not given out.
SequencesBounded ==
    /\ \A r \in Reservations :
          /\ row[r].seq <= faults.renewals /\ group[r].seq <= faults.renewals
          /\ record[r].seq <= faults.renewals /\ record[r].pending <= faults.renewals
    /\ toController \in Seq({m \in Requests : m.seq <= faults.renewals})
    /\ toEdge \in Seq({m \in Answers : m.seq <= faults.renewals})

\* Only a settled row has a settlement.
FactsInStep ==
    \A r \in Reservations : row[r].state # "settled" => row[r].fact = NoSettlement

RelayInv ==
    /\ TypeOK
    /\ OpsInStep
    /\ GroupsInStep
    /\ SettlementsFinal
    /\ SequencesBounded
    /\ FactsInStep
    /\ UsageBalanced

-----------------------------------------------------------------------------
(* What the assignments of the model do to one reservation and to the rest. *)

\* Constants and empty values are well typed.
LEMMA Constants ==
    /\ Hold \in Nat /\ Hold > 0 /\ Quota \in Nat /\ MaxRenew \in Nat
    /\ MaxErrors \in Nat /\ MaxBreaks \in Nat /\ MaxCrashes \in Nat /\ MaxLapses \in Nat
    /\ MaxPasses \in Nat /\ MaxPasses > 0 /\ NanosPerMicro \in Nat /\ NanosPerMicro > 0
    /\ ObservedTimes \subseteq Nat /\ IsFiniteSet(Reservations)
  BY ConstantsAssumption

\* So are the empty values.
LEMMA EmptyValues ==
    /\ NoSettlement \in Settlements /\ NoSettlement.kind = "none"
    /\ NoRow \in Rows /\ NoRow.state = "none" /\ NoRow.seq = 0 /\ NoRow.fact = NoSettlement
    /\ NoRecord \in Records /\ NoRecord.stage = "NONE" /\ NoRecord.seq = 0
    /\ NoRecord.pending = 0
    /\ NoGroup \in Groups /\ NoGroup.live = FALSE /\ NoGroup.open = FALSE
    /\ NoGroup.closing = FALSE /\ NoGroup.seq = 0
    /\ Idle \in Operations /\ Idle.pc = "idle" /\ Idle.kind = "none" /\ Idle.fresh = FALSE
    /\ NoPass \in [wanted : 0 .. MaxPasses, running : BOOLEAN, todo : SUBSET Reservations]
  BY Constants DEF NoSettlement, Settlement, Settlements, NoRow, Rows, NoRecord, Records,
     NoGroup, Groups, Idle, Operations, Pcs, NoPass, Stages

\* Settlements the Edge writes are well typed.
LEMMA SettlementType ==
    ASSUME NEW k \in {"exact", "recovery"}, NEW b \in 0 .. Hold, NEW at \in Nat
    PROVE  /\ Settlement(k, b, at) \in Settlements
           /\ Settlement(k, b, at).kind = k /\ Settlement(k, b, at).bytes = b
  BY DEF Settlement, Settlements

\* Record r alone is replaced.
RecordAt(r, stage, seq, pending, settlement) ==
    /\ record' \in [Reservations -> Records]
    /\ record'[r].stage = stage /\ record'[r].seq = seq
    /\ record'[r].pending = pending /\ record'[r].settlement = settlement
    /\ \A s \in Reservations \ {r} : record'[s] = record[s]

\* A stage is set.
LEMMA StageEffect ==
    ASSUME TypeOK, NEW r \in Reservations, NEW st \in Stages, Stage(r, st)
    PROVE  RecordAt(r, st, record[r].seq, record[r].pending, record[r].settlement)
<1> DEFINE x == [record[r] EXCEPT !.stage = st]
<1>1. record \in [Reservations -> Records] /\ record[r] \in Records
  BY DEF TypeOK
<1>2. x \in Records /\ x.stage = st /\ x.seq = record[r].seq
      /\ x.pending = record[r].pending /\ x.settlement = record[r].settlement
  BY <1>1 DEF Records
<1>3. record' = [record EXCEPT ![r] = x]
  BY <1>1 DEF Stage
<1> HIDE DEF x
<1>4. QED
  BY <1>1, <1>2, <1>3 DEF RecordAt

\* A grant is applied.
LEMMA GrantEffect ==
    ASSUME TypeOK, NEW r \in Reservations, NEW q \in 0 .. MaxRenew, ApplyGrant(r, q)
    PROVE  RecordAt(r, "HELD_UNEXPOSED", q, record[r].pending, record[r].settlement)
<1> DEFINE x == [record[r] EXCEPT !.stage = "HELD_UNEXPOSED", !.seq = q]
<1>1. record \in [Reservations -> Records] /\ record[r] \in Records
  BY DEF TypeOK
<1>2. x \in Records /\ x.stage = "HELD_UNEXPOSED" /\ x.seq = q
      /\ x.pending = record[r].pending /\ x.settlement = record[r].settlement
  BY <1>1 DEF Records, Stages
<1>3. record' = [record EXCEPT ![r] = x]
  BY <1>1 DEF ApplyGrant
<1> HIDE DEF x
<1>4. QED
  BY <1>1, <1>2, <1>3 DEF RecordAt

\* A settlement becomes durable.
LEMMA SettlementEffect ==
    ASSUME TypeOK, NEW r \in Reservations, NEW s \in Settlements, PutSettlement(r, s)
    PROVE  RecordAt(r, "SETTLEMENT_DURABLE", record[r].seq, record[r].pending, s)
<1> DEFINE x == [record[r] EXCEPT !.stage = "SETTLEMENT_DURABLE", !.settlement = s]
<1>1. record \in [Reservations -> Records] /\ record[r] \in Records
  BY DEF TypeOK
<1>2. x \in Records /\ x.stage = "SETTLEMENT_DURABLE" /\ x.seq = record[r].seq
      /\ x.pending = record[r].pending /\ x.settlement = s
  BY <1>1 DEF Records, Stages
<1>3. record' = [record EXCEPT ![r] = x]
  BY <1>1 DEF PutSettlement
<1> HIDE DEF x
<1>4. QED
  BY <1>1, <1>2, <1>3 DEF RecordAt

\* A record is deleted.
LEMMA DeleteEffect ==
    ASSUME TypeOK, NEW r \in Reservations, Delete(r)
    PROVE  RecordAt(r, "NONE", 0, 0, NoRecord.settlement)
<1>1. record \in [Reservations -> Records]
  BY DEF TypeOK
<1>2. QED
  BY <1>1, EmptyValues DEF Delete, RecordAt

\* A renewal becomes durable.
LEMMA RenewPendingEffect ==
    ASSUME TypeOK, NEW r \in Reservations, NEW p \in 0 .. MaxRenew,
           record' = [record EXCEPT ![r].stage = "RENEW_PENDING", ![r].pending = p]
    PROVE  RecordAt(r, "RENEW_PENDING", record[r].seq, p, record[r].settlement)
<1> DEFINE x == [record[r] EXCEPT !.stage = "RENEW_PENDING", !.pending = p]
<1>1. record \in [Reservations -> Records] /\ record[r] \in Records
  BY DEF TypeOK
<1>2. x \in Records /\ x.stage = "RENEW_PENDING" /\ x.seq = record[r].seq
      /\ x.pending = p /\ x.settlement = record[r].settlement
  BY <1>1 DEF Records, Stages
<1>3. record' = [record EXCEPT ![r] = x]
  BY <1>1
<1> HIDE DEF x
<1>4. QED
  BY <1>1, <1>2, <1>3 DEF RecordAt

\* A renewal is applied.
LEMMA RenewedEffect ==
    ASSUME TypeOK, NEW r \in Reservations, NEW q \in 0 .. MaxRenew,
           record' = [record EXCEPT ![r].stage = "EXPOSED", ![r].seq = q, ![r].pending = 0]
    PROVE  RecordAt(r, "EXPOSED", q, 0, record[r].settlement)
<1> DEFINE x == [record[r] EXCEPT !.stage = "EXPOSED", !.seq = q, !.pending = 0]
<1>1. record \in [Reservations -> Records] /\ record[r] \in Records
  BY DEF TypeOK
<1>2. x \in Records /\ x.stage = "EXPOSED" /\ x.seq = q
      /\ x.pending = 0 /\ x.settlement = record[r].settlement
  <2>1. 0 \in 0 .. MaxRenew
    BY Constants
  <2>2. QED
    BY <1>1, <2>1 DEF Records, Stages
<1>3. record' = [record EXCEPT ![r] = x]
  BY <1>1
<1> HIDE DEF x
<1>4. QED
  BY ZenonT(30), <1>1, <1>2, <1>3 DEF RecordAt

\* Operation r alone is replaced.
OpAt(r, kind, pc) ==
    /\ op' \in [Reservations -> Operations]
    /\ op'[r].kind = kind /\ op'[r].pc = pc
    /\ \A s \in Reservations \ {r} : op'[s] = op[s]

\* An operation starts.
LEMMA StartEffect ==
    ASSUME TypeOK, NEW r \in Reservations, NEW p \in Pcs,
           NEW k \in {"request", "renew", "close", "replay"}, Start(r, k, p)
    PROVE  OpAt(r, k, p)
<1> DEFINE up == link = "up"
           x == [kind |-> k, pc |-> p, fresh |-> up, ack |-> NoSettlement]
<1>1. op \in [Reservations -> Operations] /\ Idle \in Operations /\ up \in BOOLEAN
  BY EmptyValues DEF TypeOK
<1>2. op' = [op EXCEPT ![r] = x]
  BY <1>1 DEF Start
<1> HIDE DEF up
<1>3. x \in Operations /\ x.kind = k /\ x.pc = p
  BY <1>1, EmptyValues DEF Operations
<1> HIDE DEF x
<1>4. QED
  BY <1>1, <1>2, <1>3 DEF OpAt

\* An operation goes on.
LEMMA GotoEffect ==
    ASSUME TypeOK, NEW r \in Reservations, NEW p \in Pcs, Goto(r, p)
    PROVE  OpAt(r, op[r].kind, p)
<1> DEFINE x == [op[r] EXCEPT !.pc = p]
<1>1. op \in [Reservations -> Operations] /\ op[r] \in Operations
  BY DEF TypeOK
<1>2. x \in Operations /\ x.kind = op[r].kind /\ x.pc = p
  BY <1>1 DEF Operations
<1>3. op' = [op EXCEPT ![r] = x]
  BY <1>1 DEF Goto
<1> HIDE DEF x
<1>4. QED
  BY <1>1, <1>2, <1>3 DEF OpAt

\* An operation goes on with a terminal fact.
LEMMA AckEffect ==
    ASSUME TypeOK, NEW r \in Reservations, NEW p \in Pcs, NEW f \in Settlements,
           op' = [op EXCEPT ![r].pc = p, ![r].ack = f]
    PROVE  OpAt(r, op[r].kind, p)
<1> DEFINE x == [op[r] EXCEPT !.pc = p, !.ack = f]
<1>1. op \in [Reservations -> Operations] /\ op[r] \in Operations
  BY DEF TypeOK
<1>2. x \in Operations /\ x.kind = op[r].kind /\ x.pc = p
  BY <1>1 DEF Operations
<1>3. op' = [op EXCEPT ![r] = x]
  BY <1>1
<1> HIDE DEF x
<1>4. QED
  BY <1>1, <1>2, <1>3 DEF OpAt

\* What replay may be.
Passes == [wanted : 0 .. MaxPasses, running : BOOLEAN, todo : SUBSET Reservations]

\* A pass is queued within the bound.
LEMMA QueuedType ==
    ASSUME NEW p \in Passes
    PROVE  Queued(p) \in Passes
  BY Constants DEF Queued, Passes

\* Passes are queued and go on within their bounds.
LEMMA PassTypes ==
    ASSUME NEW p \in Passes, NEW r \in Reservations, NEW b \in BOOLEAN
    PROVE  Queued(p) \in Passes /\ AfterRecord(p, r, b) \in Passes
<1>1. Queued(p) \in Passes
  BY QueuedType
<1>2. [p EXCEPT !.todo = @ \ {r}] \in Passes
  BY DEF Passes
<1>3. [p EXCEPT !.running = FALSE, !.todo = {}] \in Passes
  BY DEF Passes
<1>4. QED
  BY <1>1, <1>2, <1>3 DEF AfterRecord

\* An operation returns: it gives back the lock, a request answers its client,
\* and at most the passes of the replay change besides.
LEMMA FinishEffect ==
    ASSUME TypeOK, NEW r \in Reservations, NEW ok \in BOOLEAN, NEW again,
           Finish(r, ok, again)
    PROVE  /\ OpAt(r, "none", "idle") /\ op'[r] = Idle
           /\ client' \in [Reservations -> Clients]
           /\ client'[r] = IF op[r].kind = "request"
                           THEN IF ok THEN "granted" ELSE "refused" ELSE client[r]
           /\ \A s \in Reservations \ {r} : client'[s] = client[s]
           /\ replay' \in Passes
<1>1. op \in [Reservations -> Operations] /\ client \in [Reservations -> Clients]
      /\ replay \in Passes /\ op[r].fresh \in BOOLEAN
  BY DEF TypeOK, Passes, Operations
<1>2. OpAt(r, "none", "idle") /\ op'[r] = Idle
  BY <1>1, EmptyValues DEF Finish, OpAt
<1>3. client' = [client EXCEPT ![r] = IF op[r].kind = "request"
                           THEN IF ok THEN "granted" ELSE "refused" ELSE client[r]]
  BY <1>1 DEF Finish
<1>4. replay' \in Passes
  <2>1. AfterRecord(replay, r, ok /\ op[r].fresh) \in Passes /\ Queued(replay) \in Passes
    <3>1. (ok /\ op[r].fresh) \in BOOLEAN
      OBVIOUS
    <3>2. QED
      BY <1>1, <3>1, PassTypes
  <2>2. CASE op[r].kind = "replay"
    BY <2>1, <2>2 DEF Finish
  <2>3. CASE op[r].kind # "replay"
    BY <1>1, <2>1, <2>3 DEF Finish
  <2>4. QED
    BY <2>2, <2>3
<1>5. QED
  BY <1>1, <1>2, <1>3, <1>4 DEF Clients

\* Group r alone is replaced.
GroupAt(r, live, closing, open) ==
    /\ group' \in [Reservations -> Groups]
    /\ group'[r].live = live /\ group'[r].closing = closing /\ group'[r].open = open
    /\ \A s \in Reservations \ {r} : group'[s] = group[s]

\* A group is forgotten.
LEMMA ForgetEffect ==
    ASSUME TypeOK, NEW r \in Reservations, group' = [group EXCEPT ![r] = NoGroup]
    PROVE  GroupAt(r, FALSE, FALSE, FALSE) /\ group'[r].seq = 0
<1>1. group \in [Reservations -> Groups]
  BY DEF TypeOK
<1>2. QED
  BY <1>1, EmptyValues DEF GroupAt

\* A group is registered.
LEMMA RegisterEffect ==
    ASSUME TypeOK, NEW r \in Reservations,
           group' = [group EXCEPT ![r] = [NoGroup EXCEPT !.live = TRUE, !.seq = record[r].seq]]
    PROVE  /\ GroupAt(r, TRUE, FALSE, FALSE) /\ group'[r].seq = record[r].seq
           /\ group'[r].carried = 0 /\ group'[r].counted = 0
<1> DEFINE q == record[r].seq
           x == [NoGroup EXCEPT !.live = TRUE, !.seq = q]
<1>1. group \in [Reservations -> Groups] /\ q \in 0 .. MaxRenew
  BY DEF TypeOK, Records
<1> HIDE DEF q
<1>2. x \in Groups /\ x.live = TRUE /\ x.closing = FALSE /\ x.open = FALSE /\ x.seq = q
      /\ x.carried = 0 /\ x.counted = 0
  BY <1>1, EmptyValues DEF NoGroup, Groups
<1>3. group' = [group EXCEPT ![r] = x]
  BY DEF q
<1> HIDE DEF x
<1>4. QED
  BY <1>1, <1>2, <1>3 DEF GroupAt, q

\* A group begins to close, or an allocation opens.
LEMMA ClosingEffect ==
    ASSUME TypeOK, NEW r \in Reservations, NEW b \in BOOLEAN,
           group' = [group EXCEPT ![r].closing = b]
    PROVE  /\ GroupAt(r, group[r].live, b, group[r].open) /\ group'[r].seq = group[r].seq
           /\ group'[r].carried = group[r].carried /\ group'[r].counted = group[r].counted
<1> DEFINE x == [group[r] EXCEPT !.closing = b]
<1>1. group \in [Reservations -> Groups] /\ group[r] \in Groups
  BY DEF TypeOK
<1>2. x \in Groups /\ x.live = group[r].live /\ x.closing = b /\ x.open = group[r].open
      /\ x.seq = group[r].seq /\ x.carried = group[r].carried
      /\ x.counted = group[r].counted
  BY <1>1 DEF Groups
<1>3. group' = [group EXCEPT ![r] = x]
  BY <1>1
<1> HIDE DEF x
<1>4. QED
  BY <1>1, <1>2, <1>3 DEF GroupAt

\* An allocation opens.
LEMMA OpenEffect ==
    ASSUME TypeOK, NEW r \in Reservations, group' = [group EXCEPT ![r].open = TRUE]
    PROVE  /\ GroupAt(r, group[r].live, group[r].closing, TRUE)
           /\ group'[r].seq = group[r].seq
           /\ group'[r].carried = group[r].carried /\ group'[r].counted = group[r].counted
<1> DEFINE x == [group[r] EXCEPT !.open = TRUE]
<1>1. group \in [Reservations -> Groups] /\ group[r] \in Groups
  BY DEF TypeOK
<1>2. x \in Groups /\ x.live = group[r].live /\ x.closing = group[r].closing
      /\ x.open = TRUE /\ x.seq = group[r].seq /\ x.carried = group[r].carried
      /\ x.counted = group[r].counted
  BY <1>1 DEF Groups
<1>3. group' = [group EXCEPT ![r] = x]
  BY <1>1
<1> HIDE DEF x
<1>4. QED
  BY <1>1, <1>2, <1>3 DEF GroupAt

\* A byte passes.
LEMMA ByteEffect ==
    ASSUME TypeOK, NEW r \in Reservations, group[r].carried < Hold,
           group' = [group EXCEPT ![r].carried = @ + 1]
    PROVE  /\ GroupAt(r, group[r].live, group[r].closing, group[r].open)
           /\ group'[r].seq = group[r].seq
           /\ group'[r].carried = group[r].carried + 1
           /\ group'[r].counted = group[r].counted
<1> DEFINE n == group[r].carried + 1
           x == [group[r] EXCEPT !.carried = n]
<1>1. group \in [Reservations -> Groups] /\ group[r] \in Groups
  BY DEF TypeOK
<1>2. group[r].carried \in 0 .. Hold
  BY <1>1 DEF Groups
<1>3. n \in 0 .. Hold
  BY <1>2, Constants
<1>4. group' = [group EXCEPT ![r] = x]
  BY <1>1
<1> HIDE DEF n
<1>5. x \in Groups /\ x.live = group[r].live /\ x.closing = group[r].closing
      /\ x.open = group[r].open /\ x.seq = group[r].seq /\ x.carried = n
      /\ x.counted = group[r].counted
  BY <1>1, <1>3 DEF Groups
<1> HIDE DEF x
<1>6. QED
  BY <1>1, <1>4, <1>5 DEF GroupAt, n

\* The allocation of a group closes and is counted.
LEMMA DrainedEffect ==
    ASSUME TypeOK, NEW r \in Reservations, group[r].carried + group[r].counted <= Hold,
           group' = [group EXCEPT ![r] = Drained(@)]
    PROVE  /\ GroupAt(r, group[r].live, group[r].closing, FALSE)
           /\ group'[r].seq = group[r].seq
           /\ group'[r].carried = 0
           /\ group'[r].counted = group[r].counted + group[r].carried
           /\ Aggregate(group[r]) = group[r].counted + group[r].carried
<1> DEFINE n == group[r].counted + group[r].carried
           x == [group[r] EXCEPT !.open = FALSE, !.carried = 0, !.counted = n]
<1>1. group \in [Reservations -> Groups] /\ group[r] \in Groups
  BY DEF TypeOK
<1>2. group[r].carried \in 0 .. Hold /\ group[r].counted \in 0 .. Hold
  BY <1>1 DEF Groups
<1>3. n \in 0 .. Hold
  BY <1>2, Constants
<1>4. Drained(group[r]) = x
  BY <1>1 DEF Drained, Groups
<1>5. group' = [group EXCEPT ![r] = x] /\ Aggregate(group[r]) = x.counted
  BY <1>1, <1>4 DEF Aggregate
<1> HIDE DEF n
<1>6. x \in Groups /\ x.live = group[r].live /\ x.closing = group[r].closing
      /\ x.open = FALSE /\ x.seq = group[r].seq /\ x.carried = 0 /\ x.counted = n
  <2>1. 0 \in 0 .. Hold
    BY Constants
  <2>2. QED
    BY <1>1, <1>3, <2>1 DEF Groups
<1> HIDE DEF x
<1>7. QED
  BY <1>1, <1>5, <1>6 DEF GroupAt, n

\* A group is renewed, or refuses.
LEMMA RenewGroupEffect ==
    ASSUME TypeOK, NEW r \in Reservations, NEW q \in 0 .. MaxRenew,
           group' = [group EXCEPT ![r] = RenewGroup(@, q)]
    PROVE  /\ GroupAt(r, group[r].live, group[r].closing, group[r].open)
           /\ group'[r].seq \in {q, group[r].seq}
           /\ group'[r].carried = group[r].carried /\ group'[r].counted = group[r].counted
<1> DEFINE x == [group[r] EXCEPT !.seq = q]
<1>1. group \in [Reservations -> Groups] /\ group[r] \in Groups
  BY DEF TypeOK
<1>2. x \in Groups /\ x.live = group[r].live /\ x.closing = group[r].closing
      /\ x.open = group[r].open /\ x.seq = q /\ x.carried = group[r].carried
      /\ x.counted = group[r].counted
  BY <1>1 DEF Groups
<1>3. RenewGroup(group[r], q) \in {x, group[r]}
  BY DEF RenewGroup
<1>4. group' = [group EXCEPT ![r] = RenewGroup(group[r], q)]
  OBVIOUS
<1> HIDE DEF x
<1>5. QED
  BY <1>1, <1>2, <1>3, <1>4 DEF GroupAt

-----------------------------------------------------------------------------
(* A step of the Edge on one reservation.                                  *)

\* What faults may be.
Faults == [errors : 0 .. MaxErrors, breaks : 0 .. MaxBreaks, crashes : 0 .. MaxCrashes,
           lapses : 0 .. MaxLapses, renewals : 0 .. MaxRenew]

\* Only the state of r changes, and it stays well typed.
Frame(r) ==
    /\ record' \in [Reservations -> Records] /\ op' \in [Reservations -> Operations]
    /\ group' \in [Reservations -> Groups] /\ client' \in [Reservations -> Clients]
    /\ moved' \in [Reservations -> 0 .. Hold] /\ replay' \in Passes
    /\ \A s \in Reservations \ {r} :
          /\ record'[s] = record[s] /\ op'[s] = op[s] /\ group'[s] = group[s]
          /\ client'[s] = client[s] /\ moved'[s] = moved[s]

\* The state of r keeps in step, and what was final stays final.
Local(r) ==
    /\ OpInStep(r)' /\ GroupInStep(r)'
    /\ Static(r) => Static(r)' /\ moved'[r] = moved[r]
    /\ record'[r].stage = "SETTLEMENT_DURABLE" => Final(r, record[r].settlement)'

\* A request that may be sent: a settlement is final, a renewal is the one that
\* the journal has as pending.
Sendable(m) ==
    /\ m \in Requests /\ m.seq <= faults'.renewals
    /\ m.kind = "settle" => Final(m.id, m.settlement)'
    /\ m.kind = "renew" => m.seq = record'[m.id].pending

\* Sequence numbers of r stay below the renewals given out.
Numbered(r) ==
    /\ faults' \in Faults /\ faults.renewals <= faults'.renewals
    /\ group'[r].seq <= faults'.renewals
    /\ record'[r].seq <= faults'.renewals /\ record'[r].pending <= faults'.renewals

\* One request may be sent and one answer taken.
Exchange ==
    /\ \/ toController' = toController
       \/ \E m : Sendable(m) /\ toController' = Append(toController, m)
    /\ toEdge' = toEdge \/ (toEdge # << >> /\ toEdge' = Tail(toEdge))

EdgeStep(r) ==
    /\ Frame(r) /\ Local(r) /\ Numbered(r) /\ Exchange
    /\ UNCHANGED <<controllerVars, link>>

\* A larger bound on sequence numbers and a state in which final counts stay
\* final keep the messages in transit as they should be.
LEMMA TransitKept ==
    ASSUME RelayInv, faults' \in Faults, faults.renewals <= faults'.renewals,
           \A r \in Reservations : Static(r) => Static(r)' /\ moved'[r] = moved[r]
    PROVE  /\ toController \in
                 Seq({m \in Requests : m.kind = "settle" => Final(m.id, m.settlement)'})
           /\ toController \in Seq({m \in Requests : m.seq <= faults'.renewals})
           /\ toEdge \in Seq({m \in Answers : m.seq <= faults'.renewals})
<1> DEFINE A == {m \in Requests : m.kind = "settle" => Final(m.id, m.settlement)}
           A2 == {m \in Requests : m.kind = "settle" => Final(m.id, m.settlement)'}
           B == {m \in Requests : m.seq <= faults.renewals}
           B2 == {m \in Requests : m.seq <= faults'.renewals}
           C == {m \in Answers : m.seq <= faults.renewals}
           C2 == {m \in Answers : m.seq <= faults'.renewals}
<1>1. toController \in Seq(A) /\ toController \in Seq(B) /\ toEdge \in Seq(C)
  BY DEF RelayInv, SettlementsFinal, SequencesBounded
<1>2. A \subseteq A2
  BY DEF Final, Requests
<1>3. faults.renewals \in Int /\ faults'.renewals \in Int
  BY DEF RelayInv, TypeOK, Faults
<1>4. B \subseteq B2
  <2>1. \A m \in Requests : m.seq \in Int
    BY Constants DEF Requests
  <2>2. QED
    BY <1>3, <2>1
<1>5. C \subseteq C2
  <2>1. \A m \in Answers : m.seq \in Int
    BY Constants DEF Answers
  <2>2. QED
    BY <1>3, <2>1
<1> HIDE DEF A, A2, B, B2, C, C2
<1>6. toController \in Seq(A2) /\ toController \in Seq(B2) /\ toEdge \in Seq(C2)
  BY <1>1, <1>2, <1>4, <1>5, SeqMonotonic
<1>7. QED
  BY <1>6 DEF A2, B2, C2

\* A step of the Edge on one reservation keeps the invariant.
LEMMA EdgeStepKeeps ==
    ASSUME RelayInv, NEW r \in Reservations, EdgeStep(r)
    PROVE  RelayInv'
<1> USE DEF EdgeStep
<1>1. OpsInStep' /\ GroupsInStep'
  <2>1. OpInStep(r)' /\ GroupInStep(r)'
    BY DEF Local
  <2>2. ASSUME NEW s \in Reservations \ {r} PROVE OpInStep(s)' /\ GroupInStep(s)'
    <3>1. record'[s] = record[s] /\ op'[s] = op[s] /\ group'[s] = group[s]
          /\ client'[s] = client[s] /\ moved'[s] = moved[s]
      BY DEF Frame
    <3>2. OpInStep(s) /\ GroupInStep(s)
      BY DEF RelayInv, OpsInStep, GroupsInStep
    <3>3. QED
      BY <3>1, <3>2 DEF OpInStep, GroupInStep
  <2>3. QED
    BY <2>1, <2>2 DEF OpsInStep, GroupsInStep
<1>2. \A s \in Reservations : Static(s) => Static(s)' /\ moved'[s] = moved[s]
  <2>1. Static(r) => Static(r)' /\ moved'[r] = moved[r]
    BY DEF Local
  <2>2. ASSUME NEW s \in Reservations \ {r}, Static(s)
        PROVE  Static(s)' /\ moved'[s] = moved[s]
    BY <2>2 DEF Frame, Static
  <2>3. QED
    BY <2>1, <2>2
<1>3. faults' \in Faults /\ faults.renewals <= faults'.renewals
  BY DEF Numbered
<1>4. /\ toController' \in
            Seq({m \in Requests : m.kind = "settle" => Final(m.id, m.settlement)'})
      /\ toController' \in Seq({m \in Requests : m.seq <= faults'.renewals})
      /\ toEdge' \in Seq({m \in Answers : m.seq <= faults'.renewals})
  <2> DEFINE A == {m \in Requests : m.kind = "settle" => Final(m.id, m.settlement)'}
             B == {m \in Requests : m.seq <= faults'.renewals}
             C == {m \in Answers : m.seq <= faults'.renewals}
  <2>1. toController \in Seq(A) /\ toController \in Seq(B) /\ toEdge \in Seq(C)
    BY <1>2, <1>3, TransitKept
  <2>2. \A m : Sendable(m) => m \in A /\ m \in B
    BY DEF Sendable
  <2> HIDE DEF A, B, C
  <2>3. toController' \in Seq(A) /\ toController' \in Seq(B)
    <3>1. CASE toController' = toController
      BY <2>1, <3>1
    <3>2. ASSUME NEW m, Sendable(m), toController' = Append(toController, m)
          PROVE  toController' \in Seq(A) /\ toController' \in Seq(B)
      <4>1. m \in A /\ m \in B
        BY <2>2, <3>2
      <4>2. QED
        BY <2>1, <3>2, <4>1, AppendProperties
    <3>3. QED
      BY <3>1, <3>2 DEF Exchange
  <2>4. toEdge' \in Seq(C)
    BY <2>1, HeadTailProperties DEF Exchange
  <2>5. QED
    BY <2>3, <2>4 DEF A, B, C
<1>5. TypeOK'
  <2>1. toController' \in Seq(Requests)
    BY <1>4, SeqMonotonic
  <2>2. toEdge' \in Seq(Answers)
    BY <1>4, SeqMonotonic
  <2>3. QED
    BY <1>3, <2>1, <2>2 DEF RelayInv, TypeOK, Frame, Passes, Faults, controllerVars
<1>6. SettlementsFinal'
  <2>1. ASSUME NEW s \in Reservations, row[s].state = "settled" PROVE Final(s, row[s].fact)'
    BY <1>2, <2>1 DEF RelayInv, SettlementsFinal, Final, controllerVars
  <2>2. ASSUME NEW s \in Reservations, record'[s].stage = "SETTLEMENT_DURABLE"
        PROVE  Final(s, record[s].settlement)'
    <3>1. CASE s = r
      BY <2>2, <3>1 DEF Local
    <3>2. CASE s # r
      <4>1. record'[s] = record[s]
        BY <3>2 DEF Frame
      <4>2. Final(s, record[s].settlement)
        BY <2>2, <4>1 DEF RelayInv, SettlementsFinal
      <4>3. QED
        BY <1>2, <4>1, <4>2 DEF Final
    <3>3. QED
      BY <3>1, <3>2
  <2>3. row' = row
    BY DEF controllerVars
  <2>4. QED
    BY <1>4, <2>1, <2>2, <2>3 DEF SettlementsFinal
<1>7. SequencesBounded'
  <2>1. ASSUME NEW s \in Reservations
        PROVE  /\ row'[s].seq <= faults'.renewals /\ group'[s].seq <= faults'.renewals
               /\ record'[s].seq <= faults'.renewals
               /\ record'[s].pending <= faults'.renewals
    <3>1. /\ row[s].seq <= faults.renewals /\ group[s].seq <= faults.renewals
          /\ record[s].seq <= faults.renewals /\ record[s].pending <= faults.renewals
      BY DEF RelayInv, SequencesBounded
    <3>2. /\ row[s].seq \in Int /\ group[s].seq \in Int /\ record[s].seq \in Int
          /\ record[s].pending \in Int /\ faults.renewals \in Int /\ faults'.renewals \in Int
      <4>1. /\ row[s] \in Rows /\ group[s] \in Groups /\ record[s] \in Records
            /\ faults \in Faults
        BY DEF RelayInv, TypeOK, Faults
      <4>2. QED
        BY <1>3, <4>1, Constants DEF Rows, Groups, Records, Faults
    <3>3. row'[s] = row[s]
      BY DEF controllerVars
    <3>4. CASE s = r
      BY <1>3, <3>1, <3>2, <3>3, <3>4 DEF Numbered
    <3>5. CASE s # r
      <4>1. group'[s] = group[s] /\ record'[s] = record[s]
        BY <3>5 DEF Frame
      <4>2. QED
        BY <1>3, <3>1, <3>2, <3>3, <4>1
    <3>6. QED
      BY <3>4, <3>5
  <2>2. QED
    BY <1>4, <2>1 DEF SequencesBounded
<1>8. FactsInStep'
  BY DEF RelayInv, FactsInStep, controllerVars
<1>9. UsageBalanced'
  BY DEF RelayInv, UsageBalanced, RowsIn, ExactBytes, Total, controllerVars
<1>10. QED
  BY <1>1, <1>5, <1>6, <1>7, <1>8, <1>9 DEF RelayInv

\* What the invariant says of one reservation.
LEMMA Here ==
    ASSUME RelayInv, NEW r \in Reservations
    PROVE  /\ TypeOK /\ OpInStep(r) /\ GroupInStep(r)
           /\ record[r].stage = "SETTLEMENT_DURABLE" => Final(r, record[r].settlement)
           /\ record[r].settlement \in Settlements /\ record[r].stage \in Stages
           /\ record[r].seq \in 0 .. MaxRenew /\ record[r].pending \in 0 .. MaxRenew
           /\ group[r].live \in BOOLEAN /\ group[r].closing \in BOOLEAN
           /\ group[r].open \in BOOLEAN /\ group[r].seq \in 0 .. MaxRenew
           /\ group[r].carried \in 0 .. Hold /\ group[r].counted \in 0 .. Hold
           /\ moved[r] \in 0 .. Hold
           /\ group[r].seq <= faults.renewals
           /\ record[r].seq <= faults.renewals /\ record[r].pending <= faults.renewals
<1>1. record[r] \in Records /\ group[r] \in Groups /\ moved[r] \in 0 .. Hold
  BY DEF RelayInv, TypeOK
<1>2. QED
  BY <1>1 DEF RelayInv, OpsInStep, GroupsInStep, SettlementsFinal, SequencesBounded,
     Records, Groups

\* What it says of the rest.
LEMMA Kept ==
    ASSUME RelayInv
    PROVE  /\ record \in [Reservations -> Records] /\ op \in [Reservations -> Operations]
           /\ group \in [Reservations -> Groups] /\ client \in [Reservations -> Clients]
           /\ moved \in [Reservations -> 0 .. Hold] /\ replay \in Passes
           /\ faults \in Faults /\ faults.renewals \in 0 .. MaxRenew
           /\ faults.errors \in 0 .. MaxErrors
           /\ toController \in Seq(Requests) /\ toEdge \in Seq(Answers)
           /\ link \in {"up", "down"}
  BY DEF RelayInv, TypeOK, Passes, Faults

\* A renewal is counted.
LEMMA RenewalCounted ==
    ASSUME RelayInv, faults.renewals < MaxRenew, faults' = [faults EXCEPT !.renewals = @ + 1]
    PROVE  faults' \in Faults /\ faults'.renewals = faults.renewals + 1
<1> DEFINE n == faults.renewals + 1
<1>1. n \in 0 .. MaxRenew
  BY SMTT(30), Kept, Constants
<1>2. faults' = [faults EXCEPT !.renewals = n]
  OBVIOUS
<1> HIDE DEF n
<1>3. faults' \in Faults /\ faults'.renewals = n
  BY <1>1, <1>2, Kept DEF Faults
<1>4. QED
  BY <1>3 DEF n

\* An error of the Edge is counted.
LEMMA ErrorCounted ==
    ASSUME RelayInv, faults.errors < MaxErrors, faults' = [faults EXCEPT !.errors = @ + 1]
    PROVE  faults' \in Faults /\ faults'.renewals = faults.renewals
<1> DEFINE n == faults.errors + 1
<1>1. n \in 0 .. MaxErrors
  BY SMTT(30), Kept, Constants
<1>2. faults' = [faults EXCEPT !.errors = n]
  OBVIOUS
<1> HIDE DEF n
<1>3. QED
  BY <1>1, <1>2, Kept DEF Faults

\* A client session moves on.
ClientAt(r, c) ==
    /\ client' \in [Reservations -> Clients] /\ client'[r] = c
    /\ \A s \in Reservations \ {r} : client'[s] = client[s]

\* A client session is assigned.
LEMMA ClientEffect ==
    ASSUME RelayInv, NEW r \in Reservations, NEW c \in Clients,
           client' = [client EXCEPT ![r] = c]
    PROVE  ClientAt(r, c)
  BY Kept DEF ClientAt

\* A request about r that is not a settlement may be sent.
LEMMA RequestSendable ==
    ASSUME RelayInv, NEW r \in Reservations, NEW k \in {"reserve", "query", "renew"},
           NEW q \in 0 .. MaxRenew, q <= faults'.renewals,
           k = "renew" => q = record'[r].pending
    PROVE  Sendable(Message(k, r, q, NoSettlement))
  BY EmptyValues DEF Sendable, Message, Requests, Calls

\* RequestRelay up to its wait.
LEMMA RequestRelayStep ==
    ASSUME RelayInv, NEW r \in Reservations, RequestRelay(r)
    PROVE  EdgeStep(r)
<1>1. TypeOK /\ client[r] = "new"
  BY Here DEF RequestRelay
<1>2. RecordAt(r, "REQUESTED", record[r].seq, record[r].pending, record[r].settlement)
  BY <1>1, StageEffect DEF RequestRelay, Stages
<1>3. OpAt(r, "request", "reserve")
  BY <1>1, StartEffect DEF RequestRelay, Pcs, Calls
<1>4. ClientAt(r, "waiting")
  BY ClientEffect DEF RequestRelay, Clients
<1>5. UNCHANGED <<group, moved, replay, faults, link, toEdge, controllerVars>>
  BY DEF RequestRelay, trafficVars
<1>6. Frame(r)
  BY <1>2, <1>3, <1>4, <1>5, Kept DEF Frame, RecordAt, OpAt, ClientAt
<1>7. Local(r)
  BY <1>1, <1>2, <1>3, <1>4, <1>5, Here
     DEF Local, OpInStep, GroupInStep, Static, Final, RecordAt, OpAt, ClientAt
<1>8. Numbered(r)
  BY <1>2, <1>5, Here, Kept DEF Numbered, RecordAt
<1>9. Exchange
  <2>1. Sendable(Message("reserve", r, 0, NoSettlement))
    BY <1>5, Kept, RequestSendable, Constants
  <2>2. QED
    BY <1>5, <2>1 DEF RequestRelay, Send, Exchange
<1>10. QED
  BY <1>5, <1>6, <1>7, <1>8, <1>9 DEF EdgeStep

\* RenewRelay up to its wait.
LEMMA RenewRelayStep ==
    ASSUME RelayInv, NEW r \in Reservations, RenewRelay(r)
    PROVE  EdgeStep(r)
<1>1. TypeOK /\ client[r] = "granted" /\ record[r].stage \in {"EXPOSED", "RENEW_PENDING"}
      /\ op[r] = Idle
  BY Here DEF RenewRelay
<1>2. OpAt(r, "renew", "renew")
  BY <1>1, StartEffect DEF RenewRelay, Pcs, Calls
<1>3. UNCHANGED <<group, moved, client, replay, link, toEdge, controllerVars>>
  BY DEF RenewRelay, trafficVars
<1>4. CASE /\ record[r].stage = "RENEW_PENDING"
           /\ Send(Message("renew", r, record[r].pending, NoSettlement))
           /\ UNCHANGED <<record, faults>>
  <2>1. Frame(r)
    BY <1>2, <1>3, <1>4, Kept DEF Frame, OpAt
  <2>2. Local(r)
    BY <1>1, <1>2, <1>3, <1>4, Here, EmptyValues
       DEF Local, OpInStep, GroupInStep, Static, Final, OpAt
  <2>3. Numbered(r)
    BY <1>3, <1>4, Here, Kept DEF Numbered
  <2>4. Exchange
    <3>1. Sendable(Message("renew", r, record[r].pending, NoSettlement))
      BY <1>4, Here, RequestSendable
    <3>2. QED
      BY <1>3, <1>4, <3>1 DEF Send, Exchange
  <2>5. QED
    BY <1>3, <2>1, <2>2, <2>3, <2>4 DEF EdgeStep
<1>5. CASE /\ record[r].stage = "EXPOSED" /\ faults.renewals < MaxRenew
           /\ faults' = [faults EXCEPT !.renewals = @ + 1]
           /\ record' = [record EXCEPT ![r].stage = "RENEW_PENDING",
                                       ![r].pending = record[r].seq + 1]
           /\ Send(Message("renew", r, record[r].seq + 1, NoSettlement))
  <2> DEFINE p == record[r].seq + 1
  <2>1. /\ faults' \in Faults /\ faults'.renewals = faults.renewals + 1
    BY <1>5, RenewalCounted
  <2>2. p \in 0 .. MaxRenew /\ p <= faults'.renewals
    <3>1. /\ record[r].seq \in 0 .. MaxRenew /\ record[r].seq <= faults.renewals
          /\ faults.renewals \in 0 .. MaxRenew /\ faults.renewals < MaxRenew
      BY <1>5, Here, Kept
    <3>2. QED
      BY <2>1, <3>1, Constants
  <2>3. record' = [record EXCEPT ![r].stage = "RENEW_PENDING", ![r].pending = p]
        /\ Send(Message("renew", r, p, NoSettlement))
    BY <1>5
  <2> HIDE DEF p
  <2>4. RecordAt(r, "RENEW_PENDING", record[r].seq, p, record[r].settlement)
    BY <1>1, <2>2, <2>3, RenewPendingEffect
  <2>5. Frame(r)
    BY <1>2, <1>3, <2>4, Kept DEF Frame, RecordAt, OpAt
  <2>6. Local(r)
    BY <1>1, <1>2, <1>3, <1>5, <2>4, Here, EmptyValues
       DEF Local, OpInStep, GroupInStep, Static, Final, RecordAt, OpAt
  <2>7. Numbered(r)
    BY <1>3, <2>1, <2>2, <2>4, Here, Kept, Constants DEF Numbered, RecordAt
  <2>8. Exchange
    <3>1. Sendable(Message("renew", r, p, NoSettlement))
      BY <2>2, <2>4, RequestSendable DEF RecordAt
    <3>2. QED
      BY <1>3, <2>3, <3>1 DEF Send, Exchange
  <2>9. QED
    BY <1>3, <2>5, <2>6, <2>7, <2>8 DEF EdgeStep
<1>6. QED
  BY <1>4, <1>5 DEF RenewRelay

\* An exact settlement of nothing, or a recovery, becomes durable.
LEMMA SettledEffect ==
    ASSUME RelayInv, NEW r \in Reservations, NEW k \in {"exact", "recovery"}, NEW b \in 0 .. Hold,
           \E at \in ObservedTimes : PutSettlement(r, Settlement(k, b, at))
    PROVE  \E s \in Settlements :
              /\ RecordAt(r, "SETTLEMENT_DURABLE", record[r].seq, record[r].pending, s)
              /\ s.kind = k /\ s.bytes = b
<1>1. PICK at \in ObservedTimes : PutSettlement(r, Settlement(k, b, at))
  OBVIOUS
<1>2. at \in Nat
  BY Constants
<1>3. Settlement(k, b, at) \in Settlements /\ Settlement(k, b, at).kind = k
      /\ Settlement(k, b, at).bytes = b
  BY <1>2, SettlementType
<1>4. TypeOK
  BY Here
<1>5. RecordAt(r, "SETTLEMENT_DURABLE", record[r].seq, record[r].pending, Settlement(k, b, at))
  BY <1>1, <1>3, <1>4, SettlementEffect
<1>6. QED
  BY <1>3, <1>5

\* CloseRelaySession up to its first step under the lock.
LEMMA CloseRelaySessionStep ==
    ASSUME RelayInv, NEW r \in Reservations, CloseRelaySession(r)
    PROVE  EdgeStep(r)
<1>1. TypeOK /\ client[r] \notin {"new", "waiting"} /\ op[r] = Idle
      /\ op[r].kind = "none" /\ op[r].pc = "idle"
  BY Here, EmptyValues DEF CloseRelaySession
<1>2. \E c \in Clients \ {"new", "waiting"} : ClientAt(r, c)
  BY ClientEffect DEF CloseRelaySession, Clients
<1>3. UNCHANGED <<group, moved, link, toController, toEdge, faults, controllerVars>>
  BY DEF CloseRelaySession, trafficVars
<1>4. Exchange
  BY <1>3 DEF Exchange
<1>5. CASE record' = record /\ op' = op
  <2>1. replay' \in Passes
    BY <1>1, Kept, PassTypes DEF CloseRelaySession
  <2>2. Frame(r)
    BY <1>2, <1>3, <1>5, <2>1, Kept DEF Frame, ClientAt
  <2>3. Local(r)
    BY <1>1, <1>2, <1>3, <1>5, Here
       DEF Local, OpInStep, GroupInStep, Static, Final, ClientAt
  <2>4. Numbered(r)
    BY <1>3, <1>5, Here, Kept DEF Numbered
  <2>5. QED
    BY <1>3, <1>4, <2>2, <2>3, <2>4 DEF EdgeStep
<1>6. CASE record[r].stage = "SETTLEMENT_DURABLE" /\ Start(r, "close", "deliver")
           /\ UNCHANGED <<record, replay>>
  <2>1. OpAt(r, "close", "deliver")
    BY <1>1, <1>6, StartEffect DEF Pcs
  <2>2. Frame(r)
    BY <1>2, <1>3, <1>6, <2>1, Kept DEF Frame, ClientAt, OpAt
  <2>3. Local(r)
    BY <1>1, <1>2, <1>3, <1>6, <2>1, Here
       DEF Local, OpInStep, GroupInStep, Static, Final, ClientAt, OpAt
  <2>4. Numbered(r)
    BY <1>3, <1>6, Here, Kept DEF Numbered
  <2>5. QED
    BY <1>3, <1>4, <2>2, <2>3, <2>4 DEF EdgeStep
<1>7. CASE record[r].stage = "HELD_UNEXPOSED" /\ Start(r, "close", "deliver")
           /\ (\E at \in ObservedTimes : PutSettlement(r, Settlement("exact", 0, at)))
           /\ UNCHANGED replay
  <2>1. OpAt(r, "close", "deliver")
    BY <1>1, <1>7, StartEffect DEF Pcs
  <2>2. PICK s \in Settlements :
              /\ RecordAt(r, "SETTLEMENT_DURABLE", record[r].seq, record[r].pending, s)
              /\ s.kind = "exact" /\ s.bytes = 0
    BY <1>7, SettledEffect, Constants
  <2>3. Frame(r)
    BY <1>2, <1>3, <1>7, <2>1, <2>2, Kept DEF Frame, ClientAt, OpAt, RecordAt
  <2>4. Local(r)
    BY <1>1, <1>2, <1>3, <1>7, <2>1, <2>2, Here
       DEF Local, OpInStep, GroupInStep, Static, Final, ClientAt, OpAt, RecordAt
  <2>5. Numbered(r)
    BY <1>3, <2>2, Here, Kept DEF Numbered, RecordAt
  <2>6. QED
    BY <1>3, <1>4, <2>3, <2>4, <2>5 DEF EdgeStep
<1>8. CASE /\ record[r].stage \in {"EXPOSED", "RENEW_PENDING", "CLOSING"}
           /\ Stage(r, "CLOSING") /\ Start(r, "close", "closing") /\ UNCHANGED replay
  <2>1. OpAt(r, "close", "closing")
    BY <1>1, <1>8, StartEffect DEF Pcs
  <2>2. RecordAt(r, "CLOSING", record[r].seq, record[r].pending, record[r].settlement)
    BY <1>1, <1>8, StageEffect DEF Stages
  <2>3. Frame(r)
    BY <1>2, <1>3, <1>8, <2>1, <2>2, Kept DEF Frame, ClientAt, OpAt, RecordAt
  <2>4. Local(r)
    BY <1>1, <1>2, <1>3, <1>8, <2>1, <2>2, Here
       DEF Local, OpInStep, GroupInStep, Static, Final, ClientAt, OpAt, RecordAt
  <2>5. Numbered(r)
    BY <1>3, <2>2, Here, Kept DEF Numbered, RecordAt
  <2>6. QED
    BY <1>3, <1>4, <2>3, <2>4, <2>5 DEF EdgeStep
<1>9. QED
  BY <1>5, <1>6, <1>7, <1>8 DEF CloseRelaySession

\* A pass of the replay takes up the next record.
LEMMA ReplayRecordStep ==
    ASSUME RelayInv, NEW r \in Reservations, ReplayRecord(r)
    PROVE  EdgeStep(r)
<1>1. TypeOK /\ op[r] = Idle /\ op[r].kind = "none" /\ op[r].pc = "idle"
  BY Here, EmptyValues DEF ReplayRecord
<1>2. UNCHANGED <<group, moved, client, link, toEdge, faults, controllerVars>>
  BY DEF ReplayRecord, trafficVars
<1>3. CASE replay' = AfterRecord(replay, r, TRUE) /\ UNCHANGED <<record, op, toController>>
  <2>1. replay' \in Passes
    BY <1>3, Kept, PassTypes
  <2>2. Frame(r)
    BY <1>2, <1>3, <2>1, Kept DEF Frame
  <2>3. Local(r)
    BY <1>1, <1>2, <1>3, Here DEF Local, OpInStep, GroupInStep, Static, Final
  <2>4. Numbered(r) /\ Exchange
    BY <1>2, <1>3, Here, Kept DEF Numbered, Exchange
  <2>5. QED
    BY <1>2, <2>2, <2>3, <2>4 DEF EdgeStep
<1>4. ASSUME UNCHANGED <<record, replay>>, NEW p \in Pcs, Start(r, "replay", p),
             \/ p = "query" /\ record[r].stage = "REQUESTED"
             \/ p = "unexposed" /\ record[r].stage = "HELD_UNEXPOSED"
             \/ p = "renew" /\ record[r].stage = "RENEW_PENDING"
             \/ p = "closing" /\ record[r].stage = "CLOSING"
             \/ p = "deliver" /\ record[r].stage = "SETTLEMENT_DURABLE",
             Exchange
      PROVE  EdgeStep(r)
  <2>1. OpAt(r, "replay", p)
    BY <1>1, <1>4, StartEffect
  <2>2. Frame(r)
    BY <1>2, <1>4, <2>1, Kept DEF Frame, OpAt
  <2>3. Local(r)
    BY <1>1, <1>2, <1>4, <2>1, Here DEF Local, OpInStep, GroupInStep, Static, Final, OpAt
  <2>4. Numbered(r)
    BY <1>2, <1>4, Here, Kept DEF Numbered
  <2>5. QED
    BY <1>2, <1>4, <2>2, <2>3, <2>4 DEF EdgeStep
<1>5. CASE /\ record[r].stage \in {"EXPOSED", "RENEW_PENDING"} /\ ~group[r].live
           /\ \E at \in ObservedTimes : PutSettlement(r, Settlement("recovery", 0, at))
           /\ Start(r, "replay", "deliver")
           /\ UNCHANGED <<replay, toController>>
  <2>1. OpAt(r, "replay", "deliver")
    BY <1>1, <1>5, StartEffect DEF Pcs
  <2>2. PICK s \in Settlements :
              /\ RecordAt(r, "SETTLEMENT_DURABLE", record[r].seq, record[r].pending, s)
              /\ s.kind = "recovery" /\ s.bytes = 0
    BY <1>5, SettledEffect, Constants
  <2>3. Frame(r)
    BY <1>2, <1>5, <2>1, <2>2, Kept DEF Frame, OpAt, RecordAt
  <2>4. Local(r)
    BY <1>1, <1>2, <1>5, <2>1, <2>2, Here
       DEF Local, OpInStep, GroupInStep, Static, Final, OpAt, RecordAt
  <2>5. Numbered(r) /\ Exchange
    BY <1>2, <1>5, <2>2, Here, Kept DEF Numbered, RecordAt, Exchange
  <2>6. QED
    BY <1>2, <2>3, <2>4, <2>5 DEF EdgeStep
<1>6. CASE /\ record[r].stage = "REQUESTED" /\ Start(r, "replay", "query")
           /\ Send(Message("query", r, 0, NoSettlement)) /\ UNCHANGED <<record, replay>>
  <2>1. Sendable(Message("query", r, 0, NoSettlement))
    BY <1>2, Kept, RequestSendable, Constants
  <2>2. Exchange
    BY <1>2, <1>6, <2>1 DEF Exchange, Send
  <2>3. QED
    BY <1>4, <1>6, <2>2 DEF Pcs, Calls
<1>7. CASE /\ record[r].stage = "RENEW_PENDING" /\ Start(r, "replay", "renew")
           /\ Send(Message("renew", r, record[r].pending, NoSettlement))
           /\ UNCHANGED <<record, replay>>
  <2>1. Sendable(Message("renew", r, record[r].pending, NoSettlement))
    BY <1>2, <1>7, Here, RequestSendable
  <2>2. Exchange
    BY <1>2, <1>7, <2>1 DEF Exchange, Send
  <2>3. QED
    BY <1>4, <1>7, <2>2 DEF Pcs, Calls
<1>8. CASE /\ UNCHANGED <<record, replay, toController>>
           /\ \/ record[r].stage = "HELD_UNEXPOSED" /\ Start(r, "replay", "unexposed")
              \/ record[r].stage = "CLOSING" /\ Start(r, "replay", "closing")
              \/ record[r].stage = "SETTLEMENT_DURABLE" /\ Start(r, "replay", "deliver")
  <2>1. Exchange
    BY <1>2, <1>8 DEF Exchange
  <2>2. QED
    BY <1>4, <1>8, <2>1 DEF Pcs
<1>9. QED
  BY <1>3, <1>5, <1>6, <1>7, <1>8 DEF ReplayRecord

\* RegisterRelayGrant.
LEMMA RegisterStep ==
    ASSUME RelayInv, NEW r \in Reservations, Register(r)
    PROVE  EdgeStep(r)
<1>1. TypeOK /\ op[r].pc = "register"
  BY Here DEF Register
<1>2. UNCHANGED <<record, moved, client, replay, link, toController, toEdge, faults,
                  controllerVars>>
  BY DEF Register
<1>3. Exchange
  BY <1>2 DEF Exchange
<1>4. CASE /\ group' = [group EXCEPT ![r] = [NoGroup EXCEPT !.live = TRUE,
                                                            !.seq = record[r].seq]]
           /\ Goto(r, "expose")
  <2>1. OpAt(r, op[r].kind, "expose")
    BY <1>1, <1>4, GotoEffect DEF Pcs
  <2>2. /\ GroupAt(r, TRUE, FALSE, FALSE) /\ group'[r].seq = record[r].seq
        /\ group'[r].carried = 0 /\ group'[r].counted = 0
    BY <1>1, <1>4, RegisterEffect
  <2>3. Frame(r)
    BY <1>2, <2>1, <2>2, Kept DEF Frame, OpAt, GroupAt
  <2>4. Local(r)
    BY <1>1, <1>2, <2>1, <2>2, Here
       DEF Local, OpInStep, GroupInStep, Static, Final, OpAt, GroupAt
  <2>5. Numbered(r)
    BY <1>2, <2>2, Here, Kept DEF Numbered
  <2>6. QED
    BY <1>2, <1>3, <2>3, <2>4, <2>5 DEF EdgeStep
<1>5. CASE Goto(r, "unexposed") /\ UNCHANGED group
  <2>1. OpAt(r, op[r].kind, "unexposed")
    BY <1>1, <1>5, GotoEffect DEF Pcs
  <2>2. Frame(r)
    BY <1>2, <1>5, <2>1, Kept DEF Frame, OpAt
  <2>3. Local(r)
    BY <1>1, <1>2, <1>5, <2>1, Here
       DEF Local, OpInStep, GroupInStep, Static, Final, OpAt
  <2>4. Numbered(r)
    BY <1>2, <1>5, Here, Kept DEF Numbered
  <2>5. QED
    BY <1>2, <1>3, <2>2, <2>3, <2>4 DEF EdgeStep
<1>6. QED
  BY <1>4, <1>5 DEF Register

\* An operation that only returns keeps the invariant, unless it is the request
\* that still has to say what it exposed.
LEMMA FinishStep ==
    ASSUME RelayInv, NEW r \in Reservations, NEW ok \in BOOLEAN, NEW again,
           Finish(r, ok, again), op[r].pc # "expose", op[r].pc # "deliver",
           UNCHANGED <<record, group, moved, link, toController, controllerVars>>,
           faults' \in Faults, faults'.renewals = faults.renewals,
           toEdge' = toEdge \/ (toEdge # << >> /\ toEdge' = Tail(toEdge))
    PROVE  EdgeStep(r)
<1>1. TypeOK
  BY Here
<1>2. /\ OpAt(r, "none", "idle") /\ op'[r] = Idle
      /\ client' \in [Reservations -> Clients]
      /\ client'[r] = IF op[r].kind = "request"
                      THEN IF ok THEN "granted" ELSE "refused" ELSE client[r]
      /\ \A s \in Reservations \ {r} : client'[s] = client[s]
      /\ replay' \in Passes
  BY <1>1, FinishEffect
<1>3. Frame(r)
  BY <1>2, Kept DEF Frame, OpAt
<1>4. Local(r)
  BY <1>2, Here DEF Local, OpInStep, GroupInStep, Static, Final, OpAt
<1>5. Numbered(r) /\ Exchange
  BY Here, Kept, Constants DEF Numbered, Exchange
<1>6. QED
  BY <1>3, <1>4, <1>5 DEF EdgeStep

\* MarkExposed, and the credential leaves.
LEMMA MarkExposedStep ==
    ASSUME RelayInv, NEW r \in Reservations, MarkExposed(r)
    PROVE  EdgeStep(r)
<1>1. TypeOK /\ op[r].pc = "expose"
  BY Here DEF MarkExposed
<1>2. UNCHANGED <<group, moved, link, toController, toEdge, faults, controllerVars>>
  BY DEF MarkExposed, trafficVars
<1>3. RecordAt(r, "EXPOSED", record[r].seq, record[r].pending, record[r].settlement)
  BY <1>1, StageEffect DEF MarkExposed, Stages
<1>4. /\ OpAt(r, "none", "idle") /\ client' \in [Reservations -> Clients]
      /\ client'[r] = IF op[r].kind = "request" THEN "granted" ELSE client[r]
      /\ \A s \in Reservations \ {r} : client'[s] = client[s]
      /\ replay' \in Passes
  BY <1>1, FinishEffect DEF MarkExposed
<1>5. Frame(r)
  BY <1>2, <1>3, <1>4, Kept DEF Frame, OpAt, RecordAt
<1>6. Local(r)
  BY <1>1, <1>2, <1>3, <1>4, Here
     DEF Local, OpInStep, GroupInStep, Static, Final, OpAt, RecordAt
<1>7. Numbered(r) /\ Exchange
  BY <1>2, <1>3, Here, Kept DEF Numbered, Exchange, RecordAt
<1>8. QED
  BY <1>2, <1>5, <1>6, <1>7 DEF EdgeStep

\* MarkExposed fails and the group is forgotten.
LEMMA MarkExposedFailsStep ==
    ASSUME RelayInv, NEW r \in Reservations, MarkExposedFails(r)
    PROVE  EdgeStep(r)
<1>1. TypeOK /\ op[r].pc = "expose"
  BY Here DEF MarkExposedFails
<1>2. UNCHANGED <<record, moved, client, replay, link, toController, toEdge, controllerVars>>
  BY DEF MarkExposedFails
<1>3. faults' \in Faults /\ faults'.renewals = faults.renewals
  BY ErrorCounted DEF MarkExposedFails
<1>4. GroupAt(r, FALSE, FALSE, FALSE) /\ group'[r].seq = 0
  BY <1>1, ForgetEffect DEF MarkExposedFails
<1>5. OpAt(r, op[r].kind, "unexposed")
  BY <1>1, GotoEffect DEF MarkExposedFails, Pcs
<1>6. Frame(r)
  BY <1>2, <1>4, <1>5, Kept DEF Frame, OpAt, GroupAt
<1>7. Local(r)
  BY <1>1, <1>2, <1>4, <1>5, Here
     DEF Local, OpInStep, GroupInStep, Static, Final, OpAt, GroupAt
<1>8. Numbered(r) /\ Exchange
  BY <1>2, <1>3, <1>4, Here, Kept, Constants DEF Numbered, Exchange
<1>9. QED
  BY <1>2, <1>6, <1>7, <1>8 DEF EdgeStep

\* The exact settlement of a credential that never left.
LEMMA SettleUnexposedStep ==
    ASSUME RelayInv, NEW r \in Reservations, SettleUnexposed(r)
    PROVE  EdgeStep(r)
<1>1. TypeOK /\ op[r].pc = "unexposed"
  BY Here DEF SettleUnexposed
<1>2. UNCHANGED <<group, moved, client, replay, link, toController, toEdge, faults,
                  controllerVars>>
  BY DEF SettleUnexposed, trafficVars
<1>3. PICK s \in Settlements :
            /\ RecordAt(r, "SETTLEMENT_DURABLE", record[r].seq, record[r].pending, s)
            /\ s.kind = "exact" /\ s.bytes = 0
  BY SettledEffect, Constants DEF SettleUnexposed
<1>4. OpAt(r, op[r].kind, "deliver")
  BY <1>1, GotoEffect DEF SettleUnexposed, Pcs
<1>5. Frame(r)
  BY <1>2, <1>3, <1>4, Kept DEF Frame, OpAt, RecordAt
<1>6. Local(r)
  BY <1>1, <1>2, <1>3, <1>4, Here
     DEF Local, OpInStep, GroupInStep, Static, Final, OpAt, RecordAt
<1>7. Numbered(r) /\ Exchange
  BY <1>2, <1>3, Here, Kept DEF Numbered, Exchange, RecordAt
<1>8. QED
  BY <1>2, <1>5, <1>6, <1>7 DEF EdgeStep

\* finishClosingRelaySession, without the group and with it.
LEMMA FinishClosingStep ==
    ASSUME RelayInv, NEW r \in Reservations, FinishClosing(r)
    PROVE  EdgeStep(r)
<1>1. TypeOK /\ op[r].pc = "closing"
  BY Here DEF FinishClosing
<1>2. UNCHANGED <<moved, client, replay, link, toController, toEdge, faults, controllerVars>>
  BY DEF FinishClosing
<1>3. CASE /\ ~group[r].live
           /\ \E at \in ObservedTimes : PutSettlement(r, Settlement("recovery", 0, at))
           /\ Goto(r, "deliver") /\ UNCHANGED group
  <2>1. PICK s \in Settlements :
              /\ RecordAt(r, "SETTLEMENT_DURABLE", record[r].seq, record[r].pending, s)
              /\ s.kind = "recovery" /\ s.bytes = 0
    BY <1>3, SettledEffect, Constants
  <2>2. OpAt(r, op[r].kind, "deliver")
    BY <1>1, <1>3, GotoEffect DEF Pcs
  <2>3. Frame(r)
    BY <1>2, <1>3, <2>1, <2>2, Kept DEF Frame, OpAt, RecordAt
  <2>4. Local(r)
    BY <1>1, <1>2, <1>3, <2>1, <2>2, Here
       DEF Local, OpInStep, GroupInStep, Static, Final, OpAt, RecordAt
  <2>5. Numbered(r) /\ Exchange
    BY <1>2, <1>3, <2>1, Here, Kept DEF Numbered, Exchange, RecordAt
  <2>6. QED
    BY <1>2, <2>3, <2>4, <2>5 DEF EdgeStep
<1>4. CASE /\ group[r].live /\ group' = [group EXCEPT ![r].closing = TRUE]
           /\ Goto(r, "drain") /\ UNCHANGED record
  <2>1. /\ GroupAt(r, group[r].live, TRUE, group[r].open) /\ group'[r].seq = group[r].seq
        /\ group'[r].carried = group[r].carried /\ group'[r].counted = group[r].counted
    BY <1>1, <1>4, ClosingEffect
  <2>2. OpAt(r, op[r].kind, "drain")
    BY <1>1, <1>4, GotoEffect DEF Pcs
  <2>3. Frame(r)
    BY <1>2, <1>4, <2>1, <2>2, Kept DEF Frame, OpAt, GroupAt
  <2>4. Local(r)
    BY <1>1, <1>2, <1>4, <2>1, <2>2, Here
       DEF Local, OpInStep, GroupInStep, Static, Final, OpAt, GroupAt
  <2>5. Numbered(r) /\ Exchange
    BY <1>2, <1>4, <2>1, Here, Kept DEF Numbered, Exchange
  <2>6. QED
    BY <1>2, <2>3, <2>4, <2>5 DEF EdgeStep
<1>5. QED
  BY <1>3, <1>4 DEF FinishClosing

\* The allocations are closed and the final count becomes durable.
LEMMA DrainStep ==
    ASSUME RelayInv, NEW r \in Reservations, Drain(r)
    PROVE  EdgeStep(r)
<1>1. TypeOK /\ op[r].pc = "drain"
  BY Here DEF Drain
<1>2. UNCHANGED <<moved, client, replay, link, toController, toEdge, faults, controllerVars>>
  BY DEF Drain
<1>3. group[r].live /\ group[r].closing /\ moved[r] = group[r].carried + group[r].counted
  BY <1>1, Here DEF GroupInStep
<1>4. group[r].carried + group[r].counted <= Hold
  BY <1>3, Here, Constants
<1>5. /\ GroupAt(r, group[r].live, group[r].closing, FALSE) /\ group'[r].seq = group[r].seq
      /\ group'[r].carried = 0 /\ group'[r].counted = group[r].counted + group[r].carried
      /\ Aggregate(group[r]) = group[r].counted + group[r].carried
  BY <1>1, <1>4, DrainedEffect DEF Drain
<1>6. Aggregate(group[r]) = moved[r] /\ group'[r].carried + group'[r].counted = moved[r]
  BY <1>3, <1>5, Here, Constants
<1>7. PICK s \in Settlements :
            /\ RecordAt(r, "SETTLEMENT_DURABLE", record[r].seq, record[r].pending, s)
            /\ s.kind = "exact" /\ s.bytes = moved[r]
  BY <1>6, SettledEffect, Here DEF Drain
<1>8. OpAt(r, op[r].kind, "deliver")
  BY <1>1, GotoEffect DEF Drain, Pcs
<1>9. Frame(r)
  BY <1>2, <1>5, <1>7, <1>8, Kept DEF Frame, OpAt, RecordAt, GroupAt
<1>10. Local(r)
  BY <1>1, <1>2, <1>3, <1>5, <1>6, <1>7, <1>8, Here
     DEF Local, OpInStep, GroupInStep, Static, Final, OpAt, RecordAt, GroupAt
<1>11. Numbered(r) /\ Exchange
  BY <1>2, <1>5, <1>7, Here, Kept DEF Numbered, Exchange, RecordAt
<1>12. QED
  BY <1>2, <1>9, <1>10, <1>11 DEF EdgeStep

\* The allocations of a reservation that was terminal are closed.
LEMMA RevokeStep ==
    ASSUME RelayInv, NEW r \in Reservations, Revoke(r)
    PROVE  EdgeStep(r)
<1>1. TypeOK /\ op[r].pc = "revoke"
  BY Here DEF Revoke
<1>2. UNCHANGED <<record, moved, client, replay, link, toController, toEdge, faults,
                  controllerVars>>
  BY DEF Revoke
<1>3. GroupAt(r, FALSE, FALSE, FALSE) /\ group'[r].seq = 0
  BY <1>1, ForgetEffect DEF Revoke
<1>4. OpAt(r, op[r].kind, "ack_renew")
  BY <1>1, GotoEffect DEF Revoke, Pcs
<1>5. Frame(r)
  BY <1>2, <1>3, <1>4, Kept DEF Frame, OpAt, GroupAt
<1>6. Local(r)
  BY <1>1, <1>2, <1>3, <1>4, Here
     DEF Local, OpInStep, GroupInStep, Static, Final, OpAt, GroupAt
<1>7. Numbered(r) /\ Exchange
  BY <1>2, <1>3, Here, Kept, Constants DEF Numbered, Exchange
<1>8. QED
  BY <1>2, <1>5, <1>6, <1>7 DEF EdgeStep

\* Closing the allocations fails.
LEMMA DrainFailsStep ==
    ASSUME RelayInv, NEW r \in Reservations, DrainFails(r)
    PROVE  EdgeStep(r)
<1>1. faults' \in Faults /\ faults'.renewals = faults.renewals
  BY ErrorCounted DEF DrainFails
<1>2. QED
  BY <1>1, FinishStep DEF DrainFails, Fail, trafficVars

\* A call times out.
LEMMA TimeoutStep ==
    ASSUME RelayInv, NEW r \in Reservations, Timeout(r)
    PROVE  EdgeStep(r)
<1>1. faults' \in Faults /\ faults'.renewals = faults.renewals
  BY ErrorCounted DEF Timeout
<1>2. op[r].pc \notin {"expose", "deliver"}
  BY DEF Timeout, Waiting, Calls
<1>3. QED
  BY <1>1, <1>2, FinishStep DEF Timeout, trafficVars

\* An operation that deletes its record and returns.
LEMMA DeleteStep ==
    ASSUME RelayInv, NEW r \in Reservations, NEW ok \in BOOLEAN, NEW again,
           Delete(r), Finish(r, ok, again), op[r].pc # "idle", ~group[r].live,
           UNCHANGED <<group, moved, link, toController, faults, controllerVars>>,
           toEdge' = toEdge \/ (toEdge # << >> /\ toEdge' = Tail(toEdge))
    PROVE  EdgeStep(r)
<1>1. TypeOK
  BY Here
<1>2. /\ OpAt(r, "none", "idle") /\ op'[r] = Idle
      /\ client' \in [Reservations -> Clients]
      /\ client'[r] = IF op[r].kind = "request"
                      THEN IF ok THEN "granted" ELSE "refused" ELSE client[r]
      /\ \A s \in Reservations \ {r} : client'[s] = client[s]
      /\ replay' \in Passes
  BY <1>1, FinishEffect
<1>3. RecordAt(r, "NONE", 0, 0, NoRecord.settlement)
  BY <1>1, DeleteEffect
<1>4. Frame(r)
  BY <1>2, <1>3, Kept DEF Frame, OpAt, RecordAt
<1>5. Local(r)
  BY <1>2, <1>3, Here DEF Local, OpInStep, GroupInStep, Static, Final, OpAt, RecordAt
<1>6. Numbered(r) /\ Exchange
  BY <1>3, Here, Kept, Constants DEF Numbered, Exchange, RecordAt
<1>7. QED
  BY <1>4, <1>5, <1>6 DEF EdgeStep

\* The group is forgotten and the settlement sent.
LEMMA DeliverStep ==
    ASSUME RelayInv, NEW r \in Reservations, Deliver(r)
    PROVE  EdgeStep(r)
<1>1. TypeOK /\ op[r].pc = "deliver" /\ record[r].stage = "SETTLEMENT_DURABLE"
  BY Here DEF Deliver, OpInStep
<1>2. UNCHANGED <<record, moved, link, toEdge, faults, controllerVars>>
  BY DEF Deliver
<1>3. GroupAt(r, FALSE, FALSE, FALSE) /\ group'[r].seq = 0
  BY <1>1, ForgetEffect DEF Deliver
<1>4. CASE /\ Send(Message("settle", r, 0, record[r].settlement))
           /\ Goto(r, "settle") /\ UNCHANGED <<client, replay>>
  <2>1. OpAt(r, op[r].kind, "settle")
    BY <1>1, <1>4, GotoEffect DEF Pcs, Calls
  <2>2. Frame(r)
    BY <1>2, <1>3, <1>4, <2>1, Kept DEF Frame, OpAt, GroupAt
  <2>3. Local(r)
    BY <1>1, <1>2, <1>3, <1>4, <2>1, Here
       DEF Local, OpInStep, GroupInStep, Static, Final, OpAt, GroupAt
  <2>4. Numbered(r)
    BY <1>2, <1>3, Here, Kept, Constants DEF Numbered
  <2>5. Exchange
    <3>0. PICK m : m = Message("settle", r, 0, record[r].settlement)
      OBVIOUS
    <3>1. /\ m \in Requests /\ m.seq = 0 /\ m.id = r /\ m.settlement = record[r].settlement
          /\ m.kind = "settle"
      BY <3>0, Here, Constants DEF Message, Requests, Calls
    <3>2. toController' = Append(toController, m)
      BY <1>4, <3>0 DEF Send
    <3>3. Final(r, record[r].settlement)'
      BY <1>1, <1>2, <2>3 DEF Local
    <3>4. Final(m.id, m.settlement)'
      BY <1>2, <3>1, <3>3 DEF Final
    <3>5. Sendable(m)
      BY <1>2, <3>1, <3>4, Kept DEF Sendable
    <3>6. QED
      BY <1>2, <3>2, <3>5 DEF Exchange
  <2>6. QED
    BY <1>2, <2>2, <2>3, <2>4, <2>5 DEF EdgeStep
<1>5. CASE Fail(r) /\ UNCHANGED toController
  <2>1. /\ OpAt(r, "none", "idle") /\ client' \in [Reservations -> Clients]
        /\ client'[r] = IF op[r].kind = "request" THEN "refused" ELSE client[r]
        /\ \A s \in Reservations \ {r} : client'[s] = client[s]
        /\ replay' \in Passes
    BY <1>1, <1>5, FinishEffect DEF Fail
  <2>2. Frame(r)
    BY <1>2, <1>3, <2>1, Kept DEF Frame, OpAt, GroupAt
  <2>3. Local(r)
    BY <1>1, <1>2, <1>3, <2>1, Here
       DEF Local, OpInStep, GroupInStep, Static, Final, OpAt, GroupAt
  <2>4. Numbered(r) /\ Exchange
    BY <1>2, <1>3, <1>5, Here, Kept, Constants DEF Numbered, Exchange
  <2>5. QED
    BY <1>2, <2>2, <2>3, <2>4 DEF EdgeStep
<1>6. QED
  BY <1>4, <1>5 DEF Deliver

\* The terminal fact that came with a grant or a renewal consumes the record.
LEMMA AckTerminalStep ==
    ASSUME RelayInv, NEW r \in Reservations, AckTerminal(r)
    PROVE  EdgeStep(r)
<1>1. op[r].pc \in {"ack", "ack_renew"} /\ ~group[r].live
  BY Here DEF AckTerminal, OpInStep, GroupInStep
<1>2. UNCHANGED <<group, moved, link, toController, toEdge, faults, controllerVars>>
  BY DEF AckTerminal, trafficVars
<1>3. CASE Delete(r) /\ Finish(r, op[r].kind = "replay" /\ op[r].pc = "ack", FALSE)
  <2> DEFINE ok == op[r].kind = "replay" /\ op[r].pc = "ack"
  <2>1. ok \in BOOLEAN /\ Finish(r, ok, FALSE)
    BY <1>3
  <2> HIDE DEF ok
  <2>2. QED
    BY <1>1, <1>2, <1>3, <2>1, DeleteStep
<1>4. CASE Fail(r) /\ UNCHANGED record
  BY <1>1, <1>2, <1>4, FinishStep, Kept DEF Fail
<1>5. QED
  BY <1>3, <1>4 DEF AckTerminal

\* A client allocates.
LEMMA AllocateStep ==
    ASSUME RelayInv, NEW r \in Reservations, Allocate(r)
    PROVE  EdgeStep(r)
<1>1. TypeOK /\ group[r].live /\ ~group[r].closing /\ client[r] \notin {"new", "waiting"}
  BY Here DEF Allocate
<1>2. UNCHANGED <<record, moved, client, op, replay, link, toController, toEdge, faults,
                  controllerVars>>
  BY DEF Allocate
<1>3. /\ GroupAt(r, group[r].live, group[r].closing, TRUE) /\ group'[r].seq = group[r].seq
      /\ group'[r].carried = group[r].carried /\ group'[r].counted = group[r].counted
  BY <1>1, OpenEffect DEF Allocate
<1>4. Frame(r)
  BY <1>2, <1>3, Kept DEF Frame, GroupAt
<1>5. Local(r)
  BY <1>1, <1>2, <1>3, Here DEF Local, OpInStep, GroupInStep, Static, Final, GroupAt
<1>6. Numbered(r) /\ Exchange
  BY <1>2, <1>3, Here, Kept DEF Numbered, Exchange
<1>7. QED
  BY <1>2, <1>4, <1>5, <1>6 DEF EdgeStep

\* A byte passes.
LEMMA RelayByteStep ==
    ASSUME RelayInv, NEW r \in Reservations, RelayByte(r)
    PROVE  EdgeStep(r)
<1>1. TypeOK /\ group[r].open /\ group[r].live /\ group[r].carried + group[r].counted < Hold
      /\ moved[r] = group[r].carried + group[r].counted
  BY Here DEF RelayByte, GroupInStep
<1>2. UNCHANGED <<record, client, op, replay, link, toController, toEdge, faults,
                  controllerVars>>
  BY DEF RelayByte
<1>3. group[r].carried < Hold /\ moved[r] + 1 \in 0 .. Hold
  BY <1>1, Here, Constants
<1>4. /\ GroupAt(r, group[r].live, group[r].closing, group[r].open)
      /\ group'[r].seq = group[r].seq
      /\ group'[r].carried = group[r].carried + 1 /\ group'[r].counted = group[r].counted
  BY <1>1, <1>3, ByteEffect DEF RelayByte
<1>5. /\ moved' \in [Reservations -> 0 .. Hold] /\ moved'[r] = moved[r] + 1
      /\ \A s \in Reservations \ {r} : moved'[s] = moved[s]
  BY <1>3, Kept DEF RelayByte
<1>6. moved'[r] = group'[r].carried + group'[r].counted
  BY <1>1, <1>4, <1>5, Here, Constants
<1>7. Frame(r)
  BY <1>2, <1>4, <1>5, Kept DEF Frame, GroupAt
<1>8. Local(r)
  BY <1>1, <1>2, <1>4, <1>6, Here DEF Local, OpInStep, GroupInStep, Static, Final, GroupAt
<1>9. Numbered(r) /\ Exchange
  BY <1>2, <1>4, Here, Kept DEF Numbered, Exchange
<1>10. QED
  BY <1>2, <1>7, <1>8, <1>9 DEF EdgeStep

\* The allocation ends and is counted.
LEMMA DeallocateStep ==
    ASSUME RelayInv, NEW r \in Reservations, Deallocate(r)
    PROVE  EdgeStep(r)
<1>1. TypeOK /\ group[r].open /\ group[r].live
      /\ moved[r] = group[r].carried + group[r].counted
  BY Here DEF Deallocate, GroupInStep
<1>2. UNCHANGED <<record, moved, client, op, replay, link, toController, toEdge, faults,
                  controllerVars>>
  BY DEF Deallocate
<1>3. group[r].carried + group[r].counted <= Hold
  BY <1>1, Here, Constants
<1>4. /\ GroupAt(r, group[r].live, group[r].closing, FALSE) /\ group'[r].seq = group[r].seq
      /\ group'[r].carried = 0 /\ group'[r].counted = group[r].counted + group[r].carried
  BY <1>1, <1>3, DrainedEffect DEF Deallocate
<1>5. moved[r] = group'[r].carried + group'[r].counted
  BY <1>1, <1>4, Here, Constants
<1>6. Frame(r)
  BY <1>2, <1>4, Kept DEF Frame, GroupAt
<1>7. Local(r)
  BY <1>1, <1>2, <1>4, <1>5, Here DEF Local, OpInStep, GroupInStep, Static, Final, GroupAt
<1>8. Numbered(r) /\ Exchange
  BY <1>2, <1>4, Here, Kept DEF Numbered, Exchange
<1>9. QED
  BY <1>2, <1>6, <1>7, <1>8 DEF EdgeStep

-----------------------------------------------------------------------------
(* Answers.                                                                *)

\* The oldest answer is well typed and numbered.
LEMMA OldestAnswer ==
    ASSUME RelayInv, toEdge # << >>
    PROVE  Head(toEdge) \in Answers /\ Head(toEdge).seq <= faults.renewals
<1> DEFINE C == {m \in Answers : m.seq <= faults.renewals}
<1>1. toEdge \in Seq(C)
  BY DEF RelayInv, SequencesBounded
<1> HIDE DEF C
<1>2. Head(toEdge) \in C
  BY <1>1, HeadTailProperties
<1>3. QED
  BY <1>2 DEF C

\* An answer takes r on to another step of its operation.
LEMMA GrantStep ==
    ASSUME RelayInv, NEW r \in Reservations, NEW q \in 0 .. MaxRenew, NEW p \in Pcs,
           ApplyGrant(r, q), q <= faults.renewals, OpAt(r, op[r].kind, p),
           \/ p = "register" /\ op[r].kind = "request" /\ op[r].pc = "reserve"
           \/ p \in {"unexposed", "ack"},
           op[r].pc \in {"reserve", "query"},
           UNCHANGED <<group, moved, client, replay, link, toController, faults, controllerVars>>,
           toEdge # << >>, toEdge' = Tail(toEdge)
    PROVE  EdgeStep(r)
<1>1. RecordAt(r, "HELD_UNEXPOSED", q, record[r].pending, record[r].settlement)
  BY Here, GrantEffect
<1>2. Frame(r)
  BY <1>1, Kept DEF Frame, OpAt, RecordAt
<1>3. Local(r)
  BY <1>1, Here DEF Local, OpInStep, GroupInStep, Static, Final, OpAt, RecordAt
<1>4. Numbered(r) /\ Exchange
  BY <1>1, Here, Kept DEF Numbered, Exchange, RecordAt
<1>5. QED
  BY <1>2, <1>3, <1>4 DEF EdgeStep

\* acceptReserveResponse.
LEMMA AcceptReserveStep ==
    ASSUME RelayInv, NEW m \in Answers, NEW r \in Reservations, m.seq <= faults.renewals,
           op[r].pc = "reserve", AcceptReserve(r, m),
           UNCHANGED <<group, moved, link, toController, faults, controllerVars>>,
           toEdge # << >>, toEdge' = Tail(toEdge)
    PROVE  EdgeStep(r)
<1>1. TypeOK /\ m.seq \in 0 .. MaxRenew /\ m.fact \in Settlements
  BY Here DEF Answers
<1>2. CASE /\ Delete(r)
           /\ \E consumed \in BOOLEAN : Finish(r, consumed /\ op[r].kind = "replay", FALSE)
  <2>1. ~group[r].live
    BY Here DEF OpInStep, GroupInStep
  <2>2. PICK consumed \in BOOLEAN : Finish(r, consumed /\ op[r].kind = "replay", FALSE)
    BY <1>2
  <2>3. (consumed /\ op[r].kind = "replay") \in BOOLEAN
    OBVIOUS
  <2>4. QED
    BY <1>2, <2>1, <2>2, <2>3, DeleteStep
<1>3. CASE /\ ApplyGrant(r, m.seq) /\ op' = [op EXCEPT ![r].pc = "ack", ![r].ack = m.fact]
           /\ UNCHANGED <<client, replay>>
  <2>1. OpAt(r, op[r].kind, "ack")
    BY <1>1, <1>3, AckEffect DEF Pcs
  <2>2. QED
    BY <1>1, <1>3, <2>1, GrantStep DEF Pcs
<1>4. CASE /\ ApplyGrant(r, m.seq)
           /\ Goto(r, IF op[r].kind = "request" THEN "register" ELSE "unexposed")
           /\ UNCHANGED <<client, replay>>
  <2>1. CASE op[r].kind = "request"
    <3>1. OpAt(r, op[r].kind, "register")
      BY <1>1, <1>4, <2>1, GotoEffect DEF Pcs
    <3>2. QED
      BY <1>1, <1>4, <2>1, <3>1, GrantStep DEF Pcs
  <2>2. CASE op[r].kind # "request"
    <3>1. OpAt(r, op[r].kind, "unexposed")
      BY <1>1, <1>4, <2>2, GotoEffect DEF Pcs
    <3>2. QED
      BY <1>1, <1>4, <3>1, GrantStep DEF Pcs
  <2>3. QED
    BY <2>1, <2>2
<1>5. QED
  BY <1>2, <1>3, <1>4 DEF AcceptReserve

\* The answer to a query of the replay.
LEMMA AcceptQueryStep ==
    ASSUME RelayInv, NEW m \in Answers, NEW r \in Reservations, m.seq <= faults.renewals,
           op[r].pc = "query", AcceptQuery(r, m),
           UNCHANGED <<group, moved, client, replay, link, faults, controllerVars>>,
           toEdge # << >>, toEdge' = Tail(toEdge)
    PROVE  EdgeStep(r)
<1>1. TypeOK /\ m.seq \in 0 .. MaxRenew /\ m.fact \in Settlements
  BY Here DEF Answers
<1>2. CASE /\ Send(Message("reserve", r, 0, NoSettlement)) /\ Goto(r, "reserve")
           /\ UNCHANGED record
  <2>1. OpAt(r, op[r].kind, "reserve")
    BY <1>1, <1>2, GotoEffect DEF Pcs, Calls
  <2>2. Frame(r)
    BY <1>2, <2>1, Kept DEF Frame, OpAt
  <2>3. Local(r)
    BY <1>2, <2>1, Here DEF Local, OpInStep, GroupInStep, Static, Final, OpAt
  <2>4. Numbered(r)
    BY <1>2, Here, Kept DEF Numbered
  <2>5. Exchange
    <3>1. Sendable(Message("reserve", r, 0, NoSettlement))
      BY Kept, RequestSendable, Constants
    <3>2. QED
      BY <1>2, <3>1 DEF Exchange, Send
  <2>6. QED
    BY <2>2, <2>3, <2>4, <2>5 DEF EdgeStep
<1>3. CASE /\ ApplyGrant(r, m.seq) /\ op' = [op EXCEPT ![r].pc = "ack", ![r].ack = m.fact]
           /\ UNCHANGED toController
  <2>1. OpAt(r, op[r].kind, "ack")
    BY <1>1, <1>3, AckEffect DEF Pcs
  <2>2. QED
    BY <1>1, <1>3, <2>1, GrantStep DEF Pcs
<1>4. CASE ApplyGrant(r, m.seq) /\ Goto(r, "unexposed") /\ UNCHANGED toController
  <2>1. OpAt(r, op[r].kind, "unexposed")
    BY <1>1, <1>4, GotoEffect DEF Pcs
  <2>2. QED
    BY <1>1, <1>4, <2>1, GrantStep DEF Pcs
<1>5. QED
  BY <1>2, <1>3, <1>4 DEF AcceptQuery

\* acceptRenewResponse.
LEMMA AcceptRenewStep ==
    ASSUME RelayInv, NEW m \in Answers, NEW r \in Reservations, m.seq <= faults.renewals,
           op[r].pc = "renew", AcceptRenew(r, m),
           UNCHANGED <<moved, link, toController, faults, controllerVars>>,
           toEdge # << >>, toEdge' = Tail(toEdge)
    PROVE  EdgeStep(r)
<1>1. TypeOK /\ m.seq \in 0 .. MaxRenew /\ m.fact \in Settlements
  BY Here DEF Answers
<1>2. CASE Fail(r) /\ UNCHANGED <<record, group>>
  BY <1>2, FinishStep, Kept DEF Fail
<1>3. CASE /\ group' = [group EXCEPT ![r].closing = group[r].live]
           /\ op' = [op EXCEPT ![r].pc = "revoke", ![r].ack = m.fact]
           /\ UNCHANGED <<record, client, replay>>
  <2>1. /\ GroupAt(r, group[r].live, group[r].live, group[r].open)
        /\ group'[r].seq = group[r].seq
        /\ group'[r].carried = group[r].carried /\ group'[r].counted = group[r].counted
    BY <1>1, <1>3, Here, ClosingEffect
  <2>2. OpAt(r, op[r].kind, "revoke")
    BY <1>1, <1>3, AckEffect DEF Pcs
  <2>3. Frame(r)
    BY <1>3, <2>1, <2>2, Kept DEF Frame, OpAt, GroupAt
  <2>4. Local(r)
    BY <1>3, <2>1, <2>2, Here DEF Local, OpInStep, GroupInStep, Static, Final, OpAt, GroupAt
  <2>5. Numbered(r) /\ Exchange
    BY <1>3, <2>1, Here, Kept DEF Numbered, Exchange
  <2>6. QED
    BY <2>3, <2>4, <2>5 DEF EdgeStep
<1>4. ASSUME record' = [record EXCEPT ![r].stage = "EXPOSED", ![r].seq = m.seq,
                                      ![r].pending = 0],
             NEW ok \in BOOLEAN, NEW again, Finish(r, ok, again),
             GroupAt(r, group[r].live, group[r].closing, group[r].open),
             group'[r].seq \in {m.seq, group[r].seq},
             group'[r].carried = group[r].carried, group'[r].counted = group[r].counted
      PROVE  EdgeStep(r)
  <2>1. RecordAt(r, "EXPOSED", m.seq, 0, record[r].settlement)
    BY <1>1, <1>4, RenewedEffect
  <2>2. /\ OpAt(r, "none", "idle") /\ client' \in [Reservations -> Clients]
        /\ client'[r] = IF op[r].kind = "request"
                        THEN IF ok THEN "granted" ELSE "refused" ELSE client[r]
        /\ \A s \in Reservations \ {r} : client'[s] = client[s]
        /\ replay' \in Passes
    BY <1>1, <1>4, FinishEffect
  <2>3. Frame(r)
    BY <1>4, <2>1, <2>2, Kept DEF Frame, OpAt, RecordAt, GroupAt
  <2>4. Local(r)
    BY <1>4, <2>1, <2>2, Here
       DEF Local, OpInStep, GroupInStep, Static, Final, OpAt, RecordAt, GroupAt
  <2>5. Numbered(r)
    <3>1. /\ record'[r].seq = m.seq /\ record'[r].pending = 0 /\ faults' = faults
          /\ faults \in Faults /\ faults.renewals \in 0 .. MaxRenew
          /\ group[r].seq <= faults.renewals
      BY <2>1, Here, Kept DEF RecordAt
    <3>2. QED
      BY <1>4, <3>1, Constants DEF Numbered
  <2>6. Exchange
    BY DEF Exchange
  <2>7. QED
    BY <2>3, <2>4, <2>5, <2>6 DEF EdgeStep
<1>5. CASE /\ record' = [record EXCEPT ![r].stage = "EXPOSED", ![r].seq = m.seq,
                                       ![r].pending = 0]
           /\ group' = [group EXCEPT ![r] = RenewGroup(@, m.seq)]
           /\ Finish(r, group' # group, FALSE)
  <2>1. /\ GroupAt(r, group[r].live, group[r].closing, group[r].open)
        /\ group'[r].seq \in {m.seq, group[r].seq}
        /\ group'[r].carried = group[r].carried /\ group'[r].counted = group[r].counted
    BY <1>1, <1>5, RenewGroupEffect
  <2>2. CASE group' = group
    <3>1. Finish(r, FALSE, FALSE)
      BY <1>5, <2>2
    <3>2. QED
      BY <1>4, <1>5, <2>1, <3>1
  <2>3. CASE group' # group
    <3>1. Finish(r, TRUE, FALSE)
      BY <1>5, <2>3
    <3>2. QED
      BY <1>4, <1>5, <2>1, <3>1
  <2>4. QED
    BY <2>2, <2>3
<1>6. CASE /\ record' = [record EXCEPT ![r].stage = "EXPOSED", ![r].seq = m.seq,
                                       ![r].pending = 0]
           /\ Fail(r) /\ UNCHANGED group
  <2>1. GroupAt(r, group[r].live, group[r].closing, group[r].open)
    BY <1>6, Kept DEF GroupAt
  <2>2. Finish(r, FALSE, op[r].kind = "close")
    BY <1>6 DEF Fail
  <2>3. QED
    BY <1>4, <1>6, <2>1, <2>2
<1>7. QED
  BY <1>2, <1>3, <1>5, <1>6 DEF AcceptRenew

\* The end of deliverSettlement.
LEMMA AcceptAckStep ==
    ASSUME RelayInv, NEW m \in Answers, NEW r \in Reservations,
           op[r].pc = "settle", AcceptAck(r, m),
           UNCHANGED <<group, moved, link, toController, faults, controllerVars>>,
           toEdge # << >>, toEdge' = Tail(toEdge)
    PROVE  EdgeStep(r)
<1>1. ~group[r].live
  BY Here DEF GroupInStep
<1>2. CASE Delete(r) /\ Finish(r, op[r].kind # "request", FALSE)
  <2> DEFINE ok == op[r].kind # "request"
  <2>1. ok \in BOOLEAN /\ Finish(r, ok, FALSE)
    BY <1>2
  <2> HIDE DEF ok
  <2>2. QED
    BY <1>1, <1>2, <2>1, DeleteStep
<1>3. CASE Fail(r) /\ UNCHANGED record
  BY <1>3, FinishStep, Kept DEF Fail
<1>4. QED
  BY <1>2, <1>3 DEF AcceptAck

\* An answer arrives.
LEMMA EdgeReceiveStep ==
    ASSUME RelayInv, EdgeReceive
    PROVE  \E r \in Reservations : r = Head(toEdge).id /\ EdgeStep(r)
<1>1. toEdge # << >> /\ toEdge' = Tail(toEdge) /\ UNCHANGED <<controllerVars, moved, link, faults>>
  BY DEF EdgeReceive
<1>2. PICK a, r : a = Head(toEdge) /\ r = a.id
  OBVIOUS
<1>3. a \in Answers /\ a.seq <= faults.renewals /\ r \in Reservations
  <2>1. a \in Answers /\ a.seq <= faults.renewals
    BY <1>1, <1>2, OldestAnswer
  <2>2. QED
    BY <1>2, <2>1 DEF Answers
<1>4. CASE UNCHANGED <<record, group, client, op, replay, toController>>
  <2>1. Frame(r)
    BY <1>1, <1>3, <1>4, Kept DEF Frame
  <2>2. Local(r)
    BY <1>1, <1>3, <1>4, Here DEF Local, OpInStep, GroupInStep, Static, Final
  <2>3. Numbered(r) /\ Exchange
    BY <1>1, <1>3, <1>4, Here, Kept DEF Numbered, Exchange
  <2>4. QED
    BY <1>1, <1>2, <1>3, <2>1, <2>2, <2>3 DEF EdgeStep
<1>5. CASE op[r].pc = "reserve" /\ AcceptReserve(r, a) /\ UNCHANGED <<group, toController>>
  BY <1>1, <1>2, <1>3, <1>5, AcceptReserveStep
<1>6. CASE op[r].pc = "query" /\ AcceptQuery(r, a) /\ UNCHANGED <<group, client, replay>>
  BY <1>1, <1>2, <1>3, <1>6, AcceptQueryStep
<1>7. CASE op[r].pc = "renew" /\ AcceptRenew(r, a) /\ UNCHANGED toController
  BY <1>1, <1>2, <1>3, <1>7, AcceptRenewStep
<1>8. CASE op[r].pc = "settle" /\ AcceptAck(r, a) /\ UNCHANGED <<group, toController>>
  BY <1>1, <1>2, <1>3, <1>8, AcceptAckStep
<1>9. QED
  BY <1>2, <1>4, <1>5, <1>6, <1>7, <1>8 DEF EdgeReceive

-----------------------------------------------------------------------------
(* Steps that touch every reservation, or none.                            *)

\* A step that leaves the rows, the usage and the journal alone.
LEMMA GlobalKeeps ==
    ASSUME RelayInv, UNCHANGED <<row, usage, record, moved>>,
           expired' \in [Reservations -> BOOLEAN], entitled' \in BOOLEAN,
           op' \in [Reservations -> Operations], group' \in [Reservations -> Groups],
           client' \in [Reservations -> Clients], replay' \in Passes, link' \in {"up", "down"},
           faults' \in Faults, faults'.renewals = faults.renewals,
           \A s \in Reservations : group'[s].seq = group[s].seq \/ group'[s].seq = 0,
           \A s \in Reservations : OpInStep(s)' /\ GroupInStep(s)' /\ (Static(s) => Static(s)'),
           toController' = toController \/ toController' = << >>,
           toEdge' = toEdge \/ toEdge' = << >>
    PROVE  RelayInv'
<1>1. OpsInStep' /\ GroupsInStep'
  BY DEF OpsInStep, GroupsInStep
<1>2. /\ toController' \in
            Seq({m \in Requests : m.kind = "settle" => Final(m.id, m.settlement)'})
      /\ toController' \in Seq({m \in Requests : m.seq <= faults'.renewals})
      /\ toEdge' \in Seq({m \in Answers : m.seq <= faults'.renewals})
  <2> DEFINE A == {m \in Requests : m.kind = "settle" => Final(m.id, m.settlement)'}
             B == {m \in Requests : m.seq <= faults'.renewals}
             C == {m \in Answers : m.seq <= faults'.renewals}
  <2>1. faults.renewals <= faults'.renewals
    BY Kept, Constants
  <2>2. toController \in Seq(A) /\ toController \in Seq(B) /\ toEdge \in Seq(C)
    BY <2>1, TransitKept
  <2> HIDE DEF A, B, C
  <2>3. << >> \in Seq(A) /\ << >> \in Seq(B) /\ << >> \in Seq(C)
    OBVIOUS
  <2>4. toController' \in Seq(A) /\ toController' \in Seq(B) /\ toEdge' \in Seq(C)
    BY <2>2, <2>3
  <2>5. QED
    BY <2>4 DEF A, B, C
<1>3. TypeOK'
  <2>1. toController' \in Seq(Requests)
    BY <1>2, SeqMonotonic
  <2>2. toEdge' \in Seq(Answers)
    BY <1>2, SeqMonotonic
  <2>3. QED
    BY <2>1, <2>2 DEF RelayInv, TypeOK, Passes, Faults
<1>4. SettlementsFinal'
  <2>1. ASSUME NEW s \in Reservations
        PROVE  /\ row'[s].state = "settled" => Final(s, row[s].fact)'
               /\ record'[s].stage = "SETTLEMENT_DURABLE" => Final(s, record[s].settlement)'
    BY DEF RelayInv, SettlementsFinal, Final
  <2>2. QED
    BY <1>2, <2>1 DEF SettlementsFinal
<1>5. SequencesBounded'
  <2>1. ASSUME NEW s \in Reservations
        PROVE  /\ row'[s].seq <= faults'.renewals /\ group'[s].seq <= faults'.renewals
               /\ record'[s].seq <= faults'.renewals
               /\ record'[s].pending <= faults'.renewals
    <3>1. /\ row[s].seq <= faults.renewals /\ group[s].seq <= faults.renewals
          /\ record[s].seq <= faults.renewals /\ record[s].pending <= faults.renewals
      BY DEF RelayInv, SequencesBounded
    <3>2. 0 <= faults.renewals
      BY Kept, Constants
    <3>3. QED
      BY <3>1, <3>2
  <2>2. QED
    BY <1>2, <2>1 DEF SequencesBounded
<1>6. FactsInStep'
  BY DEF RelayInv, FactsInStep
<1>7. UsageBalanced'
  BY DEF RelayInv, UsageBalanced, RowsIn, ExactBytes, Total
<1>8. QED
  BY <1>1, <1>3, <1>4, <1>5, <1>6, <1>7 DEF RelayInv

\* The control stream breaks.
LEMMA LinkBreakKeeps ==
    ASSUME RelayInv, LinkBreak
    PROVE  RelayInv'
<1>1. UNCHANGED <<row, usage, expired, entitled, record, group, moved>>
  BY DEF LinkBreak, controllerVars, trafficVars
<1>2. faults' \in Faults /\ faults'.renewals = faults.renewals
  <2> DEFINE n == faults.breaks + 1
  <2>1. n \in 0 .. MaxBreaks
    BY SMTT(30), Kept, Constants DEF LinkBreak, Faults
  <2>2. faults' = [faults EXCEPT !.breaks = n]
    BY DEF LinkBreak
  <2> HIDE DEF n
  <2>3. QED
    BY <2>1, <2>2, Kept DEF Faults
<1>3. ASSUME NEW s \in Reservations
      PROVE  /\ op'[s] \in Operations /\ client'[s] \in Clients
             /\ \/ Waiting(s) /\ op'[s].pc = "idle" /\ op'[s].kind = "none"
                \/ ~Waiting(s) /\ op'[s].pc = op[s].pc /\ op'[s].kind = op[s].kind
             /\ client'[s] = IF Waiting(s) /\ op[s].kind = "request" THEN "refused"
                             ELSE client[s]
  <2>1. op[s] \in Operations /\ client[s] \in Clients
    BY Kept
  <2>2. client'[s] = IF Waiting(s) /\ op[s].kind = "request" THEN "refused" ELSE client[s]
    BY DEF LinkBreak
  <2>3. op'[s] = IF Waiting(s) THEN Idle ELSE [op[s] EXCEPT !.fresh = FALSE]
    BY DEF LinkBreak
  <2>4. [op[s] EXCEPT !.fresh = FALSE] \in Operations
        /\ [op[s] EXCEPT !.fresh = FALSE].pc = op[s].pc
        /\ [op[s] EXCEPT !.fresh = FALSE].kind = op[s].kind
    BY <2>1 DEF Operations
  <2>5. QED
    BY <2>1, <2>2, <2>3, <2>4, EmptyValues DEF Clients
<1>4. op' \in [Reservations -> Operations] /\ client' \in [Reservations -> Clients]
  <2>1. DOMAIN op' = Reservations /\ op' = [s \in Reservations |-> op'[s]]
    BY DEF LinkBreak
  <2>2. client' = [s \in Reservations |-> client'[s]]
    BY DEF LinkBreak
  <2>3. QED
    BY <1>3, <2>1, <2>2
<1>5. replay' \in Passes
  <2>1. [replay EXCEPT !.wanted = 0] \in Passes
    <3>1. 0 \in 0 .. MaxPasses
      BY Constants
    <3>2. QED
      BY <3>1, Kept DEF Passes
  <2>2. NoPass \in Passes
    BY EmptyValues DEF Passes
  <2>3. QED
    BY <2>1, <2>2 DEF LinkBreak
<1>6. ASSUME NEW s \in Reservations
      PROVE  OpInStep(s)' /\ GroupInStep(s)' /\ (Static(s) => Static(s)')
  <2>1. OpInStep(s) /\ GroupInStep(s)
    BY Here
  <2>2. QED
    BY <1>1, <1>3, <2>1 DEF OpInStep, GroupInStep, Static, Waiting, Calls
<1>7. expired' \in [Reservations -> BOOLEAN] /\ entitled' \in BOOLEAN
      /\ group' \in [Reservations -> Groups]
  BY <1>1, Kept DEF RelayInv, TypeOK
<1>8. link' \in {"up", "down"} /\ toController' = << >> /\ toEdge' = << >>
  BY DEF LinkBreak
<1>9. QED
  BY <1>1, <1>2, <1>4, <1>5, <1>6, <1>7, <1>8, GlobalKeeps

\* The Edge dies.
LEMMA CrashKeeps ==
    ASSUME RelayInv, Crash
    PROVE  RelayInv'
<1>1. UNCHANGED <<row, usage, expired, entitled, record, moved>>
  BY DEF Crash, controllerVars
<1>2. faults' \in Faults /\ faults'.renewals = faults.renewals
  <2> DEFINE n == faults.crashes + 1
  <2>1. n \in 0 .. MaxCrashes
    BY SMTT(30), Kept, Constants DEF Crash, Faults
  <2>2. faults' = [faults EXCEPT !.crashes = n]
    BY DEF Crash
  <2> HIDE DEF n
  <2>3. QED
    BY <2>1, <2>2, Kept DEF Faults
<1>3. /\ op' \in [Reservations -> Operations] /\ group' \in [Reservations -> Groups]
      /\ client' \in [Reservations -> Clients]
  BY Kept, EmptyValues DEF Crash, Clients
<1>4. ASSUME NEW s \in Reservations
      PROVE  /\ op'[s].pc = "idle" /\ op'[s].kind = "none"
             /\ ~group'[s].live /\ ~group'[s].open /\ group'[s].seq = 0
             /\ client'[s] = IF client[s] = "new" THEN "new" ELSE "gone"
  BY EmptyValues DEF Crash
<1>5. ASSUME NEW s \in Reservations
      PROVE  OpInStep(s)' /\ GroupInStep(s)' /\ (Static(s) => Static(s)')
  <2>1. OpInStep(s) /\ GroupInStep(s)
    BY Here
  <2>2. QED
    BY <1>1, <1>4, <2>1 DEF OpInStep, GroupInStep, Static
<1>6. replay' \in Passes /\ expired' \in [Reservations -> BOOLEAN] /\ entitled' \in BOOLEAN
  BY <1>1, EmptyValues DEF Crash, Passes, RelayInv, TypeOK
<1>7. link' \in {"up", "down"} /\ toController' = << >> /\ toEdge' = << >>
  BY DEF Crash
<1>8. QED
  BY <1>1, <1>2, <1>3, <1>4, <1>5, <1>6, <1>7, GlobalKeeps

\* Steps that change neither the operations nor the groups.
LEMMA AsideKeeps ==
    ASSUME RelayInv, ReplayStart \/ Reconnect \/ Lapse \/ (\E r \in Reservations : Expire(r))
    PROVE  RelayInv'
<1>1. UNCHANGED <<row, usage, record, moved, op, group, client, toController, toEdge>>
  BY DEF ReplayStart, Reconnect, Lapse, Expire, controllerVars, trafficVars
<1>2. ASSUME NEW s \in Reservations
      PROVE  OpInStep(s)' /\ GroupInStep(s)' /\ (Static(s) => Static(s)')
  <2>1. OpInStep(s) /\ GroupInStep(s)
    BY Here
  <2>2. QED
    BY <1>1, <2>1 DEF OpInStep, GroupInStep, Static
<1>3. faults' \in Faults /\ faults'.renewals = faults.renewals
  <2>1. CASE faults' = faults
    BY <2>1, Kept
  <2>2. CASE Lapse
    <3> DEFINE n == faults.lapses + 1
    <3>1. n \in 0 .. MaxLapses
      BY SMTT(30), <2>2, Kept, Constants DEF Lapse, Faults
    <3>2. faults' = [faults EXCEPT !.lapses = n]
      BY <2>2 DEF Lapse
    <3> HIDE DEF n
    <3>3. QED
      BY <3>1, <3>2, Kept DEF Faults
  <2>3. QED
    BY <2>1, <2>2 DEF ReplayStart, Reconnect, Expire
<1>4. replay' \in Passes
  <2>1. CASE ReplayStart
    <3> DEFINE listed == {r \in Reservations : record[r].stage # "NONE"}
               some == listed # {}
               n == replay.wanted - 1
    <3>1. n \in 0 .. MaxPasses
      BY <2>1, Kept, Constants DEF ReplayStart, Passes
    <3>2. replay' = [wanted |-> n, running |-> some, todo |-> listed]
      BY <2>1 DEF ReplayStart
    <3>3. some \in BOOLEAN /\ listed \in SUBSET Reservations
      OBVIOUS
    <3> HIDE DEF listed, some, n
    <3>4. QED
      BY <3>1, <3>2, <3>3 DEF Passes
  <2>2. CASE Reconnect
    BY <2>2, Kept, QueuedType DEF Reconnect
  <2>3. CASE replay' = replay
    BY <2>3, Kept
  <2>4. QED
    BY <2>1, <2>2, <2>3 DEF Lapse, Expire
<1>5. expired' \in [Reservations -> BOOLEAN] /\ entitled' \in BOOLEAN
      /\ link' \in {"up", "down"}
  BY DEF ReplayStart, Reconnect, Lapse, Expire, controllerVars, RelayInv, TypeOK
<1>6. op' \in [Reservations -> Operations] /\ group' \in [Reservations -> Groups]
      /\ client' \in [Reservations -> Clients]
  BY <1>1, Kept
<1>7. QED
  BY <1>1, <1>2, <1>3, <1>4, <1>5, <1>6, GlobalKeeps

-----------------------------------------------------------------------------
(* The Controller.                                                         *)

\* Row functions f and usage periods u that agree.
InState(f, state, kind) ==
    {r \in Reservations : f[r].state = state /\ f[r].fact.kind = kind}
BytesOf(f) == {x \in Reservations \X (1 .. Hold) :
                  x[1] \in InState(f, "settled", "exact") /\ x[2] <= f[x[1]].fact.bytes}
Usages == [committed : Nat, recovery : Nat, held : Nat]
Balanced(f, u) ==
    /\ u.held = Hold * Cardinality(InState(f, "held", "none"))
    /\ u.recovery = Hold * Cardinality(InState(f, "settled", "recovery"))
    /\ u.committed = Cardinality(BytesOf(f))

\* Rows that the invariant allows, with the usage that belongs to them.
RowsGood(f, u) ==
    /\ f \in [Reservations -> Rows] /\ u \in Usages /\ Balanced(f, u)
    /\ \A r \in Reservations :
          /\ f[r].state # "settled" => f[r].fact = NoSettlement
          /\ f[r].seq <= faults.renewals
          /\ f[r].state = "settled" => Final(r, f[r].fact)

\* Holds add up.
LEMMA Distribute ==
    ASSUME NEW h \in Nat, NEW a \in Nat, NEW b \in Nat
    PROVE  /\ h * (a + b) = h * a + h * b /\ h * (a - b) = h * a - h * b
           /\ h * a \in Nat /\ h * b \in Nat /\ (b <= a => h * (a - b) \in Nat)
  OBVIOUS

\* The sets of rows are finite.
LEMMA RowsFinite ==
    ASSUME NEW f, NEW state, NEW kind
    PROVE  IsFiniteSet(InState(f, state, kind)) /\ IsFiniteSet(BytesOf(f))
<1>1. InState(f, state, kind) \subseteq Reservations
      /\ BytesOf(f) \subseteq Reservations \X (1 .. Hold)
  BY DEF InState, BytesOf
<1>2. IsFiniteSet(Reservations) /\ IsFiniteSet(1 .. Hold)
  BY Constants, FS_Interval
<1>3. IsFiniteSet(Reservations \X (1 .. Hold))
  BY <1>2, FS_Product
<1>4. QED
  BY <1>1, <1>2, <1>3, FS_Subset

\* The rows of the invariant are good.
LEMMA RowsAreGood ==
    ASSUME RelayInv
    PROVE  RowsGood(row, usage) /\ Total(usage) <= Quota
<1>1. row \in [Reservations -> Rows] /\ usage \in Usages
  BY DEF RelayInv, TypeOK, Usages
<1>2. Balanced(row, usage) /\ Total(usage) <= Quota
  BY DEF RelayInv, UsageBalanced, Balanced, RowsIn, InState, ExactBytes, BytesOf
<1>3. QED
  BY <1>1, <1>2 DEF RelayInv, RowsGood, FactsInStep, SequencesBounded, SettlementsFinal

\* recoverLockedReservation on a set of held rows moves their holds to the
\* recovered bytes and leaves the sum alone.
LEMMA RecoveredRows ==
    ASSUME RelayInv, NEW S \in SUBSET {r \in Reservations : row[r].state = "held"}
    PROVE  /\ RowsGood(RowsRecovered(S), UsageRecovered(S))
           /\ Total(UsageRecovered(S)) = Total(usage)
           /\ \A r \in Reservations :
                 /\ row[r].state = "none" => RowsRecovered(S)[r].state = "none"
                 /\ RowsRecovered(S)[r].fact \in Settlements
<1> DEFINE f == RowsRecovered(S)
           u == UsageRecovered(S)
           H == InState(row, "held", "none")
           R == InState(row, "settled", "recovery")
           back == Settlement("recovery", 0, 0)
<1>1. RowsGood(row, usage)
  BY RowsAreGood
<1>2. back \in Settlements /\ back.kind = "recovery" /\ back.bytes = 0
  BY SettlementType, Constants
<1> HIDE DEF back
<1>3. ASSUME NEW r \in Reservations
      PROVE  /\ f[r] \in Rows /\ f[r].seq = row[r].seq
             /\ r \in S => f[r].state = "settled" /\ f[r].fact = back
             /\ r \notin S => f[r] = row[r]
  <2>1. row[r] \in Rows
    BY <1>1 DEF RowsGood
  <2>2. f[r] = IF r \in S THEN [row[r] EXCEPT !.state = "settled", !.fact = back] ELSE row[r]
    BY DEF RowsRecovered, back
  <2> HIDE DEF f
  <2>3. QED
    BY <1>2, <2>1, <2>2 DEF Rows
<1>4. f \in [Reservations -> Rows]
  <2>1. f = [r \in Reservations |-> f[r]]
    BY DEF RowsRecovered
  <2> HIDE DEF f
  <2>2. QED
    BY <1>3, <2>1
<1> HIDE DEF f
<1>5. ASSUME NEW r \in Reservations
      PROVE  /\ f[r].state # "settled" => f[r].fact = NoSettlement
             /\ f[r].seq <= faults.renewals
             /\ f[r].state = "settled" => Final(r, f[r].fact)
  BY <1>1, <1>2, <1>3 DEF RowsGood, Final
<1>6. S \subseteq H /\ S \cap R = {}
  BY <1>1, EmptyValues DEF RowsGood, InState
<1>7. InState(f, "held", "none") = H \ S
  BY <1>3 DEF InState
<1>8. InState(f, "settled", "recovery") = R \cup S
  BY <1>2, <1>3 DEF InState
<1>9. BytesOf(f) = BytesOf(row)
  <2>1. InState(f, "settled", "exact") = InState(row, "settled", "exact")
    BY <1>2, <1>3 DEF InState
  <2>2. \A r \in InState(row, "settled", "exact") : f[r] = row[r]
    BY <1>3 DEF InState
  <2>3. QED
    BY <2>1, <2>2 DEF BytesOf
<1>10. /\ Cardinality(S) \in Nat /\ Cardinality(H) \in Nat /\ Cardinality(R) \in Nat
       /\ Cardinality(S) <= Cardinality(H)
       /\ Cardinality(H \ S) = Cardinality(H) - Cardinality(S)
       /\ Cardinality(R \cup S) = Cardinality(R) + Cardinality(S)
  <2>1. IsFiniteSet(H) /\ IsFiniteSet(R)
    BY RowsFinite
  <2> HIDE DEF H, R
  <2>2. IsFiniteSet(S) /\ Cardinality(S) <= Cardinality(H)
    BY <1>6, <2>1, FS_Subset
  <2>3. Cardinality(S) \in Nat /\ Cardinality(H) \in Nat /\ Cardinality(R) \in Nat
    BY <2>1, <2>2, FS_CardinalityType
  <2>4. H \cap S = S /\ R \cap S = {}
    BY <1>6
  <2>5. Cardinality(H \ S) = Cardinality(H) - Cardinality(S)
    BY <2>1, <2>4, FS_Difference
  <2>6. Cardinality(R \cup S) = Cardinality(R) + Cardinality(S) - Cardinality({})
    BY <2>1, <2>2, <2>4, FS_Union
  <2>7. QED
    BY <2>2, <2>3, <2>5, <2>6, FS_EmptySet
<1> DEFINE n == Hold * Cardinality(S)
<1>11. /\ usage \in Usages /\ usage.held = Hold * Cardinality(H)
       /\ usage.recovery = Hold * Cardinality(R) /\ usage.committed = Cardinality(BytesOf(row))
  BY <1>1 DEF RowsGood, Balanced
<1>12. u = [usage EXCEPT !.recovery = usage.recovery + n, !.held = usage.held - n]
  BY DEF UsageRecovered
<1>13. /\ n \in Nat /\ Hold * (Cardinality(H) - Cardinality(S)) = Hold * Cardinality(H) - n
       /\ Hold * (Cardinality(R) + Cardinality(S)) = Hold * Cardinality(R) + n
       /\ Hold * (Cardinality(H) - Cardinality(S)) \in Nat
  BY <1>10, Constants, Distribute
<1> HIDE DEF u, n, H, R
<1>14. usage.held - n \in Nat /\ usage.recovery + n \in Nat
  BY <1>11, <1>13 DEF Usages
<1>15. /\ u \in Usages /\ u.held = usage.held - n /\ u.recovery = usage.recovery + n
       /\ u.committed = usage.committed
  BY <1>11, <1>12, <1>14 DEF Usages
<1>16. Balanced(f, u)
  BY <1>7, <1>8, <1>9, <1>10, <1>11, <1>13, <1>15 DEF Balanced
<1>17. Total(u) = Total(usage)
  BY <1>11, <1>13, <1>15 DEF Total, Usages
<1>18. \A r \in Reservations : /\ row[r].state = "none" => f[r].state = "none"
                               /\ f[r].fact \in Settlements
  BY <1>3 DEF Rows
<1>19. QED
  BY <1>4, <1>5, <1>15, <1>16, <1>17, <1>18 DEF RowsGood, f, u

\* A new row is held and its hold is added.
LEMMA HeldRow ==
    ASSUME RelayInv, NEW f, NEW u, RowsGood(f, u), NEW r \in Reservations, f[r].state = "none"
    PROVE  /\ RowsGood([f EXCEPT ![r].state = "held"], [u EXCEPT !.held = @ + Hold])
           /\ Total([u EXCEPT !.held = @ + Hold]) = Total(u) + Hold
<1> DEFINE x == [f[r] EXCEPT !.state = "held"]
           g == [f EXCEPT ![r].state = "held"]
           n == u.held + Hold
           v == [u EXCEPT !.held = @ + Hold]
           H == InState(f, "held", "none")
<1>1. f \in [Reservations -> Rows] /\ u \in Usages /\ Balanced(f, u) /\ f[r] \in Rows
  BY DEF RowsGood
<1>2. x \in Rows /\ x.state = "held" /\ x.seq = f[r].seq /\ x.fact = f[r].fact
  BY <1>1 DEF Rows
<1>3. g = [f EXCEPT ![r] = x]
  BY <1>1
<1> HIDE DEF x
<1>4. /\ g \in [Reservations -> Rows] /\ g[r] = x
      /\ \A s \in Reservations \ {r} : g[s] = f[s]
  BY <1>1, <1>2, <1>3
<1>5. f[r].fact = NoSettlement /\ NoSettlement.kind = "none"
  BY EmptyValues DEF RowsGood
<1> HIDE DEF g
<1>6. ASSUME NEW s \in Reservations
      PROVE  /\ g[s].state # "settled" => g[s].fact = NoSettlement
             /\ g[s].seq <= faults.renewals
             /\ g[s].state = "settled" => Final(s, g[s].fact)
  BY <1>2, <1>4, <1>5 DEF RowsGood
<1>7. InState(g, "held", "none") = H \cup {r} /\ r \notin H
  BY <1>2, <1>4, <1>5 DEF InState
<1>8. InState(g, "settled", "recovery") = InState(f, "settled", "recovery")
  BY <1>2, <1>4, <1>5 DEF InState
<1>9. BytesOf(g) = BytesOf(f)
  <2>1. InState(g, "settled", "exact") = InState(f, "settled", "exact")
        /\ r \notin InState(f, "settled", "exact")
    BY <1>2, <1>4, <1>5 DEF InState
  <2>2. \A s \in InState(f, "settled", "exact") : g[s] = f[s]
    BY <1>4, <2>1 DEF InState
  <2>3. QED
    BY <2>1, <2>2 DEF BytesOf
<1>10. Cardinality(H) \in Nat /\ Cardinality(H \cup {r}) = Cardinality(H) + 1
  <2>1. IsFiniteSet(H)
    BY RowsFinite
  <2> HIDE DEF H
  <2>2. QED
    BY <1>7, <2>1, FS_AddElement, FS_CardinalityType
<1>11. /\ u.held = Hold * Cardinality(H) /\ u.held \in Nat /\ u.recovery \in Nat
       /\ u.committed \in Nat
  BY <1>1 DEF Balanced, Usages
<1>12. v = [u EXCEPT !.held = n]
  OBVIOUS
<1>13. n \in Nat /\ n = Hold * (Cardinality(H) + 1)
  BY <1>10, <1>11, Constants, Distribute
<1> HIDE DEF v, H
<1>14. v \in Usages /\ v.held = n /\ v.recovery = u.recovery /\ v.committed = u.committed
  <2> HIDE DEF n
  <2>1. QED
    BY <1>1, <1>12, <1>13 DEF Usages
<1>15. Balanced(g, v)
  BY <1>1, <1>7, <1>8, <1>9, <1>10, <1>13, <1>14 DEF Balanced
<1>16. Total(v) = Total(u) + Hold
  BY <1>11, <1>14, Constants DEF Total
<1>17. QED
  BY <1>4, <1>6, <1>14, <1>15, <1>16 DEF RowsGood, g, v

\* The sequence number of a held row goes up.
LEMMA RenewedRow ==
    ASSUME RelayInv, NEW r \in Reservations, NEW q \in 0 .. MaxRenew, q <= faults.renewals
    PROVE  RowsGood([row EXCEPT ![r].seq = q], usage)
<1> DEFINE x == [row[r] EXCEPT !.seq = q]
           g == [row EXCEPT ![r].seq = q]
<1>1. RowsGood(row, usage) /\ row \in [Reservations -> Rows] /\ row[r] \in Rows
  BY RowsAreGood DEF RowsGood
<1>2. x \in Rows /\ x.state = row[r].state /\ x.seq = q /\ x.fact = row[r].fact
  BY <1>1 DEF Rows
<1>3. g = [row EXCEPT ![r] = x]
  BY <1>1
<1> HIDE DEF x
<1>4. /\ g \in [Reservations -> Rows] /\ g[r] = x
      /\ \A s \in Reservations \ {r} : g[s] = row[s]
  BY <1>1, <1>2, <1>3
<1> HIDE DEF g
<1>5. \A s \in Reservations : g[s].state = row[s].state /\ g[s].fact = row[s].fact
  BY <1>2, <1>4
<1>6. Balanced(g, usage)
  <2>1. \A st, k : InState(g, st, k) = InState(row, st, k)
    BY <1>5 DEF InState
  <2>2. BytesOf(g) = BytesOf(row)
    BY <1>5, <2>1 DEF BytesOf
  <2>3. Balanced(row, usage)
    BY <1>1 DEF RowsGood
  <2>4. QED
    BY <2>1, <2>2, <2>3 DEF Balanced
<1>7. ASSUME NEW s \in Reservations
      PROVE  /\ g[s].state # "settled" => g[s].fact = NoSettlement
             /\ g[s].seq <= faults.renewals
             /\ g[s].state = "settled" => Final(s, g[s].fact)
  BY <1>1, <1>2, <1>4 DEF RowsGood
<1>8. QED
  BY <1>1, <1>4, <1>6, <1>7 DEF RowsGood, g

\* A database timestamp is a time.
LEMMA MicroType ==
    ASSUME NEW at \in Nat
    PROVE  Micro(at) \in Nat
<1>1. at % NanosPerMicro \in 0 .. (NanosPerMicro - 1) /\ at \div NanosPerMicro \in Nat
      /\ at = NanosPerMicro * (at \div NanosPerMicro) + (at % NanosPerMicro)
  BY Constants
<1>2. NanosPerMicro * (at \div NanosPerMicro) \in Nat
  BY <1>1, Constants
<1>3. QED
  BY <1>1, <1>2, Constants DEF Micro

\* A held row is settled: its hold becomes the charge, which is not larger.
LEMMA SettledRow ==
    ASSUME RelayInv, NEW r \in Reservations, NEW s \in Settlements, row[r].state = "held",
           Final(r, s), NEW f, NEW u,
           f = [row EXCEPT ![r].state = "settled", ![r].fact = [s EXCEPT !.at = Micro(s.at)]],
           u = [usage EXCEPT
                  !.committed = @ + (IF s.kind = "exact" THEN Charge(s) ELSE 0),
                  !.recovery = @ + (IF s.kind = "recovery" THEN Charge(s) ELSE 0),
                  !.held = @ - Hold]
    PROVE  RowsGood(f, u) /\ Total(u) <= Total(usage)
<1> DEFINE t == [s EXCEPT !.at = Micro(s.at)]
           x == [row[r] EXCEPT !.state = "settled", !.fact = t]
           H == InState(row, "held", "none")
           R == InState(row, "settled", "recovery")
           B == BytesOf(row)
           exact == IF s.kind = "exact" THEN s.bytes ELSE 0
           back == IF s.kind = "recovery" THEN Hold ELSE 0
<1>1. RowsGood(row, usage) /\ row \in [Reservations -> Rows] /\ row[r] \in Rows
  BY RowsAreGood DEF RowsGood
<1>2. t \in Settlements /\ t.kind = s.kind /\ t.bytes = s.bytes
  <2>1. s.at \in Nat
    BY DEF Settlements
  <2>2. Micro(s.at) \in Nat
    BY <2>1, MicroType
  <2>3. QED
    BY <2>2 DEF Settlements
<1>3. f = [row EXCEPT ![r] = x]
  BY <1>1
<1> HIDE DEF t
<1>4. x \in Rows /\ x.state = "settled" /\ x.seq = row[r].seq /\ x.fact = t
  BY <1>1, <1>2 DEF Rows
<1> HIDE DEF x
<1>5. /\ f \in [Reservations -> Rows] /\ f[r] = x
      /\ \A y \in Reservations \ {r} : f[y] = row[y]
  BY <1>1, <1>3, <1>4
<1>6. ASSUME NEW y \in Reservations
      PROVE  /\ f[y].state # "settled" => f[y].fact = NoSettlement
             /\ f[y].seq <= faults.renewals
             /\ f[y].state = "settled" => Final(y, f[y].fact)
  <2>1. CASE y = r
    BY <1>1, <1>2, <1>4, <1>5, <2>1 DEF RowsGood, Final
  <2>2. CASE y # r
    BY <1>1, <1>5, <2>2 DEF RowsGood
  <2>3. QED
    BY <2>1, <2>2
<1>7. row[r].fact = NoSettlement /\ NoSettlement.kind = "none"
  BY <1>1, EmptyValues DEF RowsGood
<1>8. s.kind \in {"none", "exact", "recovery"} /\ s.bytes \in 0 .. Hold
  BY DEF Settlements
<1>9. InState(f, "held", "none") = H \ {r} /\ r \in H
  BY <1>4, <1>5, <1>7 DEF InState
<1>10. Cardinality(H) \in Nat /\ Cardinality(H \ {r}) = Cardinality(H) - 1
       /\ Cardinality(H) > 0
  <2>1. IsFiniteSet(H)
    BY RowsFinite
  <2>2. r \in H
    BY <1>9
  <2> HIDE DEF H
  <2>3. Cardinality(H \ {r}) = Cardinality(H) - 1 /\ Cardinality(H) \in Nat
    BY <2>1, <2>2, FS_RemoveElement, FS_CardinalityType
  <2>4. H # {}
    BY <2>2
  <2>5. Cardinality(H) # 0
    BY <2>1, <2>4, FS_EmptySet
  <2>6. QED
    BY <2>3, <2>5
<1>11. InState(f, "settled", "recovery") = IF s.kind = "recovery" THEN R \cup {r} ELSE R
  BY <1>2, <1>4, <1>5, <1>7 DEF InState
<1>12. Hold * Cardinality(InState(f, "settled", "recovery")) = Hold * Cardinality(R) + back
       /\ Cardinality(R) \in Nat
  <2>0. IsFiniteSet(R)
    BY RowsFinite
  <2>1. IsFiniteSet(R) /\ r \notin R
    BY <2>0, <1>7 DEF InState
  <2> HIDE DEF R
  <2>2. Cardinality(R) \in Nat /\ Cardinality(R \cup {r}) = Cardinality(R) + 1
    BY <2>1, FS_AddElement, FS_CardinalityType
  <2>3. Hold * (Cardinality(R) + 1) = Hold * Cardinality(R) + Hold
        /\ Hold * Cardinality(R) \in Nat
    BY <2>2, Constants, Distribute
  <2>4. QED
    BY <1>11, <2>2, <2>3, Constants
<1>13. Cardinality(BytesOf(f)) = Cardinality(B) + exact
  <2>1. CASE s.kind # "exact"
    <3>1. InState(f, "settled", "exact") = InState(row, "settled", "exact")
          /\ r \notin InState(row, "settled", "exact")
      BY <1>2, <1>4, <1>5, <1>7, <2>1 DEF InState
    <3>2. \A y \in InState(row, "settled", "exact") : f[y] = row[y]
      BY <1>5, <3>1 DEF InState
    <3>3. BytesOf(f) = B
      BY <3>1, <3>2 DEF BytesOf
    <3>4. Cardinality(B) \in Nat
      BY RowsFinite, FS_CardinalityType
    <3>5. QED
      BY <2>1, <3>3, <3>4
  <2>2. CASE s.kind = "exact"
    <3> DEFINE D == {r} \X (1 .. s.bytes)
    <3>1. InState(f, "settled", "exact") = InState(row, "settled", "exact") \cup {r}
          /\ r \notin InState(row, "settled", "exact")
      BY <1>2, <1>4, <1>5, <1>7, <2>2 DEF InState
    <3>2. \A y \in InState(row, "settled", "exact") : f[y] = row[y]
      BY <1>5, <3>1 DEF InState
    <3>3. f[r].fact.bytes = s.bytes
      BY <1>2, <1>4, <1>5
    <3> DEFINE E == InState(row, "settled", "exact")
               n == s.bytes
    <3>4. BytesOf(f) = B \cup D
      <4>1. ASSUME NEW y \in Reservations, NEW i \in 1 .. Hold
            PROVE  <<y, i>> \in BytesOf(f) <=> <<y, i>> \in B \/ <<y, i>> \in D
        <5>1. <<y, i>> \in BytesOf(f) <=> (y \in E \cup {r} /\ i <= f[y].fact.bytes)
          BY <3>1 DEF BytesOf
        <5>2. <<y, i>> \in B <=> (y \in E /\ i <= row[y].fact.bytes)
          BY DEF BytesOf
        <5>3. <<y, i>> \in D <=> (y = r /\ i <= n)
          BY <1>8, Constants
        <5> HIDE DEF B, D, E, n
        <5>4. QED
          BY <3>1, <3>2, <3>3, <5>1, <5>2, <5>3 DEF E, n
      <4>2. BytesOf(f) \subseteq Reservations \X (1 .. Hold) /\ B \subseteq Reservations \X (1 .. Hold)
        BY DEF BytesOf
      <4>3. D \subseteq Reservations \X (1 .. Hold)
        BY <1>8, Constants
      <4>4. ASSUME NEW z PROVE z \in BytesOf(f) <=> z \in B \/ z \in D
        <5>1. CASE z \in Reservations \X (1 .. Hold)
          <6>1. PICK y \in Reservations, i \in 1 .. Hold : z = <<y, i>>
            BY <5>1
          <6> HIDE DEF B, D
          <6>2. QED
            BY <4>1, <6>1
        <5>2. CASE z \notin Reservations \X (1 .. Hold)
          <6> HIDE DEF B, D
          <6>1. QED
            BY <4>2, <4>3, <5>2
        <5>3. QED
          BY <5>1, <5>2
      <4> HIDE DEF B, D
      <4>5. QED
        BY <4>4
    <3>5. B \cap D = {}
      BY <3>1 DEF BytesOf
    <3>6. IsFiniteSet(D) /\ Cardinality(D) = s.bytes
      <4> DEFINE I == 1 .. n
                 J == {r}
      <4>0. n \in Nat /\ D = J \X I
        BY <1>8, Constants
      <4> HIDE DEF n
      <4>1. IsFiniteSet(I) /\ Cardinality(I) = n
        <5>1. 1 \in Int /\ n \in Int
          BY <4>0
        <5>2. IsFiniteSet(1 .. n) /\ Cardinality(1 .. n) = IF 1 > n THEN 0 ELSE n - 1 + 1
          BY <5>1, FS_Interval
        <5>3. QED
          BY <4>0, <5>2
      <4>2. IsFiniteSet(J) /\ Cardinality(J) = 1
        BY FS_Singleton
      <4> HIDE DEF I, J
      <4>3. IsFiniteSet(J \X I) /\ Cardinality(J \X I) = Cardinality(J) * Cardinality(I)
        BY <4>1, <4>2, FS_Product
      <4> HIDE DEF D
      <4>4. QED
        BY <4>0, <4>1, <4>2, <4>3 DEF n
    <3>7. IsFiniteSet(B)
      BY RowsFinite
    <3>8. Cardinality(B) \in Nat
      BY <3>7, FS_CardinalityType
    <3> HIDE DEF B, D
    <3>9. Cardinality(B \cup D) = Cardinality(B) + Cardinality(D) - Cardinality({})
      BY <3>5, <3>6, <3>7, FS_Union
    <3>10. Cardinality({}) = 0
      BY FS_EmptySet
    <3> HIDE DEF n
    <3>11. n \in Nat /\ exact = n /\ Cardinality(D) = n
      BY <1>8, <2>2, <3>6, Constants DEF n
    <3> HIDE DEF exact
    <3>12. Cardinality(BytesOf(f)) = Cardinality(B \cup D)
      BY <3>4
    <3> DEFINE a == Cardinality(BytesOf(f))
               b == Cardinality(B)
               d == Cardinality(D)
               e == Cardinality({})
    <3>13. a = b + d - e /\ b \in Nat /\ d = n /\ e = 0 /\ n \in Nat
      BY <3>8, <3>9, <3>10, <3>11, <3>12
    <3> HIDE DEF a, b, d, e
    <3>14. a = b + exact
      BY <3>11, <3>13
    <3>15. QED
      BY <3>14 DEF a, b
  <2>3. QED
    BY <2>1, <2>2
<1>14. /\ usage \in Usages /\ usage.held = Hold * Cardinality(H)
       /\ usage.recovery = Hold * Cardinality(R) /\ usage.committed = Cardinality(B)
       /\ usage.held \in Nat /\ usage.recovery \in Nat /\ usage.committed \in Nat
  BY <1>1 DEF RowsGood, Balanced, Usages
<1> DEFINE c2 == usage.committed + exact
           r2 == usage.recovery + back
           h2 == usage.held - Hold
<1>15. u = [usage EXCEPT !.committed = c2, !.recovery = r2, !.held = h2]
  BY <1>14 DEF Charge
<1>16. exact \in Nat /\ back \in Nat /\ exact + back <= Hold
  BY <1>8, Constants
<1>17. Hold * (Cardinality(H) - 1) = Hold * Cardinality(H) - Hold
       /\ Hold * (Cardinality(H) - 1) \in Nat
  <2>1. Cardinality(H) - 1 \in Nat
    BY <1>10
  <2>2. Hold * (Cardinality(H) - 1) = Hold * Cardinality(H) - Hold * 1
    BY <1>10, Distribute, Constants
  <2>3. QED
    BY <2>1, <2>2, Constants, Distribute
<1> HIDE DEF exact, back, H, R, B
<1>18. c2 \in Nat /\ r2 \in Nat /\ h2 \in Nat
  BY <1>14, <1>16, <1>17
<1>19. u \in Usages /\ u.committed = c2 /\ u.recovery = r2 /\ u.held = h2
  <2> HIDE DEF c2, r2, h2
  <2>1. QED
    BY <1>14, <1>15, <1>18 DEF Usages
<1>20. Balanced(f, u)
  BY <1>9, <1>10, <1>12, <1>13, <1>14, <1>17, <1>19 DEF Balanced
<1>21. Total(u) <= Total(usage)
  BY <1>14, <1>16, <1>19, Constants DEF Total
<1>22. QED
  BY <1>5, <1>6, <1>19, <1>20, <1>21 DEF RowsGood

\* A transaction of the Controller leaves good rows and answers with a good
\* number.
Transaction ==
    /\ RowsGood(row', usage') /\ Total(usage') <= Quota
    /\ toController' = Tail(toController)
    /\ \E a \in Answers : a.seq <= faults.renewals /\ toEdge' = Append(toEdge, a)

\* An answer that the Controller sends.
LEMMA ReplyEffect ==
    ASSUME RelayInv, NEW m \in Requests, NEW q \in 0 .. MaxRenew, q <= faults.renewals,
           NEW c \in {"APPLIED", "REPLAY", "TERMINAL", "REJECTED", "CONFLICT"},
           NEW x \in Settlements, Reply(m, c, q, x)
    PROVE  /\ toController' = Tail(toController)
           /\ \E a \in Answers : a.seq <= faults.renewals /\ toEdge' = Append(toEdge, a)
<1> DEFINE a == Answer(m.kind, m.id, c, q, x)
<1>1. a \in Answers /\ a.seq = q
  BY DEF Answer, Answers, Requests
<1>2. toController' = Tail(toController) /\ toEdge' = Append(toEdge, a)
  BY DEF Reply
<1> HIDE DEF a
<1>3. QED
  BY <1>1, <1>2

\* The lazy recovery of one row, with the answer that tells its state.
LEMMA LazyTransaction ==
    ASSUME RelayInv, NEW m \in Requests, NEW q \in 0 .. MaxRenew, q <= faults.renewals,
           Recover(m.id), ReplyWithRow(m, q)
    PROVE  Transaction
<1> DEFINE S == Lazily(m.id)
<1>1. m.id \in Reservations
  BY DEF Requests
<1>2. S \in SUBSET {r \in Reservations : row[r].state = "held"}
  BY <1>1 DEF Lazily, Due
<1>3. row' = RowsRecovered(S) /\ usage' = UsageRecovered(S)
  BY DEF Recover
<1>4. /\ RowsGood(RowsRecovered(S), UsageRecovered(S))
      /\ Total(UsageRecovered(S)) = Total(usage)
      /\ RowsRecovered(S)[m.id].fact \in Settlements
  BY <1>1, <1>2, RecoveredRows
<1>5. RowsGood(row', usage') /\ Total(usage') <= Quota
  BY <1>3, <1>4, RowsAreGood
<1>6. \E c \in {"REPLAY", "TERMINAL"}, x \in Settlements : Reply(m, c, q, x)
  BY <1>4, EmptyValues DEF ReplyWithRow
<1>7. QED
  BY <1>5, <1>6, ReplyEffect DEF Transaction

\* An answer alone.
LEMMA PlainTransaction ==
    ASSUME RelayInv, NEW m \in Requests, NEW q \in 0 .. MaxRenew, q <= faults.renewals,
           NEW c \in {"APPLIED", "REPLAY", "TERMINAL", "REJECTED", "CONFLICT"},
           NEW x \in Settlements, Reply(m, c, q, x), UNCHANGED <<row, usage>>
    PROVE  Transaction
<1>1. RowsGood(row', usage') /\ Total(usage') <= Quota
  BY RowsAreGood
<1>2. QED
  BY <1>1, ReplyEffect DEF Transaction

\* What the oldest request may ask.
LEMMA OldestRequest ==
    ASSUME RelayInv, toController # << >>
    PROVE  /\ Head(toController) \in Requests /\ Head(toController).seq <= faults.renewals
           /\ Head(toController).kind = "settle" =>
                 Final(Head(toController).id, Head(toController).settlement)
<1> DEFINE A == {m \in Requests : m.kind = "settle" => Final(m.id, m.settlement)}
           B == {m \in Requests : m.seq <= faults.renewals}
<1>1. toController \in Seq(A) /\ toController \in Seq(B)
  BY DEF RelayInv, SettlementsFinal, SequencesBounded
<1> HIDE DEF A, B
<1>2. Head(toController) \in A /\ Head(toController) \in B
  BY <1>1, HeadTailProperties
<1>3. QED
  BY <1>2 DEF A, B

\* Numbers that answers carry.
LEMMA RowNumbers ==
    ASSUME RelayInv, NEW r \in Reservations
    PROVE  /\ row[r].seq \in 0 .. MaxRenew /\ row[r].seq <= faults.renewals
           /\ row[r].state \in {"none", "held", "settled"} /\ row[r].fact \in Settlements
           /\ 0 \in 0 .. MaxRenew /\ 0 <= faults.renewals
<1>1. row[r] \in Rows
  BY DEF RelayInv, TypeOK
<1>2. QED
  BY <1>1, Kept, Constants DEF RelayInv, SequencesBounded, Rows

\* reserveRelayAt.
LEMMA ReserveTransaction ==
    ASSUME RelayInv, NEW m \in Requests, ReserveRelayAt(m)
    PROVE  Transaction
<1>1. m.id \in Reservations
  BY DEF Requests
<1>2. CASE Recover(m.id) /\ ReplyWithRow(m, row[m.id].seq)
  BY <1>1, <1>2, RowNumbers, LazyTransaction
<1>3. CASE Reply(m, "REJECTED", 0, NoSettlement) /\ UNCHANGED <<row, usage>>
  BY <1>1, <1>3, RowNumbers, EmptyValues, PlainTransaction
<1>4. CASE /\ row[m.id].state = "none" /\ Admissible
           /\ row' = [RowsRecovered({r \in Reservations : Due(r)}) EXCEPT ![m.id].state = "held"]
           /\ usage' = [UsageRecovered({r \in Reservations : Due(r)}) EXCEPT !.held = @ + Hold]
           /\ Reply(m, "APPLIED", 0, NoSettlement)
  <2> DEFINE S == {r \in Reservations : Due(r)}
             f == RowsRecovered(S)
             u == UsageRecovered(S)
  <2>1. S \in SUBSET {r \in Reservations : row[r].state = "held"}
    BY DEF Due
  <2>2. RowsGood(f, u) /\ Total(u) = Total(usage) /\ f[m.id].state = "none"
    BY <1>1, <1>4, <2>1, RecoveredRows
  <2>3. row' = [f EXCEPT ![m.id].state = "held"] /\ usage' = [u EXCEPT !.held = @ + Hold]
    BY <1>4
  <2> HIDE DEF f, u, S
  <2>4. RowsGood(row', usage') /\ Total(usage') = Total(u) + Hold
    BY <1>1, <2>2, <2>3, HeldRow
  <2>5. Quota - Total(usage) >= Hold /\ Total(usage) \in Int
    <3>1. usage \in Usages
      BY RowsAreGood DEF RowsGood
    <3>2. QED
      BY <1>4, <3>1 DEF Admissible, Total, Usages
  <2>6. Total(usage') <= Quota
    BY <2>2, <2>4, <2>5, Constants
  <2>7. QED
    BY <1>1, <1>4, <2>4, <2>6, RowNumbers, EmptyValues, ReplyEffect DEF Transaction
<1>5. QED
  BY <1>2, <1>3, <1>4 DEF ReserveRelayAt

\* renewRelayAt.
LEMMA RenewTransaction ==
    ASSUME RelayInv, NEW m \in Requests, m.seq <= faults.renewals, RenewRelayAt(m)
    PROVE  Transaction
<1>1. m.id \in Reservations /\ m.seq \in 0 .. MaxRenew
  BY DEF Requests
<1>2. CASE Recover(m.id) /\ ReplyWithRow(m, m.seq)
  BY <1>1, <1>2, LazyTransaction
<1>3. CASE Reply(m, "REJECTED", m.seq, NoSettlement) /\ UNCHANGED <<row, usage>>
  BY <1>1, <1>3, EmptyValues, PlainTransaction
<1>4. CASE /\ row' = [row EXCEPT ![m.id].seq = m.seq]
           /\ Reply(m, "APPLIED", m.seq, NoSettlement) /\ UNCHANGED usage
  <2>1. RowsGood([row EXCEPT ![m.id].seq = m.seq], usage)
    BY <1>1, RenewedRow
  <2>2. RowsGood(row', usage') /\ Total(usage') <= Quota
    BY <1>4, <2>1, RowsAreGood
  <2>3. QED
    BY <1>1, <1>4, <2>2, EmptyValues, ReplyEffect DEF Transaction
<1>5. QED
  BY <1>2, <1>3, <1>4 DEF RenewRelayAt

\* settleRelayAt.
LEMMA SettleTransaction ==
    ASSUME RelayInv, NEW m \in Requests, Final(m.id, m.settlement), SettleRelayAt(m)
    PROVE  Transaction
<1>1. m.id \in Reservations /\ m.settlement \in Settlements
  BY DEF Requests
<1>2. 0 \in 0 .. MaxRenew /\ 0 <= faults.renewals /\ row[m.id].fact \in Settlements
  BY <1>1, RowNumbers
<1>3. CASE Reply(m, "REJECTED", 0, m.settlement) /\ UNCHANGED <<row, usage>>
  BY <1>1, <1>2, <1>3, PlainTransaction
<1>4. CASE /\ Reply(m, TerminalCode(row[m.id].fact, m.settlement), 0, row[m.id].fact)
           /\ UNCHANGED <<row, usage>>
  <2>1. TerminalCode(row[m.id].fact, m.settlement) \in {"REPLAY", "CONFLICT", "TERMINAL"}
    BY DEF TerminalCode
  <2>2. QED
    BY <1>2, <1>4, <2>1, PlainTransaction
<1>5. CASE /\ row[m.id].state = "held"
           /\ row' = [row EXCEPT ![m.id].state = "settled",
                          ![m.id].fact = [m.settlement EXCEPT !.at = Micro(m.settlement.at)]]
           /\ usage' = [usage EXCEPT
                  !.committed = @ + (IF m.settlement.kind = "exact"
                                     THEN Charge(m.settlement) ELSE 0),
                  !.recovery = @ + (IF m.settlement.kind = "recovery"
                                    THEN Charge(m.settlement) ELSE 0),
                  !.held = @ - Hold]
           /\ Reply(m, "APPLIED", 0, m.settlement)
  <2>1. RowsGood(row', usage') /\ Total(usage') <= Total(usage)
    BY <1>1, <1>5, SettledRow
  <2>2. Total(usage) <= Quota /\ Total(usage) \in Int /\ Total(usage') \in Int
    <3>1. usage \in Usages /\ usage' \in Usages /\ Total(usage) <= Quota
      BY <2>1, RowsAreGood DEF RowsGood
    <3>2. QED
      BY <3>1 DEF Usages, Total
  <2>3. Total(usage') <= Quota
    BY <2>1, <2>2, Constants
  <2>4. QED
    BY <1>1, <1>2, <1>5, <2>1, <2>3, ReplyEffect DEF Transaction
<1>6. QED
  BY <1>3, <1>4, <1>5 DEF SettleRelayAt

\* queryRelayAt.
LEMMA QueryTransaction ==
    ASSUME RelayInv, NEW m \in Requests, QueryRelayAt(m)
    PROVE  Transaction
<1>1. m.id \in Reservations
  BY DEF Requests
<1>2. CASE Reply(m, "REJECTED", 0, NoSettlement) /\ UNCHANGED <<row, usage>>
  BY <1>1, <1>2, RowNumbers, EmptyValues, PlainTransaction
<1>3. CASE Recover(m.id) /\ ReplyWithRow(m, row[m.id].seq)
  BY <1>1, <1>3, RowNumbers, LazyTransaction
<1>4. QED
  BY <1>2, <1>3 DEF QueryRelayAt

\* A transaction keeps the invariant.
LEMMA ControllerKeeps ==
    ASSUME RelayInv, ControllerStep
    PROVE  RelayInv'
<1>1. toController # << >> /\ UNCHANGED <<expired, entitled, record, group, moved, client, op,
                                          replay, link, faults>>
  BY DEF ControllerStep, trafficVars
<1>2. PICK m : m = Head(toController)
  OBVIOUS
<1>3. /\ m \in Requests /\ m.seq <= faults.renewals
      /\ m.kind = "settle" => Final(m.id, m.settlement)
  BY <1>1, <1>2, OldestRequest
<1>4. Transaction
  <2>1. \/ m.kind = "reserve" /\ ReserveRelayAt(m)
        \/ m.kind = "renew" /\ RenewRelayAt(m)
        \/ m.kind = "settle" /\ SettleRelayAt(m)
        \/ m.kind = "query" /\ QueryRelayAt(m)
    BY <1>2 DEF ControllerStep
  <2>2. QED
    BY <1>3, <2>1, ReserveTransaction, RenewTransaction, SettleTransaction, QueryTransaction
<1>5. /\ toController' \in
            Seq({x \in Requests : x.kind = "settle" => Final(x.id, x.settlement)'})
      /\ toController' \in Seq({x \in Requests : x.seq <= faults'.renewals})
      /\ toEdge' \in Seq({x \in Answers : x.seq <= faults'.renewals})
  <2> DEFINE A == {x \in Requests : x.kind = "settle" => Final(x.id, x.settlement)'}
             B == {x \in Requests : x.seq <= faults'.renewals}
             C == {x \in Answers : x.seq <= faults'.renewals}
  <2>1. faults' \in Faults /\ faults.renewals <= faults'.renewals
    BY <1>1, Kept, Constants
  <2>2. \A r \in Reservations : Static(r) => Static(r)' /\ moved'[r] = moved[r]
    BY <1>1 DEF Static
  <2>3. toController \in Seq(A) /\ toController \in Seq(B) /\ toEdge \in Seq(C)
    BY <2>1, <2>2, TransitKept
  <2>4. PICK a \in Answers : a.seq <= faults.renewals /\ toEdge' = Append(toEdge, a)
    BY <1>4 DEF Transaction
  <2>5. a \in C
    BY <1>1, <2>4
  <2>6. toController' = Tail(toController)
    BY <1>4 DEF Transaction
  <2> HIDE DEF A, B, C
  <2>7. toController' \in Seq(A) /\ toController' \in Seq(B)
    BY <1>1, <2>3, <2>6, HeadTailProperties
  <2>8. toEdge' \in Seq(C)
    BY <2>3, <2>4, <2>5, AppendProperties
  <2>9. QED
    BY <2>7, <2>8 DEF A, B, C
<1>6. TypeOK'
  <2>1. toController' \in Seq(Requests)
    BY <1>5, SeqMonotonic
  <2>2. toEdge' \in Seq(Answers)
    BY <1>5, SeqMonotonic
  <2>3. row' \in [Reservations -> Rows] /\ usage' \in Usages
    BY <1>4 DEF Transaction, RowsGood
  <2>4. QED
    BY <1>1, <2>1, <2>2, <2>3 DEF RelayInv, TypeOK, Usages
<1>7. OpsInStep' /\ GroupsInStep'
  <2>1. ASSUME NEW r \in Reservations PROVE OpInStep(r)' /\ GroupInStep(r)'
    <3>1. OpInStep(r) /\ GroupInStep(r)
      BY Here
    <3>2. QED
      BY <1>1, <3>1 DEF OpInStep, GroupInStep
  <2>2. QED
    BY <2>1 DEF OpsInStep, GroupsInStep
<1>8. SettlementsFinal'
  <2>1. ASSUME NEW r \in Reservations
        PROVE  /\ row'[r].state = "settled" => Final(r, row[r].fact)'
               /\ record'[r].stage = "SETTLEMENT_DURABLE" => Final(r, record[r].settlement)'
    <3>1. row'[r].state = "settled" => Final(r, row'[r].fact)
      BY <1>4 DEF Transaction, RowsGood
    <3>2. record[r].stage = "SETTLEMENT_DURABLE" => Final(r, record[r].settlement)
      BY Here
    <3>3. QED
      BY <1>1, <3>1, <3>2 DEF Final, Static
  <2>2. QED
    BY <1>5, <2>1 DEF SettlementsFinal
<1>9. SequencesBounded'
  <2>1. ASSUME NEW r \in Reservations
        PROVE  /\ row'[r].seq <= faults'.renewals /\ group'[r].seq <= faults'.renewals
               /\ record'[r].seq <= faults'.renewals
               /\ record'[r].pending <= faults'.renewals
    BY <1>1, <1>4, Here DEF Transaction, RowsGood
  <2>2. QED
    BY <1>5, <2>1 DEF SequencesBounded
<1>10. FactsInStep'
  BY <1>4 DEF Transaction, RowsGood, FactsInStep
<1>11. UsageBalanced'
  BY <1>4 DEF Transaction, RowsGood, UsageBalanced, Balanced, RowsIn, InState, ExactBytes, BytesOf
<1>12. QED
  BY <1>6, <1>7, <1>8, <1>9, <1>10, <1>11 DEF RelayInv

-----------------------------------------------------------------------------
(* The invariant and what it says.                                         *)

\* Nothing is held, journaled or relayed at the beginning.
LEMMA InitHolds ==
    ASSUME Init
    PROVE  RelayInv
<1>1. /\ row \in [Reservations -> Rows] /\ record \in [Reservations -> Records]
      /\ group \in [Reservations -> Groups] /\ op \in [Reservations -> Operations]
      /\ client \in [Reservations -> Clients]
  BY EmptyValues DEF Init, Clients
<1>2. ASSUME NEW r \in Reservations
      PROVE  /\ row[r] = NoRow /\ record[r] = NoRecord /\ group[r] = NoGroup /\ op[r] = Idle
             /\ client[r] = "new" /\ moved[r] = 0
  BY DEF Init
<1>3. TypeOK
  <2>1. moved \in [Reservations -> 0 .. Hold]
    BY Constants DEF Init
  <2>2. usage \in [committed : Nat, recovery : Nat, held : Nat]
    BY DEF Init
  <2>3. faults \in [errors : 0 .. MaxErrors, breaks : 0 .. MaxBreaks,
                    crashes : 0 .. MaxCrashes, lapses : 0 .. MaxLapses,
                    renewals : 0 .. MaxRenew]
    BY Constants DEF Init
  <2>4. /\ expired \in [Reservations -> BOOLEAN] /\ entitled \in BOOLEAN
        /\ link \in {"up", "down"} /\ toController \in Seq(Requests) /\ toEdge \in Seq(Answers)
    BY DEF Init
  <2>5. replay \in [wanted : 0 .. MaxPasses, running : BOOLEAN, todo : SUBSET Reservations]
    BY EmptyValues DEF Init
  <2>6. QED
    BY <1>1, <2>1, <2>2, <2>3, <2>4, <2>5 DEF TypeOK
<1>4. OpsInStep /\ GroupsInStep
  BY <1>2, EmptyValues DEF OpsInStep, GroupsInStep, OpInStep, GroupInStep
<1>5. SettlementsFinal /\ SequencesBounded /\ FactsInStep
  <2>1. toController = << >> /\ toEdge = << >> /\ faults.renewals = 0
    BY DEF Init
  <2>2. SettlementsFinal
    BY <1>2, <2>1, EmptyValues DEF SettlementsFinal
  <2>3. SequencesBounded
    <3>1. ASSUME NEW r \in Reservations
          PROVE  /\ row[r].seq = 0 /\ group[r].seq = 0 /\ record[r].seq = 0
                 /\ record[r].pending = 0
      BY <1>2, EmptyValues
    <3>2. QED
      BY <2>1, <3>1 DEF SequencesBounded
  <2>4. FactsInStep
    BY <1>2, EmptyValues DEF FactsInStep
  <2>5. QED
    BY <2>2, <2>3, <2>4
<1>6. UsageBalanced
  <2>1. RowsIn("held", "none") = {} /\ RowsIn("settled", "recovery") = {}
        /\ RowsIn("settled", "exact") = {}
    BY <1>2, EmptyValues DEF RowsIn
  <2>2. ExactBytes = {}
    BY <2>1 DEF ExactBytes
  <2>3. usage.held = 0 /\ usage.recovery = 0 /\ usage.committed = 0
    BY DEF Init
  <2>4. Cardinality({}) = 0
    BY FS_EmptySet
  <2>5. QED
    <3>1. Hold * 0 = 0 /\ 0 + 0 + 0 <= Quota
      BY Constants
    <3>2. QED
      BY <2>1, <2>2, <2>3, <2>4, <3>1 DEF UsageBalanced, Total
<1>7. QED
  BY <1>3, <1>4, <1>5, <1>6 DEF RelayInv

\* The inductive invariant of the accounting: operations, groups and journal
\* are in step, every exact settlement that is written down or under way has
\* the final count, and the usage period agrees with the rows.
THEOREM RelayInvariant == Spec => []RelayInv
<1>1. Init => RelayInv
  BY InitHolds
<1>2. RelayInv /\ [Next]_vars => RelayInv'
  <2> SUFFICES ASSUME RelayInv, [Next]_vars PROVE RelayInv'
    OBVIOUS
  <2>1. CASE ControllerStep
    BY <2>1, ControllerKeeps
  <2>2. CASE EdgeReceive
    BY <2>2, EdgeReceiveStep, EdgeStepKeeps
  <2>3. CASE LinkBreak
    BY <2>3, LinkBreakKeeps
  <2>4. CASE Crash
    BY <2>4, CrashKeeps
  <2>5. CASE ReplayStart \/ Reconnect \/ Lapse \/ (\E r \in Reservations : Expire(r))
    BY <2>5, AsideKeeps
  <2>6. ASSUME NEW r \in Reservations,
               OperationStep(r) \/ ReplayRecord(r) \/ ClientStep(r) \/ Traffic(r) \/ Mishap(r)
        PROVE  RelayInv'
    <3>1. EdgeStep(r)
      <4>1. CASE OperationStep(r)
        BY <4>1, RegisterStep, MarkExposedStep, SettleUnexposedStep, FinishClosingStep,
           DrainStep, RevokeStep, DeliverStep, AckTerminalStep DEF OperationStep
      <4>2. CASE ReplayRecord(r)
        BY <4>2, ReplayRecordStep
      <4>3. CASE ClientStep(r)
        BY <4>3, RequestRelayStep, RenewRelayStep, CloseRelaySessionStep DEF ClientStep
      <4>4. CASE Traffic(r)
        BY <4>4, AllocateStep, RelayByteStep, DeallocateStep DEF Traffic
      <4>5. CASE Mishap(r)
        BY <4>5, TimeoutStep, MarkExposedFailsStep, DrainFailsStep DEF Mishap
      <4>6. QED
        BY <2>6, <4>1, <4>2, <4>3, <4>4, <4>5
    <3>2. QED
      BY <3>1, EdgeStepKeeps
  <2>7. CASE UNCHANGED vars
    <3>1. UNCHANGED <<row, usage, expired, entitled, record, group, moved, client, op, replay,
                      link, toController, toEdge, faults>>
      BY <2>7 DEF vars
    <3>2. ASSUME NEW s \in Reservations
          PROVE  OpInStep(s)' /\ GroupInStep(s)' /\ (Static(s) => Static(s)')
      <4>1. OpInStep(s) /\ GroupInStep(s)
        BY Here
      <4>2. QED
        BY <3>1, <4>1 DEF OpInStep, GroupInStep, Static
    <3>3. /\ expired' \in [Reservations -> BOOLEAN] /\ entitled' \in BOOLEAN
          /\ link' \in {"up", "down"}
      BY <3>1 DEF RelayInv, TypeOK
    <3>4. /\ op' \in [Reservations -> Operations] /\ group' \in [Reservations -> Groups]
          /\ client' \in [Reservations -> Clients] /\ replay' \in Passes /\ faults' \in Faults
      BY <3>1, Kept
    <3>5. QED
      BY <3>1, <3>2, <3>3, <3>4, GlobalKeeps
  <2>8. QED
    BY <2>1, <2>2, <2>3, <2>4, <2>5, <2>6, <2>7 DEF Next
<1>3. QED
  BY <1>1, <1>2, PTL DEF Spec

\* Rows, journal, groups, operations and messages keep their types, whatever
\* the numbers of reservations, renewals and faults: no counter of the usage
\* period becomes negative and no reservation moves more than its hold.
THEOREM RelayTypes == Spec => []TypeOK
<1>1. RelayInv => TypeOK
  BY DEF RelayInv
<1>2. QED
  BY <1>1, RelayInvariant, PTL

\* An exact settlement of the Controller is the number of bytes that really
\* passed, for every interleaving of crashes, replays, timeouts and renewals.
THEOREM ExactSettlements == Spec => []ChargedExactly
<1>1. RelayInv => ChargedExactly
  BY DEF RelayInv, SettlementsFinal, ChargedExactly, Final
<1>2. QED
  BY <1>1, RelayInvariant, PTL

\* No byte passes under a record that a restart would settle as unused.
THEOREM JournalBeforeTraffic == Spec => []TrafficIsJournaled
<1>1. RelayInv => TrafficIsJournaled
  <2> SUFFICES ASSUME RelayInv, NEW r \in Reservations
               PROVE  /\ group[r].open =>
                           record[r].stage \in {"EXPOSED", "RENEW_PENDING", "CLOSING"}
                      /\ moved[r] > 0 => record[r].stage \notin {"REQUESTED", "HELD_UNEXPOSED"}
    BY DEF TrafficIsJournaled
  <2>1. GroupInStep(r)
    BY Here
  <2>2. QED
    BY <2>1 DEF GroupInStep
<1>2. QED
  BY <1>1, RelayInvariant, PTL

\* The usage period is the sum of the rows at every moment, and what is charged
\* and held never exceeds the quota.
THEOREM UsageAgrees == Spec => []UsageBalanced
<1>1. RelayInv => UsageBalanced
  BY DEF RelayInv
<1>2. QED
  BY <1>1, RelayInvariant, PTL

-----------------------------------------------------------------------------
(* The numbers of renewals.                                                *)

\* The largest number of a renewal that the journal has given out.
Top(r) == IF record[r].pending = 0 THEN record[r].seq ELSE record[r].pending

\* r has a record, or has yet to get it.
Known(r) == record[r].stage # "NONE" \/ client[r] = "new"

\* What the stage of a record says of its numbers, and where the row is between
\* the number the journal has applied and the one it waits for.
RecordInStep(r) ==
    LET c == record[r] IN
    /\ c.stage \in {"NONE", "REQUESTED", "HELD_UNEXPOSED"} => c.seq = 0 /\ c.pending = 0
    /\ c.stage = "EXPOSED" => c.pending = 0
    /\ c.stage = "RENEW_PENDING" => c.pending = c.seq + 1
    /\ c.pending \in {0, c.seq + 1}
    /\ group[r].live => group[r].seq <= c.seq
    /\ Known(r) => c.seq <= row[r].seq /\ row[r].seq <= Top(r)

\* A renewal under way has a number that was given out; an answer that grants
\* something has a number that the row has reached.
AskedInStep(m) == m.kind = "renew" /\ Known(m.id) => m.seq <= Top(m.id)
Grants(m) == m.kind # "renew" \/ m.code \in {"APPLIED", "REPLAY"}
ToldInStep(m) == Grants(m) => m.seq <= row[m.id].seq

NumbersInStep ==
    /\ \A r \in Reservations : RecordInStep(r)
    /\ toController \in Seq({m \in Requests : AskedInStep(m)})
    /\ toEdge \in Seq({m \in Answers : ToldInStep(m)})

\* What a step of the Edge may do to the record of r: leave its numbers, apply a
\* grant, ask for a renewal, apply it, or delete the record.
LeavesNumbers(r) ==
    /\ record'[r].seq = record[r].seq /\ record'[r].pending = record[r].pending
    /\ \/ record'[r].stage = record[r].stage
       \/ record[r].stage # "NONE" /\ record'[r].stage \in {"CLOSING", "SETTLEMENT_DURABLE"}
       \/ record[r].stage = "HELD_UNEXPOSED" /\ record'[r].stage = "EXPOSED"
       \/ record[r].stage = "NONE" /\ record'[r].stage = "REQUESTED" /\ client[r] = "new"
AppliesGrant(r) ==
    /\ record[r].stage = "REQUESTED" /\ record'[r].stage = "HELD_UNEXPOSED"
    /\ record'[r].pending = record[r].pending /\ record'[r].seq <= row[r].seq
AsksRenewal(r) ==
    /\ record[r].stage = "EXPOSED" /\ record'[r].stage = "RENEW_PENDING"
    /\ record'[r].seq = record[r].seq /\ record'[r].pending = record[r].seq + 1
AppliesRenewal(r) ==
    /\ record[r].stage = "RENEW_PENDING" /\ record'[r].stage = "EXPOSED"
    /\ record'[r].seq = record[r].pending /\ record'[r].pending = 0
    /\ record[r].pending <= row[r].seq
DeletesRecord(r) ==
    /\ record[r].stage # "NONE" /\ record'[r].stage = "NONE"
    /\ record'[r].seq = 0 /\ record'[r].pending = 0

Renumbers(r) ==
    /\ LeavesNumbers(r) \/ AppliesGrant(r) \/ AsksRenewal(r) \/ AppliesRenewal(r)
       \/ DeletesRecord(r)
    /\ group'[r].live =>
          (group[r].live /\ group'[r].seq = group[r].seq) \/ group'[r].seq = record'[r].seq
    /\ client'[r] = "new" => client[r] = "new"

\* The numbers of r are naturals.
LEMMA Numbers ==
    ASSUME TypeOK, NEW r \in Reservations
    PROVE  /\ record[r].seq \in Nat /\ record[r].pending \in Nat /\ row[r].seq \in Nat
           /\ group[r].seq \in Nat /\ record[r].stage \in Stages /\ Top(r) \in Nat
<1>1. record[r] \in Records /\ row[r] \in Rows /\ group[r] \in Groups
  BY DEF TypeOK
<1>2. /\ record[r].seq \in Nat /\ record[r].pending \in Nat /\ row[r].seq \in Nat
      /\ group[r].seq \in Nat /\ record[r].stage \in Stages
  BY <1>1, Constants DEF Records, Rows, Groups
<1>. QED
  BY <1>2 DEF Top

\* So are they in the next state.
LEMMA NumbersNext ==
    ASSUME TypeOK', NEW r \in Reservations
    PROVE  /\ record'[r].seq \in Nat /\ record'[r].pending \in Nat /\ row'[r].seq \in Nat
           /\ group'[r].seq \in Nat /\ record'[r].stage \in Stages /\ Top(r)' \in Nat
<1>1. record'[r] \in Records /\ row'[r] \in Rows /\ group'[r] \in Groups
  BY DEF TypeOK
<1>2. /\ record'[r].seq \in Nat /\ record'[r].pending \in Nat /\ row'[r].seq \in Nat
      /\ group'[r].seq \in Nat /\ record'[r].stage \in Stages
  BY <1>1, Constants DEF Records, Rows, Groups
<1>. QED
  BY <1>2 DEF Top

\* The record of the reservation that a step of the Edge is about keeps in step,
\* and no number that was given out is taken back while the record is known.
LEMMA RecordKeeps ==
    ASSUME RelayInv, RelayInv', NEW r \in Reservations, RecordInStep(r), row'[r] = row[r],
           Renumbers(r)
    PROVE  RecordInStep(r)' /\ (Known(r)' => Known(r) /\ Top(r) <= Top(r)')
<1>1. TypeOK /\ TypeOK'
  BY DEF RelayInv
<1>2. /\ record[r].seq \in Nat /\ record[r].pending \in Nat /\ row[r].seq \in Nat
      /\ group[r].seq \in Nat /\ record[r].stage \in Stages /\ Top(r) \in Nat
  BY <1>1, Numbers
<1>3. /\ record'[r].seq \in Nat /\ record'[r].pending \in Nat
      /\ group'[r].seq \in Nat /\ record'[r].stage \in Stages /\ Top(r)' \in Nat
  BY <1>1, NumbersNext
<1>4. record'[r].stage = "NONE" => ~group'[r].live
  <2>1. OpInStep(r)' /\ GroupInStep(r)'
    BY DEF RelayInv, OpsInStep, GroupsInStep
  <2>. QED
    BY <2>1 DEF OpInStep, GroupInStep
<1>5. record[r].stage # "NONE" => client[r] # "new"
  <2>1. OpInStep(r)
    BY DEF RelayInv, OpsInStep
  <2>. QED
    BY <2>1 DEF OpInStep
<1>6. client'[r] = "new" => client[r] = "new"
  BY DEF Renumbers
<1>7. CASE LeavesNumbers(r)
  <2>1. Known(r)' => Known(r)
    BY <1>6, <1>7 DEF Known, LeavesNumbers
  <2>2. Top(r)' = Top(r)
    BY <1>7 DEF Top, LeavesNumbers
  <2>3. group'[r].live => group'[r].seq <= record'[r].seq
    BY <1>2, <1>3, <1>7 DEF Renumbers, RecordInStep, LeavesNumbers
  <2>4. /\ record'[r].stage \in {"NONE", "REQUESTED", "HELD_UNEXPOSED"} =>
             record'[r].seq = 0 /\ record'[r].pending = 0
        /\ record'[r].stage = "EXPOSED" => record'[r].pending = 0
        /\ record'[r].stage = "RENEW_PENDING" => record'[r].pending = record'[r].seq + 1
        /\ record'[r].pending \in {0, record'[r].seq + 1}
    BY <1>7 DEF LeavesNumbers, RecordInStep
  <2>5. Known(r)' => record'[r].seq <= row'[r].seq /\ row'[r].seq <= Top(r)'
    BY <1>7, <2>1, <2>2 DEF LeavesNumbers, RecordInStep
  <2>. QED
    BY <1>2, <2>1, <2>2, <2>3, <2>4, <2>5 DEF RecordInStep
<1>8. CASE AppliesGrant(r)
  <2>1. record[r].seq = 0 /\ record[r].pending = 0 /\ Known(r) /\ row[r].seq = 0
    BY <1>2, <1>8 DEF AppliesGrant, RecordInStep, Known, Top
  <2>2. record'[r].seq = 0 /\ record'[r].pending = 0 /\ record'[r].stage = "HELD_UNEXPOSED"
    BY <1>3, <1>8, <2>1 DEF AppliesGrant
  <2>3. Top(r) = 0 /\ Top(r)' = 0
    BY <2>1, <2>2 DEF Top
  <2>4. group'[r].live => group'[r].seq <= record'[r].seq
    BY <1>2, <1>3, <2>1, <2>2 DEF Renumbers, RecordInStep
  <2>. QED
    BY <2>1, <2>2, <2>3, <2>4 DEF RecordInStep
<1>9. CASE AsksRenewal(r)
  <2>1. record[r].pending = 0 /\ Known(r) /\ record[r].seq <= row[r].seq
        /\ row[r].seq <= record[r].seq
    BY <1>9 DEF AsksRenewal, RecordInStep, Known, Top
  <2>2. record'[r].seq = record[r].seq /\ record'[r].pending = record[r].seq + 1
        /\ record'[r].stage = "RENEW_PENDING"
    BY <1>9 DEF AsksRenewal
  <2>3. Top(r) = record[r].seq /\ Top(r)' = record[r].seq + 1
    BY <1>2, <2>1, <2>2 DEF Top
  <2>4. group'[r].live => group'[r].seq <= record'[r].seq
    BY <1>2, <1>3, <2>2 DEF Renumbers, RecordInStep
  <2>5. row'[r].seq <= Top(r)' /\ Top(r) <= Top(r)'
    BY <1>2, <2>1, <2>3
  <2>. QED
    BY <2>1, <2>2, <2>4, <2>5 DEF RecordInStep
<1>10. CASE AppliesRenewal(r)
  <2>1. record[r].pending = record[r].seq + 1 /\ Known(r) /\ row[r].seq <= record[r].pending
    BY <1>2, <1>10 DEF AppliesRenewal, RecordInStep, Known, Top
  <2>2. record'[r].seq = record[r].pending /\ record'[r].pending = 0
        /\ record'[r].stage = "EXPOSED" /\ record[r].pending <= row[r].seq
    BY <1>10 DEF AppliesRenewal
  <2>3. Top(r) = record[r].pending /\ Top(r)' = record[r].pending
    BY <1>2, <2>1, <2>2 DEF Top
  <2>4. group'[r].live => group'[r].seq <= record'[r].seq
    BY <1>2, <1>3, <2>1, <2>2 DEF Renumbers, RecordInStep
  <2>5. Top(r) <= Top(r)'
    BY <1>2, <2>3
  <2>. QED
    BY <2>1, <2>2, <2>3, <2>4, <2>5 DEF RecordInStep
<1>11. CASE DeletesRecord(r)
  <2>1. ~Known(r)'
    BY <1>5, <1>6, <1>11 DEF DeletesRecord, Known
  <2>. QED
    BY <1>4, <1>11, <2>1 DEF DeletesRecord, RecordInStep
<1>. QED
  BY <1>7, <1>8, <1>9, <1>10, <1>11 DEF Renumbers

\* A step of the Edge keeps every number in step.
LEMMA NumbersKept ==
    ASSUME RelayInv, RelayInv', NumbersInStep, NEW r \in Reservations, EdgeStep(r), Renumbers(r)
    PROVE  NumbersInStep'
<1>1. TypeOK /\ TypeOK' /\ row' = row
  BY DEF RelayInv, EdgeStep, controllerVars
<1>2. ASSUME NEW s \in Reservations
      PROVE  RecordInStep(s)' /\ (Known(s)' => Known(s) /\ Top(s) <= Top(s)')
  <2>1. RecordInStep(s)
    BY DEF NumbersInStep
  <2>2. CASE s = r
    BY <1>1, <2>1, <2>2, RecordKeeps
  <2>3. CASE s # r
    <3>1. record'[s] = record[s] /\ group'[s] = group[s] /\ client'[s] = client[s]
          /\ row'[s] = row[s]
      BY <1>1, <2>3 DEF EdgeStep, Frame
    <3>2. Top(s) \in Nat
      BY <1>1, Numbers
    <3>3. (Known(s)' <=> Known(s)) /\ Top(s)' = Top(s)
      BY <3>1 DEF Known, Top
    <3>. QED
      BY <2>1, <3>1, <3>2, <3>3 DEF RecordInStep
  <2>. QED
    BY <2>2, <2>3
<1>3. toController' \in Seq({m \in Requests : AskedInStep(m)'})
  <2>. DEFINE A == {m \in Requests : AskedInStep(m)}
              B == {m \in Requests : AskedInStep(m)'}
  <2>1. A \subseteq B
    <3>. SUFFICES ASSUME NEW m \in Requests, AskedInStep(m), m.kind = "renew", Known(m.id)'
                  PROVE  m.seq <= Top(m.id)'
      BY DEF AskedInStep
    <3>1. m.id \in Reservations /\ m.seq \in Nat
      BY Constants DEF Requests
    <3>2. Known(m.id) /\ Top(m.id) <= Top(m.id)' /\ Top(m.id) \in Nat /\ Top(m.id)' \in Nat
      BY <1>1, <1>2, <3>1, Numbers, NumbersNext
    <3>. QED
      BY <3>1, <3>2 DEF AskedInStep
  <2>2. ASSUME NEW m, Sendable(m) PROVE m \in B
    <3>. SUFFICES ASSUME m.kind = "renew" PROVE m.seq <= Top(m.id)'
      BY <2>2 DEF Sendable, AskedInStep
    <3>1. m.id \in Reservations /\ m.seq = record'[m.id].pending
      BY <2>2 DEF Sendable, Requests
    <3>2. record'[m.id].pending \in Nat /\ record'[m.id].seq \in Nat
      BY <1>1, <3>1, NumbersNext
    <3>. QED
      BY <3>1, <3>2 DEF Top
  <2>3. toController \in Seq(A)
    BY DEF NumbersInStep
  <2>. HIDE DEF A, B
  <2>4. toController \in Seq(B)
    BY <2>1, <2>3, SeqMonotonic
  <2>5. ASSUME toController' = toController PROVE toController' \in Seq(B)
    BY <2>4, <2>5
  <2>6. ASSUME NEW m, Sendable(m), toController' = Append(toController, m)
        PROVE  toController' \in Seq(B)
    BY <2>2, <2>4, <2>6, AppendProperties
  <2>7. toController' \in Seq(B)
    BY <2>5, <2>6 DEF EdgeStep, Exchange
  <2>. QED
    BY <2>7 DEF B
<1>4. toEdge' \in Seq({m \in Answers : ToldInStep(m)'})
  <2>. DEFINE C == {m \in Answers : ToldInStep(m)}
              D == {m \in Answers : ToldInStep(m)'}
  <2>1. C = D
    BY <1>1 DEF ToldInStep, Grants
  <2>2. toEdge \in Seq(C)
    BY DEF NumbersInStep
  <2>. HIDE DEF C, D
  <2>3. toEdge' \in Seq(C)
    BY <2>2, HeadTailProperties DEF EdgeStep, Exchange
  <2>4. toEdge' \in Seq(D)
    BY <2>1, <2>3
  <2>. QED
    BY <2>4 DEF D
<1>. QED
  BY <1>2, <1>3, <1>4 DEF NumbersInStep

\* A step that leaves record and group of r alone, up to the end of the group.
LEMMA LeftAlone ==
    ASSUME NEW r \in Reservations, record'[r] = record[r],
           group'[r].live => group[r].live /\ group'[r].seq = group[r].seq,
           client'[r] = "new" => client[r] = "new"
    PROVE  Renumbers(r)
  BY DEF Renumbers, LeavesNumbers

\* RequestRelay makes the record of a new reservation.
LEMMA RequestNumbers ==
    ASSUME RelayInv, NEW r \in Reservations, RequestRelay(r)
    PROVE  Renumbers(r)
<1>1. TypeOK /\ client[r] = "new" /\ record[r].stage = "NONE" /\ group' = group
  BY Here DEF RequestRelay, OpInStep, trafficVars
<1>2. RecordAt(r, "REQUESTED", record[r].seq, record[r].pending, record[r].settlement)
  BY <1>1, StageEffect DEF RequestRelay, Stages
<1>3. ClientAt(r, "waiting")
  BY ClientEffect DEF RequestRelay, Clients
<1>. QED
  BY <1>1, <1>2, <1>3 DEF Renumbers, LeavesNumbers, RecordAt, ClientAt

\* RenewRelay writes the next number down, or asks for the pending one again.
LEMMA RenewNumbers ==
    ASSUME RelayInv, NEW r \in Reservations, RenewRelay(r)
    PROVE  Renumbers(r)
<1>1. TypeOK /\ client' = client /\ group' = group
  BY Here DEF RenewRelay, trafficVars
<1>2. CASE UNCHANGED record
  BY <1>1, <1>2, LeftAlone
<1>3. CASE /\ record[r].stage = "EXPOSED" /\ faults.renewals < MaxRenew
           /\ record' = [record EXCEPT ![r].stage = "RENEW_PENDING",
                                       ![r].pending = record[r].seq + 1]
  <2>. DEFINE p == record[r].seq + 1
  <2>1. p \in 0 .. MaxRenew
    <3>1. /\ record[r].seq \in 0 .. MaxRenew /\ record[r].seq <= faults.renewals
          /\ faults.renewals \in 0 .. MaxRenew /\ faults.renewals < MaxRenew
      BY <1>3, Here, Kept
    <3>. QED
      BY <3>1, Constants
  <2>2. record' = [record EXCEPT ![r].stage = "RENEW_PENDING", ![r].pending = p]
    BY <1>3
  <2>. HIDE DEF p
  <2>3. RecordAt(r, "RENEW_PENDING", record[r].seq, p, record[r].settlement)
    BY <1>1, <2>1, <2>2, RenewPendingEffect
  <2>4. AsksRenewal(r)
    BY <1>3, <2>3 DEF AsksRenewal, RecordAt, p
  <2>. QED
    BY <1>1, <2>4 DEF Renumbers
<1>. QED
  BY <1>2, <1>3 DEF RenewRelay

\* CloseRelaySession leaves the numbers of the record.
LEMMA CloseNumbers ==
    ASSUME RelayInv, NEW r \in Reservations, CloseRelaySession(r)
    PROVE  Renumbers(r)
<1>1. TypeOK /\ group' = group /\ client[r] # "new"
  BY Here DEF CloseRelaySession, trafficVars
<1>2. client'[r] # "new"
  <2>1. ClientAt(r, "gone") \/ ClientAt(r, "direct")
    BY ClientEffect DEF CloseRelaySession, Clients
  <2>. QED
    BY <2>1 DEF ClientAt
<1>3. CASE UNCHANGED record
  BY <1>1, <1>2, <1>3, LeftAlone
<1>4. CASE /\ record[r].stage = "HELD_UNEXPOSED"
           /\ \E at \in ObservedTimes : PutSettlement(r, Settlement("exact", 0, at))
  <2>1. PICK s \in Settlements :
              RecordAt(r, "SETTLEMENT_DURABLE", record[r].seq, record[r].pending, s)
    BY <1>4, SettledEffect, Constants
  <2>. QED
    BY <1>1, <1>2, <1>4, <2>1 DEF Renumbers, LeavesNumbers, RecordAt
<1>5. CASE /\ record[r].stage \in {"EXPOSED", "RENEW_PENDING", "CLOSING"}
           /\ Stage(r, "CLOSING")
  <2>1. RecordAt(r, "CLOSING", record[r].seq, record[r].pending, record[r].settlement)
    BY <1>1, <1>5, StageEffect DEF Stages
  <2>. QED
    BY <1>1, <1>2, <1>5, <2>1 DEF Renumbers, LeavesNumbers, RecordAt
<1>. QED
  BY <1>3, <1>4, <1>5 DEF CloseRelaySession

\* The replay of a record.
LEMMA ReplayNumbers ==
    ASSUME RelayInv, NEW r \in Reservations, ReplayRecord(r)
    PROVE  Renumbers(r)
<1>1. group' = group /\ client' = client
  BY DEF ReplayRecord, trafficVars
<1>2. CASE UNCHANGED record
  BY <1>1, <1>2, LeftAlone
<1>3. CASE /\ record[r].stage \in {"EXPOSED", "RENEW_PENDING"}
           /\ \E at \in ObservedTimes : PutSettlement(r, Settlement("recovery", 0, at))
  <2>1. PICK s \in Settlements :
              RecordAt(r, "SETTLEMENT_DURABLE", record[r].seq, record[r].pending, s)
    BY <1>3, SettledEffect, Constants
  <2>. QED
    BY <1>1, <1>3, <2>1 DEF Renumbers, LeavesNumbers, RecordAt
<1>. QED
  BY <1>2, <1>3 DEF ReplayRecord

\* An operation that returns leaves a client session that had begun.
LEMMA FinishClient ==
    ASSUME RelayInv, NEW r \in Reservations, NEW ok \in BOOLEAN, NEW again, Finish(r, ok, again)
    PROVE  client'[r] = "new" => client[r] = "new"
<1>1. client'[r] = IF op[r].kind = "request"
                   THEN IF ok THEN "granted" ELSE "refused" ELSE client[r]
  BY Here, FinishEffect
<1>. QED
  BY <1>1

\* A group is registered with the number of its record.
LEMMA RegisterNumbers ==
    ASSUME RelayInv, NEW r \in Reservations, Register(r)
    PROVE  Renumbers(r)
<1>1. TypeOK /\ record' = record /\ client' = client
  BY Here DEF Register
<1>2. CASE UNCHANGED group
  BY <1>1, <1>2, LeftAlone
<1>3. CASE group' = [group EXCEPT ![r] = [NoGroup EXCEPT !.live = TRUE, !.seq = record[r].seq]]
  <2>1. group'[r].seq = record[r].seq
    BY <1>1, <1>3, RegisterEffect
  <2>. QED
    BY <1>1, <2>1 DEF Renumbers, LeavesNumbers
<1>. QED
  BY <1>2, <1>3 DEF Register

\* MarkExposed leaves the numbers that the grant came with.
LEMMA MarkExposedNumbers ==
    ASSUME RelayInv, NEW r \in Reservations, MarkExposed(r)
    PROVE  Renumbers(r)
<1>1. TypeOK /\ record[r].stage = "HELD_UNEXPOSED" /\ group' = group
  BY Here DEF MarkExposed, OpInStep, trafficVars
<1>2. RecordAt(r, "EXPOSED", record[r].seq, record[r].pending, record[r].settlement)
  BY <1>1, StageEffect DEF MarkExposed, Stages
<1>3. client'[r] = "new" => client[r] = "new"
  BY FinishClient DEF MarkExposed
<1>. QED
  BY <1>1, <1>2, <1>3 DEF Renumbers, LeavesNumbers, RecordAt

\* The settlement of an unused reservation leaves its numbers.
LEMMA SettleUnexposedNumbers ==
    ASSUME RelayInv, NEW r \in Reservations, SettleUnexposed(r)
    PROVE  Renumbers(r)
<1>1. record[r].stage = "HELD_UNEXPOSED" /\ group' = group /\ client' = client
  BY Here DEF SettleUnexposed, OpInStep, trafficVars
<1>2. PICK s \in Settlements :
            RecordAt(r, "SETTLEMENT_DURABLE", record[r].seq, record[r].pending, s)
  BY SettledEffect, Constants DEF SettleUnexposed
<1>. QED
  BY <1>1, <1>2 DEF Renumbers, LeavesNumbers, RecordAt

\* The end of a session leaves the numbers, with or without its group.
LEMMA FinishClosingNumbers ==
    ASSUME RelayInv, NEW r \in Reservations, FinishClosing(r)
    PROVE  Renumbers(r)
<1>1. TypeOK /\ record[r].stage = "CLOSING" /\ client' = client
  BY Here DEF FinishClosing, OpInStep
<1>2. CASE /\ \E at \in ObservedTimes : PutSettlement(r, Settlement("recovery", 0, at))
           /\ UNCHANGED group
  <2>1. PICK s \in Settlements :
              RecordAt(r, "SETTLEMENT_DURABLE", record[r].seq, record[r].pending, s)
    BY <1>2, SettledEffect, Constants
  <2>. QED
    BY <1>1, <1>2, <2>1 DEF Renumbers, LeavesNumbers, RecordAt
<1>3. CASE group' = [group EXCEPT ![r].closing = TRUE] /\ UNCHANGED record
  <2>1. group'[r].live = group[r].live /\ group'[r].seq = group[r].seq
    BY <1>1, <1>3, ClosingEffect DEF GroupAt
  <2>. QED
    BY <1>1, <1>3, <2>1, LeftAlone
<1>. QED
  BY <1>2, <1>3 DEF FinishClosing

\* The final settlement leaves the numbers.
LEMMA DrainNumbers ==
    ASSUME RelayInv, NEW r \in Reservations, Drain(r)
    PROVE  Renumbers(r)
<1>1. TypeOK /\ record[r].stage = "CLOSING" /\ client' = client
  BY Here DEF Drain, OpInStep
<1>2. group[r].carried + group[r].counted <= Hold
  <2>1. group[r].live /\ moved[r] = group[r].carried + group[r].counted /\ moved[r] \in 0 .. Hold
    BY Here DEF Drain, GroupInStep
  <2>. QED
    BY <2>1
<1>3. /\ group'[r].live = group[r].live /\ group'[r].seq = group[r].seq
      /\ Aggregate(group[r]) = group[r].counted + group[r].carried
  BY <1>1, <1>2, DrainedEffect DEF Drain, GroupAt
<1>4. Aggregate(group[r]) \in 0 .. Hold
  BY <1>2, <1>3, Here, Constants
<1>5. PICK s \in Settlements :
            RecordAt(r, "SETTLEMENT_DURABLE", record[r].seq, record[r].pending, s)
  BY <1>4, SettledEffect DEF Drain
<1>. QED
  BY <1>1, <1>3, <1>5 DEF Renumbers, LeavesNumbers, RecordAt

\* The steps that forget the group.
LEMMA ForgetNumbers ==
    ASSUME RelayInv, NEW r \in Reservations, Revoke(r) \/ MarkExposedFails(r) \/ Deliver(r)
    PROVE  Renumbers(r)
<1>1. TypeOK /\ record' = record /\ group' = [group EXCEPT ![r] = NoGroup]
  BY Here DEF Revoke, MarkExposedFails, Deliver
<1>2. ~group'[r].live
  BY <1>1, ForgetEffect DEF GroupAt
<1>3. client'[r] = "new" => client[r] = "new"
  BY FinishClient DEF Revoke, MarkExposedFails, Deliver, Fail
<1>. QED
  BY <1>1, <1>2, <1>3, LeftAlone

\* The steps that only return.
LEMMA ReturnNumbers ==
    ASSUME RelayInv, NEW r \in Reservations, DrainFails(r) \/ Timeout(r)
    PROVE  Renumbers(r)
<1>1. record' = record /\ group' = group
  BY DEF DrainFails, Timeout, trafficVars
<1>2. client'[r] = "new" => client[r] = "new"
  BY FinishClient DEF DrainFails, Timeout, Fail
<1>. QED
  BY <1>1, <1>2, LeftAlone

\* A record is deleted.
LEMMA DeleteNumbers ==
    ASSUME RelayInv, NEW r \in Reservations, NEW ok \in BOOLEAN, NEW again,
           Delete(r), Finish(r, ok, again), record[r].stage # "NONE", group' = group
    PROVE  Renumbers(r)
<1>1. RecordAt(r, "NONE", 0, 0, NoRecord.settlement)
  BY Here, DeleteEffect
<1>2. client'[r] = "new" => client[r] = "new"
  BY FinishClient
<1>. QED
  BY <1>1, <1>2 DEF Renumbers, DeletesRecord, RecordAt

\* The terminal fact that came with an answer deletes the record.
LEMMA AckTerminalNumbers ==
    ASSUME RelayInv, NEW r \in Reservations, AckTerminal(r)
    PROVE  Renumbers(r)
<1>1. group' = group /\ record[r].stage # "NONE"
  BY Here DEF AckTerminal, trafficVars, OpInStep
<1>2. CASE Delete(r) /\ Finish(r, op[r].kind = "replay" /\ op[r].pc = "ack", FALSE)
  <2>. DEFINE ok == op[r].kind = "replay" /\ op[r].pc = "ack"
  <2>1. ok \in BOOLEAN /\ Finish(r, ok, FALSE)
    BY <1>2
  <2>. HIDE DEF ok
  <2>. QED
    BY <1>1, <1>2, <2>1, DeleteNumbers
<1>3. CASE Fail(r) /\ UNCHANGED record
  BY <1>1, <1>3, FinishClient, LeftAlone DEF Fail
<1>. QED
  BY <1>2, <1>3 DEF AckTerminal

\* The data plane.
LEMMA TrafficNumbers ==
    ASSUME RelayInv, NEW r \in Reservations, Traffic(r)
    PROVE  Renumbers(r)
<1>1. TypeOK /\ record' = record /\ client' = client
  BY Here DEF Traffic, Allocate, RelayByte, Deallocate
<1>2. group'[r].live = group[r].live /\ group'[r].seq = group[r].seq
  <2>1. CASE Allocate(r)
    BY <1>1, <2>1, OpenEffect DEF Allocate, GroupAt
  <2>2. CASE RelayByte(r)
    <3>1. group[r].carried < Hold
      BY <2>2, Here, Constants DEF RelayByte
    <3>. QED
      BY <1>1, <2>2, <3>1, ByteEffect DEF RelayByte, GroupAt
  <2>3. CASE Deallocate(r)
    <3>1. group[r].live /\ moved[r] = group[r].carried + group[r].counted /\ moved[r] \in 0 .. Hold
      BY <2>3, Here DEF Deallocate, GroupInStep
    <3>2. group[r].carried + group[r].counted <= Hold
      BY <3>1
    <3>. QED
      BY <1>1, <2>3, <3>2, DrainedEffect DEF Deallocate, GroupAt
  <2>. QED
    BY <2>1, <2>2, <2>3 DEF Traffic
<1>. QED
  BY <1>1, <1>2, LeftAlone

\* What the oldest answer may say.
LEMMA OldestTold ==
    ASSUME NumbersInStep, toEdge # << >>
    PROVE  Head(toEdge) \in Answers /\ ToldInStep(Head(toEdge))
<1>. DEFINE C == {m \in Answers : ToldInStep(m)}
<1>1. toEdge \in Seq(C)
  BY DEF NumbersInStep
<1>. HIDE DEF C
<1>2. Head(toEdge) \in C
  BY <1>1, HeadTailProperties
<1>. QED
  BY <1>2 DEF C

\* A grant is applied: the row had reached the number of the answer.
LEMMA GrantNumbers ==
    ASSUME RelayInv, NEW r \in Reservations, NEW m \in Answers, ToldInStep(m), m.id = r,
           m.kind \in {"reserve", "query"}, op[r].pc = m.kind, ApplyGrant(r, m.seq),
           UNCHANGED <<group, client>>
    PROVE  Renumbers(r)
<1>1. TypeOK /\ record[r].stage = "REQUESTED"
  BY Here DEF OpInStep
<1>2. m.seq \in 0 .. MaxRenew /\ m.seq <= row[r].seq
  BY DEF Answers, ToldInStep, Grants
<1>3. RecordAt(r, "HELD_UNEXPOSED", m.seq, record[r].pending, record[r].settlement)
  BY <1>1, <1>2, GrantEffect
<1>4. AppliesGrant(r)
  BY <1>1, <1>2, <1>3 DEF AppliesGrant, RecordAt
<1>. QED
  BY <1>4 DEF Renumbers

\* The answer to a reservation.
LEMMA ReserveAnswerNumbers ==
    ASSUME RelayInv, NEW r \in Reservations, NEW m \in Answers, ToldInStep(m), m.id = r,
           m.kind = "reserve", op[r].pc = m.kind, AcceptReserve(r, m), group' = group
    PROVE  Renumbers(r)
<1>1. record[r].stage = "REQUESTED"
  BY Here DEF OpInStep
<1>2. CASE /\ Delete(r)
           /\ \E consumed \in BOOLEAN : Finish(r, consumed /\ op[r].kind = "replay", FALSE)
  <2>1. PICK consumed \in BOOLEAN : Finish(r, consumed /\ op[r].kind = "replay", FALSE)
    BY <1>2
  <2>2. (consumed /\ op[r].kind = "replay") \in BOOLEAN
    OBVIOUS
  <2>. QED
    BY <1>1, <1>2, <2>1, <2>2, DeleteNumbers
<1>3. CASE ApplyGrant(r, m.seq) /\ UNCHANGED <<client, replay>>
  BY <1>3, GrantNumbers
<1>. QED
  BY <1>2, <1>3 DEF AcceptReserve

\* The answer to a query.
LEMMA QueryAnswerNumbers ==
    ASSUME RelayInv, NEW r \in Reservations, NEW m \in Answers, ToldInStep(m), m.id = r,
           m.kind = "query", op[r].pc = m.kind, AcceptQuery(r, m),
           UNCHANGED <<group, client>>
    PROVE  Renumbers(r)
<1>1. CASE UNCHANGED record
  BY <1>1, LeftAlone
<1>2. CASE ApplyGrant(r, m.seq)
  BY <1>2, GrantNumbers
<1>. QED
  BY <1>1, <1>2 DEF AcceptQuery

\* The answer to a renewal: what the journal applies is the pending number, and
\* the row has reached it.
LEMMA RenewAnswerNumbers ==
    ASSUME RelayInv, NEW r \in Reservations, NEW m \in Answers, ToldInStep(m), m.id = r,
           m.kind = "renew", op[r].pc = m.kind, AcceptRenew(r, m)
    PROVE  Renumbers(r)
<1>1. TypeOK /\ record[r].stage = "RENEW_PENDING" /\ m.seq \in 0 .. MaxRenew
  BY Here DEF OpInStep, Answers
<1>2. CASE Fail(r) /\ UNCHANGED <<record, group>>
  BY <1>2, FinishClient, LeftAlone DEF Fail
<1>3. CASE /\ group' = [group EXCEPT ![r].closing = group[r].live]
           /\ UNCHANGED <<record, client, replay>>
  <2>1. group'[r].live = group[r].live /\ group'[r].seq = group[r].seq
    BY <1>1, <1>3, Here, ClosingEffect DEF GroupAt
  <2>. QED
    BY <1>3, <2>1, LeftAlone
<1>4. ASSUME ~RenewMismatch(r, m), m.code \in {"APPLIED", "REPLAY"},
             record' = [record EXCEPT ![r].stage = "EXPOSED", ![r].seq = m.seq,
                                      ![r].pending = 0],
             NEW ok \in BOOLEAN, NEW again, Finish(r, ok, again),
             group'[r].live =>
                group[r].live /\ (group'[r].seq = group[r].seq \/ group'[r].seq = m.seq)
      PROVE  Renumbers(r)
  <2>1. RecordAt(r, "EXPOSED", m.seq, 0, record[r].settlement)
    BY <1>1, <1>4, RenewedEffect
  <2>2. m.seq = record[r].pending /\ m.seq <= row[r].seq
    BY <1>4 DEF RenewMismatch, ToldInStep, Grants
  <2>3. AppliesRenewal(r)
    BY <1>1, <2>1, <2>2 DEF AppliesRenewal, RecordAt
  <2>4. client'[r] = "new" => client[r] = "new"
    BY <1>4, FinishClient
  <2>. QED
    BY <1>4, <2>1, <2>3, <2>4 DEF Renumbers, RecordAt
<1>5. CASE /\ ~RenewMismatch(r, m) /\ m.code \in {"APPLIED", "REPLAY"}
           /\ record' = [record EXCEPT ![r].stage = "EXPOSED", ![r].seq = m.seq,
                                       ![r].pending = 0]
           /\ group' = [group EXCEPT ![r] = RenewGroup(@, m.seq)]
           /\ Finish(r, group' # group, FALSE)
  <2>1. group'[r].live = group[r].live /\ group'[r].seq \in {m.seq, group[r].seq}
    BY <1>1, <1>5, RenewGroupEffect DEF GroupAt
  <2>2. CASE group' = group
    <3>1. Finish(r, FALSE, FALSE)
      BY <1>5, <2>2
    <3>. QED
      BY <1>4, <1>5, <2>1, <3>1
  <2>3. CASE group' # group
    <3>1. Finish(r, TRUE, FALSE)
      BY <1>5, <2>3
    <3>. QED
      BY <1>4, <1>5, <2>1, <3>1
  <2>. QED
    BY <2>2, <2>3
<1>6. CASE /\ ~RenewMismatch(r, m) /\ m.code \in {"APPLIED", "REPLAY"}
           /\ record' = [record EXCEPT ![r].stage = "EXPOSED", ![r].seq = m.seq,
                                       ![r].pending = 0]
           /\ Fail(r) /\ UNCHANGED group
  <2>1. Finish(r, FALSE, op[r].kind = "close")
    BY <1>6 DEF Fail
  <2>. QED
    BY <1>4, <1>6, <2>1
<1>. QED
  BY <1>2, <1>3, <1>5, <1>6 DEF AcceptRenew

\* The answer to a settlement.
LEMMA AckNumbers ==
    ASSUME RelayInv, NEW r \in Reservations, NEW m \in Answers, op[r].pc = "settle",
           AcceptAck(r, m), group' = group
    PROVE  Renumbers(r)
<1>1. record[r].stage = "SETTLEMENT_DURABLE"
  BY Here DEF OpInStep
<1>2. CASE Delete(r) /\ Finish(r, op[r].kind # "request", FALSE)
  <2>. DEFINE ok == op[r].kind # "request"
  <2>1. ok \in BOOLEAN /\ Finish(r, ok, FALSE)
    BY <1>2
  <2>. HIDE DEF ok
  <2>. QED
    BY <1>1, <1>2, <2>1, DeleteNumbers
<1>3. CASE Fail(r) /\ UNCHANGED record
  BY <1>3, FinishClient, LeftAlone DEF Fail
<1>. QED
  BY <1>2, <1>3 DEF AcceptAck

\* Whichever answer arrives, the record of its reservation keeps in step.
LEMMA ReceiveNumbers ==
    ASSUME RelayInv, NumbersInStep, EdgeReceive, NEW r \in Reservations, r = Head(toEdge).id
    PROVE  Renumbers(r)
<1>1. PICK m : m = Head(toEdge)
  OBVIOUS
<1>2. m \in Answers /\ ToldInStep(m) /\ m.id = r
  BY <1>1, OldestTold DEF EdgeReceive
<1>3. \/ UNCHANGED <<record, group, client>>
      \/ op[r].pc = m.kind /\ m.kind = "reserve" /\ AcceptReserve(r, m) /\ group' = group
      \/ op[r].pc = m.kind /\ m.kind = "query" /\ AcceptQuery(r, m) /\ UNCHANGED <<group, client>>
      \/ op[r].pc = m.kind /\ m.kind = "renew" /\ AcceptRenew(r, m)
      \/ op[r].pc = m.kind /\ m.kind = "settle" /\ AcceptAck(r, m) /\ group' = group
  BY <1>1, <1>2 DEF EdgeReceive
<1>. QED
  BY <1>2, <1>3, LeftAlone, ReserveAnswerNumbers, QueryAnswerNumbers, RenewAnswerNumbers, AckNumbers

\* Steps that only end groups and client sessions, and lose what is in transit.
LEMMA GlobalNumbers ==
    ASSUME RelayInv, NumbersInStep, UNCHANGED <<row, record>>,
           \A s \in Reservations : group'[s] = group[s] \/ ~group'[s].live,
           \A s \in Reservations : client'[s] = "new" => client[s] = "new",
           toController' = toController \/ toController' = << >>,
           toEdge' = toEdge \/ toEdge' = << >>
    PROVE  NumbersInStep'
<1>1. ASSUME NEW s \in Reservations
      PROVE  RecordInStep(s)' /\ (Known(s)' => Known(s)) /\ Top(s)' = Top(s)
  <2>1. RecordInStep(s)
    BY DEF NumbersInStep
  <2>2. (Known(s)' => Known(s)) /\ Top(s)' = Top(s)
    BY DEF Known, Top
  <2>. QED
    BY <2>1, <2>2 DEF RecordInStep
<1>2. toController' \in Seq({m \in Requests : AskedInStep(m)'})
  <2>. DEFINE A == {m \in Requests : AskedInStep(m)}
              B == {m \in Requests : AskedInStep(m)'}
  <2>1. A \subseteq B
    <3>. SUFFICES ASSUME NEW m \in Requests, AskedInStep(m) PROVE AskedInStep(m)'
      OBVIOUS
    <3>1. m.id \in Reservations
      BY DEF Requests
    <3>2. (Known(m.id)' => Known(m.id)) /\ Top(m.id)' = Top(m.id)
      BY <1>1, <3>1
    <3>. QED
      BY <3>2 DEF AskedInStep
  <2>2. toController \in Seq(A)
    BY DEF NumbersInStep
  <2>. HIDE DEF A, B
  <2>3. toController \in Seq(B) /\ << >> \in Seq(B)
    BY <2>1, <2>2, SeqMonotonic
  <2>4. toController' \in Seq(B)
    BY <2>3
  <2>. QED
    BY <2>4 DEF B
<1>3. toEdge' \in Seq({m \in Answers : ToldInStep(m)'})
  <2>. DEFINE C == {m \in Answers : ToldInStep(m)}
              D == {m \in Answers : ToldInStep(m)'}
  <2>1. C = D
    BY DEF ToldInStep, Grants
  <2>2. toEdge \in Seq(C)
    BY DEF NumbersInStep
  <2>. HIDE DEF C, D
  <2>3. toEdge \in Seq(D) /\ << >> \in Seq(D)
    BY <2>1, <2>2
  <2>4. toEdge' \in Seq(D)
    BY <2>3
  <2>. QED
    BY <2>4 DEF D
<1>. QED
  BY <1>1, <1>2, <1>3 DEF NumbersInStep

\* The Controller changes at most the number of the row that a renewal is about,
\* to the number it was asked for, and answers with a number the row has reached.
Advances(m) ==
    /\ row' \in [Reservations -> Rows]
    /\ \A s \in Reservations :
          \/ row'[s].seq = row[s].seq
          \/ /\ s = m.id /\ m.kind = "renew"
             /\ row'[s].seq = m.seq /\ m.seq = row[s].seq + 1
    /\ toController' = Tail(toController)
    /\ \E a \in Answers :
          /\ toEdge' = Append(toEdge, a) /\ a.id = m.id
          /\ Grants(a) => a.seq <= row'[m.id].seq

\* A recovery leaves the numbers of the rows.
LEMMA RecoveredNumbers ==
    ASSUME RelayInv, NEW S
    PROVE  /\ DOMAIN RowsRecovered(S) = Reservations
           /\ \A s \in Reservations :
                 RowsRecovered(S)[s] \in Rows /\ RowsRecovered(S)[s].seq = row[s].seq
<1>1. row \in [Reservations -> Rows]
  BY DEF RelayInv, TypeOK
<1>2. Settlement("recovery", 0, 0) \in Settlements
  BY SettlementType, Constants
<1>3. ASSUME NEW s \in Reservations
      PROVE  /\ RowsRecovered(S)[s] \in Rows
             /\ RowsRecovered(S)[s].seq = row[s].seq
  <2>1. row[s] \in Rows
    BY <1>1
  <2>2. CASE s \in S
    <3>1. RowsRecovered(S)[s] =
            [row[s] EXCEPT !.state = "settled", !.fact = Settlement("recovery", 0, 0)]
      BY <2>2 DEF RowsRecovered
    <3>. QED
      BY <1>2, <2>1, <3>1 DEF Rows
  <2>3. CASE s \notin S
    BY <2>1, <2>3 DEF RowsRecovered
  <2>. QED
    BY <2>2, <2>3
<1>. QED
  BY <1>3 DEF RowsRecovered

\* An answer, with at most one row advanced.
LEMMA PlainAdvance ==
    ASSUME RelayInv, NEW m \in Requests, NEW q \in 0 .. MaxRenew,
           NEW c \in {"APPLIED", "REPLAY", "TERMINAL", "REJECTED", "CONFLICT"},
           NEW x \in Settlements, Reply(m, c, q, x),
           row' \in [Reservations -> Rows],
           \A s \in Reservations :
              \/ row'[s].seq = row[s].seq
              \/ /\ s = m.id /\ m.kind = "renew"
                 /\ row'[s].seq = m.seq /\ m.seq = row[s].seq + 1,
           m.kind # "renew" \/ c \in {"APPLIED", "REPLAY"} => q <= row'[m.id].seq
    PROVE  Advances(m)
<1>. DEFINE a == Answer(m.kind, m.id, c, q, x)
<1>1. /\ a \in Answers /\ a.seq = q /\ a.id = m.id /\ a.kind = m.kind /\ a.code = c
  BY DEF Answer, Answers, Requests
<1>2. toController' = Tail(toController) /\ toEdge' = Append(toEdge, a)
  BY DEF Reply
<1>. HIDE DEF a
<1>3. Grants(a) => a.seq <= row'[m.id].seq
  BY <1>1 DEF Grants
<1>. QED
  BY <1>1, <1>2, <1>3 DEF Advances

\* The lazy recovery of one row.
LEMMA LazyAdvance ==
    ASSUME RelayInv, NEW m \in Requests, NEW q \in 0 .. MaxRenew,
           Recover(m.id), ReplyWithRow(m, q),
           m.kind # "renew" \/ RowsRecovered(Lazily(m.id))[m.id].state # "settled"
              => q <= row[m.id].seq
    PROVE  Advances(m)
<1>1. m.id \in Reservations
  BY DEF Requests
<1>2. row' = RowsRecovered(Lazily(m.id))
  BY DEF Recover
<1>3. row' \in [Reservations -> Rows] /\ \A s \in Reservations : row'[s].seq = row[s].seq
  <2>1. DOMAIN row' = Reservations
    BY <1>2, RecoveredNumbers
  <2>2. row' = [s \in Reservations |-> row'[s]]
    BY <1>2 DEF RowsRecovered
  <2>3. \A s \in Reservations : row'[s] \in Rows /\ row'[s].seq = row[s].seq
    BY <1>2, RecoveredNumbers
  <2>. QED
    BY <2>1, <2>2, <2>3
<1>4. row'[m.id].fact \in Settlements /\ row'[m.id].seq = row[m.id].seq
  BY <1>1, <1>3 DEF Rows
<1>5. CASE row'[m.id].state = "settled"
  <2>1. Reply(m, "TERMINAL", q, row'[m.id].fact)
    BY <1>2, <1>5 DEF ReplyWithRow
  <2>2. m.kind # "renew" => q <= row'[m.id].seq
    BY <1>4
  <2>. QED
    BY <1>3, <1>4, <2>1, <2>2, PlainAdvance
<1>6. CASE row'[m.id].state # "settled"
  <2>1. Reply(m, "REPLAY", q, NoSettlement)
    BY <1>2, <1>6 DEF ReplyWithRow
  <2>2. q <= row'[m.id].seq
    BY <1>2, <1>4, <1>6
  <2>. QED
    BY <1>3, <2>1, <2>2, EmptyValues, PlainAdvance
<1>. QED
  BY <1>5, <1>6

\* reserveRelayAt.
LEMMA ReserveAdvances ==
    ASSUME RelayInv, NEW m \in Requests, m.kind = "reserve", ReserveRelayAt(m)
    PROVE  Advances(m)
<1>1. m.id \in Reservations /\ row \in [Reservations -> Rows]
  BY DEF Requests, RelayInv, TypeOK
<1>2. row[m.id].seq \in 0 .. MaxRenew /\ 0 \in 0 .. MaxRenew /\ row[m.id].seq \in Nat
  BY <1>1, RowNumbers
<1>3. CASE Recover(m.id) /\ ReplyWithRow(m, row[m.id].seq)
  BY <1>2, <1>3, LazyAdvance
<1>4. CASE Reply(m, "REJECTED", 0, NoSettlement) /\ UNCHANGED <<row, usage>>
  BY <1>1, <1>2, <1>4, EmptyValues, PlainAdvance
<1>5. CASE /\ row' = [RowsRecovered({r \in Reservations : Due(r)}) EXCEPT ![m.id].state = "held"]
           /\ Reply(m, "APPLIED", 0, NoSettlement)
  <2>. DEFINE f == RowsRecovered({r \in Reservations : Due(r)})
              x == [f[m.id] EXCEPT !.state = "held"]
  <2>1. f \in [Reservations -> Rows] /\ \A s \in Reservations : f[s].seq = row[s].seq
    <3>1. \A s \in Reservations : f[s] \in Rows /\ f[s].seq = row[s].seq
      BY RecoveredNumbers
    <3>2. f = [s \in Reservations |-> f[s]]
      BY DEF RowsRecovered
    <3>. HIDE DEF f
    <3>. QED
      BY <3>1, <3>2
  <2>2. row' = [f EXCEPT ![m.id] = x]
    BY <1>1, <1>5, <2>1
  <2>. HIDE DEF f
  <2>3. x \in Rows /\ x.seq = row[m.id].seq
    BY <1>1, <2>1 DEF Rows
  <2>. HIDE DEF x
  <2>4. row' \in [Reservations -> Rows] /\ \A s \in Reservations : row'[s].seq = row[s].seq
    BY <1>1, <2>1, <2>2, <2>3
  <2>5. 0 <= row'[m.id].seq
    BY <1>1, <1>2, <2>4
  <2>. QED
    BY <1>2, <1>5, <2>4, <2>5, EmptyValues, PlainAdvance
<1>. QED
  BY <1>3, <1>4, <1>5 DEF ReserveRelayAt

\* renewRelayAt: a row takes the next number only.
LEMMA RenewAdvances ==
    ASSUME RelayInv, NEW m \in Requests, m.kind = "renew", RenewRelayAt(m)
    PROVE  Advances(m)
<1>1. m.id \in Reservations /\ m.seq \in 0 .. MaxRenew /\ row \in [Reservations -> Rows]
  BY DEF Requests, RelayInv, TypeOK
<1>2. row[m.id].seq \in Nat
  BY <1>1, RowNumbers
<1>3. CASE /\ row[m.id].state = "settled" \/ Due(m.id)
              \/ (row[m.id].state = "held" /\ m.seq = row[m.id].seq)
           /\ Recover(m.id) /\ ReplyWithRow(m, m.seq)
  <2>1. RowsRecovered(Lazily(m.id))[m.id].state # "settled" => m.seq <= row[m.id].seq
    <3>1. CASE Due(m.id)
      BY <1>1, <3>1 DEF RowsRecovered, Lazily, Rows
    <3>2. CASE ~Due(m.id)
      <4>1. RowsRecovered(Lazily(m.id))[m.id] = row[m.id]
        BY <1>1, <3>2 DEF RowsRecovered, Lazily
      <4>. QED
        BY <1>2, <1>3, <3>2, <4>1
    <3>. QED
      BY <3>1, <3>2
  <2>. QED
    BY <1>1, <1>3, <2>1, LazyAdvance
<1>4. CASE Reply(m, "REJECTED", m.seq, NoSettlement) /\ UNCHANGED <<row, usage>>
  BY <1>1, <1>4, EmptyValues, PlainAdvance
<1>5. CASE /\ m.seq = row[m.id].seq + 1
           /\ row' = [row EXCEPT ![m.id].seq = m.seq]
           /\ Reply(m, "APPLIED", m.seq, NoSettlement)
  <2>. DEFINE x == [row[m.id] EXCEPT !.seq = m.seq]
  <2>1. x \in Rows /\ x.seq = m.seq
    BY <1>1 DEF Rows
  <2>2. row' = [row EXCEPT ![m.id] = x]
    BY <1>1, <1>5
  <2>. HIDE DEF x
  <2>3. /\ row' \in [Reservations -> Rows] /\ row'[m.id].seq = m.seq
        /\ \A s \in Reservations \ {m.id} : row'[s] = row[s]
    BY <1>1, <2>1, <2>2
  <2>4. m.seq <= row'[m.id].seq
    BY <1>1, <2>3
  <2>. QED
    BY <1>1, <1>5, <2>3, <2>4, EmptyValues, PlainAdvance
<1>. QED
  BY <1>3, <1>4, <1>5 DEF RenewRelayAt

\* settleRelayAt.
LEMMA SettleAdvances ==
    ASSUME RelayInv, NEW m \in Requests, m.kind = "settle", SettleRelayAt(m)
    PROVE  Advances(m)
<1>1. /\ m.id \in Reservations /\ m.settlement \in Settlements
      /\ row \in [Reservations -> Rows] /\ row[m.id] \in Rows
  BY DEF Requests, RelayInv, TypeOK
<1>2. /\ row[m.id].seq \in Nat /\ 0 \in 0 .. MaxRenew /\ row[m.id].fact \in Settlements
  BY <1>1, RowNumbers
<1>3. CASE Reply(m, "REJECTED", 0, m.settlement) /\ UNCHANGED <<row, usage>>
  BY <1>1, <1>2, <1>3, PlainAdvance
<1>4. CASE /\ Reply(m, TerminalCode(row[m.id].fact, m.settlement), 0, row[m.id].fact)
           /\ UNCHANGED <<row, usage>>
  <2>1. TerminalCode(row[m.id].fact, m.settlement) \in {"REPLAY", "CONFLICT", "TERMINAL"}
    BY DEF TerminalCode
  <2>. QED
    BY <1>1, <1>2, <1>4, <2>1, PlainAdvance
<1>5. CASE /\ row' = [row EXCEPT ![m.id].state = "settled",
                          ![m.id].fact = [m.settlement EXCEPT !.at = Micro(m.settlement.at)]]
           /\ Reply(m, "APPLIED", 0, m.settlement)
  <2>. DEFINE t == [m.settlement EXCEPT !.at = Micro(m.settlement.at)]
              x == [row[m.id] EXCEPT !.state = "settled", !.fact = t]
  <2>1. t \in Settlements
    <3>1. m.settlement.at \in Nat
      BY <1>1 DEF Settlements
    <3>2. Micro(m.settlement.at) \in Nat
      BY <3>1, MicroType
    <3>. QED
      BY <1>1, <3>2 DEF Settlements
  <2>2. row' = [row EXCEPT ![m.id] = x]
    BY <1>1, <1>5
  <2>. HIDE DEF t
  <2>3. x \in Rows /\ x.seq = row[m.id].seq
    BY <1>1, <2>1 DEF Rows
  <2>. HIDE DEF x
  <2>4. row' \in [Reservations -> Rows] /\ \A s \in Reservations : row'[s].seq = row[s].seq
    BY <1>1, <2>2, <2>3
  <2>5. 0 <= row'[m.id].seq
    BY <1>1, <1>2, <2>4
  <2>. QED
    BY <1>1, <1>2, <1>5, <2>4, <2>5, PlainAdvance
<1>. QED
  BY <1>3, <1>4, <1>5 DEF SettleRelayAt

\* queryRelayAt.
LEMMA QueryAdvances ==
    ASSUME RelayInv, NEW m \in Requests, m.kind = "query", QueryRelayAt(m)
    PROVE  Advances(m)
<1>1. m.id \in Reservations /\ row \in [Reservations -> Rows]
  BY DEF Requests, RelayInv, TypeOK
<1>2. row[m.id].seq \in 0 .. MaxRenew /\ 0 \in 0 .. MaxRenew /\ row[m.id].seq \in Nat
  BY <1>1, RowNumbers
<1>3. CASE Reply(m, "REJECTED", 0, NoSettlement) /\ UNCHANGED <<row, usage>>
  BY <1>1, <1>2, <1>3, EmptyValues, PlainAdvance
<1>4. CASE Recover(m.id) /\ ReplyWithRow(m, row[m.id].seq)
  BY <1>2, <1>4, LazyAdvance
<1>. QED
  BY <1>3, <1>4 DEF QueryRelayAt

\* A transaction keeps every number in step: a row advances only to a number
\* that the journal has given out.
LEMMA ControllerNumbers ==
    ASSUME RelayInv, NumbersInStep, ControllerStep
    PROVE  NumbersInStep'
<1>1. toController # << >> /\ UNCHANGED <<record, group, client>>
  BY DEF ControllerStep, trafficVars
<1>2. PICK m : m = Head(toController)
  OBVIOUS
<1>. DEFINE A == {x \in Requests : AskedInStep(x)}
            B == {x \in Requests : AskedInStep(x)'}
            C == {x \in Answers : ToldInStep(x)}
            D == {x \in Answers : ToldInStep(x)'}
<1>3. toController \in Seq(A) /\ toEdge \in Seq(C)
  BY DEF NumbersInStep
<1>4. m \in Requests /\ AskedInStep(m)
  <2>. HIDE DEF A
  <2>1. m \in A
    BY <1>1, <1>2, <1>3, HeadTailProperties
  <2>. QED
    BY <2>1 DEF A
<1>5. Advances(m)
  <2>1. \/ m.kind = "reserve" /\ ReserveRelayAt(m)
        \/ m.kind = "renew" /\ RenewRelayAt(m)
        \/ m.kind = "settle" /\ SettleRelayAt(m)
        \/ m.kind = "query" /\ QueryRelayAt(m)
    BY <1>2 DEF ControllerStep
  <2>. QED
    BY <1>4, <2>1, ReserveAdvances, RenewAdvances, SettleAdvances, QueryAdvances
<1>6. ASSUME NEW s \in Reservations
      PROVE  /\ row[s].seq \in Nat /\ row'[s].seq \in Nat /\ row[s].seq <= row'[s].seq
             /\ Known(s) => row'[s].seq <= Top(s)
  <2>1. row[s].seq \in Nat /\ record[s].seq \in Nat /\ Top(s) \in Nat
    BY Numbers DEF RelayInv
  <2>2. RecordInStep(s)
    BY DEF NumbersInStep
  <2>3. CASE row'[s].seq = row[s].seq
    BY <2>1, <2>2, <2>3 DEF RecordInStep
  <2>4. CASE s = m.id /\ m.kind = "renew" /\ row'[s].seq = m.seq /\ m.seq = row[s].seq + 1
    BY <1>4, <2>1, <2>4 DEF AskedInStep
  <2>. QED
    BY <1>5, <2>3, <2>4 DEF Advances
<1>7. ASSUME NEW s \in Reservations
      PROVE  RecordInStep(s)'
  <2>1. RecordInStep(s) /\ record[s].seq \in Nat
    BY Numbers DEF NumbersInStep, RelayInv
  <2>2. (Known(s)' <=> Known(s)) /\ Top(s)' = Top(s)
    BY <1>1 DEF Known, Top
  <2>3. Known(s) => record[s].seq <= row'[s].seq /\ row'[s].seq <= Top(s)
    <3>1. Known(s) => record[s].seq <= row[s].seq
      BY <2>1 DEF RecordInStep
    <3>. QED
      BY <1>6, <2>1, <3>1
  <2>. QED
    BY <1>1, <2>1, <2>2, <2>3 DEF RecordInStep
<1>8. A = B
  BY <1>1 DEF AskedInStep, Known, Top
<1>9. C \subseteq D
  <2>. SUFFICES ASSUME NEW x \in Answers, ToldInStep(x), Grants(x)
                PROVE  x.seq <= row'[x.id].seq
    BY DEF ToldInStep, Grants
  <2>1. x.id \in Reservations /\ x.seq \in Nat /\ x.seq <= row[x.id].seq
    BY Constants DEF Answers, ToldInStep
  <2>. QED
    BY <1>6, <2>1
<1>10. PICK a \in Answers : toEdge' = Append(toEdge, a) /\ ToldInStep(a)'
  BY <1>5 DEF Advances, ToldInStep, Grants
<1>11. a \in D /\ toController' = Tail(toController)
  BY <1>5, <1>10 DEF Advances
<1>. HIDE DEF A, B, C, D
<1>12. toController' \in Seq(B)
  BY <1>1, <1>3, <1>8, <1>11, HeadTailProperties
<1>13. toEdge \in Seq(D)
  BY <1>3, <1>9, SeqMonotonic
<1>14. toEdge' \in Seq(D)
  BY <1>10, <1>11, <1>13, AppendProperties
<1>. QED
  BY <1>7, <1>12, <1>14 DEF NumbersInStep, B, D

\* Every number is zero at the beginning.
LEMMA InitNumbers ==
    ASSUME Init
    PROVE  NumbersInStep
<1>1. ASSUME NEW r \in Reservations PROVE RecordInStep(r)
  <2>1. row[r] = NoRow /\ record[r] = NoRecord /\ group[r] = NoGroup
    BY DEF Init
  <2>2. Top(r) = 0
    BY <2>1, EmptyValues DEF Top
  <2>. QED
    BY <2>1, <2>2, EmptyValues DEF RecordInStep
<1>2. toController = << >> /\ toEdge = << >>
  BY DEF Init
<1>. QED
  BY <1>1, <1>2 DEF NumbersInStep

\* Every step keeps the numbers in step.
LEMMA NextNumbers ==
    ASSUME RelayInv, RelayInv', NumbersInStep, [Next]_vars
    PROVE  NumbersInStep'
<1>1. CASE ControllerStep
  BY <1>1, ControllerNumbers
<1>2. CASE EdgeReceive
  BY <1>2, EdgeReceiveStep, ReceiveNumbers, NumbersKept
<1>3. CASE LinkBreak
  <2>1. /\ UNCHANGED <<row, record, group>> /\ toController' = << >> /\ toEdge' = << >>
    BY <1>3 DEF LinkBreak, controllerVars, trafficVars
  <2>2. \A s \in Reservations : client'[s] = "new" => client[s] = "new"
    BY <1>3 DEF LinkBreak
  <2>. QED
    BY <2>1, <2>2, GlobalNumbers
<1>4. CASE Crash
  <2>1. /\ UNCHANGED <<row, record>> /\ toController' = << >> /\ toEdge' = << >>
    BY <1>4 DEF Crash, controllerVars
  <2>2. \A s \in Reservations : (client'[s] = "new" => client[s] = "new") /\ ~group'[s].live
    BY <1>4, EmptyValues DEF Crash
  <2>. QED
    BY <2>1, <2>2, GlobalNumbers
<1>5. CASE ReplayStart \/ Reconnect \/ Lapse \/ (\E r \in Reservations : Expire(r))
  <2>1. UNCHANGED <<row, record, group, client, toController, toEdge>>
    BY <1>5 DEF ReplayStart, Reconnect, Lapse, Expire, controllerVars, trafficVars
  <2>. QED
    BY <2>1, GlobalNumbers
<1>6. ASSUME NEW r \in Reservations,
             OperationStep(r) \/ ReplayRecord(r) \/ ClientStep(r) \/ Traffic(r) \/ Mishap(r)
      PROVE  NumbersInStep'
  <2>1. CASE OperationStep(r)
    <3>1. EdgeStep(r)
      BY <2>1, RegisterStep, MarkExposedStep, SettleUnexposedStep, FinishClosingStep,
         DrainStep, RevokeStep, DeliverStep, AckTerminalStep DEF OperationStep
    <3>2. Renumbers(r)
      BY <2>1, RegisterNumbers, MarkExposedNumbers, SettleUnexposedNumbers,
         FinishClosingNumbers, DrainNumbers, ForgetNumbers, AckTerminalNumbers
         DEF OperationStep
    <3>. QED
      BY <3>1, <3>2, NumbersKept
  <2>2. CASE ReplayRecord(r)
    BY <2>2, ReplayRecordStep, ReplayNumbers, NumbersKept
  <2>3. CASE ClientStep(r)
    BY <2>3, RequestRelayStep, RenewRelayStep, CloseRelaySessionStep, RequestNumbers,
       RenewNumbers, CloseNumbers, NumbersKept DEF ClientStep
  <2>4. CASE Traffic(r)
    <3>1. EdgeStep(r)
      BY <2>4, AllocateStep, RelayByteStep, DeallocateStep DEF Traffic
    <3>. QED
      BY <2>4, <3>1, TrafficNumbers, NumbersKept
  <2>5. CASE Mishap(r)
    BY <2>5, TimeoutStep, MarkExposedFailsStep, DrainFailsStep, ForgetNumbers, ReturnNumbers,
       NumbersKept DEF Mishap
  <2>. QED
    BY <1>6, <2>1, <2>2, <2>3, <2>4, <2>5
<1>7. CASE UNCHANGED vars
  <2>1. UNCHANGED <<row, record, group, client, toController, toEdge>>
    BY <1>7 DEF vars
  <2>. QED
    BY <2>1, GlobalNumbers
<1>. QED
  BY <1>1, <1>2, <1>3, <1>4, <1>5, <1>6, <1>7 DEF Next

\* A renewal advances row, journal and group one at a time and in this order,
\* however often requests and answers are lost, repeated or late: the row is at
\* the number the journal has applied or at the one it has written down as
\* pending, which can be asked for again, and the group is never ahead.
THEOREM RenewalsInStep == Spec => []RenewalInStep
<1>1. Init => NumbersInStep
  BY InitNumbers
<1>2. RelayInv /\ RelayInv' /\ NumbersInStep /\ [Next]_vars => NumbersInStep'
  BY NextNumbers
<1>3. RelayInv /\ NumbersInStep => RenewalInStep
  <2>. SUFFICES ASSUME RelayInv, NumbersInStep, NEW r \in Reservations
                PROVE  /\ group[r].live => group[r].seq <= record[r].seq
                       /\ record[r].stage # "NONE" /\ row[r].state = "held" =>
                             /\ row[r].seq \in {record[r].seq, record[r].pending}
                             /\ record[r].pending \in {0, record[r].seq + 1}
    BY DEF RenewalInStep
  <2>1. RecordInStep(r)
    BY DEF NumbersInStep
  <2>2. /\ record[r].seq \in Nat /\ record[r].pending \in Nat /\ row[r].seq \in Nat
    BY Numbers DEF RelayInv
  <2>3. record[r].stage # "NONE" =>
           row[r].seq = record[r].seq \/ row[r].seq = record[r].pending
    BY <2>1, <2>2 DEF RecordInStep, Known, Top
  <2>. QED
    BY <2>1, <2>3 DEF RecordInStep
<1>. QED
  BY <1>1, <1>2, <1>3, RelayInvariant, PTL DEF Spec

-----------------------------------------------------------------------------
(* Holds and the journal.                                                  *)

\* The Controller has settled r.
Settled(r) == row[r].state = "settled"

\* The Controller does not know r, and no request that would make it known is
\* under way.
Unasked(r) ==
    /\ row[r].state = "none"
    /\ toController \in Seq({m \in Requests : m.kind = "reserve" => m.id # r})

\* The answers that tell of a settled row.
Ends(m) == m.code = "TERMINAL" \/ (m.kind = "settle" /\ m.code \notin {"REJECTED", "CONFLICT"})

\* A record that is gone, or that an operation is about to delete, belongs to a
\* row that is settled or never will be held, and no answer says so too early.
HoldsInStep ==
    /\ \A r \in Reservations :
          /\ record[r].stage = "NONE" => Settled(r) \/ Unasked(r)
          /\ op[r].pc \in {"ack", "revoke", "ack_renew"} => Settled(r)
    /\ toEdge \in Seq({m \in Answers : Ends(m) => Settled(m.id)})

\* The answer r waits for is a rejection.
Rejected(r) ==
    /\ toEdge # << >> /\ op[r].pc = "reserve"
    /\ Head(toEdge).id = r /\ Head(toEdge).kind = "reserve" /\ Head(toEdge).code = "REJECTED"

\* A rejection that is taken is still true: the Controller does not hold r, and
\* no other copy of the request can make it do so.
RejectionsTrue == \A r \in Reservations : Rejected(r) => Settled(r) \/ Unasked(r)

\* What a step of the Edge may do to r: it keeps the record, or deletes it when
\* the row is settled or unknown; it asks only about r, and waits for the answer.
KeepsHold(r) ==
    /\ \/ record'[r].stage # "NONE" \/ Settled(r)
       \/ (record[r].stage = "NONE" \/ Unasked(r)) /\ toController' = toController
    /\ op'[r].pc \in {"ack", "revoke", "ack_renew"} => Settled(r)
    /\ \/ toController' = toController
       \/ \E m \in Requests : /\ m.id = r /\ m.kind = op'[r].pc
                              /\ toController' = Append(toController, m)

\* A step of the Edge keeps holds and journal in step.
LEMMA HoldsKept ==
    ASSUME RelayInv, HoldsInStep, NEW r \in Reservations, EdgeStep(r), KeepsHold(r)
    PROVE  HoldsInStep'
<1>1. row' = row
  BY DEF EdgeStep, controllerVars
<1>2. ASSUME NEW s \in Reservations
      PROVE  /\ record'[s].stage = "NONE" => Settled(s)' \/ Unasked(s)'
             /\ op'[s].pc \in {"ack", "revoke", "ack_renew"} => Settled(s)'
  <2>1. CASE s = r
    <3>1. (record[s].stage = "NONE" => Settled(s) \/ Unasked(s))
      BY DEF HoldsInStep
    <3>. QED
      BY <1>1, <2>1, <3>1 DEF KeepsHold, Settled, Unasked
  <2>2. CASE s # r
    <3>1. record'[s] = record[s] /\ op'[s] = op[s]
      BY <2>2 DEF EdgeStep, Frame
    <3>2. Settled(s)' = Settled(s)
      BY <1>1 DEF Settled
    <3>3. Unasked(s) => Unasked(s)'
      <4>. DEFINE A == {m \in Requests : m.kind = "reserve" => m.id # s}
      <4>. SUFFICES ASSUME toController \in Seq(A) PROVE toController' \in Seq(A)
        BY <1>1 DEF Unasked
      <4>1. ASSUME NEW m \in Requests, m.id = r, toController' = Append(toController, m)
            PROVE  toController' \in Seq(A)
        <5>1. m \in A
          BY <2>2, <4>1
        <5>. HIDE DEF A
        <5>. QED
          BY <4>1, <5>1, AppendProperties
      <4>. QED
        BY <4>1 DEF KeepsHold
    <3>. QED
      BY <3>1, <3>2, <3>3 DEF HoldsInStep
  <2>. QED
    BY <2>1, <2>2
<1>3. toEdge' \in Seq({m \in Answers : Ends(m) => Settled(m.id)'})
  <2>. DEFINE C == {m \in Answers : Ends(m) => Settled(m.id)}
              D == {m \in Answers : Ends(m) => Settled(m.id)'}
  <2>1. C = D
    BY <1>1 DEF Settled
  <2>2. toEdge \in Seq(C)
    BY DEF HoldsInStep
  <2>. HIDE DEF C, D
  <2>3. toEdge' \in Seq(C)
    BY <2>2, HeadTailProperties DEF EdgeStep, Exchange
  <2>. QED
    BY <2>1, <2>3 DEF D
<1>. QED
  BY <1>2, <1>3 DEF HoldsInStep, Ends

\* A step that sends a request and waits has a record.
LEMMA AskedHold ==
    ASSUME NEW r \in Reservations, EdgeStep(r), NEW k \in Calls, op'[r].pc = k,
           NEW q \in 0 .. MaxRenew, NEW x \in Settlements,
           Send(Message(k, r, q, x))
    PROVE  KeepsHold(r)
<1>. DEFINE m == Message(k, r, q, x)
<1>1. m \in Requests /\ m.id = r /\ m.kind = k
  BY DEF Message, Requests
<1>2. toController' = Append(toController, m)
  BY DEF Send
<1>. HIDE DEF m
<1>3. record'[r].stage # "NONE"
  BY DEF EdgeStep, Local, OpInStep, Calls
<1>. QED
  BY <1>1, <1>2, <1>3 DEF KeepsHold, Calls

\* An operation that goes on has a record.
LEMMA WorkingHold ==
    ASSUME NEW r \in Reservations, EdgeStep(r), toController' = toController,
           op'[r].pc \in {"register", "expose", "unexposed", "closing", "drain", "deliver"}
    PROVE  KeepsHold(r)
<1>1. record'[r].stage # "NONE"
  BY DEF EdgeStep, Local, OpInStep
<1>. QED
  BY <1>1 DEF KeepsHold

\* An operation that returns and keeps its record.
LEMMA ReturnHold ==
    ASSUME NEW r \in Reservations, toController' = toController,
           record'[r].stage = "NONE" => record[r].stage = "NONE", op'[r].pc = "idle"
    PROVE  KeepsHold(r)
  BY DEF KeepsHold

\* A step that leaves the operation and its record alone.
LEMMA AloneHold ==
    ASSUME HoldsInStep, NEW r \in Reservations, UNCHANGED <<record, op, toController>>
    PROVE  KeepsHold(r)
  BY DEF KeepsHold, HoldsInStep

\* A step at which the row is known to be settled.
LEMMA ToldHold ==
    ASSUME NEW r \in Reservations, toController' = toController, Settled(r)
    PROVE  KeepsHold(r)
  BY DEF KeepsHold

\* An operation that deletes its record: the row is settled or unknown.
LEMMA DeletedHold ==
    ASSUME NEW r \in Reservations, toController' = toController, Settled(r) \/ Unasked(r),
           op'[r].pc = "idle"
    PROVE  KeepsHold(r)
  BY DEF KeepsHold

\* An operation that returns is idle.
LEMMA FinishIdle ==
    ASSUME RelayInv, NEW r \in Reservations, NEW ok, NEW again, Finish(r, ok, again)
    PROVE  op'[r].pc = "idle"
<1>1. op \in [Reservations -> Operations]
  BY Kept
<1>. QED
  BY <1>1, EmptyValues DEF Finish

\* The steps of a client.
LEMMA ClientHold ==
    ASSUME RelayInv, HoldsInStep, NEW r \in Reservations, EdgeStep(r), ClientStep(r)
    PROVE  KeepsHold(r)
<1>1. TypeOK /\ NoSettlement \in Settlements /\ 0 \in 0 .. MaxRenew
  BY Here, EmptyValues, Constants
<1>2. CASE RequestRelay(r)
  <2>1. OpAt(r, "request", "reserve")
    BY <1>1, <1>2, StartEffect DEF RequestRelay, Pcs, Calls
  <2>. QED
    BY <1>1, <1>2, <2>1, AskedHold DEF RequestRelay, OpAt, Calls
<1>3. CASE RenewRelay(r)
  <2>1. OpAt(r, "renew", "renew")
    BY <1>1, <1>3, StartEffect DEF RenewRelay, Pcs, Calls
  <2>2. record[r].pending \in 0 .. MaxRenew /\ record[r].seq \in 0 .. MaxRenew
        /\ record[r].seq <= faults.renewals /\ faults.renewals \in 0 .. MaxRenew
    BY Here, Kept
  <2>3. faults.renewals < MaxRenew => record[r].seq + 1 \in 0 .. MaxRenew
    BY <2>2, Constants
  <2>4. PICK q \in 0 .. MaxRenew : Send(Message("renew", r, q, NoSettlement))
    BY <1>3, <2>2, <2>3 DEF RenewRelay
  <2>. QED
    BY <1>1, <2>1, <2>4, AskedHold DEF OpAt, Calls
<1>4. CASE CloseRelaySession(r)
  <2>1. toController' = toController
    BY <1>4 DEF CloseRelaySession
  <2>2. CASE UNCHANGED <<record, op>>
    BY <2>1, <2>2, AloneHold
  <2>3. CASE Start(r, "close", "deliver")
    <3>1. OpAt(r, "close", "deliver")
      BY <1>1, <2>3, StartEffect DEF Pcs
    <3>. QED
      BY <2>1, <3>1, WorkingHold DEF OpAt
  <2>4. CASE Start(r, "close", "closing")
    <3>1. OpAt(r, "close", "closing")
      BY <1>1, <2>4, StartEffect DEF Pcs
    <3>. QED
      BY <2>1, <3>1, WorkingHold DEF OpAt
  <2>. QED
    BY <1>4, <2>2, <2>3, <2>4 DEF CloseRelaySession
<1>. QED
  BY <1>2, <1>3, <1>4 DEF ClientStep

\* The replay of a record.
LEMMA ReplayHold ==
    ASSUME RelayInv, HoldsInStep, NEW r \in Reservations, EdgeStep(r), ReplayRecord(r)
    PROVE  KeepsHold(r)
<1>1. /\ TypeOK /\ NoSettlement \in Settlements /\ 0 \in 0 .. MaxRenew
      /\ record[r].pending \in 0 .. MaxRenew
  BY Here, EmptyValues, Constants
<1>2. CASE UNCHANGED <<record, op, toController>>
  BY <1>2, AloneHold
<1>3. CASE Start(r, "replay", "query") /\ Send(Message("query", r, 0, NoSettlement))
  <2>1. OpAt(r, "replay", "query")
    BY <1>1, <1>3, StartEffect DEF Pcs, Calls
  <2>. QED
    BY <1>1, <1>3, <2>1, AskedHold DEF OpAt, Calls
<1>4. CASE /\ Start(r, "replay", "renew")
           /\ Send(Message("renew", r, record[r].pending, NoSettlement))
  <2>1. OpAt(r, "replay", "renew")
    BY <1>1, <1>4, StartEffect DEF Pcs, Calls
  <2>. QED
    BY <1>1, <1>4, <2>1, AskedHold DEF OpAt, Calls
<1>5. ASSUME NEW p \in {"unexposed", "deliver", "closing"}, Start(r, "replay", p),
             toController' = toController
      PROVE  KeepsHold(r)
  <2>1. OpAt(r, "replay", p)
    BY <1>1, <1>5, StartEffect DEF Pcs
  <2>. QED
    BY <1>5, <2>1, WorkingHold DEF OpAt
<1>. QED
  BY <1>2, <1>3, <1>4, <1>5 DEF ReplayRecord

\* The steps of an operation.
LEMMA OperationHold ==
    ASSUME RelayInv, HoldsInStep, NEW r \in Reservations, EdgeStep(r),
           OperationStep(r) \/ Mishap(r)
    PROVE  KeepsHold(r)
<1>1. /\ TypeOK /\ 0 \in 0 .. MaxRenew /\ record[r].settlement \in Settlements
  BY Here, Constants
<1>2. ASSUME NEW p \in {"expose", "unexposed", "drain", "deliver"}, Goto(r, p),
             toController' = toController
      PROVE  KeepsHold(r)
  <2>1. OpAt(r, op[r].kind, p)
    BY <1>1, <1>2, GotoEffect DEF Pcs
  <2>. QED
    BY <1>2, <2>1, WorkingHold DEF OpAt
<1>3. ASSUME NEW ok, NEW again, Finish(r, ok, again), UNCHANGED <<record, toController>>
      PROVE  KeepsHold(r)
  <2>1. op'[r].pc = "idle"
    BY <1>3, FinishIdle
  <2>. QED
    BY <1>3, <2>1, ReturnHold
<1>4. CASE Register(r) \/ MarkExposedFails(r) \/ SettleUnexposed(r) \/ FinishClosing(r) \/ Drain(r)
  BY <1>2, <1>4 DEF Register, MarkExposedFails, SettleUnexposed, FinishClosing, Drain
<1>5. CASE MarkExposed(r)
  <2>1. op'[r].pc = "idle" /\ toController' = toController
    BY <1>5, FinishIdle DEF MarkExposed
  <2>2. RecordAt(r, "EXPOSED", record[r].seq, record[r].pending, record[r].settlement)
    BY <1>1, <1>5, StageEffect DEF MarkExposed, Stages
  <2>. QED
    BY <2>1, <2>2, ReturnHold DEF RecordAt
<1>6. CASE Timeout(r) \/ DrainFails(r)
  BY <1>3, <1>6 DEF Timeout, DrainFails, Fail
<1>7. CASE Revoke(r)
  <2>1. Settled(r) /\ toController' = toController
    BY <1>7 DEF Revoke, HoldsInStep
  <2>. QED
    BY <2>1, ToldHold
<1>8. CASE AckTerminal(r)
  <2>1. Settled(r) /\ toController' = toController
    BY <1>8 DEF AckTerminal, HoldsInStep
  <2>. QED
    BY <2>1, ToldHold
<1>9. CASE Deliver(r)
  <2>1. CASE Fail(r) /\ UNCHANGED toController
    BY <1>3, <1>9, <2>1 DEF Fail, Deliver
  <2>2. CASE Send(Message("settle", r, 0, record[r].settlement)) /\ Goto(r, "settle")
    <3>1. OpAt(r, op[r].kind, "settle")
      BY <1>1, <2>2, GotoEffect DEF Pcs, Calls
    <3>. QED
      BY <1>1, <2>2, <3>1, AskedHold DEF OpAt, Calls
  <2>. QED
    BY <1>9, <2>1, <2>2 DEF Deliver
<1>. QED
  BY <1>4, <1>5, <1>6, <1>7, <1>8, <1>9 DEF OperationStep, Mishap

\* What the oldest answer tells of its row.
LEMMA OldestEnds ==
    ASSUME HoldsInStep, toEdge # << >>
    PROVE  /\ Head(toEdge) \in Answers
           /\ Ends(Head(toEdge)) => Settled(Head(toEdge).id)
<1>. DEFINE C == {m \in Answers : Ends(m) => Settled(m.id)}
<1>1. toEdge \in Seq(C)
  BY DEF HoldsInStep
<1>. HIDE DEF C
<1>2. Head(toEdge) \in C
  BY <1>1, HeadTailProperties
<1>. QED
  BY <1>2 DEF C

\* Whichever answer arrives, a record is deleted only with a settled or unknown
\* row.
LEMMA ReceiveHold ==
    ASSUME RelayInv, HoldsInStep, RejectionsTrue, EdgeReceive,
           NEW r \in Reservations, r = Head(toEdge).id, EdgeStep(r)
    PROVE  KeepsHold(r)
<1>1. PICK m : m = Head(toEdge)
  OBVIOUS
<1>2. m \in Answers /\ m.id = r /\ (Ends(m) => Settled(r)) /\ toEdge # << >>
  BY <1>1, OldestEnds DEF EdgeReceive
<1>3. /\ TypeOK /\ NoSettlement \in Settlements /\ 0 \in 0 .. MaxRenew
      /\ m.seq \in 0 .. MaxRenew /\ m.fact \in Settlements
  BY <1>2, Here, EmptyValues, Constants DEF Answers
<1>4. ASSUME NEW p \in {"register", "unexposed"}, Goto(r, p), toController' = toController
      PROVE  KeepsHold(r)
  <2>1. OpAt(r, op[r].kind, p)
    BY <1>3, <1>4, GotoEffect DEF Pcs
  <2>. QED
    BY <1>4, <2>1, WorkingHold DEF OpAt
<1>5. ASSUME Fail(r), UNCHANGED <<record, toController>>
      PROVE  KeepsHold(r)
  <2>1. op'[r].pc = "idle"
    BY <1>5, FinishIdle DEF Fail
  <2>. QED
    BY <1>5, <2>1, ReturnHold
<1>6. CASE UNCHANGED <<record, op, toController>>
  BY <1>6, AloneHold
<1>7. CASE /\ op[r].pc = m.kind /\ m.kind = "reserve"
           /\ AcceptReserve(r, m) /\ toController' = toController
  <2>1. CASE /\ m.code = "REJECTED" /\ Delete(r)
             /\ \E consumed \in BOOLEAN : Finish(r, consumed /\ op[r].kind = "replay", FALSE)
    <3>1. Settled(r) \/ Unasked(r)
      BY <1>1, <1>2, <1>7, <2>1 DEF RejectionsTrue, Rejected
    <3>2. op'[r].pc = "idle"
      BY <2>1, FinishIdle
    <3>. QED
      BY <1>7, <3>1, <3>2, DeletedHold
  <2>2. CASE m.code = "TERMINAL"
    BY <1>2, <1>7, <2>2, ToldHold DEF Ends
  <2>3. CASE Goto(r, IF op[r].kind = "request" THEN "register" ELSE "unexposed")
    <3>1. Goto(r, "register") \/ Goto(r, "unexposed")
      BY <2>3
    <3>. QED
      BY <1>4, <1>7, <3>1
  <2>. QED
    BY <1>7, <2>1, <2>2, <2>3 DEF AcceptReserve
<1>8. CASE op[r].pc = m.kind /\ m.kind = "query" /\ AcceptQuery(r, m)
  <2>1. CASE Send(Message("reserve", r, 0, NoSettlement)) /\ Goto(r, "reserve")
    <3>1. OpAt(r, op[r].kind, "reserve")
      BY <1>3, <2>1, GotoEffect DEF Pcs, Calls
    <3>. QED
      BY <1>3, <2>1, <3>1, AskedHold DEF OpAt, Calls
  <2>2. CASE m.code = "TERMINAL" /\ UNCHANGED toController
    BY <1>2, <2>2, ToldHold DEF Ends
  <2>3. CASE Goto(r, "unexposed") /\ UNCHANGED toController
    BY <1>4, <2>3
  <2>. QED
    BY <1>8, <2>1, <2>2, <2>3 DEF AcceptQuery
<1>9. CASE /\ op[r].pc = m.kind /\ m.kind = "renew"
           /\ AcceptRenew(r, m) /\ toController' = toController
  <2>1. CASE Fail(r) /\ UNCHANGED record
    BY <1>5, <1>9, <2>1
  <2>2. CASE m.code = "TERMINAL"
    BY <1>2, <1>9, <2>2, ToldHold DEF Ends
  <2>3. ASSUME record' = [record EXCEPT ![r].stage = "EXPOSED", ![r].seq = m.seq,
                                        ![r].pending = 0],
               NEW ok, NEW again, Finish(r, ok, again)
        PROVE  KeepsHold(r)
    <3>1. RecordAt(r, "EXPOSED", m.seq, 0, record[r].settlement)
      BY <1>3, <2>3, RenewedEffect
    <3>2. op'[r].pc = "idle"
      BY <2>3, FinishIdle
    <3>. QED
      BY <1>9, <3>1, <3>2, ReturnHold DEF RecordAt
  <2>. QED
    BY <1>9, <2>1, <2>2, <2>3 DEF AcceptRenew, Fail
<1>10. CASE /\ op[r].pc = m.kind /\ m.kind = "settle"
            /\ AcceptAck(r, m) /\ toController' = toController
  <2>1. CASE m.code \notin {"REJECTED", "CONFLICT"}
    BY <1>2, <1>10, <2>1, ToldHold DEF Ends
  <2>2. CASE m.code \in {"REJECTED", "CONFLICT"}
    BY <1>5, <1>10, <2>2 DEF AcceptAck
  <2>. QED
    BY <2>1, <2>2
<1>. QED
  BY <1>1, <1>2, <1>6, <1>7, <1>8, <1>9, <1>10 DEF EdgeReceive

\* Steps that leave rows and records alone, stop operations and lose what is in
\* transit.
LEMMA GlobalHolds ==
    ASSUME HoldsInStep, UNCHANGED <<row, record>>,
           \A s \in Reservations : op'[s].pc \in {op[s].pc, "idle"},
           toController' = toController \/ toController' = << >>,
           toEdge' = toEdge \/ toEdge' = << >>
    PROVE  HoldsInStep'
<1>1. ASSUME NEW s \in Reservations
      PROVE  /\ record'[s].stage = "NONE" => Settled(s)' \/ Unasked(s)'
             /\ op'[s].pc \in {"ack", "revoke", "ack_renew"} => Settled(s)'
  <2>1. Settled(s) => Settled(s)'
    BY DEF Settled
  <2>2. Unasked(s) => Unasked(s)'
    <3>. DEFINE A == {m \in Requests : m.kind = "reserve" => m.id # s}
    <3>. SUFFICES ASSUME toController \in Seq(A) PROVE toController' \in Seq(A)
      BY DEF Unasked
    <3>. HIDE DEF A
    <3>1. << >> \in Seq(A)
      OBVIOUS
    <3>. QED
      BY <3>1
  <2>. QED
    BY <2>1, <2>2 DEF HoldsInStep
<1>2. toEdge' \in Seq({m \in Answers : Ends(m) => Settled(m.id)'})
  <2>. DEFINE C == {m \in Answers : Ends(m) => Settled(m.id)}
              D == {m \in Answers : Ends(m) => Settled(m.id)'}
  <2>1. C = D
    BY DEF Settled
  <2>2. toEdge \in Seq(C)
    BY DEF HoldsInStep
  <2>. HIDE DEF C, D
  <2>3. toEdge \in Seq(D) /\ << >> \in Seq(D)
    BY <2>1, <2>2
  <2>4. toEdge' \in Seq(D)
    BY <2>3
  <2>. QED
    BY <2>4 DEF D
<1>. QED
  BY <1>1, <1>2 DEF HoldsInStep, Ends

\* What a transaction about m may do to the rows: a settled row stays settled,
\* and only a request makes an unknown row known.
RowsDecided(m) ==
    \A s \in Reservations :
        /\ row[s].state = "settled" => row'[s].state = "settled"
        /\ row[s].state = "none" => row'[s].state = "none" \/ (s = m.id /\ m.kind = "reserve")

\* The answer tells of a settled row only when it is settled, and of a rejection
\* only when it is not held.
Truthful(kind, code, state) ==
    /\ code = "TERMINAL" \/ (kind = "settle" /\ code \notin {"REJECTED", "CONFLICT"})
          => state = "settled"
    /\ kind = "reserve" /\ code = "REJECTED" => state # "held"
Decides(m) ==
    /\ RowsDecided(m)
    /\ toController' = Tail(toController)
    /\ \E a \in Answers :
          /\ toEdge' = Append(toEdge, a) /\ a.id = m.id /\ a.kind = m.kind
          /\ Truthful(a.kind, a.code, row'[m.id].state)

\* A recovery settles held rows and leaves the others.
LEMMA RecoveredStates ==
    ASSUME RelayInv, NEW S, NEW s \in Reservations
    PROVE  /\ s \in S => RowsRecovered(S)[s].state = "settled"
           /\ s \notin S => RowsRecovered(S)[s].state = row[s].state
<1>1. row[s] \in Rows
  BY DEF RelayInv, TypeOK
<1>2. s \in S => RowsRecovered(S)[s] =
            [row[s] EXCEPT !.state = "settled", !.fact = Settlement("recovery", 0, 0)]
  BY DEF RowsRecovered
<1>3. s \notin S => RowsRecovered(S)[s] = row[s]
  BY DEF RowsRecovered
<1>. QED
  BY <1>1, <1>2, <1>3 DEF Rows

\* An answer, with the rows as they should be.
LEMMA PlainDecision ==
    ASSUME NEW m \in Requests, NEW q \in 0 .. MaxRenew,
           NEW c \in {"APPLIED", "REPLAY", "TERMINAL", "REJECTED", "CONFLICT"},
           NEW x \in Settlements, Reply(m, c, q, x), RowsDecided(m),
           Truthful(m.kind, c, row'[m.id].state)
    PROVE  Decides(m)
<1>. DEFINE a == Answer(m.kind, m.id, c, q, x)
<1>1. /\ a \in Answers /\ a.id = m.id /\ a.kind = m.kind /\ a.code = c
  BY DEF Answer, Answers, Requests
<1>2. toController' = Tail(toController) /\ toEdge' = Append(toEdge, a)
  BY DEF Reply
<1>. HIDE DEF a
<1>. QED
  BY <1>1, <1>2 DEF Decides

\* The lazy recovery of one row, with the answer that tells its state.
LEMMA LazyDecision ==
    ASSUME RelayInv, NEW m \in Requests, m.kind \in {"reserve", "renew", "query"},
           NEW q \in 0 .. MaxRenew, Recover(m.id), ReplyWithRow(m, q)
    PROVE  Decides(m)
<1>1. m.id \in Reservations /\ row' = RowsRecovered(Lazily(m.id))
  BY DEF Requests, Recover
<1>2. RowsDecided(m)
  BY <1>1, RecoveredStates DEF Lazily, Due, RowsDecided
<1>3. row'[m.id].fact \in Settlements
  <2>1. row'[m.id] \in Rows
    BY <1>1, RecoveredNumbers
  <2>. QED
    BY <2>1 DEF Rows
<1>4. CASE row'[m.id].state = "settled"
  <2>1. Reply(m, "TERMINAL", q, row'[m.id].fact)
    BY <1>1, <1>4 DEF ReplyWithRow
  <2>2. Truthful(m.kind, "TERMINAL", row'[m.id].state)
    BY <1>4 DEF Truthful
  <2>. QED
    BY <1>2, <1>3, <2>1, <2>2, PlainDecision
<1>5. CASE row'[m.id].state # "settled"
  <2>1. Reply(m, "REPLAY", q, NoSettlement)
    BY <1>1, <1>5 DEF ReplyWithRow
  <2>2. Truthful(m.kind, "REPLAY", row'[m.id].state)
    BY DEF Truthful
  <2>. QED
    BY <1>2, <2>1, <2>2, EmptyValues, PlainDecision
<1>. QED
  BY <1>4, <1>5

\* An answer alone.
LEMMA QuietDecision ==
    ASSUME NEW m \in Requests, NEW q \in 0 .. MaxRenew,
           NEW c \in {"APPLIED", "REPLAY", "TERMINAL", "REJECTED", "CONFLICT"},
           NEW x \in Settlements, Reply(m, c, q, x), row' = row,
           Truthful(m.kind, c, row[m.id].state)
    PROVE  Decides(m)
<1>1. RowsDecided(m)
  BY DEF RowsDecided
<1>. QED
  BY <1>1, PlainDecision

\* reserveRelayAt.
LEMMA ReserveDecides ==
    ASSUME RelayInv, NEW m \in Requests, m.kind = "reserve", ReserveRelayAt(m)
    PROVE  Decides(m)
<1>1. m.id \in Reservations /\ row \in [Reservations -> Rows]
  BY DEF Requests, RelayInv, TypeOK
<1>2. row[m.id].seq \in 0 .. MaxRenew /\ 0 \in 0 .. MaxRenew
  BY <1>1, RowNumbers
<1>3. CASE Recover(m.id) /\ ReplyWithRow(m, row[m.id].seq)
  BY <1>2, <1>3, LazyDecision
<1>4. CASE /\ row[m.id].state = "none"
           /\ Reply(m, "REJECTED", 0, NoSettlement) /\ UNCHANGED <<row, usage>>
  <2>1. Truthful(m.kind, "REJECTED", row[m.id].state)
    BY <1>4 DEF Truthful
  <2>. QED
    BY <1>2, <1>4, <2>1, EmptyValues, QuietDecision
<1>5. CASE /\ row[m.id].state = "none"
           /\ row' = [RowsRecovered({r \in Reservations : Due(r)}) EXCEPT ![m.id].state = "held"]
           /\ Reply(m, "APPLIED", 0, NoSettlement)
  <2>. DEFINE S == {r \in Reservations : Due(r)}
              f == RowsRecovered(S)
  <2>1. \A s \in Reservations :
           /\ row[s].state = "settled" => f[s].state = "settled"
           /\ row[s].state = "none" => f[s].state = "none"
    BY RecoveredStates DEF Due
  <2>2. \A s \in Reservations \ {m.id} : row'[s] = f[s]
    BY <1>5 DEF RowsRecovered
  <2>. HIDE DEF f
  <2>3. RowsDecided(m)
    BY <1>5, <2>1, <2>2 DEF RowsDecided
  <2>4. Truthful(m.kind, "APPLIED", row'[m.id].state)
    BY DEF Truthful
  <2>. QED
    BY <1>2, <1>5, <2>3, <2>4, EmptyValues, PlainDecision
<1>. QED
  BY <1>3, <1>4, <1>5 DEF ReserveRelayAt

\* renewRelayAt.
LEMMA RenewDecides ==
    ASSUME RelayInv, NEW m \in Requests, m.kind = "renew", RenewRelayAt(m)
    PROVE  Decides(m)
<1>1. m.id \in Reservations /\ m.seq \in 0 .. MaxRenew /\ row \in [Reservations -> Rows]
  BY DEF Requests, RelayInv, TypeOK
<1>2. CASE Recover(m.id) /\ ReplyWithRow(m, m.seq)
  BY <1>1, <1>2, LazyDecision
<1>3. CASE Reply(m, "REJECTED", m.seq, NoSettlement) /\ UNCHANGED <<row, usage>>
  <2>1. Truthful(m.kind, "REJECTED", row[m.id].state)
    BY DEF Truthful
  <2>. QED
    BY <1>1, <1>3, <2>1, EmptyValues, QuietDecision
<1>4. CASE row' = [row EXCEPT ![m.id].seq = m.seq] /\ Reply(m, "APPLIED", m.seq, NoSettlement)
  <2>1. RowsDecided(m)
    BY <1>1, <1>4 DEF RowsDecided, Rows
  <2>2. Truthful(m.kind, "APPLIED", row'[m.id].state)
    BY DEF Truthful
  <2>. QED
    BY <1>1, <1>4, <2>1, <2>2, EmptyValues, PlainDecision
<1>. QED
  BY <1>2, <1>3, <1>4 DEF RenewRelayAt

\* settleRelayAt.
LEMMA SettleDecides ==
    ASSUME RelayInv, NEW m \in Requests, m.kind = "settle", SettleRelayAt(m)
    PROVE  Decides(m)
<1>1. /\ m.id \in Reservations /\ m.settlement \in Settlements
      /\ row \in [Reservations -> Rows] /\ row[m.id] \in Rows
  BY DEF Requests, RelayInv, TypeOK
<1>2. 0 \in 0 .. MaxRenew /\ row[m.id].fact \in Settlements
  BY <1>1, RowNumbers
<1>3. CASE Reply(m, "REJECTED", 0, m.settlement) /\ UNCHANGED <<row, usage>>
  <2>1. Truthful(m.kind, "REJECTED", row[m.id].state)
    BY DEF Truthful
  <2>. QED
    BY <1>1, <1>2, <1>3, <2>1, QuietDecision
<1>4. CASE /\ row[m.id].state = "settled"
           /\ Reply(m, TerminalCode(row[m.id].fact, m.settlement), 0, row[m.id].fact)
           /\ UNCHANGED <<row, usage>>
  <2>. DEFINE c == TerminalCode(row[m.id].fact, m.settlement)
  <2>1. c \in {"REPLAY", "CONFLICT", "TERMINAL"}
    BY DEF TerminalCode
  <2>. HIDE DEF c
  <2>2. Truthful(m.kind, c, row[m.id].state)
    BY <1>4 DEF Truthful
  <2>. QED
    BY <1>1, <1>2, <1>4, <2>1, <2>2, QuietDecision DEF c
<1>5. CASE /\ row[m.id].state = "held"
           /\ row' = [row EXCEPT ![m.id].state = "settled",
                          ![m.id].fact = [m.settlement EXCEPT !.at = Micro(m.settlement.at)]]
           /\ Reply(m, "APPLIED", 0, m.settlement)
  <2>1. /\ row'[m.id].state = "settled"
        /\ \A s \in Reservations \ {m.id} : row'[s] = row[s]
    BY <1>1, <1>5 DEF Rows
  <2>2. RowsDecided(m)
    BY <1>5, <2>1 DEF RowsDecided
  <2>3. Truthful(m.kind, "APPLIED", row'[m.id].state)
    BY <2>1 DEF Truthful
  <2>. QED
    BY <1>1, <1>2, <1>5, <2>2, <2>3, PlainDecision
<1>. QED
  BY <1>3, <1>4, <1>5 DEF SettleRelayAt

\* queryRelayAt.
LEMMA QueryDecides ==
    ASSUME RelayInv, NEW m \in Requests, m.kind = "query", QueryRelayAt(m)
    PROVE  Decides(m)
<1>1. m.id \in Reservations
  BY DEF Requests
<1>2. row[m.id].seq \in 0 .. MaxRenew /\ 0 \in 0 .. MaxRenew
  BY <1>1, RowNumbers
<1>3. CASE Reply(m, "REJECTED", 0, NoSettlement) /\ UNCHANGED <<row, usage>>
  <2>1. Truthful(m.kind, "REJECTED", row[m.id].state)
    BY DEF Truthful
  <2>. QED
    BY <1>2, <1>3, <2>1, EmptyValues, QuietDecision
<1>4. CASE Recover(m.id) /\ ReplyWithRow(m, row[m.id].seq)
  BY <1>2, <1>4, LazyDecision
<1>. QED
  BY <1>3, <1>4 DEF QueryRelayAt

\* A transaction of the Controller.
LEMMA ControllerDecides ==
    ASSUME RelayInv, ControllerStep
    PROVE  Decides(Head(toController))
<1>1. PICK m : m = Head(toController)
  OBVIOUS
<1>2. m \in Requests
  BY <1>1, OldestRequest DEF ControllerStep
<1>3. \/ m.kind = "reserve" /\ ReserveRelayAt(m)
      \/ m.kind = "renew" /\ RenewRelayAt(m)
      \/ m.kind = "settle" /\ SettleRelayAt(m)
      \/ m.kind = "query" /\ QueryRelayAt(m)
  BY <1>1 DEF ControllerStep
<1>4. Decides(m)
  BY <1>2, <1>3, ReserveDecides, RenewDecides, SettleDecides, QueryDecides
<1>. QED
  BY <1>1, <1>4

\* A transaction keeps holds and journal in step.
LEMMA ControllerHolds ==
    ASSUME RelayInv, HoldsInStep, ControllerStep
    PROVE  HoldsInStep'
<1>1. toController # << >> /\ UNCHANGED <<record, op>>
  BY DEF ControllerStep
<1>2. PICK m : m = Head(toController)
  OBVIOUS
<1>3. Decides(m)
  BY <1>2, ControllerDecides
<1>4. ASSUME NEW s \in Reservations
      PROVE  Settled(s) => Settled(s)'
  BY <1>3 DEF Decides, RowsDecided, Settled
<1>5. ASSUME NEW s \in Reservations, Unasked(s)
      PROVE  Unasked(s)'
  <2>. DEFINE A == {x \in Requests : x.kind = "reserve" => x.id # s}
  <2>1. toController \in Seq(A) /\ row[s].state = "none"
    BY <1>5 DEF Unasked
  <2>2. m \in A /\ Tail(toController) \in Seq(A)
    <3>. HIDE DEF A
    <3>. QED
      BY <1>1, <1>2, <2>1, HeadTailProperties
  <2>3. row'[s].state = "none" /\ toController' = Tail(toController)
    BY <1>3, <2>1, <2>2 DEF Decides, RowsDecided
  <2>. QED
    BY <2>2, <2>3 DEF Unasked
<1>6. ASSUME NEW s \in Reservations
      PROVE  /\ record'[s].stage = "NONE" => Settled(s)' \/ Unasked(s)'
             /\ op'[s].pc \in {"ack", "revoke", "ack_renew"} => Settled(s)'
  BY <1>1, <1>4, <1>5 DEF HoldsInStep
<1>7. toEdge' \in Seq({x \in Answers : Ends(x) => Settled(x.id)'})
  <2>. DEFINE C == {x \in Answers : Ends(x) => Settled(x.id)}
              D == {x \in Answers : Ends(x) => Settled(x.id)'}
  <2>1. C \subseteq D
    <3>. SUFFICES ASSUME NEW x \in Answers, Settled(x.id) PROVE Settled(x.id)'
      OBVIOUS
    <3>1. x.id \in Reservations
      BY DEF Answers
    <3>. QED
      BY <1>4, <3>1
  <2>2. toEdge \in Seq(C)
    BY DEF HoldsInStep
  <2>3. PICK a \in D : toEdge' = Append(toEdge, a)
    BY <1>3 DEF Decides, Truthful, Ends, Settled
  <2>. HIDE DEF C, D
  <2>4. toEdge \in Seq(D)
    BY <2>1, <2>2, SeqMonotonic
  <2>5. toEdge' \in Seq(D)
    BY <2>3, <2>4, AppendProperties
  <2>. QED
    BY <2>5 DEF D
<1>. QED
  BY <1>6, <1>7 DEF HoldsInStep, Ends

\* At the beginning nothing is held and nothing asked.
LEMMA InitHolding ==
    ASSUME Init
    PROVE  HoldsInStep
<1>1. toController = << >> /\ toEdge = << >>
  BY DEF Init
<1>2. ASSUME NEW r \in Reservations PROVE Unasked(r) /\ op[r].pc = "idle"
  <2>1. row[r] = NoRow /\ op[r] = Idle
    BY DEF Init
  <2>. QED
    BY <1>1, <2>1, EmptyValues DEF Unasked
<1>. QED
  BY <1>1, <1>2 DEF HoldsInStep

\* Every step keeps holds and journal in step, as long as rejections are true.
LEMMA NextHolds ==
    ASSUME RelayInv, HoldsInStep, RejectionsTrue, [Next]_vars
    PROVE  HoldsInStep'
<1>1. CASE ControllerStep
  BY <1>1, ControllerHolds
<1>2. CASE EdgeReceive
  BY <1>2, EdgeReceiveStep, ReceiveHold, HoldsKept
<1>3. CASE LinkBreak
  <2>1. UNCHANGED <<row, record>> /\ toController' = << >> /\ toEdge' = << >>
    BY <1>3 DEF LinkBreak, controllerVars
  <2>2. \A s \in Reservations : op'[s].pc \in {op[s].pc, "idle"}
    <3>. SUFFICES ASSUME NEW s \in Reservations PROVE op'[s].pc \in {op[s].pc, "idle"}
      OBVIOUS
    <3>1. op[s] \in Operations
      BY Kept
    <3>2. op'[s] = IF Waiting(s) THEN Idle ELSE [op[s] EXCEPT !.fresh = FALSE]
      BY <1>3 DEF LinkBreak
    <3>. QED
      BY <3>1, <3>2, EmptyValues DEF Operations
  <2>. QED
    BY <2>1, <2>2, GlobalHolds
<1>4. CASE Crash
  <2>1. UNCHANGED <<row, record>> /\ toController' = << >> /\ toEdge' = << >>
    BY <1>4 DEF Crash, controllerVars
  <2>2. \A s \in Reservations : op'[s].pc = "idle"
    BY <1>4, EmptyValues DEF Crash
  <2>. QED
    BY <2>1, <2>2, GlobalHolds
<1>5. CASE \/ ReplayStart \/ Reconnect \/ Lapse \/ (\E r \in Reservations : Expire(r))
           \/ UNCHANGED vars
  <2>1. UNCHANGED <<row, record, op, toController, toEdge>>
    BY <1>5 DEF ReplayStart, Reconnect, Lapse, Expire, controllerVars, vars
  <2>. QED
    BY <2>1, GlobalHolds
<1>6. ASSUME NEW r \in Reservations,
             OperationStep(r) \/ ReplayRecord(r) \/ ClientStep(r) \/ Traffic(r) \/ Mishap(r)
      PROVE  HoldsInStep'
  <2>1. EdgeStep(r)
    <3>1. CASE OperationStep(r)
      BY <3>1, RegisterStep, MarkExposedStep, SettleUnexposedStep, FinishClosingStep,
         DrainStep, RevokeStep, DeliverStep, AckTerminalStep DEF OperationStep
    <3>2. CASE ReplayRecord(r)
      BY <3>2, ReplayRecordStep
    <3>3. CASE ClientStep(r)
      BY <3>3, RequestRelayStep, RenewRelayStep, CloseRelaySessionStep DEF ClientStep
    <3>4. CASE Traffic(r)
      BY <3>4, AllocateStep, RelayByteStep, DeallocateStep DEF Traffic
    <3>5. CASE Mishap(r)
      BY <3>5, TimeoutStep, MarkExposedFailsStep, DrainFailsStep DEF Mishap
    <3>. QED
      BY <1>6, <3>1, <3>2, <3>3, <3>4, <3>5
  <2>2. Traffic(r) => KeepsHold(r)
    BY AloneHold DEF Traffic, Allocate, RelayByte, Deallocate
  <2>3. KeepsHold(r)
    BY <1>6, <2>1, <2>2, OperationHold, ReplayHold, ClientHold
  <2>. QED
    BY <2>1, <2>3, HoldsKept
<1>. QED
  BY <1>1, <1>2, <1>3, <1>4, <1>5, <1>6 DEF Next

\* The only way to lose a hold is a rejection that is no longer true when it is
\* taken: as long as every rejection that an operation takes is true, the
\* journal has a record of every row that the Controller holds, whatever times
\* out, breaks, crashes, expires, is repeated or arrives late.
THEOREM HoldsJournaled == Spec /\ []RejectionsTrue => []HoldIsJournaled
<1>1. Init => HoldsInStep
  BY InitHolding
<1>2. RelayInv /\ HoldsInStep /\ RejectionsTrue /\ [Next]_vars => HoldsInStep'
  BY NextHolds
<1>3. HoldsInStep => HoldIsJournaled
  BY DEF HoldsInStep, HoldIsJournaled, Settled, Unasked
<1>. QED
  BY <1>1, <1>2, <1>3, RelayInvariant, PTL DEF Spec

-----------------------------------------------------------------------------
(* Without timeouts.                                                       *)

\* What is in transit belongs to an operation that waits for it, at most one
\* message for each, and a rejection in transit is about a row that is not held.
InTurn ==
    /\ \A i \in 1 .. Len(toController) : op[toController[i].id].pc = toController[i].kind
    /\ \A i \in 1 .. Len(toEdge) :
          /\ op[toEdge[i].id].pc = toEdge[i].kind
          /\ toEdge[i].kind = "reserve" /\ toEdge[i].code = "REJECTED" =>
                row[toEdge[i].id].state # "held"
    /\ \A i, j \in 1 .. Len(toController) : toController[i].id = toController[j].id => i = j
    /\ \A i, j \in 1 .. Len(toEdge) : toEdge[i].id = toEdge[j].id => i = j
    /\ \A i \in 1 .. Len(toController), j \in 1 .. Len(toEdge) :
          toController[i].id # toEdge[j].id

\* The context of no call runs out while it waits.
NoTimeout == \A r \in Reservations : ~Timeout(r)

\* The elements of a sequence without its head.
LEMMA TailElements ==
    ASSUME NEW S, NEW s \in Seq(S), s # << >>
    PROVE  /\ 1 \in 1 .. Len(s) /\ s[1] = Head(s)
           /\ \A i \in 1 .. Len(Tail(s)) : i + 1 \in 1 .. Len(s) /\ Tail(s)[i] = s[i + 1]
           /\ \A i \in 1 .. Len(s) : s[i] \in S
  OBVIOUS

\* The elements of a sequence with one more.
LEMMA AppendElements ==
    ASSUME NEW S, NEW s \in Seq(S), NEW x
    PROVE  \A i \in 1 .. Len(Append(s, x)) :
              \/ i \in 1 .. Len(s) /\ Append(s, x)[i] = s[i]
              \/ i = Len(s) + 1 /\ Append(s, x)[i] = x
  OBVIOUS

\* Messages in transit are about reservations and of a kind that is waited for.
LEMMA TransitTypes ==
    ASSUME RelayInv
    PROVE  /\ \A i \in 1 .. Len(toController) :
                 toController[i].id \in Reservations /\ toController[i].kind \in Calls
           /\ \A i \in 1 .. Len(toEdge) :
                 toEdge[i].id \in Reservations /\ toEdge[i].kind \in Calls
           /\ Len(toController) \in Nat /\ Len(toEdge) \in Nat
<1>1. toController \in Seq(Requests) /\ toEdge \in Seq(Answers)
  BY Kept
<1>2. \A i \in 1 .. Len(toController) : toController[i] \in Requests
  BY <1>1
<1>3. \A i \in 1 .. Len(toEdge) : toEdge[i] \in Answers
  BY <1>1
<1>4. Len(toController) \in Nat /\ Len(toEdge) \in Nat
  BY <1>1
<1>. QED
  BY <1>2, <1>3, <1>4 DEF Requests, Answers

\* Rejections are true when everything is in turn: nothing else about the same
\* reservation is in transit.
LEMMA RejectionsInTurn ==
    ASSUME RelayInv, InTurn
    PROVE  RejectionsTrue
<1>. SUFFICES ASSUME NEW r \in Reservations, Rejected(r) PROVE Settled(r) \/ Unasked(r)
  BY DEF RejectionsTrue
<1>1. toController \in Seq(Requests) /\ toEdge \in Seq(Answers) /\ toEdge # << >>
  BY Kept DEF Rejected
<1>2. 1 \in 1 .. Len(toEdge) /\ toEdge[1] = Head(toEdge)
  BY <1>1, TailElements
<1>3. row[r].state # "held"
  BY <1>2 DEF InTurn, Rejected
<1>4. row[r].state \in {"none", "held", "settled"}
  BY RowNumbers
<1>5. \A i \in 1 .. Len(toController) : toController[i] \in Requests /\ toController[i].id # r
  BY <1>1, <1>2 DEF InTurn, Rejected
<1>6. toController \in Seq({m \in Requests : m.kind = "reserve" => m.id # r})
  BY <1>1, <1>5
<1>. QED
  BY <1>3, <1>4, <1>6 DEF Settled, Unasked

\* A step of the Edge that begins with nothing about r in transit, or takes the
\* one answer that is, and asks at most once.
LEMMA TurnKept ==
    ASSUME RelayInv, InTurn, NEW r \in Reservations, EdgeStep(r), KeepsHold(r),
           \/ toEdge' = toEdge /\ ~Waiting(r)
           \/ toEdge # << >> /\ toEdge' = Tail(toEdge) /\ Head(toEdge).id = r
    PROVE  InTurn'
<1>1. toController \in Seq(Requests) /\ toEdge \in Seq(Answers) /\ row' = row
  BY Kept DEF EdgeStep, controllerVars
<1>2. \A s \in Reservations \ {r} : op'[s] = op[s]
  BY DEF EdgeStep, Frame
<1>3. /\ \A i \in 1 .. Len(toController) : toController[i].id # r
      /\ \A i \in 1 .. Len(toEdge') :
            \E j \in 1 .. Len(toEdge) : toEdge'[i] = toEdge[j] /\ toEdge[j].id # r
      /\ \A i, j \in 1 .. Len(toEdge') : toEdge'[i].id = toEdge'[j].id => i = j
  <2>1. CASE toEdge' = toEdge /\ ~Waiting(r)
    BY <2>1, TransitTypes DEF InTurn, Waiting
  <2>2. CASE toEdge # << >> /\ toEdge' = Tail(toEdge) /\ Head(toEdge).id = r
    <3>1. /\ 1 \in 1 .. Len(toEdge) /\ toEdge[1].id = r
          /\ \A i \in 1 .. Len(toEdge') :
                i + 1 \in 1 .. Len(toEdge) /\ toEdge'[i] = toEdge[i + 1]
      BY <1>1, <2>2, TailElements
    <3>2. \A i \in 1 .. Len(toController) : toController[i].id # r
      BY <3>1 DEF InTurn
    <3>3. \A i \in 1 .. Len(toEdge') : toEdge[i + 1].id # r
      <4>. SUFFICES ASSUME NEW i \in 1 .. Len(toEdge'), toEdge[i + 1].id = r PROVE FALSE
        OBVIOUS
      <4>1. i + 1 = 1
        BY <3>1 DEF InTurn
      <4>. QED
        BY <4>1
    <3>4. ASSUME NEW i \in 1 .. Len(toEdge'), NEW j \in 1 .. Len(toEdge'),
                 toEdge'[i].id = toEdge'[j].id
          PROVE  i = j
      <4>1. /\ i + 1 \in 1 .. Len(toEdge) /\ j + 1 \in 1 .. Len(toEdge)
            /\ toEdge[i + 1].id = toEdge[j + 1].id
        BY <3>1, <3>4
      <4>2. i + 1 = j + 1
        BY <4>1 DEF InTurn
      <4>. QED
        BY <4>2
    <3>. QED
      BY <3>1, <3>2, <3>3, <3>4
  <2>. QED
    BY <2>1, <2>2
<1>4. ASSUME NEW i \in 1 .. Len(toEdge')
      PROVE  /\ op'[toEdge'[i].id].pc = toEdge'[i].kind
             /\ toEdge'[i].kind = "reserve" /\ toEdge'[i].code = "REJECTED" =>
                   row'[toEdge'[i].id].state # "held"
  <2>1. PICK j \in 1 .. Len(toEdge) : toEdge'[i] = toEdge[j] /\ toEdge[j].id # r
    BY <1>3
  <2>2. op'[toEdge[j].id] = op[toEdge[j].id]
    BY <1>2, <2>1, TransitTypes
  <2>. QED
    BY <1>1, <2>1, <2>2 DEF InTurn
<1>5. ASSUME NEW i \in 1 .. Len(toController)
      PROVE  op'[toController[i].id].pc = toController[i].kind
  <2>1. op'[toController[i].id] = op[toController[i].id]
    BY <1>2, <1>3, TransitTypes
  <2>. QED
    BY <2>1 DEF InTurn
<1>6. \A i \in 1 .. Len(toController), j \in 1 .. Len(toEdge') :
         toController[i].id # toEdge'[j].id
  BY <1>3 DEF InTurn
<1>7. CASE toController' = toController
  BY <1>3, <1>4, <1>5, <1>6, <1>7 DEF InTurn
<1>8. ASSUME NEW m, m.id = r, m.kind = op'[r].pc, toController' = Append(toController, m)
      PROVE  InTurn'
  <2>1. \A i \in 1 .. Len(toController') :
           \/ i \in 1 .. Len(toController) /\ toController'[i] = toController[i]
           \/ i = Len(toController) + 1 /\ toController'[i] = m
    BY <1>1, <1>8, AppendElements
  <2>2. \A i \in 1 .. Len(toController') : op'[toController'[i].id].pc = toController'[i].kind
    BY <1>5, <1>8, <2>1
  <2>3. \A i, j \in 1 .. Len(toController') : toController'[i].id = toController'[j].id => i = j
    BY <1>3, <1>8, <2>1 DEF InTurn
  <2>4. ASSUME NEW i \in 1 .. Len(toController'), NEW j \in 1 .. Len(toEdge')
        PROVE  toController'[i].id # toEdge'[j].id
    <3>1. toEdge'[j].id # r
      BY <1>3
    <3>. QED
      BY <1>6, <1>8, <2>1, <3>1
  <2>. QED
    BY <1>3, <1>4, <2>2, <2>3, <2>4 DEF InTurn
<1>. QED
  BY <1>7, <1>8 DEF KeepsHold

\* A transaction replaces the one message about its reservation.
LEMMA ControllerTurn ==
    ASSUME RelayInv, InTurn, ControllerStep
    PROVE  InTurn'
<1>1. toController # << >> /\ op' = op /\ toController \in Seq(Requests) /\ toEdge \in Seq(Answers)
  BY Kept DEF ControllerStep
<1>2. PICK m : m = Head(toController)
  OBVIOUS
<1>3. Decides(m)
  BY <1>2, ControllerDecides
<1>4. /\ 1 \in 1 .. Len(toController) /\ toController[1] = m
      /\ \A i \in 1 .. Len(toController') :
            i + 1 \in 1 .. Len(toController) /\ toController'[i] = toController[i + 1]
  BY <1>1, <1>2, <1>3, TailElements DEF Decides
<1>5. PICK a \in Answers :
         /\ toEdge' = Append(toEdge, a) /\ a.id = m.id /\ a.kind = m.kind
         /\ a.kind = "reserve" /\ a.code = "REJECTED" => row'[m.id].state # "held"
  BY <1>3 DEF Decides, Truthful
<1>6. \A i \in 1 .. Len(toEdge') :
         \/ i \in 1 .. Len(toEdge) /\ toEdge'[i] = toEdge[i]
         \/ i = Len(toEdge) + 1 /\ toEdge'[i] = a
  BY <1>1, <1>5, AppendElements
<1>7. \A i \in 1 .. Len(toController') : op'[toController'[i].id].pc = toController'[i].kind
  BY <1>1, <1>4 DEF InTurn
<1>8. ASSUME NEW i \in 1 .. Len(toEdge')
      PROVE  /\ op'[toEdge'[i].id].pc = toEdge'[i].kind
             /\ toEdge'[i].kind = "reserve" /\ toEdge'[i].code = "REJECTED" =>
                   row'[toEdge'[i].id].state # "held"
  <2>1. CASE toEdge'[i] = a
    BY <1>1, <1>4, <1>5, <2>1 DEF InTurn
  <2>2. CASE i \in 1 .. Len(toEdge) /\ toEdge'[i] = toEdge[i]
    <3>1. toEdge[i].id \in Reservations /\ toEdge[i].id # m.id
      BY <1>4, <2>2, TransitTypes DEF InTurn
    <3>2. row[toEdge[i].id].state \in {"none", "held", "settled"}
      BY <3>1, RowNumbers
    <3>3. row[toEdge[i].id].state # "held" => row'[toEdge[i].id].state # "held"
      BY <1>3, <3>1, <3>2 DEF Decides, RowsDecided
    <3>. QED
      BY <1>1, <2>2, <3>3 DEF InTurn
  <2>. QED
    BY <1>6, <2>1, <2>2
<1>9. ASSUME NEW i \in 1 .. Len(toController'), NEW j \in 1 .. Len(toController'),
             toController'[i].id = toController'[j].id
      PROVE  i = j
  <2>1. i + 1 = j + 1
    BY <1>4, <1>9 DEF InTurn
  <2>. QED
    BY <2>1
<1>10. \A i, j \in 1 .. Len(toEdge') : toEdge'[i].id = toEdge'[j].id => i = j
  <2>1. \A j \in 1 .. Len(toEdge) : toEdge[j].id # a.id
    BY <1>4, <1>5 DEF InTurn
  <2>. QED
    BY <1>6, <2>1 DEF InTurn
<1>11. ASSUME NEW i \in 1 .. Len(toController'), NEW j \in 1 .. Len(toEdge'),
              toController'[i].id = toEdge'[j].id
       PROVE  FALSE
  <2>1. CASE toEdge'[j] = a
    <3>1. i + 1 = 1
      BY <1>4, <1>5, <1>11, <2>1 DEF InTurn
    <3>. QED
      BY <3>1
  <2>2. CASE j \in 1 .. Len(toEdge) /\ toEdge'[j] = toEdge[j]
    BY <1>4, <1>11, <2>2 DEF InTurn
  <2>. QED
    BY <1>6, <2>1, <2>2
<1>. QED
  BY <1>7, <1>8, <1>9, <1>10, <1>11 DEF InTurn

\* Nothing is in transit, or everything stays as it is.
LEMMA GlobalTurn ==
    ASSUME InTurn,
           \/ UNCHANGED <<row, op, toController, toEdge>>
           \/ toController' = << >> /\ toEdge' = << >>
    PROVE  InTurn'
<1>1. CASE UNCHANGED <<row, op, toController, toEdge>>
  BY <1>1 DEF InTurn
<1>2. CASE toController' = << >> /\ toEdge' = << >>
  <2>1. 1 .. Len(toController') = {} /\ 1 .. Len(toEdge') = {}
    BY <1>2
  <2>. QED
    BY <2>1 DEF InTurn
<1>. QED
  BY <1>1, <1>2

\* Without timeouts everything stays in turn: an operation sends when it does
\* not wait, and only an answer ends its wait.
LEMMA NextTurn ==
    ASSUME RelayInv, HoldsInStep, InTurn, [Next]_vars, [NoTimeout]_vars
    PROVE  InTurn'
<1>1. CASE ControllerStep
  BY <1>1, ControllerTurn
<1>2. CASE EdgeReceive
  <2>1. PICK r \in Reservations : r = Head(toEdge).id /\ EdgeStep(r)
    BY <1>2, EdgeReceiveStep
  <2>2. KeepsHold(r)
    BY <1>2, <2>1, RejectionsInTurn, ReceiveHold
  <2>3. toEdge # << >> /\ toEdge' = Tail(toEdge)
    BY <1>2 DEF EdgeReceive
  <2>. QED
    BY <2>1, <2>2, <2>3, TurnKept
<1>3. CASE LinkBreak \/ Crash
  BY <1>3, GlobalTurn DEF LinkBreak, Crash
<1>4. CASE \/ ReplayStart \/ Reconnect \/ Lapse \/ (\E r \in Reservations : Expire(r))
           \/ UNCHANGED vars
  <2>1. UNCHANGED <<row, op, toController, toEdge>>
    BY <1>4 DEF ReplayStart, Reconnect, Lapse, Expire, controllerVars, vars
  <2>. QED
    BY <2>1, GlobalTurn
<1>5. ASSUME NEW r \in Reservations, Traffic(r)
      PROVE  InTurn'
  <2>1. UNCHANGED <<row, op, toController, toEdge>>
    BY <1>5 DEF Traffic, Allocate, RelayByte, Deallocate, controllerVars
  <2>. QED
    BY <2>1, GlobalTurn
<1>6. ASSUME NEW r \in Reservations, Timeout(r)
      PROVE  InTurn'
  <2>1. UNCHANGED vars
    BY <1>6 DEF NoTimeout
  <2>. QED
    BY <1>4, <2>1
<1>7. ASSUME NEW r \in Reservations,
             \/ OperationStep(r) \/ ReplayRecord(r) \/ ClientStep(r)
             \/ MarkExposedFails(r) \/ DrainFails(r)
      PROVE  InTurn'
  <2>1. EdgeStep(r)
    <3>1. CASE OperationStep(r)
      BY <3>1, RegisterStep, MarkExposedStep, SettleUnexposedStep, FinishClosingStep,
         DrainStep, RevokeStep, DeliverStep, AckTerminalStep DEF OperationStep
    <3>2. CASE ReplayRecord(r)
      BY <3>2, ReplayRecordStep
    <3>3. CASE ClientStep(r)
      BY <3>3, RequestRelayStep, RenewRelayStep, CloseRelaySessionStep DEF ClientStep
    <3>. QED
      BY <1>7, <3>1, <3>2, <3>3, MarkExposedFailsStep, DrainFailsStep
  <2>2. KeepsHold(r)
    BY <1>7, <2>1, OperationHold, ReplayHold, ClientHold DEF Mishap
  <2>3. ~Waiting(r)
    <3>1. CASE op[r] = Idle
      BY <3>1, EmptyValues DEF Waiting, Calls
    <3>2. CASE op[r] # Idle
      BY <1>7, <3>2 DEF OperationStep, ReplayRecord, ClientStep, MarkExposedFails, DrainFails,
         Register, MarkExposed, SettleUnexposed, FinishClosing, Drain, Revoke, Deliver,
         AckTerminal, RequestRelay, RenewRelay, CloseRelaySession, Waiting, Calls
    <3>. QED
      BY <3>1, <3>2
  <2>4. toEdge' = toEdge
    BY <1>7 DEF OperationStep, ReplayRecord, ClientStep, MarkExposedFails, DrainFails,
       Register, MarkExposed, SettleUnexposed, FinishClosing, Drain, Revoke, Deliver,
       AckTerminal, RequestRelay, RenewRelay, CloseRelaySession
  <2>. QED
    BY <2>1, <2>2, <2>3, <2>4, TurnKept
<1>. QED
  BY <1>1, <1>2, <1>3, <1>4, <1>5, <1>6, <1>7 DEF Next, Mishap

\* Without timeouts no hold is lost: however often the stream breaks, the Edge
\* crashes, writes of the journal fail or authorizations expire, the journal has
\* a record of every row that the Controller holds.
THEOREM HoldsWithoutTimeouts == Spec /\ [][NoTimeout]_vars => []HoldIsJournaled
<1>1. Init => HoldsInStep /\ InTurn
  <2>1. ASSUME Init PROVE InTurn
    <3>1. toController = << >> /\ toEdge = << >>
      BY <2>1 DEF Init
    <3>2. 1 .. Len(toController) = {} /\ 1 .. Len(toEdge) = {}
      BY <3>1
    <3>. QED
      BY <3>2 DEF InTurn
  <2>. QED
    BY <2>1, InitHolding
<1>2. RelayInv /\ HoldsInStep /\ InTurn /\ [Next]_vars /\ [NoTimeout]_vars
         => HoldsInStep' /\ InTurn'
  BY NextTurn, NextHolds, RejectionsInTurn
<1>3. HoldsInStep => HoldIsJournaled
  BY DEF HoldsInStep, HoldIsJournaled, Settled, Unasked
<1>. QED
  BY <1>1, <1>2, <1>3, RelayInvariant, PTL DEF Spec
=============================================================================
