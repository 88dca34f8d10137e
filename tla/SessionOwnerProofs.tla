------------------------- MODULE SessionOwnerProofs -------------------------
(***************************************************************************)
(* Theorems about SessionOwner, for every set of owners, callers, keys and *)
(* routes, every mix of calls and every last generation.                   *)
(***************************************************************************)
EXTENDS SessionOwner, FiniteSetTheorems, TLAPS

\* A call that owns a generation: it has one, and no other call has the same.
Active(c) == caller[c].pc \in {"retire", "race", "adopt", "project", "file"}

\* What the program counter of a caller says about its locals.
CallersInStep ==
    \A c \in Callers :
        /\ caller[c].pc # "idle" =>
              /\ caller[c].op \in EntryPoints /\ caller[c].owner \in Owners
              /\ <<c, caller[c].owner, caller[c].op>> \in Calls
        /\ caller[c].pc = "acquire" => Locked(caller[c].op)
        /\ caller[c].pc = "reuse" => Keyed(caller[c].op)
        /\ caller[c].pc \in {"race", "adopt", "project", "file"} =>
              caller[c].op # "BeginRouteAttempts"
        /\ caller[c].pc \in {"project", "file"} => Keyed(caller[c].op)
        /\ caller[c].pc \in {"adopt", "project", "file"} =>
              caller[c].won \in Attempts(c)
        /\ caller[c].pc # "retire" => cleanup[c] = NoWork

\* Every call that owns a generation has one of its own.
GenerationsOwned ==
    /\ \A c \in Callers : Active(c) => caller[c].generation \in 1 .. generation
    /\ \A c, d \in Callers :
          Active(c) /\ Active(d) /\ c # d
              => caller[c].generation # caller[d].generation

\* A generation's sessions begin with the race of its owner and are dialled
\* only during it.
SessionsInStep ==
    \A s \in Sessions :
        /\ session[s] # "none" => s[1] <= generation
        /\ \A c \in Callers : s \in Attempts(c) =>
              /\ caller[c].pc = "retire" => session[s] = "none"
              /\ caller[c].pc = "race" => session[s] # "open"
        /\ session[s] = "dialling" =>
              \E c \in Callers : caller[c].pc = "race" /\ s \in Attempts(c)

\* A call under the token has a reference to its owner's entry, which new calls
\* find too; refs counts the references, the token is with the call inside, and
\* an entry without references is not in the map.
LocksInStep ==
    /\ \A c \in Callers :
          /\ caller[c].pc # "idle" /\ Locked(caller[c].op) =>
                entry[c] # NoEntry /\ entry[c][1] = caller[c].owner
          /\ entry[c] # NoEntry => acquireLocks[entry[c][1]] = entry[c]
    /\ \A e \in Entries :
          /\ refs[e] = Cardinality({c \in Callers : entry[c] = e})
          /\ \A c \in Callers : token[e] = c <=> Inside(c) /\ entry[c] = e
    /\ \A o \in Owners : acquireLocks[o] # NoEntry =>
          /\ acquireLocks[o][1] = o
          /\ \E c \in Callers : entry[c] = acquireLocks[o]

\* A goroutine has taken the session out of the maps and will close it.
Taken(s) ==
    \/ \E c \in Callers : cleanup[c].close = s
    \/ \E o \in Owners : \E w \in closing[o] : w.close = s

\* The strengthening of the safety properties that every step preserves.
SessionInv ==
    /\ TypeOK
    /\ CallersInStep
    /\ GenerationsOwned
    /\ SessionsInStep
    /\ LocksInStep
    /\ AuthorityHasOwner
    /\ NoLeakedSession

\* No caller uses ConnectRoute directly, which takes no token: AcquireRoute
\* calls it under the token, and so does everything but tests.
NoDirectConnect == \A x \in Calls : x[3] # "ConnectRoute"

\* While a call under the token connects, its owner stores no key; once it has
\* adopted its session, the owner's session is its own or gone.
KeysInStep ==
    /\ \A o \in Owners :
          config[o] # None => current[o] = NoSession \/ madeFor[o] = config[o]
    /\ \A c \in Callers :
          /\ Locked(caller[c].op) /\ Active(c) => config[caller[c].owner] = None
          /\ caller[c].pc \in {"project", "file"} =>
                \/ current[caller[c].owner] = NoSession
                \/ madeFor[caller[c].owner] = caller[c].key

-----------------------------------------------------------------------------
(* The locals of a caller.                                                 *)

\* A caller that returns is idle, has given back every token, and has changed
\* nothing of another caller.
LEMMA ReturnEffect ==
    ASSUME TypeOK, NEW c \in Callers, Return(c)
    PROVE  /\ caller' \in [Callers -> CallerState]
           /\ token' \in [Entries -> Callers \cup {None}]
           /\ caller'[c].pc = "idle"
           /\ \A d \in Callers \ {c} : caller'[d] = caller[d]
           /\ \A e \in Entries :
                token'[e] = IF token[e] = c THEN None ELSE token[e]
<1>1. Idle \in CallerState /\ Idle.pc = "idle"
  BY OwnerAssumption
     DEF Idle, CallerState, Labels, MaybeSession, NoSession
<1>2. caller \in [Callers -> CallerState] /\ token \in [Entries -> Callers \cup {None}]
  BY DEF TypeOK
<1>3. caller' = [caller EXCEPT ![c] = Idle]
      /\ token' = [e \in Entries |-> IF token[e] = c THEN None ELSE token[e]]
  BY DEF Return
<1>4. caller' \in [Callers -> CallerState]
  BY <1>1, <1>2, <1>3
<1>5. token' \in [Entries -> Callers \cup {None}]
  BY <1>2, <1>3
<1>6. QED
  BY <1>1, <1>2, <1>3, <1>4, <1>5

\* The effect of an assignment to the program counter alone.
LEMMA PcEffect ==
    ASSUME TypeOK, NEW c \in Callers, NEW p \in Labels,
           caller' = [caller EXCEPT ![c].pc = p]
    PROVE  /\ caller' \in [Callers -> CallerState]
           /\ caller'[c] = [caller[c] EXCEPT !.pc = p]
           /\ caller'[c].pc = p
           /\ caller'[c].op = caller[c].op
           /\ caller'[c].owner = caller[c].owner
           /\ caller'[c].key = caller[c].key
           /\ caller'[c].generation = caller[c].generation
           /\ caller'[c].won = caller[c].won
           /\ \A d \in Callers \ {c} : caller'[d] = caller[d]
<1>1. caller \in [Callers -> CallerState]
  BY DEF TypeOK
<1>2. caller[c] \in CallerState
  BY <1>1
<1>3. [caller[c] EXCEPT !.pc = p] \in CallerState
  BY <1>2 DEF CallerState
<1>4. caller' = [caller EXCEPT ![c] = [caller[c] EXCEPT !.pc = p]]
  BY <1>1
<1>5. caller'[c] = [caller[c] EXCEPT !.pc = p]
  BY <1>1, <1>4
<1>6. caller' \in [Callers -> CallerState]
  BY <1>1, <1>3, <1>4
<1>7. QED
  BY <1>1, <1>2, <1>4, <1>5, <1>6 DEF CallerState

\* The locals of a call that has just started.
LEMMA StartEffect ==
    ASSUME TypeOK, NEW c \in Callers, Start(c)
    PROVE  /\ caller' \in [Callers -> CallerState]
           /\ \A d \in Callers \ {c} : caller'[d] = caller[d]
           /\ caller'[c].op \in EntryPoints /\ caller'[c].owner \in Owners
           /\ <<c, caller'[c].owner, caller'[c].op>> \in Calls
           /\ caller'[c].pc = IF Locked(caller'[c].op) THEN "acquire" ELSE "begin"
           /\ caller[c].pc = "idle" /\ entry[c] = NoEntry
           /\ IF Locked(caller'[c].op) THEN Refer(c, caller'[c].owner)
              ELSE UNCHANGED <<acquireLocks, refs, entry, token>>
<1> DEFINE Fresh(o, op, k, r) ==
              [pc |-> IF Locked(op) THEN "acquire" ELSE "begin",
               op |-> op, owner |-> o, key |-> k, route |-> r,
               generation |-> 0, plan |-> {}, won |-> NoSession]
<1>1. PICK o \in Owners, op \in EntryPoints :
        /\ <<c, o, op>> \in Calls
        /\ \E k \in IF Keyed(op) THEN Keys ELSE {None},
              r \in CASE Planned(op) -> Overrides \cup {None}
                     [] op \in {"AcquireRoute", "ConnectRoute"} -> Routes
                     [] OTHER -> {None} :
            caller' = [caller EXCEPT ![c] = Fresh(o, op, k, r)]
        /\ IF Locked(op) THEN Refer(c, o) ELSE UNCHANGED <<lockVars, token>>
  BY DEF Start
<1>2. PICK k \in Keys \cup {None}, r \in Routes \cup {None} :
        caller' = [caller EXCEPT ![c] = Fresh(o, op, k, r)]
  BY <1>1, OwnerAssumption
<1> DEFINE x == Fresh(o, op, k, r)
<1>3. x \in CallerState /\ x.op = op /\ x.owner = o
      /\ x.pc = IF Locked(op) THEN "acquire" ELSE "begin"
  BY <1>1, <1>2, OwnerAssumption DEF CallerState, Labels, MaybeSession
<1>4. caller \in [Callers -> CallerState] /\ caller' = [caller EXCEPT ![c] = x]
  BY <1>2 DEF TypeOK
<1> HIDE DEF x
<1>5. caller' \in [Callers -> CallerState] /\ caller'[c] = x
      /\ \A d \in Callers \ {c} : caller'[d] = caller[d]
  BY <1>3, <1>4
<1>6. caller[c].pc = "idle" /\ entry[c] = NoEntry
  BY DEF Start
<1>7. caller'[c].op = op /\ caller'[c].owner = o
  BY <1>3, <1>5
<1>8. IF Locked(caller'[c].op) THEN Refer(c, caller'[c].owner)
      ELSE UNCHANGED <<acquireLocks, refs, entry, token>>
  BY <1>1, <1>7 DEF lockVars
<1>9. QED
  BY <1>1, <1>3, <1>5, <1>6, <1>7, <1>8

\* The locals of a call that has been given a generation.
LEMMA BeginEffect ==
    ASSUME TypeOK, NEW c \in Callers, NEW g \in 0 .. MaxGeneration,
           \E plan \in SUBSET Routes :
              caller' = [caller EXCEPT ![c].pc = "retire", ![c].plan = plan,
                                       ![c].generation = g]
    PROVE  /\ caller' \in [Callers -> CallerState]
           /\ caller'[c].pc = "retire"
           /\ caller'[c].op = caller[c].op
           /\ caller'[c].owner = caller[c].owner
           /\ caller'[c].key = caller[c].key
           /\ caller'[c].generation = g
           /\ \A d \in Callers \ {c} : caller'[d] = caller[d]
<1>1. PICK plan \in SUBSET Routes :
         caller' = [caller EXCEPT ![c].pc = "retire", ![c].plan = plan,
                                  ![c].generation = g]
  OBVIOUS
<1> DEFINE x == [caller[c] EXCEPT !.pc = "retire", !.plan = plan,
                                  !.generation = g]
<1>2. caller \in [Callers -> CallerState] /\ caller[c] \in CallerState
  BY DEF TypeOK
<1>3. x \in CallerState /\ x.pc = "retire" /\ x.op = caller[c].op
      /\ x.owner = caller[c].owner /\ x.key = caller[c].key /\ x.generation = g
  BY <1>2 DEF CallerState, Labels
<1>4. caller' = [caller EXCEPT ![c] = x]
  BY <1>1, <1>2
<1> HIDE DEF x
<1>5. caller' \in [Callers -> CallerState] /\ caller'[c] = x
      /\ \A d \in Callers \ {c} : caller'[d] = caller[d]
  BY <1>2, <1>3, <1>4
<1>6. QED
  BY <1>3, <1>5

\* The locals of a call whose race has a winner.
LEMMA WinEffect ==
    ASSUME TypeOK, NEW c \in Callers, NEW s \in Sessions,
           caller' = [caller EXCEPT ![c].pc = "adopt", ![c].won = s]
    PROVE  /\ caller' \in [Callers -> CallerState]
           /\ caller'[c].pc = "adopt"
           /\ caller'[c].op = caller[c].op
           /\ caller'[c].owner = caller[c].owner
           /\ caller'[c].key = caller[c].key
           /\ caller'[c].generation = caller[c].generation
           /\ caller'[c].won = s
           /\ \A d \in Callers \ {c} : caller'[d] = caller[d]
<1> DEFINE x == [caller[c] EXCEPT !.pc = "adopt", !.won = s]
<1>1. caller \in [Callers -> CallerState]
  BY DEF TypeOK
<1>2. caller[c] \in CallerState
  BY <1>1
<1>3. x \in CallerState /\ x.pc = "adopt" /\ x.op = caller[c].op
      /\ x.owner = caller[c].owner /\ x.key = caller[c].key
      /\ x.generation = caller[c].generation /\ x.won = s
  BY <1>2 DEF CallerState, Labels, MaybeSession
<1>4. caller' = [caller EXCEPT ![c] = x]
  BY <1>1
<1> HIDE DEF x
<1>5. caller' \in [Callers -> CallerState] /\ caller'[c] = x
      /\ \A d \in Callers \ {c} : caller'[d] = caller[d]
  BY <1>1, <1>3, <1>4
<1>6. QED
  BY <1>3, <1>5

\* The types of a caller's locals.
LEMMA Locals ==
    ASSUME TypeOK, NEW c \in Callers
    PROVE  /\ caller[c].pc \in Labels
           /\ caller[c].op \in EntryPoints \cup {None}
           /\ caller[c].owner \in Owners \cup {None}
           /\ caller[c].key \in Keys \cup {None}
           /\ caller[c].route \in Routes \cup {None}
           /\ caller[c].generation \in 0 .. MaxGeneration
           /\ caller[c].plan \in SUBSET Routes
           /\ caller[c].won \in MaybeSession
  BY DEF TypeOK, CallerState

\* No session is the absent session, and nobody's name is the absent name.
LEMMA NoSessionIsNone ==
    NoSession \notin Sessions /\ \A s \in Sessions : s # NoSession /\ s[1] \in 1 .. MaxGeneration
  BY OwnerAssumption DEF NoSession, Sessions

\* What the helpers that end leases and sessions return.
LEMMA HelperTypes ==
    ASSUME TypeOK
    PROVE  /\ \A L : Finished(L) \in [Callers -> MaybeSession]
           /\ \A L : Unshared(L) \in [Owners -> SUBSET (Callers \X Sessions)]
           /\ \A S : Closed(S) \in
                [Sessions -> {"none", "dialling", "ready", "late", "open", "done"}]
           /\ \A o \in Owners : \A s : LeasesOn(o, s) \in SUBSET (Callers \X Sessions)
           /\ \A s : AuthWithout(s) \in MaybeSession
<1>1. \A L : Finished(L) \in [Callers -> MaybeSession]
  BY DEF TypeOK, Finished, MaybeSession
<1>2. \A L : Unshared(L) \in [Owners -> SUBSET (Callers \X Sessions)]
  BY DEF TypeOK, Unshared
<1>3. \A S : Closed(S) \in
        [Sessions -> {"none", "dialling", "ready", "late", "open", "done"}]
  BY DEF TypeOK, Closed
<1>4. \A o \in Owners : \A s : LeasesOn(o, s) \in SUBSET (Callers \X Sessions)
  BY DEF TypeOK, LeasesOn
<1>5. \A s : AuthWithout(s) \in MaybeSession
  BY DEF TypeOK, AuthWithout, MaybeSession
<1>6. QED
  BY <1>1, <1>2, <1>3, <1>4, <1>5

\* A new lease is well typed.
LEMMA NewLeaseTypes ==
    ASSUME TypeOK, NEW c \in Callers, NEW s \in Sessions, NewLease(c, s),
           caller[c].owner \in Owners
    PROVE  /\ lease' \in [Callers -> MaybeSession]
           /\ shared' \in [Owners -> SUBSET (Callers \X Sessions)]
<1>1. <<c, s>> \in Callers \X Sessions
  OBVIOUS
<1>2. QED
  BY <1>1 DEF TypeOK, NewLease, MaybeSession

\* Work that is left for after the unlock is well typed.
LEMMA WorkTypes ==
    ASSUME TypeOK, NEW c \in Callers,
           NEW L \in SUBSET (Callers \X Sessions), NEW s \in MaybeSession
    PROVE  [cleanup EXCEPT ![c] = [leases |-> L, close |-> s]] \in [Callers -> Work]
  BY DEF TypeOK, Work

\* So is work that is left to a goroutine of an owner; what was left before stays.
LEMMA LaterEffect ==
    ASSUME TypeOK, NEW o \in Owners, NEW L \in SUBSET (Callers \X Sessions),
           NEW s \in MaybeSession, Later(o, L, s)
    PROVE  /\ closing' \in [Owners -> SUBSET Work]
           /\ \A x \in Owners : closing[x] \subseteq closing'[x]
           /\ s # NoSession => \E w \in closing'[o] : w.close = s
<1> DEFINE w == [leases |-> L, close |-> s]
<1>1. w \in Work /\ w.close = s /\ closing \in [Owners -> SUBSET Work]
  BY DEF Work, TypeOK
<1>2. \/ UNCHANGED closing /\ s = NoSession
      \/ closing' = [closing EXCEPT ![o] = @ \cup {w}]
  BY DEF Later
<1> HIDE DEF w
<1>3. CASE UNCHANGED closing /\ s = NoSession
  BY <1>1, <1>3
<1>4. CASE closing' = [closing EXCEPT ![o] = @ \cup {w}]
  BY <1>1, <1>4
<1>5. QED
  BY <1>2, <1>3, <1>4

\* Every cleanup is well typed, the empty one too.
LEMMA CleanupTypes ==
    ASSUME TypeOK, NEW c \in Callers
    PROVE  /\ cleanup[c].leases \in SUBSET (Callers \X Sessions)
           /\ cleanup[c].close \in MaybeSession
           /\ [cleanup EXCEPT ![c] = NoWork] \in [Callers -> Work]
           /\ NoWork.close = NoSession
  BY DEF TypeOK, Work, NoWork, MaybeSession

-----------------------------------------------------------------------------
(* The entries of the endpoint.                                            *)

\* The absent entry is none, and nobody's name is the absent name.
LEMMA NoEntryIsNone ==
    /\ NoEntry \notin Entries
    /\ \A e \in Entries : e # NoEntry /\ e[1] \in Owners
    /\ None \notin Callers
  BY OwnerAssumption DEF NoEntry, Entries

\* An owner whose map has no entry has one that no call uses.
LEMMA NewEntryEffect ==
    ASSUME TypeOK, LocksInStep, NEW o \in Owners, NEW c \in Callers,
           acquireLocks[o] = NoEntry
    PROVE  /\ NewEntry(o) \in Entries /\ NewEntry(o)[1] = o
           /\ \A d \in Callers : entry[d] # NewEntry(o)
<1>1. <<o, c>> \in Entries /\ <<o, c>>[1] = o /\ <<o, c>> # NoEntry
  BY NoEntryIsNone DEF Entries
<1>2. \A d \in Callers : entry[d] # <<o, c>>
  BY <1>1 DEF LocksInStep
<1>3. \E e \in Entries : e[1] = o /\ \A d \in Callers : entry[d] # e
  BY <1>1, <1>2
<1>4. QED
  BY <1>3 DEF NewEntry

\* How many references a set of calls has to an entry.
LEMMA RefsType ==
    ASSUME TypeOK, NEW e
    PROVE  /\ IsFiniteSet({d \in Callers : entry[d] = e})
           /\ Cardinality({d \in Callers : entry[d] = e}) \in Nat
<1>1. {d \in Callers : entry[d] = e} \in SUBSET Callers
  OBVIOUS
<1>2. IsFiniteSet({d \in Callers : entry[d] = e})
  BY <1>1, OwnerAssumption, FS_Subset
<1>3. QED
  BY <1>2, FS_CardinalityType

\* acquireEndpoint adds a reference to the entry of the owner; a new entry has the
\* state of one that nobody uses.
LEMMA ReferEffect ==
    ASSUME TypeOK, LocksInStep, NEW c \in Callers, NEW o \in Owners, Refer(c, o)
    PROVE  \E e \in Entries :
              /\ e[1] = o
              /\ acquireLocks[o] \in {e, NoEntry}
              /\ acquireLocks[o] = NoEntry => \A d \in Callers : entry[d] # e
              /\ acquireLocks' = [acquireLocks EXCEPT ![o] = e]
              /\ refs' = [refs EXCEPT ![e] = refs[e] + 1]
              /\ entry' = [entry EXCEPT ![c] = e]
              /\ UNCHANGED token
<1> DEFINE e == IF acquireLocks[o] = NoEntry THEN NewEntry(o) ELSE acquireLocks[o]
<1>0. /\ acquireLocks \in [Owners -> Entries \cup {NoEntry}]
      /\ refs \in [Entries -> Nat] /\ token \in [Entries -> Callers \cup {None}]
  BY DEF TypeOK
<1>1. /\ e \in Entries /\ e[1] = o
      /\ acquireLocks[o] = NoEntry => \A d \in Callers : entry[d] # e
  <2>1. CASE acquireLocks[o] = NoEntry
    BY <2>1, NewEntryEffect
  <2>2. CASE acquireLocks[o] # NoEntry
    BY <1>0, <2>2 DEF LocksInStep
  <2>3. QED
    BY <2>1, <2>2
<1>2. acquireLocks[o] \in {e, NoEntry}
  OBVIOUS
<1>3. /\ acquireLocks' = [acquireLocks EXCEPT ![o] = e]
      /\ refs' = [refs EXCEPT ![e] = IF acquireLocks[o] = NoEntry THEN 1 ELSE refs[e] + 1]
      /\ token' = IF acquireLocks[o] = NoEntry THEN [token EXCEPT ![e] = None] ELSE token
      /\ entry' = [entry EXCEPT ![c] = e]
  BY DEF Refer
<1> HIDE DEF e
<1>4. CASE acquireLocks[o] = NoEntry
  <2>1. {d \in Callers : entry[d] = e} = {}
    BY <1>1, <1>4
  <2>2. refs[e] = 0
    BY <1>1, <2>1, FS_EmptySet DEF LocksInStep
  <2>3. token[e] = None
    <3>1. \A d \in Callers : token[e] # d
      BY <1>1, <1>4 DEF LocksInStep, Inside
    <3>2. QED
      BY <1>0, <1>1, <3>1
  <2>4. refs' = [refs EXCEPT ![e] = refs[e] + 1]
    BY <1>3, <1>4, <2>2
  <2>5. token' = token
    BY <1>0, <1>1, <1>3, <1>4, <2>3
  <2>6. QED
    BY <1>1, <1>2, <1>3, <2>4, <2>5
<1>5. CASE acquireLocks[o] # NoEntry
  BY <1>1, <1>2, <1>3, <1>5
<1>6. QED
  BY <1>4, <1>5

\* The last reference of a call is given back to an entry that has one.
LEMMA ReleaseEffect ==
    ASSUME TypeOK, LocksInStep, NEW c \in Callers, Release(c)
    PROVE  /\ entry[c] \in Entries /\ entry[c][1] \in Owners
           /\ acquireLocks[entry[c][1]] = entry[c]
           /\ refs[entry[c]] \in Nat \ {0}
<1>1. entry[c] \in Entries /\ entry[c][1] \in Owners
  BY NoEntryIsNone DEF TypeOK, Release
<1>2. acquireLocks[entry[c][1]] = entry[c]
  BY <1>1, NoEntryIsNone DEF LocksInStep
<1>3. c \in {d \in Callers : entry[d] = entry[c]}
  OBVIOUS
<1>4. Cardinality({d \in Callers : entry[d] = entry[c]}) \in Nat \ {0}
  BY <1>3, RefsType, FS_EmptySet
<1>5. QED
  BY <1>1, <1>2, <1>4 DEF LocksInStep

-----------------------------------------------------------------------------
(* Type correctness.                                                       *)

\* The steps of a call keep the types.
LEMMA CallerTypes ==
    ASSUME TypeOK, CallersInStep, LocksInStep, NEW c \in Callers,
           \/ Start(c) \/ TakeToken(c) \/ StopWaiting(c) \/ CallerStep(c)
           \/ LeaseFollows(c) \/ CloseLease(c)
    PROVE  TypeOK'
<1> USE Locals, NoSessionIsNone, HelperTypes DEF lockVars
<1>0. caller[c].pc # "idle" => caller[c].owner \in Owners
  BY DEF CallersInStep
<1>1. CASE Start(c)
  <2>1. /\ caller' \in [Callers -> CallerState] /\ caller'[c].owner \in Owners
        /\ IF Locked(caller'[c].op) THEN Refer(c, caller'[c].owner)
           ELSE UNCHANGED <<acquireLocks, refs, entry, token>>
    BY <1>1, StartEffect
  <2>2. /\ acquireLocks' \in [Owners -> Entries \cup {NoEntry}]
        /\ refs' \in [Entries -> Nat]
        /\ token' \in [Entries -> Callers \cup {None}]
        /\ entry' \in [Callers -> Entries \cup {NoEntry}]
    <3>1. CASE Locked(caller'[c].op)
      <4>1. PICK e \in Entries :
              /\ acquireLocks' = [acquireLocks EXCEPT ![caller'[c].owner] = e]
              /\ refs' = [refs EXCEPT ![e] = refs[e] + 1]
              /\ entry' = [entry EXCEPT ![c] = e]
              /\ UNCHANGED token
        BY <2>1, <3>1, ReferEffect
      <4>2. refs[e] + 1 \in Nat
        BY <4>1 DEF TypeOK
      <4>3. QED
        BY <2>1, <4>1, <4>2 DEF TypeOK
    <3>2. CASE ~Locked(caller'[c].op)
      BY <2>1, <3>2 DEF TypeOK
    <3>3. QED
      BY <3>1, <3>2
  <2>3. UNCHANGED <<generation, authCurrent, current, config, closed, shared, session,
                    watched, madeFor, lease, cleanup, closing>>
    BY <1>1 DEF Start
  <2>4. QED
    BY <2>1, <2>2, <2>3 DEF TypeOK
<1>2. CASE TakeToken(c)
  <2>1. caller[c].owner \in Owners /\ entry[c] \in Entries
    <3>1. caller[c].owner \in Owners /\ Locked(caller[c].op)
      BY <1>0, <1>2 DEF TakeToken, CallersInStep
    <3>2. entry[c] # NoEntry
      BY <1>2, <3>1 DEF TakeToken, LocksInStep
    <3>3. QED
      BY <3>1, <3>2 DEF TypeOK
  <2>2. CASE closed[caller[c].owner]
    BY <1>2, <2>1, <2>2, ReturnEffect DEF TakeToken, TypeOK
  <2>3. CASE ~closed[caller[c].owner]
    <3> DEFINE p == IF Keyed(caller[c].op) THEN "reuse" ELSE "begin"
    <3>1. p \in Labels /\ caller' = [caller EXCEPT ![c].pc = p]
      BY <1>2, <2>3 DEF TakeToken, Labels
    <3> HIDE DEF p
    <3>2. caller' \in [Callers -> CallerState]
      BY <3>1, PcEffect
    <3>3. QED
      BY <1>2, <2>1, <2>3, <3>2 DEF TakeToken, TypeOK
  <2>4. QED
    BY <2>2, <2>3
<1>3. CASE StopWaiting(c)
  BY <1>3, ReturnEffect DEF StopWaiting, TypeOK
<1>4. CASE Reuse(c)
  <2>1. caller[c].owner \in Owners
    BY <1>0, <1>4 DEF Reuse
  <2>2. caller' \in [Callers -> CallerState] /\ token' \in [Entries -> Callers \cup {None}]
    <3>1. CASE Return(c)
      BY <3>1, ReturnEffect
    <3>2. CASE Goto(c, "begin")
      BY <3>2, PcEffect DEF Goto, Labels, TypeOK
    <3>3. QED
      BY <1>4, <3>1, <3>2 DEF Reuse
  <2>3. shared' \in [Owners -> SUBSET (Callers \X Sessions)]
        /\ lease' \in [Callers -> MaybeSession]
    <3>1. CASE UNCHANGED <<shared, lease>>
      BY <3>1 DEF TypeOK
    <3>2. CASE Reusable(c) /\ NewLease(c, current[caller[c].owner])
      <4>1. current[caller[c].owner] \in Sessions
        BY <2>1, <3>2 DEF Reusable, IsCurrent, TypeOK, MaybeSession
      <4>2. QED
        BY <2>1, <3>2, <4>1, NewLeaseTypes
    <3>3. QED
      BY <1>4, <3>1, <3>2 DEF Reuse
  <2>4. QED
    BY <1>4, <2>2, <2>3 DEF Reuse, TypeOK
<1>5. CASE BeginEndpointGeneration(c)
  <2> DEFINE o == caller[c].owner
  <2>1. o \in Owners
    BY <1>0, <1>5 DEF BeginEndpointGeneration
  <2>2. CASE Return(c) /\ UNCHANGED <<generation, authCurrent, current, config,
                                      shared, madeFor, cleanup>>
    BY <1>5, <2>2, ReturnEffect DEF BeginEndpointGeneration, TypeOK
  <2>3. CASE /\ ~closed[o] /\ ~Exhausted /\ BeginSection(c) /\ UNCHANGED token
             /\ \E plan \in IF caller[c].route # None THEN {{caller[c].route}}
                            ELSE {{x} : x \in Routes} \cup {Routes} :
                   caller' = [caller EXCEPT ![c].pc = "retire", ![c].plan = plan,
                                            ![c].generation = generation + 1]
    <3>1. generation + 1 \in 0 .. MaxGeneration
      <4>1. generation \in 0 .. MaxGeneration /\ generation # MaxGeneration
        BY <2>3 DEF Exhausted, TypeOK
      <4>2. QED
        BY <4>1, OwnerAssumption
    <3>2. (IF caller[c].route # None THEN {{caller[c].route}}
           ELSE {{x} : x \in Routes} \cup {Routes}) \subseteq SUBSET Routes
      OBVIOUS
    <3>3. caller' \in [Callers -> CallerState]
      BY <2>3, <3>1, <3>2, BeginEffect
    <3>4. cleanup' \in [Callers -> Work]
      <4>1. (IF authCurrent # NoSession THEN authCurrent ELSE current[o])
              \in MaybeSession /\ shared[o] \in SUBSET (Callers \X Sessions)
        BY <2>1 DEF TypeOK
      <4>2. QED
        BY <2>3, <4>1, WorkTypes DEF BeginSection
    <3>5. QED
      BY <1>5, <2>1, <2>3, <3>1, <3>3, <3>4
         DEF BeginEndpointGeneration, BeginSection, TypeOK, MaybeSession
  <2>4. QED
    BY <1>5, <2>2, <2>3 DEF BeginEndpointGeneration
<1>6. CASE Retire(c)
  <2>1. cleanup' \in [Callers -> Work]
    BY <1>6, CleanupTypes DEF Retire
  <2>2. caller' \in [Callers -> CallerState] /\ token' \in [Entries -> Callers \cup {None}]
    <3>1. CASE Return(c)
      BY <3>1, ReturnEffect
    <3>2. CASE Goto(c, "race")
      BY <3>2, PcEffect DEF Goto, Labels, TypeOK
    <3>3. QED
      BY <1>6, <3>1, <3>2 DEF Retire
  <2>3. lease' \in [Callers -> MaybeSession]
        /\ shared' \in [Owners -> SUBSET (Callers \X Sessions)]
    BY <1>6 DEF Retire
  <2>4. session' \in [Sessions -> {"none", "dialling", "ready", "late", "open", "done"}]
    BY <1>6 DEF Retire
  <2>5. QED
    BY <1>6, <2>1, <2>2, <2>3, <2>4 DEF Retire, TypeOK
<1>7. CASE Winner(c)
  <2>1. PICK s \in Attempts(c) :
          \/ /\ session' = [x \in Sessions |->
                    IF x = s THEN "open"
                    ELSE IF x \in Attempts(c) THEN Drained(x) ELSE session[x]]
             /\ caller' = [caller EXCEPT ![c].pc = "adopt", ![c].won = s]
             /\ UNCHANGED token
          \/ /\ session' = [x \in Sessions |->
                    IF x = s THEN "done"
                    ELSE IF x \in Attempts(c) THEN Drained(x) ELSE session[x]]
             /\ Return(c)
    BY <1>7 DEF Winner
  <2>2. s \in Sessions
    BY DEF Attempts
  <2>3. session' \in [Sessions -> {"none", "dialling", "ready", "late", "open", "done"}]
    BY <2>1 DEF TypeOK, Drained
  <2>4. caller' \in [Callers -> CallerState] /\ token' \in [Entries -> Callers \cup {None}]
    BY <2>1, <2>2, WinEffect, ReturnEffect DEF TypeOK
  <2>5. QED
    BY <1>7, <2>3, <2>4 DEF Winner, TypeOK
<1>8. CASE NoWinner(c)
  BY <1>8, ReturnEffect DEF NoWinner, TypeOK
<1>9. CASE Adopt(c)
  <2> DEFINE o == caller[c].owner
  <2>1. o \in Owners /\ caller[c].won \in Sessions
    BY <1>0, <1>9 DEF Adopt, CallersInStep, Attempts
  <2>2. caller' \in [Callers -> CallerState] /\ token' \in [Entries -> Callers \cup {None}]
    <3>1. CASE Return(c)
      BY <3>1, ReturnEffect
    <3>2. CASE Goto(c, "project")
      BY <3>2, PcEffect DEF Goto, Labels, TypeOK
    <3>3. CASE Goto(c, "file")
      BY <3>3, PcEffect DEF Goto, Labels, TypeOK
    <3>4. Return(c) \/ Goto(c, "project") \/ Goto(c, "file")
      BY <1>9 DEF Adopt
    <3>5. QED
      BY <3>1, <3>2, <3>3, <3>4
  <2>3. CASE Adoptable(c)
    BY <1>9, <2>1, <2>2, <2>3 DEF Adopt, TypeOK, MaybeSession
  <2>4. CASE ~Adoptable(c)
    BY <1>9, <2>1, <2>2, <2>4 DEF Adopt, TypeOK, MaybeSession
  <2>5. QED
    BY <2>3, <2>4
<1>10. CASE Project(c)
  <2>2. caller' \in [Callers -> CallerState] /\ token' \in [Entries -> Callers \cup {None}]
    <3>1. CASE Return(c)
      BY <3>1, ReturnEffect
    <3>2. CASE Goto(c, "file")
      BY <3>2, PcEffect DEF Goto, Labels, TypeOK
    <3>3. QED
      BY <1>10, <3>1, <3>2 DEF Project
  <2>3. QED
    BY <1>10, <2>2 DEF Project, TypeOK
<1>11. CASE File(c)
  <2>1. caller[c].owner \in Owners /\ caller[c].won \in Sessions
    BY <1>0, <1>11 DEF File, CallersInStep, Attempts
  <2>2. shared' \in [Owners -> SUBSET (Callers \X Sessions)]
        /\ lease' \in [Callers -> MaybeSession]
    <3>1. CASE UNCHANGED <<shared, lease>>
      BY <3>1 DEF TypeOK
    <3>2. CASE NewLease(c, caller[c].won)
      BY <2>1, <3>2, NewLeaseTypes
    <3>3. QED
      BY <1>11, <3>1, <3>2 DEF File
  <2>3. caller' \in [Callers -> CallerState] /\ token' \in [Entries -> Callers \cup {None}]
    BY <1>11, ReturnEffect DEF File
  <2>4. QED
    BY <1>11, <2>1, <2>2, <2>3 DEF File, TypeOK
<1>12. CASE LeaseFollows(c)
  BY <1>12 DEF LeaseFollows, TypeOK, MaybeSession
<1>13. CASE CloseLease(c)
  BY <1>13 DEF CloseLease, TypeOK, MaybeSession
<1>14. CASE Release(c)
  <2>1. /\ entry[c] \in Entries /\ entry[c][1] \in Owners /\ refs[entry[c]] - 1 \in Nat
    BY <1>14, ReleaseEffect
  <2>2. /\ acquireLocks' \in [Owners -> Entries \cup {NoEntry}]
        /\ refs' \in [Entries -> Nat]
        /\ entry' \in [Callers -> Entries \cup {NoEntry}]
    BY <1>14, <2>1 DEF Release, TypeOK
  <2>3. QED
    BY <1>14, <2>2 DEF Release, TypeOK
<1>15. QED
  BY <1>1, <1>2, <1>3, <1>4, <1>5, <1>6, <1>7, <1>8, <1>9, <1>10, <1>11, <1>12,
     <1>13, <1>14 DEF CallerStep

\* So do the steps of sessions and owners.
LEMMA OtherTypes ==
    ASSUME TypeOK,
           \/ \E s \in Sessions : \/ DialEnds(s) \/ DialFails(s) \/ CloseLate(s)
                                  \/ SessionDies(s) \/ RemoveWhenDone(s)
           \/ \E o \in Owners : \/ Disconnect(o) \/ CloseOwner(o) \/ FinishCleanup(o)
    PROVE  TypeOK'
<1> USE NoSessionIsNone, HelperTypes DEF lockVars
<1>1. ASSUME NEW s \in Sessions,
             DialEnds(s) \/ DialFails(s) \/ CloseLate(s) \/ SessionDies(s)
      PROVE  TypeOK'
  BY <1>1 DEF DialEnds, DialFails, CloseLate, SessionDies, TypeOK
<1>2. ASSUME NEW s \in Sessions, RemoveWhenDone(s) PROVE TypeOK'
  <2>1. watched[s] \in Owners
    BY <1>2 DEF RemoveWhenDone, TypeOK
  <2>2. closing' \in [Owners -> SUBSET Work]
    BY <1>2, <2>1, LaterEffect DEF RemoveWhenDone, MaybeSession
  <2>3. QED
    BY <1>2, <2>1, <2>2 DEF RemoveWhenDone, TypeOK, MaybeSession
<1>3. ASSUME NEW o \in Owners, Disconnect(o) PROVE TypeOK'
  <2>1. /\ current[o] \in MaybeSession /\ {} \in SUBSET (Callers \X Sessions)
        /\ LeasesOn(o, current[o]) \in SUBSET (Callers \X Sessions)
    BY DEF TypeOK
  <2>2. closing' \in [Owners -> SUBSET Work]
    BY <1>3, <2>1, LaterEffect DEF Disconnect
  <2>3. config' \in [Owners -> Keys \cup {None}]
        /\ shared' \in [Owners -> SUBSET (Callers \X Sessions)]
    BY <1>3 DEF Disconnect, TypeOK
  <2>4. QED
    BY <1>3, <2>2, <2>3 DEF Disconnect, TypeOK, MaybeSession
<1>4. ASSUME NEW o \in Owners, CloseOwner(o) PROVE TypeOK'
  <2>1. current[o] \in MaybeSession /\ shared[o] \in SUBSET (Callers \X Sessions)
    BY DEF TypeOK
  <2>2. closing' \in [Owners -> SUBSET Work]
    BY <1>4, <2>1, LaterEffect DEF CloseOwner
  <2>3. QED
    BY <1>4, <2>2 DEF CloseOwner, TypeOK, MaybeSession
<1>5. ASSUME NEW o \in Owners, FinishCleanup(o) PROVE TypeOK'
  BY <1>5 DEF FinishCleanup, TypeOK
<1>6. QED
  BY <1>1, <1>2, <1>3, <1>4, <1>5

-----------------------------------------------------------------------------
(* Callers, and the token of the endpoint.                                 *)

\* A call that returns leaves the other callers in step, if nothing is left to
\* clean up for it.
LEMMA ReturnInStep ==
    ASSUME TypeOK, CallersInStep, NEW c \in Callers, Return(c),
           cleanup'[c] = NoWork,
           \A d \in Callers \ {c} : cleanup'[d] = cleanup[d]
    PROVE  CallersInStep'
<1>1. /\ caller'[c].pc = "idle"
      /\ \A d \in Callers \ {c} : caller'[d] = caller[d]
  BY ReturnEffect
<1>2. QED
  BY <1>1 DEF CallersInStep, Attempts, Locked, Keyed

\* So does one that goes on, if its locals fit where it goes.
LEMMA GotoInStep ==
    ASSUME TypeOK, CallersInStep, NEW c \in Callers, NEW p \in Labels \ {"idle", "acquire"},
           caller' = [caller EXCEPT ![c].pc = p],
           caller[c].pc # "idle",
           p = "reuse" => Keyed(caller[c].op),
           p \in {"race", "adopt", "project", "file"} =>
              caller[c].op # "BeginRouteAttempts",
           p \in {"project", "file"} => Keyed(caller[c].op),
           p \in {"adopt", "project", "file"} => caller[c].won \in Attempts(c),
           p # "retire" => cleanup'[c] = NoWork,
           \A d \in Callers \ {c} : cleanup'[d] = cleanup[d]
    PROVE  CallersInStep'
<1>1. /\ caller'[c].pc = p /\ caller'[c].op = caller[c].op
      /\ caller'[c].owner = caller[c].owner
      /\ caller'[c].generation = caller[c].generation
      /\ caller'[c].won = caller[c].won
      /\ \A d \in Callers \ {c} : caller'[d] = caller[d]
  BY PcEffect
<1>2. QED
  BY <1>1 DEF CallersInStep, Attempts, Locked, Keyed

\* Every step keeps the callers in step.
LEMMA CallersStep ==
    ASSUME TypeOK, CallersInStep, Next
    PROVE  CallersInStep'
<1>0. ASSUME NEW c \in Callers, UNCHANGED cleanup, caller[c].pc # "retire"
      PROVE  cleanup'[c] = NoWork /\ \A d \in Callers \ {c} : cleanup'[d] = cleanup[d]
  BY <1>0 DEF CallersInStep
<1>1. ASSUME NEW c \in Callers, Start(c) PROVE CallersInStep'
  <2>1. cleanup'[c] = NoWork /\ \A d \in Callers \ {c} : cleanup'[d] = cleanup[d]
    BY <1>0, <1>1 DEF Start
  <2>2. /\ \A d \in Callers \ {c} : caller'[d] = caller[d]
        /\ caller'[c].op \in EntryPoints /\ caller'[c].owner \in Owners
        /\ <<c, caller'[c].owner, caller'[c].op>> \in Calls
        /\ caller'[c].pc = IF Locked(caller'[c].op) THEN "acquire" ELSE "begin"
    BY <1>1, StartEffect
  <2>3. QED
    BY <2>1, <2>2 DEF CallersInStep, Attempts, Locked, Keyed
<1>2. ASSUME NEW c \in Callers, TakeToken(c) PROVE CallersInStep'
  <2>1. cleanup'[c] = NoWork /\ \A d \in Callers \ {c} : cleanup'[d] = cleanup[d]
    BY <1>0, <1>2 DEF TakeToken
  <2>2. CASE Return(c)
    BY <2>1, <2>2, ReturnInStep
  <2>3. CASE ~Return(c)
    <3> DEFINE p == IF Keyed(caller[c].op) THEN "reuse" ELSE "begin"
    <3>1. p \in Labels \ {"idle", "acquire"} /\ caller' = [caller EXCEPT ![c].pc = p]
      BY <1>2, <2>3 DEF TakeToken, Labels
    <3>2. p \in {"reuse", "begin"} /\ (p = "reuse" => Keyed(caller[c].op))
      OBVIOUS
    <3>3. caller[c].pc # "idle"
      BY <1>2 DEF TakeToken
    <3> HIDE DEF p
    <3>4. QED
      BY <2>1, <3>1, <3>2, <3>3, GotoInStep
  <2>4. QED
    BY <2>2, <2>3
<1>3. ASSUME NEW c \in Callers, StopWaiting(c) PROVE CallersInStep'
  BY <1>0, <1>3, ReturnInStep DEF StopWaiting
<1>4. ASSUME NEW c \in Callers, Reuse(c) PROVE CallersInStep'
  <2>1. cleanup'[c] = NoWork /\ \A d \in Callers \ {c} : cleanup'[d] = cleanup[d]
    BY <1>0, <1>4 DEF Reuse
  <2>2. CASE Return(c)
    BY <2>1, <2>2, ReturnInStep
  <2>3. CASE Goto(c, "begin")
    <3>1. caller[c].pc # "idle"
      BY <1>4 DEF Reuse
    <3>2. "begin" \in Labels \ {"idle", "acquire"}
      BY DEF Labels
    <3>3. caller' = [caller EXCEPT ![c].pc = "begin"]
      BY <2>3 DEF Goto
    <3>4. QED
      BY <2>1, <3>1, <3>2, <3>3, GotoInStep
  <2>4. QED
    BY <1>4, <2>2, <2>3 DEF Reuse
<1>5. ASSUME NEW c \in Callers, BeginEndpointGeneration(c) PROVE CallersInStep'
  <2>1. CASE Return(c) /\ UNCHANGED cleanup
    BY <1>0, <1>5, <2>1, ReturnInStep DEF BeginEndpointGeneration
  <2>2. CASE ~(Return(c) /\ UNCHANGED cleanup)
    <3>1. /\ caller'[c].pc = "retire" /\ caller'[c].op = caller[c].op
          /\ caller'[c].owner = caller[c].owner
          /\ \A d \in Callers \ {c} : caller'[d] = caller[d]
      <4>1. PICK plan \in IF caller[c].route # None THEN {{caller[c].route}}
                          ELSE {{x} : x \in Routes} \cup {Routes} :
               caller' = [caller EXCEPT ![c].pc = "retire", ![c].plan = plan,
                                        ![c].generation = generation + 1]
        BY <1>5, <2>2 DEF BeginEndpointGeneration
      <4>2. plan \in SUBSET Routes
        BY <4>1, Locals
      <4>3. generation \in 0 .. MaxGeneration /\ generation # MaxGeneration
        BY <1>5, <2>2 DEF BeginEndpointGeneration, Exhausted, TypeOK
      <4>4. generation + 1 \in 0 .. MaxGeneration
        BY <4>3, OwnerAssumption
      <4>5. QED
        BY <4>1, <4>2, <4>4, BeginEffect
    <3>2. \A d \in Callers \ {c} : cleanup'[d] = cleanup[d]
      BY <1>5, <2>2 DEF BeginEndpointGeneration, BeginSection, TypeOK
    <3>3. caller[c].pc = "begin"
      BY <1>5 DEF BeginEndpointGeneration
    <3>4. QED
      BY <3>1, <3>2, <3>3 DEF CallersInStep, Attempts, Locked, Keyed
  <2>3. QED
    BY <2>1, <2>2
<1>6. ASSUME NEW c \in Callers, Retire(c) PROVE CallersInStep'
  <2>1. cleanup'[c] = NoWork /\ \A d \in Callers \ {c} : cleanup'[d] = cleanup[d]
    BY <1>6 DEF Retire, TypeOK
  <2>2. CASE caller[c].op = "BeginRouteAttempts"
    BY <1>6, <2>1, <2>2, ReturnInStep DEF Retire
  <2>3. CASE caller[c].op # "BeginRouteAttempts"
    BY <1>6, <2>1, <2>3, GotoInStep DEF Retire, Goto, Labels
  <2>4. QED
    BY <2>2, <2>3
<1>7. ASSUME NEW c \in Callers, Winner(c) PROVE CallersInStep'
  <2>1. cleanup'[c] = NoWork /\ \A d \in Callers \ {c} : cleanup'[d] = cleanup[d]
    BY <1>0, <1>7 DEF Winner
  <2>2. CASE Return(c)
    BY <2>1, <2>2, ReturnInStep
  <2>3. ASSUME NEW s \in Attempts(c),
               caller' = [caller EXCEPT ![c].pc = "adopt", ![c].won = s]
        PROVE  CallersInStep'
    <3>1. s \in Sessions /\ caller[c].pc = "race"
      BY <1>7 DEF Attempts, Winner
    <3>2. /\ caller'[c].pc = "adopt" /\ caller'[c].op = caller[c].op
          /\ caller'[c].owner = caller[c].owner
          /\ caller'[c].generation = caller[c].generation
          /\ caller'[c].won = s
          /\ \A d \in Callers \ {c} : caller'[d] = caller[d]
      BY <2>3, <3>1, WinEffect
    <3>3. QED
      BY <2>1, <3>1, <3>2 DEF CallersInStep, Attempts, Locked, Keyed
  <2>4. QED
    BY <1>7, <2>2, <2>3 DEF Winner
<1>8. ASSUME NEW c \in Callers, NoWinner(c) PROVE CallersInStep'
  BY <1>0, <1>8, ReturnInStep DEF NoWinner
<1>9. ASSUME NEW c \in Callers, Adopt(c) PROVE CallersInStep'
  <2>1. cleanup'[c] = NoWork /\ \A d \in Callers \ {c} : cleanup'[d] = cleanup[d]
    BY <1>0, <1>9 DEF Adopt
  <2>2. CASE Return(c)
    BY <2>1, <2>2, ReturnInStep
  <2>3. caller[c].won \in Attempts(c) /\ caller[c].pc = "adopt"
        /\ caller[c].op # "BeginRouteAttempts"
    BY <1>9 DEF Adopt, CallersInStep
  <2>4. CASE Leased(caller[c].op) /\ Goto(c, "project")
    <3>1. Keyed(caller[c].op)
      BY <2>4 DEF Leased, Keyed
    <3>2. QED
      BY <2>1, <2>3, <2>4, <3>1, GotoInStep DEF Goto, Labels
  <2>5. CASE caller[c].op = "EnsurePlanned" /\ Goto(c, "file")
    <3>1. Keyed(caller[c].op)
      BY <2>5 DEF Keyed
    <3>2. QED
      BY <2>1, <2>3, <2>5, <3>1, GotoInStep DEF Goto, Labels
  <2>6. QED
    BY <1>9, <2>2, <2>4, <2>5 DEF Adopt
<1>10. ASSUME NEW c \in Callers, Project(c) PROVE CallersInStep'
  <2>1. cleanup'[c] = NoWork /\ \A d \in Callers \ {c} : cleanup'[d] = cleanup[d]
    BY <1>0, <1>10 DEF Project
  <2>2. CASE Return(c)
    BY <2>1, <2>2, ReturnInStep
  <2>3. CASE Goto(c, "file")
    <3>1. caller[c].won \in Attempts(c) /\ caller[c].pc = "project"
          /\ caller[c].op # "BeginRouteAttempts" /\ Keyed(caller[c].op)
      BY <1>10 DEF Project, CallersInStep
    <3>2. QED
      BY <2>1, <2>3, <3>1, GotoInStep DEF Goto, Labels
  <2>4. QED
    BY <1>10, <2>2, <2>3 DEF Project
<1>11. ASSUME NEW c \in Callers, File(c) PROVE CallersInStep'
  BY <1>0, <1>11, ReturnInStep DEF File
<1>12. ASSUME UNCHANGED <<caller, cleanup>> PROVE CallersInStep'
  BY <1>12 DEF CallersInStep, Attempts
<1>13. ASSUME NEW o \in Owners, Disconnect(o) \/ CloseOwner(o) \/ FinishCleanup(o)
       PROVE  CallersInStep'
  BY <1>12, <1>13 DEF Disconnect, CloseOwner, FinishCleanup
<1>14. ASSUME NEW c \in Callers, LeaseFollows(c) \/ CloseLease(c) \/ Release(c)
       PROVE  CallersInStep'
  BY <1>12, <1>14 DEF LeaseFollows, CloseLease, Release
<1>15. ASSUME NEW s \in Sessions,
              \/ DialEnds(s) \/ DialFails(s) \/ CloseLate(s) \/ SessionDies(s)
              \/ RemoveWhenDone(s)
       PROVE  CallersInStep'
  BY <1>12, <1>15 DEF DialEnds, DialFails, CloseLate, SessionDies, RemoveWhenDone
<1>16. QED
  BY <1>1, <1>2, <1>3, <1>4, <1>5, <1>6, <1>7, <1>8, <1>9, <1>10, <1>11,
     <1>13, <1>14, <1>15 DEF Next, CallerStep

\* The call of c returns, or it goes on at p with a generation g; nobody else
\* moves.
Returned(c) ==
    /\ caller'[c].pc = "idle"
    /\ \A d \in Callers \ {c} : caller'[d] = caller[d]
    /\ \A e \in Entries : token'[e] = IF token[e] = c THEN None ELSE token[e]
GoesOn(c, p, g) ==
    /\ caller'[c].pc = p
    /\ caller'[c].op = caller[c].op
    /\ caller'[c].owner = caller[c].owner
    /\ caller'[c].key = caller[c].key
    /\ caller'[c].generation = g
    /\ \A d \in Callers \ {c} : caller'[d] = caller[d]
    /\ UNCHANGED token

\* Return and Goto are of these two forms.
LEMMA Moves ==
    ASSUME TypeOK, NEW c \in Callers
    PROVE  /\ Return(c) => Returned(c)
           /\ \A p \in Labels : Goto(c, p) => GoesOn(c, p, caller[c].generation)
           /\ \A p \in Labels : Goto(c, p) => caller'[c].won = caller[c].won
<1>1. Return(c) => Returned(c)
  BY ReturnEffect DEF Returned
<1>2. ASSUME NEW p \in Labels, Goto(c, p)
      PROVE  GoesOn(c, p, caller[c].generation) /\ caller'[c].won = caller[c].won
  BY <1>2, PcEffect DEF Goto, GoesOn
<1>3. QED
  BY <1>1, <1>2

\* The first critical section reuses a session or goes on to dial one.
LEMMA ReuseMoves ==
    ASSUME TypeOK, NEW c \in Callers, Reuse(c)
    PROVE  /\ caller[c].pc = "reuse"
           /\ Returned(c) \/ GoesOn(c, "begin", caller[c].generation)
<1>1. Return(c) \/ Goto(c, "begin")
  BY DEF Reuse
<1>2. QED
  BY <1>1, Moves DEF Reuse, Labels

\* beginEndpointGeneration refuses the call, or gives it the next generation.
LEMMA BeginMoves ==
    ASSUME TypeOK, NEW c \in Callers, BeginEndpointGeneration(c)
    PROVE  /\ caller[c].pc = "begin"
           /\ UNCHANGED <<closed, acquireLocks, refs, entry, session, watched, lease,
                          closing>>
           /\ \/ /\ Returned(c)
                 /\ UNCHANGED <<generation, authCurrent, current, config, shared,
                                madeFor, cleanup>>
              \/ /\ ~closed[caller[c].owner]
                 /\ generation + 1 \in 1 .. MaxGeneration
                 /\ BeginSection(c)
                 /\ GoesOn(c, "retire", generation + 1)
<1>1. CASE Return(c) /\ UNCHANGED <<generation, authCurrent, current, config,
                                    shared, madeFor, cleanup>>
  BY <1>1, Moves DEF BeginEndpointGeneration, lockVars
<1>2. CASE ~(Return(c) /\ UNCHANGED <<generation, authCurrent, current, config,
                                      shared, madeFor, cleanup>>)
  <2>1. PICK plan \in IF caller[c].route # None THEN {{caller[c].route}}
                      ELSE {{x} : x \in Routes} \cup {Routes} :
               caller' = [caller EXCEPT ![c].pc = "retire", ![c].plan = plan,
                                        ![c].generation = generation + 1]
    BY <1>2 DEF BeginEndpointGeneration
  <2>2. plan \in SUBSET Routes
    BY <2>1, Locals
  <2>3. generation \in 0 .. MaxGeneration /\ generation # MaxGeneration
    BY <1>2 DEF BeginEndpointGeneration, Exhausted, TypeOK
  <2>4. generation + 1 \in 0 .. MaxGeneration /\ generation + 1 \in 1 .. MaxGeneration
    BY <2>3, OwnerAssumption
  <2>5. GoesOn(c, "retire", generation + 1)
    <3>1. UNCHANGED token
      BY <1>2 DEF BeginEndpointGeneration
    <3>2. /\ caller'[c].pc = "retire"
          /\ caller'[c].op = caller[c].op
          /\ caller'[c].owner = caller[c].owner
          /\ caller'[c].key = caller[c].key
          /\ caller'[c].generation = generation + 1
          /\ \A d \in Callers \ {c} : caller'[d] = caller[d]
      BY <2>1, <2>2, <2>4, BeginEffect
    <3>3. QED
      BY <3>1, <3>2 DEF GoesOn
  <2>6. QED
    BY <1>2, <2>4, <2>5 DEF BeginEndpointGeneration, lockVars
<1>3. QED
  BY <1>1, <1>2

\* After the retirement the plan is raced, unless the caller dials by itself.
LEMMA RetireMoves ==
    ASSUME TypeOK, NEW c \in Callers, Retire(c)
    PROVE  /\ caller[c].pc = "retire"
           /\ IF caller[c].op = "BeginRouteAttempts" THEN Returned(c)
              ELSE GoesOn(c, "race", caller[c].generation)
<1>1. "race" \in Labels
  BY DEF Labels
<1>2. QED
  BY <1>1, Moves DEF Retire

\* A ready attempt is taken over or, after a cancellation, closed; the others
\* are drained.
LEMMA WinnerMoves ==
    ASSUME TypeOK, NEW c \in Callers, Winner(c)
    PROVE  /\ caller[c].pc = "race"
           /\ UNCHANGED <<generation, authCurrent, current, config, closed,
                          shared, watched, madeFor, lease, cleanup, closing>>
           /\ \E s \in Attempts(c) :
                 /\ session[s] = "ready"
                 /\ \/ /\ session' = [x \in Sessions |->
                              IF x = s THEN "open"
                              ELSE IF x \in Attempts(c) THEN Drained(x)
                              ELSE session[x]]
                       /\ GoesOn(c, "adopt", caller[c].generation)
                       /\ caller'[c].won = s
                    \/ /\ session' = [x \in Sessions |->
                              IF x = s THEN "done"
                              ELSE IF x \in Attempts(c) THEN Drained(x)
                              ELSE session[x]]
                       /\ Returned(c)
<1>1. \A s \in Attempts(c) : s \in Sessions
  BY DEF Attempts
<1>2. ASSUME NEW s \in Attempts(c), UNCHANGED token,
             caller' = [caller EXCEPT ![c].pc = "adopt", ![c].won = s]
      PROVE  GoesOn(c, "adopt", caller[c].generation) /\ caller'[c].won = s
  BY <1>1, <1>2, WinEffect DEF GoesOn
<1>3. Return(c) => Returned(c)
  BY Moves
<1>4. QED
  BY <1>2, <1>3 DEF Winner

\* Only an adopted session is projected or stored.
LEMMA AdoptMoves ==
    ASSUME TypeOK, NEW c \in Callers, Adopt(c)
    PROVE  /\ caller[c].pc = "adopt"
           /\ \/ Returned(c)
              \/ /\ Adoptable(c)
                 /\ Leased(caller[c].op)
                 /\ GoesOn(c, "project", caller[c].generation)
                 /\ caller'[c].won = caller[c].won
              \/ /\ Adoptable(c)
                 /\ caller[c].op = "EnsurePlanned"
                 /\ GoesOn(c, "file", caller[c].generation)
                 /\ caller'[c].won = caller[c].won
<1>1. \/ Return(c)
      \/ Adoptable(c) /\ Leased(caller[c].op) /\ Goto(c, "project")
      \/ Adoptable(c) /\ caller[c].op = "EnsurePlanned" /\ Goto(c, "file")
  <2>1. CASE Leased(caller[c].op)
    BY <2>1 DEF Adopt, Leased
  <2>2. CASE caller[c].op = "EnsurePlanned"
    BY <2>2 DEF Adopt, Leased
  <2>3. CASE ~Leased(caller[c].op) /\ caller[c].op # "EnsurePlanned"
    BY <2>3 DEF Adopt
  <2>4. QED
    BY <2>1, <2>2, <2>3
<1>2. "project" \in Labels /\ "file" \in Labels
  BY DEF Labels
<1>3. caller[c].pc = "adopt"
  BY DEF Adopt
<1>4. QED
  BY <1>1, <1>2, <1>3, Moves

\* The projection refuses the session or goes on to store its key.
LEMMA ProjectMoves ==
    ASSUME TypeOK, NEW c \in Callers, Project(c)
    PROVE  /\ caller[c].pc = "project"
           /\ Returned(c) \/ GoesOn(c, "file", caller[c].generation)
<1>1. Return(c) \/ Goto(c, "file")
  BY DEF Project
<1>2. QED
  BY <1>1, Moves DEF Project, Labels

\* What a step says of the lock entries that returns or goes on past the token.
KeepsEntries(c) ==
    /\ UNCHANGED <<acquireLocks, refs, entry>>
    /\ \/ Returned(c)
       \/ /\ caller[c].pc \notin {"idle", "acquire"}
          /\ \E p \in Labels \ {"idle", "acquire"} : \E g : GoesOn(c, p, g)

\* Such a step keeps the entries in step.
LEMMA LockMoves ==
    ASSUME TypeOK, LocksInStep, NEW c \in Callers, KeepsEntries(c)
    PROVE  LocksInStep'
<1>1. token \in [Entries -> Callers \cup {None}] /\ None \notin Callers
  BY OwnerAssumption DEF TypeOK
<1>2. UNCHANGED <<acquireLocks, refs, entry>>
  BY DEF KeepsEntries
<1>3. /\ \A d \in Callers \ {c} : caller'[d] = caller[d]
      /\ caller'[c].pc # "idle" => /\ caller[c].pc # "idle"
                                   /\ caller'[c].op = caller[c].op
                                   /\ caller'[c].owner = caller[c].owner
  BY DEF KeepsEntries, Returned, GoesOn
<1>4. \A d \in Callers : caller'[d].pc # "idle" /\ Locked(caller'[d].op) =>
         entry'[d] # NoEntry /\ entry'[d][1] = caller'[d].owner
  BY <1>2, <1>3 DEF LocksInStep
<1>5. ASSUME NEW e \in Entries, NEW d \in Callers
      PROVE  token'[e] = d <=> Inside(d)' /\ entry'[d] = e
  <2>0. token[e] = d <=> Inside(d) /\ entry[d] = e
    BY DEF LocksInStep
  <2>1. d # c => (Inside(d)' <=> Inside(d))
    BY <1>3 DEF Inside
  <2>2. CASE Returned(c)
    <3>1. token'[e] = (IF token[e] = c THEN None ELSE token[e]) /\ caller'[c].pc = "idle"
      BY <2>2 DEF Returned
    <3>2. ~Inside(c)'
      BY <3>1 DEF Inside
    <3>3. QED
      BY <1>1, <1>2, <2>0, <2>1, <3>1, <3>2
  <2>3. CASE ~Returned(c)
    <3>1. UNCHANGED token /\ (Inside(c)' <=> Inside(c))
      BY <2>3 DEF KeepsEntries, GoesOn, Inside
    <3>2. QED
      BY <1>2, <2>0, <2>1, <3>1
  <2>4. QED
    BY <2>2, <2>3
<1>6. \A d \in Callers : entry'[d] # NoEntry => acquireLocks'[entry'[d][1]] = entry'[d]
  BY <1>2 DEF LocksInStep
<1>7. \A e \in Entries : refs'[e] = Cardinality({d \in Callers : entry'[d] = e})
  BY <1>2 DEF LocksInStep
<1>8. \A o \in Owners : acquireLocks'[o] # NoEntry =>
          /\ acquireLocks'[o][1] = o
          /\ \E d \in Callers : entry'[d] = acquireLocks'[o]
  BY <1>2 DEF LocksInStep
<1>9. QED
  BY <1>4, <1>5, <1>6, <1>7, <1>8 DEF LocksInStep

\* A call that begins adds its reference.
LEMMA ReferLocks ==
    ASSUME TypeOK, LocksInStep, NEW c \in Callers, Start(c)
    PROVE  LocksInStep'
<1>0. /\ \A d \in Callers \ {c} : caller'[d] = caller[d]
      /\ caller'[c].op \in EntryPoints /\ caller'[c].owner \in Owners
      /\ caller'[c].pc = IF Locked(caller'[c].op) THEN "acquire" ELSE "begin"
      /\ caller[c].pc = "idle" /\ entry[c] = NoEntry
      /\ IF Locked(caller'[c].op) THEN Refer(c, caller'[c].owner)
         ELSE UNCHANGED <<acquireLocks, refs, entry, token>>
  BY StartEffect
<1>1. \A d \in Callers : Inside(d)' <=> Inside(d)
  BY <1>0 DEF Inside
<1>2. CASE ~Locked(caller'[c].op)
  <2>1. UNCHANGED <<acquireLocks, refs, entry, token>>
    BY <1>0, <1>2
  <2>2. \A d \in Callers : caller'[d].pc # "idle" /\ Locked(caller'[d].op) =>
           entry'[d] # NoEntry /\ entry'[d][1] = caller'[d].owner
    BY <1>0, <1>2, <2>1 DEF LocksInStep
  <2>3. \A e \in Entries, d \in Callers : token'[e] = d <=> Inside(d)' /\ entry'[d] = e
    <3> SUFFICES ASSUME NEW e \in Entries, NEW d \in Callers
                 PROVE  token'[e] = d <=> Inside(d)' /\ entry'[d] = e
      OBVIOUS
    <3>1. token[e] = d <=> Inside(d) /\ entry[d] = e
      BY DEF LocksInStep
    <3>2. Inside(d)' <=> Inside(d)
      BY <1>1
    <3>3. QED
      BY <2>1, <3>1, <3>2
  <2>4. /\ \A d \in Callers :
              entry'[d] # NoEntry => acquireLocks'[entry'[d][1]] = entry'[d]
        /\ \A e \in Entries : refs'[e] = Cardinality({d \in Callers : entry'[d] = e})
        /\ \A o \in Owners : acquireLocks'[o] # NoEntry =>
              /\ acquireLocks'[o][1] = o
              /\ \E d \in Callers : entry'[d] = acquireLocks'[o]
    BY <2>1 DEF LocksInStep
  <2>5. QED
    BY <2>2, <2>3, <2>4 DEF LocksInStep
<1>3. CASE Locked(caller'[c].op)
  <2> DEFINE o == caller'[c].owner
  <2>1. PICK e \in Entries :
          /\ e[1] = o
          /\ acquireLocks[o] \in {e, NoEntry}
          /\ acquireLocks[o] = NoEntry => \A d \in Callers : entry[d] # e
          /\ acquireLocks' = [acquireLocks EXCEPT ![o] = e]
          /\ refs' = [refs EXCEPT ![e] = refs[e] + 1]
          /\ entry' = [entry EXCEPT ![c] = e]
          /\ UNCHANGED token
    BY <1>0, <1>3, ReferEffect
  <2>2. o \in Owners /\ e # NoEntry
    BY <1>0, NoEntryIsNone
  <2> HIDE DEF o
  <2>3. /\ entry'[c] = e /\ \A d \in Callers \ {c} : entry'[d] = entry[d]
        /\ acquireLocks'[o] = e
        /\ \A x \in Owners \ {o} : acquireLocks'[x] = acquireLocks[x]
        /\ refs'[e] = refs[e] + 1 /\ \A x \in Entries \ {e} : refs'[x] = refs[x]
    BY <2>1, <2>2 DEF TypeOK
  <2>4. ASSUME NEW d \in Callers, caller'[d].pc # "idle", Locked(caller'[d].op)
        PROVE  entry'[d] # NoEntry /\ entry'[d][1] = caller'[d].owner
    <3>1. CASE d = c
      BY <2>1, <2>2, <2>3, <3>1 DEF o
    <3>2. CASE d # c
      BY <1>0, <2>3, <2>4, <3>2 DEF LocksInStep
    <3>3. QED
      BY <3>1, <3>2
  <2>5. ASSUME NEW d \in Callers, entry'[d] # NoEntry
        PROVE  acquireLocks'[entry'[d][1]] = entry'[d]
    <3>1. CASE d = c
      BY <2>1, <2>3, <3>1
    <3>2. CASE d # c
      <4>1. entry[d] \in Entries /\ acquireLocks[entry[d][1]] = entry[d]
        BY <2>3, <2>5, <3>2 DEF LocksInStep, TypeOK
      <4>2. entry[d][1] \in Owners /\ entry[d] # NoEntry
        BY <4>1, NoEntryIsNone
      <4>3. QED
        BY <2>1, <2>3, <3>2, <4>1, <4>2
    <3>3. QED
      BY <3>1, <3>2
  <2>6. ASSUME NEW x \in Entries
        PROVE  refs'[x] = Cardinality({d \in Callers : entry'[d] = x})
    <3>0. refs[x] = Cardinality({d \in Callers : entry[d] = x})
      BY DEF LocksInStep
    <3>1. CASE x = e
      <4>1. /\ {d \in Callers : entry'[d] = x} = {d \in Callers : entry[d] = x} \cup {c}
            /\ c \notin {d \in Callers : entry[d] = x}
        BY <1>0, <2>2, <2>3, <3>1
      <4>2. IsFiniteSet({d \in Callers : entry[d] = x})
        BY RefsType
      <4>3. Cardinality({d \in Callers : entry[d] = x} \cup {c})
              = Cardinality({d \in Callers : entry[d] = x}) + 1
        BY <4>1, <4>2, FS_AddElement
      <4>4. QED
        BY <2>3, <3>0, <3>1, <4>1, <4>3
    <3>2. CASE x # e
      <4>1. {d \in Callers : entry'[d] = x} = {d \in Callers : entry[d] = x}
        BY <1>0, <2>3, <3>2, NoEntryIsNone
      <4>2. QED
        BY <2>3, <3>0, <3>2, <4>1
    <3>3. QED
      BY <3>1, <3>2
  <2>7. ASSUME NEW x \in Entries, NEW d \in Callers
        PROVE  token'[x] = d <=> Inside(d)' /\ entry'[d] = x
    <3>1. d = c => ~Inside(d)
      BY <1>0 DEF Inside
    <3>2. token[x] = d <=> Inside(d) /\ entry[d] = x
      BY DEF LocksInStep
    <3>3. entry[c] # x
      BY <1>0, NoEntryIsNone
    <3>4. CASE d = c
      BY <1>1, <2>1, <3>1, <3>2, <3>4
    <3>5. CASE d # c
      <4>1. entry'[d] = entry[d] /\ token'[x] = token[x] /\ (Inside(d)' <=> Inside(d))
        BY <1>1, <2>1, <2>3, <3>5
      <4>2. QED
        BY <3>2, <4>1
    <3>6. QED
      BY <3>4, <3>5
  <2>8. ASSUME NEW x \in Owners, acquireLocks'[x] # NoEntry
        PROVE  /\ acquireLocks'[x][1] = x
               /\ \E d \in Callers : entry'[d] = acquireLocks'[x]
    <3>1. CASE x = o
      BY <2>1, <2>3, <3>1
    <3>2. CASE x # o
      <4>1. PICK d \in Callers : entry[d] = acquireLocks[x]
        BY <2>3, <2>8, <3>2 DEF LocksInStep
      <4>2. d # c
        BY <1>0, <2>3, <2>8, <3>2, <4>1
      <4>3. QED
        BY <2>3, <2>8, <3>2, <4>1, <4>2 DEF LocksInStep
    <3>3. QED
      BY <3>1, <3>2
  <2>9. QED
    BY <2>4, <2>5, <2>6, <2>7, <2>8 DEF LocksInStep
<1>4. QED
  BY <1>2, <1>3

\* A call that ends gives its reference back, and the last one deletes the entry.
LEMMA ReleaseLocks ==
    ASSUME TypeOK, LocksInStep, NEW c \in Callers, Release(c)
    PROVE  LocksInStep'
<1> DEFINE e == entry[c]
           o == entry[c][1]
<1>1. e \in Entries /\ o \in Owners /\ acquireLocks[o] = e /\ refs[e] \in Nat \ {0}
      /\ e # NoEntry
  BY ReleaseEffect, NoEntryIsNone
<1>2. /\ caller[c].pc = "idle" /\ UNCHANGED <<caller, token>>
      /\ refs' = [refs EXCEPT ![e] = @ - 1]
      /\ entry' = [entry EXCEPT ![c] = NoEntry]
      /\ acquireLocks' = IF refs[e] = 1 THEN [acquireLocks EXCEPT ![o] = NoEntry]
                         ELSE acquireLocks
  BY <1>1 DEF Release
<1> HIDE DEF e, o
<1>3. /\ entry'[c] = NoEntry /\ \A d \in Callers \ {c} : entry'[d] = entry[d]
      /\ acquireLocks'[o] = IF refs[e] = 1 THEN NoEntry ELSE e
      /\ \A x \in Owners \ {o} : acquireLocks'[x] = acquireLocks[x]
      /\ refs'[e] = refs[e] - 1 /\ \A x \in Entries \ {e} : refs'[x] = refs[x]
  BY <1>1, <1>2 DEF TypeOK
<1>4. \A d \in Callers : Inside(d)' <=> Inside(d)
  BY <1>2 DEF Inside
<1>5. ASSUME NEW x \in Entries
      PROVE  refs'[x] = Cardinality({d \in Callers : entry'[d] = x})
  <2>0. refs[x] = Cardinality({d \in Callers : entry[d] = x})
    BY DEF LocksInStep
  <2>1. CASE x = e
    <3>1. /\ {d \in Callers : entry'[d] = x} = {d \in Callers : entry[d] = x} \ {c}
          /\ c \in {d \in Callers : entry[d] = x}
      BY <1>1, <1>3, <2>1 DEF e
    <3>2. IsFiniteSet({d \in Callers : entry[d] = x})
      BY RefsType
    <3>3. Cardinality({d \in Callers : entry[d] = x} \ {c})
            = Cardinality({d \in Callers : entry[d] = x}) - 1
      BY <3>1, <3>2, FS_RemoveElement
    <3>4. QED
      BY <1>3, <2>0, <2>1, <3>1, <3>3
  <2>2. CASE x # e
    <3>1. {d \in Callers : entry'[d] = x} = {d \in Callers : entry[d] = x}
      BY <1>3, <2>2, NoEntryIsNone DEF e
    <3>2. QED
      BY <1>3, <2>0, <2>2, <3>1
  <2>3. QED
    BY <2>1, <2>2
<1>6. refs[e] = 1 <=> \A d \in Callers : entry'[d] # e
  <2>1. IsFiniteSet({d \in Callers : entry'[d] = e})
    <3>1. {d \in Callers : entry'[d] = e} \in SUBSET Callers
      OBVIOUS
    <3>2. QED
      BY <3>1, OwnerAssumption, FS_Subset
  <2>2. Cardinality({d \in Callers : entry'[d] = e}) = 0
           <=> {d \in Callers : entry'[d] = e} = {}
    BY <2>1, FS_EmptySet
  <2>3. refs[e] - 1 = Cardinality({d \in Callers : entry'[d] = e})
    BY <1>1, <1>3, <1>5
  <2>4. {d \in Callers : entry'[d] = e} = {} <=> \A d \in Callers : entry'[d] # e
    OBVIOUS
  <2>5. refs[e] = 1 <=> refs[e] - 1 = 0
    BY <1>1
  <2>6. QED
    BY <2>2, <2>3, <2>4, <2>5
<1>7. ASSUME NEW d \in Callers, caller'[d].pc # "idle", Locked(caller'[d].op)
      PROVE  entry'[d] # NoEntry /\ entry'[d][1] = caller'[d].owner
  BY <1>2, <1>3, <1>7 DEF LocksInStep
<1>8. ASSUME NEW d \in Callers, entry'[d] # NoEntry
      PROVE  acquireLocks'[entry'[d][1]] = entry'[d]
  <2>1. d # c /\ entry'[d] = entry[d] /\ entry[d] \in Entries
        /\ acquireLocks[entry[d][1]] = entry[d] /\ entry[d][1] \in Owners
    BY <1>3, <1>8, NoEntryIsNone DEF LocksInStep, TypeOK
  <2>2. CASE entry[d][1] = o
    BY <1>1, <1>3, <1>6, <2>1, <2>2
  <2>3. CASE entry[d][1] # o
    BY <1>3, <2>1, <2>3
  <2>4. QED
    BY <2>2, <2>3
<1>9. ASSUME NEW x \in Entries, NEW d \in Callers
      PROVE  token'[x] = d <=> Inside(d)' /\ entry'[d] = x
  <2>1. d = c => ~Inside(d)
    BY <1>2 DEF Inside
  <2>2. token[x] = d <=> Inside(d) /\ entry[d] = x
    BY DEF LocksInStep
  <2>3. CASE d = c
    BY <1>2, <1>4, <2>1, <2>2, <2>3
  <2>4. CASE d # c
    <3>1. entry'[d] = entry[d] /\ token'[x] = token[x] /\ (Inside(d)' <=> Inside(d))
      BY <1>2, <1>3, <1>4, <2>4
    <3>2. QED
      BY <2>2, <3>1
  <2>5. QED
    BY <2>3, <2>4
<1>10. ASSUME NEW x \in Owners, acquireLocks'[x] # NoEntry
       PROVE  /\ acquireLocks'[x][1] = x
              /\ \E d \in Callers : entry'[d] = acquireLocks'[x]
  <2>1. CASE x = o
    <3>1. acquireLocks'[x] = e /\ refs[e] # 1 /\ e[1] = o
      BY <1>3, <1>10, <2>1 DEF e, o
    <3>2. QED
      BY <1>6, <2>1, <3>1
  <2>2. CASE x # o
    <3>1. PICK d \in Callers : entry[d] = acquireLocks[x]
      BY <1>3, <1>10, <2>2 DEF LocksInStep
    <3>2. acquireLocks'[x] = acquireLocks[x] /\ acquireLocks[x][1] = x
      BY <1>3, <1>10, <2>2 DEF LocksInStep
    <3>3. d # c
      BY <2>2, <3>1, <3>2 DEF o
    <3>4. QED
      BY <1>3, <3>1, <3>2, <3>3
  <2>3. QED
    BY <2>1, <2>2
<1>11. QED
  BY <1>5, <1>7, <1>8, <1>9, <1>10 DEF LocksInStep

\* The token goes to one of the calls that have a reference to its entry.
LEMMA TakeLocks ==
    ASSUME TypeOK, CallersInStep, LocksInStep, NEW c \in Callers, TakeToken(c)
    PROVE  LocksInStep'
<1>0. caller[c].pc = "acquire" /\ token[entry[c]] = None
      /\ UNCHANGED <<acquireLocks, refs, entry>>
  BY DEF TakeToken, lockVars
<1>1. CASE Return(c)
  BY <1>0, <1>1, Moves, LockMoves DEF KeepsEntries
<1>2. CASE ~Return(c)
  <2> DEFINE p == IF Keyed(caller[c].op) THEN "reuse" ELSE "begin"
             e == entry[c]
  <2>1. token' = [token EXCEPT ![e] = c] /\ Locked(caller[c].op)
    BY <1>2 DEF TakeToken, CallersInStep
  <2>2. p \in Labels /\ caller' = [caller EXCEPT ![c].pc = p]
        /\ p \notin {"idle", "acquire"}
    BY <1>2 DEF TakeToken, Labels
  <2>3. e \in Entries
    BY <1>0, <2>1 DEF LocksInStep, TypeOK
  <2> HIDE DEF p, e
  <2>4. /\ caller'[c].pc = p
        /\ caller'[c].op = caller[c].op
        /\ caller'[c].owner = caller[c].owner
        /\ \A d \in Callers \ {c} : caller'[d] = caller[d]
    BY <2>2, PcEffect
  <2>5. token \in [Entries -> Callers \cup {None}] /\ None \notin Callers
    BY OwnerAssumption DEF TypeOK
  <2>6. /\ Inside(c)' /\ ~Inside(c)
        /\ \A d \in Callers \ {c} : Inside(d)' <=> Inside(d)
    BY <1>0, <2>1, <2>2, <2>4 DEF Inside
  <2>7. ASSUME NEW x \in Entries, NEW d \in Callers
        PROVE  token'[x] = d <=> Inside(d)' /\ entry'[d] = x
    <3>0. token[x] = d <=> Inside(d) /\ entry[d] = x
      BY DEF LocksInStep
    <3>1. CASE x = e
      <4>1. token'[x] = c /\ token[x] = None
        BY <1>0, <2>1, <2>3, <2>5, <3>1 DEF e
      <4>2. QED
        BY <1>0, <2>5, <2>6, <3>0, <3>1, <4>1 DEF e
    <3>2. CASE x # e
      <4>1. token'[x] = token[x] /\ entry[c] # x
        BY <2>1, <2>3, <2>5, <3>2 DEF e
      <4>2. QED
        BY <1>0, <2>6, <3>0, <4>1
    <3>3. QED
      BY <3>1, <3>2
  <2>8. \A d \in Callers : caller'[d].pc # "idle" /\ Locked(caller'[d].op) =>
           entry'[d] # NoEntry /\ entry'[d][1] = caller'[d].owner
    BY <1>0, <2>4 DEF LocksInStep
  <2>9. \A d \in Callers : entry'[d] # NoEntry => acquireLocks'[entry'[d][1]] = entry'[d]
    BY <1>0 DEF LocksInStep
  <2>10. \A x \in Entries : refs'[x] = Cardinality({d \in Callers : entry'[d] = x})
    BY <1>0 DEF LocksInStep
  <2>11. \A o \in Owners : acquireLocks'[o] # NoEntry =>
            /\ acquireLocks'[o][1] = o
            /\ \E d \in Callers : entry'[d] = acquireLocks'[o]
    BY <1>0 DEF LocksInStep
  <2>12. QED
    BY <2>7, <2>8, <2>9, <2>10, <2>11 DEF LocksInStep
<1>3. QED
  BY <1>1, <1>2

\* Every step keeps the entries and their tokens in step.
LEMMA LocksStep ==
    ASSUME TypeOK, CallersInStep, LocksInStep, Next
    PROVE  LocksInStep'
<1>0. {"reuse", "begin", "retire", "race", "adopt", "project", "file"}
         \subseteq Labels \ {"idle", "acquire"}
  BY DEF Labels
<1>1. ASSUME NEW c \in Callers, UNCHANGED lockVars, Return(c) PROVE LocksInStep'
  BY <1>1, Moves, LockMoves DEF KeepsEntries, lockVars
<1>2. ASSUME NEW c \in Callers, Start(c) \/ TakeToken(c) \/ Release(c) PROVE LocksInStep'
  BY <1>2, ReferLocks, TakeLocks, ReleaseLocks
<1>3. ASSUME NEW c \in Callers, StopWaiting(c) \/ NoWinner(c) \/ File(c)
      PROVE  LocksInStep'
  BY <1>1, <1>3 DEF StopWaiting, NoWinner, File
<1>4. ASSUME NEW c \in Callers, Reuse(c) PROVE LocksInStep'
  <2>1. UNCHANGED <<acquireLocks, refs, entry>>
    BY <1>4 DEF Reuse, lockVars
  <2>2. QED
    BY <1>0, <1>4, <2>1, ReuseMoves, LockMoves DEF KeepsEntries
<1>5. ASSUME NEW c \in Callers, BeginEndpointGeneration(c) PROVE LocksInStep'
  BY <1>0, <1>5, BeginMoves, LockMoves DEF KeepsEntries
<1>6. ASSUME NEW c \in Callers, Retire(c) PROVE LocksInStep'
  <2>1. UNCHANGED <<acquireLocks, refs, entry>>
    BY <1>6 DEF Retire, lockVars
  <2>2. QED
    BY <1>0, <1>6, <2>1, RetireMoves, LockMoves DEF KeepsEntries
<1>7. ASSUME NEW c \in Callers, Winner(c) PROVE LocksInStep'
  <2>1. UNCHANGED <<acquireLocks, refs, entry>>
    BY <1>7 DEF Winner, lockVars
  <2>2. QED
    BY <1>0, <1>7, <2>1, WinnerMoves, LockMoves DEF KeepsEntries
<1>9. ASSUME NEW c \in Callers, Adopt(c) PROVE LocksInStep'
  <2>1. UNCHANGED <<acquireLocks, refs, entry>>
    BY <1>9 DEF Adopt, lockVars
  <2>2. QED
    BY <1>0, <1>9, <2>1, AdoptMoves, LockMoves DEF KeepsEntries
<1>10. ASSUME NEW c \in Callers, Project(c) PROVE LocksInStep'
  <2>1. UNCHANGED <<acquireLocks, refs, entry>>
    BY <1>10 DEF Project, lockVars
  <2>2. QED
    BY <1>0, <1>10, <2>1, ProjectMoves, LockMoves DEF KeepsEntries
<1>12. ASSUME UNCHANGED <<caller, token, lockVars>> PROVE LocksInStep'
  BY <1>12 DEF LocksInStep, Inside, lockVars
<1>13. ASSUME NEW c \in Callers, LeaseFollows(c) \/ CloseLease(c) PROVE LocksInStep'
  BY <1>12, <1>13 DEF LeaseFollows, CloseLease
<1>14. ASSUME NEW s \in Sessions,
              \/ DialEnds(s) \/ DialFails(s) \/ CloseLate(s) \/ SessionDies(s)
              \/ RemoveWhenDone(s)
       PROVE  LocksInStep'
  BY <1>12, <1>14 DEF DialEnds, DialFails, CloseLate, SessionDies, RemoveWhenDone
<1>15. ASSUME NEW o \in Owners, Disconnect(o) \/ CloseOwner(o) \/ FinishCleanup(o)
       PROVE  LocksInStep'
  BY <1>12, <1>15 DEF Disconnect, CloseOwner, FinishCleanup
<1>16. QED
  BY <1>2, <1>3, <1>4, <1>5, <1>6, <1>7, <1>9, <1>10,
     <1>13, <1>14, <1>15 DEF Next, CallerStep

-----------------------------------------------------------------------------
(* Generations.                                                            *)

\* A call that does not begin a generation takes none from another call.
LEMMA GenerationMoves ==
    ASSUME GenerationsOwned, NEW c \in Callers, UNCHANGED generation,
           \/ Returned(c)
           \/ /\ Active(c) 
              /\ \E p : GoesOn(c, p, caller[c].generation)
           \/ /\ caller'[c].pc \in {"acquire", "reuse", "begin"}
              /\ \A d \in Callers \ {c} : caller'[d] = caller[d]
    PROVE  GenerationsOwned'
<1>1. /\ \A d \in Callers \ {c} : caller'[d] = caller[d]
      /\ Active(c)' => Active(c) /\ caller'[c].generation = caller[c].generation
  BY DEF Returned, GoesOn, Active
<1>2. \A d \in Callers : Active(d)' =>
         Active(d) /\ caller'[d].generation = caller[d].generation
  BY <1>1 DEF Active
<1>3. QED
  BY <1>2 DEF GenerationsOwned

\* Every step keeps the generations of the calls apart.
LEMMA GenerationStep ==
    ASSUME TypeOK, GenerationsOwned, Next
    PROVE  GenerationsOwned'
<1>1. ASSUME NEW c \in Callers, Start(c) PROVE GenerationsOwned'
  BY <1>1, StartEffect, GenerationMoves DEF Start
<1>2. ASSUME NEW c \in Callers, TakeToken(c) PROVE GenerationsOwned'
  <2>0. UNCHANGED generation
    BY <1>2 DEF TakeToken
  <2>1. CASE Return(c)
    BY <2>0, <2>1, Moves, GenerationMoves
  <2>2. CASE ~Return(c)
    <3> DEFINE p == IF Keyed(caller[c].op) THEN "reuse" ELSE "begin"
    <3>1. p \in Labels /\ caller' = [caller EXCEPT ![c].pc = p]
          /\ p \in {"reuse", "begin"}
      BY <1>2, <2>2 DEF TakeToken, Labels
    <3> HIDE DEF p
    <3>2. caller'[c].pc = p /\ \A d \in Callers \ {c} : caller'[d] = caller[d]
      BY <3>1, PcEffect
    <3>3. QED
      BY <2>0, <3>1, <3>2, GenerationMoves
  <2>3. QED
    BY <2>1, <2>2
<1>3. ASSUME NEW c \in Callers, StopWaiting(c) \/ NoWinner(c) \/ File(c)
      PROVE  GenerationsOwned'
  BY <1>3, Moves, GenerationMoves DEF StopWaiting, NoWinner, File
<1>4. ASSUME NEW c \in Callers, Reuse(c) PROVE GenerationsOwned'
  <2>1. UNCHANGED generation
    BY <1>4 DEF Reuse
  <2>2. GoesOn(c, "begin", caller[c].generation) =>
           caller'[c].pc = "begin" /\ \A d \in Callers \ {c} : caller'[d] = caller[d]
    BY DEF GoesOn
  <2>3. QED
    BY <1>4, <2>1, <2>2, ReuseMoves, GenerationMoves
<1>5. ASSUME NEW c \in Callers, BeginEndpointGeneration(c) PROVE GenerationsOwned'
  <2>1. CASE Returned(c) /\ UNCHANGED generation
    BY <2>1, GenerationMoves
  <2>2. CASE ~(Returned(c) /\ UNCHANGED generation)
    <3>1. /\ generation' = generation + 1
          /\ caller'[c].generation = generation + 1
          /\ \A d \in Callers \ {c} : caller'[d] = caller[d]
      BY <1>5, <2>2, BeginMoves DEF GoesOn, BeginSection
    <3>2. generation \in Nat
      BY OwnerAssumption DEF TypeOK
    <3>3. \A d \in Callers \ {c} : Active(d)' =>
             /\ Active(d) /\ caller'[d].generation = caller[d].generation
             /\ caller[d].generation \in 1 .. generation
      BY <3>1 DEF Active, GenerationsOwned
    <3>4. ASSUME NEW d \in Callers, Active(d)'
          PROVE  caller'[d].generation \in 1 .. generation'
      BY <3>1, <3>2, <3>3, <3>4
    <3>5. ASSUME NEW d \in Callers, NEW e \in Callers, Active(d)', Active(e)', d # e
          PROVE  caller'[d].generation # caller'[e].generation
      <4>1. CASE d = c
        BY <3>1, <3>2, <3>3, <3>5, <4>1
      <4>2. CASE e = c
        BY <3>1, <3>2, <3>3, <3>5, <4>2
      <4>3. CASE d # c /\ e # c
        BY <3>3, <3>5, <4>3 DEF GenerationsOwned
      <4>4. QED
        BY <4>1, <4>2, <4>3
    <3>6. QED
      BY <3>4, <3>5 DEF GenerationsOwned
  <2>3. QED
    BY <2>1, <2>2
<1>6. ASSUME NEW c \in Callers, Retire(c) PROVE GenerationsOwned'
  BY <1>6, RetireMoves, GenerationMoves DEF Retire, Active
<1>7. ASSUME NEW c \in Callers, Winner(c) PROVE GenerationsOwned'
  BY <1>7, WinnerMoves, GenerationMoves DEF Active
<1>8. ASSUME NEW c \in Callers, Adopt(c) PROVE GenerationsOwned'
  <2>1. UNCHANGED generation
    BY <1>8 DEF Adopt
  <2>2. QED
    BY <1>8, <2>1, AdoptMoves, GenerationMoves DEF Active
<1>9. ASSUME NEW c \in Callers, Project(c) PROVE GenerationsOwned'
  <2>1. UNCHANGED generation
    BY <1>9 DEF Project
  <2>2. QED
    BY <1>9, <2>1, ProjectMoves, GenerationMoves DEF Active
<1>12. ASSUME UNCHANGED <<caller, generation>> PROVE GenerationsOwned'
  BY <1>12 DEF GenerationsOwned, Active
<1>13. ASSUME NEW c \in Callers, LeaseFollows(c) \/ CloseLease(c) \/ Release(c)
       PROVE  GenerationsOwned'
  BY <1>12, <1>13 DEF LeaseFollows, CloseLease, Release
<1>14. ASSUME NEW s \in Sessions,
              \/ DialEnds(s) \/ DialFails(s) \/ CloseLate(s) \/ SessionDies(s)
              \/ RemoveWhenDone(s)
       PROVE  GenerationsOwned'
  BY <1>12, <1>14 DEF DialEnds, DialFails, CloseLate, SessionDies, RemoveWhenDone
<1>15. ASSUME NEW o \in Owners, Disconnect(o) \/ CloseOwner(o) \/ FinishCleanup(o)
       PROVE  GenerationsOwned'
  BY <1>12, <1>15 DEF Disconnect, CloseOwner, FinishCleanup
<1>16. QED
  BY <1>1, <1>2, <1>3, <1>4, <1>5, <1>6, <1>7, <1>8, <1>9,
     <1>13, <1>14, <1>15 DEF Next, CallerStep

-----------------------------------------------------------------------------
(* Sessions.                                                               *)

\* A step that starts no dial and leaves the generation alone: sessions move
\* away from the dial, and what a caller opens is of its own race.
LEMMA SessionMoves ==
    ASSUME SessionsInStep, UNCHANGED generation, NEW c \in Callers,
           caller'[c].pc \notin {"retire", "race"},
           \A d \in Callers \ {c} : caller'[d] = caller[d],
           caller[c].pc = "race" =>
              \A s \in Attempts(c) : session'[s] # "dialling",
           \A s \in Sessions :
              \/ session'[s] = session[s]
              \/ session[s] # "none" /\ session'[s] \notin {"none", "dialling", "open"}
              \/ /\ session[s] # "none" /\ session'[s] = "open"
                 /\ \A d \in Callers \ {c} : Active(d) => s \notin Attempts(d)
    PROVE  SessionsInStep'
<1>1. \A d \in Callers \ {c} : Attempts(d)' = Attempts(d)
  BY DEF Attempts
<1> SUFFICES ASSUME NEW s \in Sessions
             PROVE  /\ session'[s] # "none" => s[1] <= generation
                    /\ \A d \in Callers : s \in Attempts(d)' =>
                          /\ caller'[d].pc = "retire" => session'[s] = "none"
                          /\ caller'[d].pc = "race" => session'[s] # "open"
                    /\ session'[s] = "dialling" =>
                          \E d \in Callers : caller'[d].pc = "race" /\ s \in Attempts(d)'
  BY DEF SessionsInStep
<1>2. session'[s] # "none" => s[1] <= generation
  BY DEF SessionsInStep
<1>3. ASSUME NEW d \in Callers, s \in Attempts(d)', caller'[d].pc \in {"retire", "race"}
      PROVE  /\ caller'[d].pc = "retire" => session'[s] = "none"
             /\ caller'[d].pc = "race" => session'[s] # "open"
  <2>1. d # c /\ s \in Attempts(d) /\ caller'[d] = caller[d] /\ Active(d)
    BY <1>1, <1>3 DEF Active
  <2>2. QED
    BY <2>1 DEF SessionsInStep
<1>4. ASSUME session'[s] = "dialling"
      PROVE  \E d \in Callers : caller'[d].pc = "race" /\ s \in Attempts(d)'
  <2>1. session[s] = "dialling"
    BY <1>4
  <2>2. PICK d \in Callers : caller[d].pc = "race" /\ s \in Attempts(d)
    BY <2>1 DEF SessionsInStep
  <2>3. d # c
    BY <1>4, <2>2
  <2>4. QED
    BY <1>1, <2>2, <2>3
<1>5. QED
  BY <1>2, <1>3, <1>4

\* The same for steps of no caller.
LEMMA SessionFrame ==
    ASSUME SessionsInStep, UNCHANGED <<generation, caller>>,
           \A s \in Sessions :
              \/ session'[s] = session[s]
              \/ session[s] # "none" /\ session'[s] \notin {"none", "dialling", "open"}
    PROVE  SessionsInStep'
<1>1. \A d \in Callers : Attempts(d)' = Attempts(d)
  BY DEF Attempts
<1>2. QED
  BY <1>1 DEF SessionsInStep

\* Close moves only sessions that are connected, and moves them to the end.
LEMMA ClosedEffect ==
    ASSUME NEW S, NEW s \in Sessions
    PROVE  /\ \/ Closed(S)[s] = session[s]
              \/ session[s] \in {"ready", "open"} /\ Closed(S)[s] = "done"
           /\ Closed(S)[s] \in {"ready", "open"} =>
                 session[s] = Closed(S)[s] /\ s \notin S
  BY DEF Closed

\* The sessions of two calls that own generations are different.
LEMMA AttemptsApart ==
    ASSUME TypeOK, GenerationsOwned, NEW c \in Callers, NEW d \in Callers, c # d,
           Active(c), Active(d), NEW s \in Attempts(c)
    PROVE  s \notin Attempts(d)
  BY DEF GenerationsOwned, Attempts

\* Every step keeps the sessions in step.
LEMMA SessionStep ==
    ASSUME TypeOK, CallersInStep, GenerationsOwned, SessionsInStep, Next
    PROVE  SessionsInStep'
<1>1. ASSUME NEW c \in Callers, Start(c) PROVE SessionsInStep'
  <2>1. UNCHANGED <<session, generation>> /\ caller[c].pc = "idle"
    BY <1>1 DEF Start
  <2>2. QED
    BY <1>1, <2>1, StartEffect, SessionMoves
<1>2. ASSUME NEW c \in Callers, UNCHANGED <<session, generation>>,
             Returned(c), caller[c].pc # "race"
      PROVE  SessionsInStep'
  <2>1. caller'[c].pc = "idle" /\ \A d \in Callers \ {c} : caller'[d] = caller[d]
    BY <1>2 DEF Returned
  <2>2. QED
    BY <1>2, <2>1, SessionMoves
<1>3. ASSUME NEW c \in Callers, UNCHANGED <<session, generation>>,
             NEW p \in {"begin", "project", "file"}, NEW g, GoesOn(c, p, g),
             caller[c].pc # "race"
      PROVE  SessionsInStep'
  <2>1. caller'[c].pc = p /\ \A d \in Callers \ {c} : caller'[d] = caller[d]
    BY <1>3 DEF GoesOn
  <2>2. QED
    BY <1>3, <2>1, SessionMoves
<1>4. ASSUME NEW c \in Callers, TakeToken(c) PROVE SessionsInStep'
  <2>0. UNCHANGED <<session, generation>> /\ caller[c].pc = "acquire"
    BY <1>4 DEF TakeToken
  <2>1. CASE Return(c)
    BY <1>2, <2>0, <2>1, Moves
  <2>2. CASE ~Return(c)
    <3> DEFINE p == IF Keyed(caller[c].op) THEN "reuse" ELSE "begin"
    <3>1. p \in Labels /\ caller' = [caller EXCEPT ![c].pc = p]
          /\ p \notin {"retire", "race"}
      BY <1>4, <2>2 DEF TakeToken, Labels
    <3> HIDE DEF p
    <3>2. caller'[c].pc = p /\ \A d \in Callers \ {c} : caller'[d] = caller[d]
      BY <3>1, PcEffect
    <3>3. QED
      BY <2>0, <3>1, <3>2, SessionMoves
  <2>3. QED
    BY <2>1, <2>2
<1>5. ASSUME NEW c \in Callers, StopWaiting(c) \/ File(c) PROVE SessionsInStep'
  <2>1. UNCHANGED <<session, generation>> /\ Return(c) /\ caller[c].pc # "race"
    BY <1>5 DEF StopWaiting, File
  <2>2. QED
    BY <1>2, <2>1, Moves
<1>6. ASSUME NEW c \in Callers, Reuse(c) PROVE SessionsInStep'
  <2>1. UNCHANGED <<session, generation>>
    BY <1>6 DEF Reuse
  <2>2. QED
    BY <1>2, <1>3, <1>6, <2>1, ReuseMoves
<1>7. ASSUME NEW c \in Callers, Project(c) PROVE SessionsInStep'
  <2>1. UNCHANGED <<session, generation>>
    BY <1>7 DEF Project
  <2>2. QED
    BY <1>2, <1>3, <1>7, <2>1, ProjectMoves
<1>8. ASSUME NEW c \in Callers, NoWinner(c) PROVE SessionsInStep'
  <2>1. /\ UNCHANGED <<session, generation>>
        /\ \A s \in Attempts(c) : session[s] # "dialling"
        /\ Return(c)
    BY <1>8 DEF NoWinner
  <2>2. caller'[c].pc = "idle" /\ \A d \in Callers \ {c} : caller'[d] = caller[d]
    BY <2>1, Moves DEF Returned
  <2>3. QED
    BY <2>1, <2>2, SessionMoves
<1>9. ASSUME NEW c \in Callers, Winner(c) PROVE SessionsInStep'
  <2>1. PICK s \in Attempts(c) :
          /\ session[s] = "ready"
          /\ \A x \in Sessions : session'[x] =
                IF x = s THEN session'[s]
                ELSE IF x \in Attempts(c) THEN Drained(x) ELSE session[x]
          /\ session'[s] \in {"open", "done"}
          /\ caller'[c].pc \in {"adopt", "idle"}
          /\ \A d \in Callers \ {c} : caller'[d] = caller[d]
    <3>1. \A s \in Attempts(c) : s \in Sessions
      BY DEF Attempts
    <3>2. QED
      BY <1>9, <3>1, WinnerMoves DEF GoesOn, Returned
  <2>2. s \in Sessions
    BY DEF Attempts
  <2>3. \A d \in Callers \ {c} : Active(d) => s \notin Attempts(d)
    <3>1. Active(c)
      BY <1>9 DEF Winner, Active
    <3>2. QED
      BY <3>1, AttemptsApart
  <2>4. \A x \in Attempts(c) : session'[x] # "dialling"
    BY <2>1 DEF Drained, Attempts
  <2>5. UNCHANGED generation
    BY <1>9 DEF Winner
  <2>6. \A x \in Sessions :
              \/ session'[x] = session[x]
              \/ session[x] # "none" /\ session'[x] \notin {"none", "dialling", "open"}
              \/ /\ session[x] # "none" /\ session'[x] = "open"
                 /\ \A d \in Callers \ {c} : Active(d) => x \notin Attempts(d)
    BY <2>1, <2>3 DEF Drained
  <2>7. QED
    BY <2>1, <2>4, <2>5, <2>6, SessionMoves
<1>10. ASSUME NEW c \in Callers, Adopt(c) PROVE SessionsInStep'
  <2>1. CASE UNCHANGED session
    <3>1. UNCHANGED generation
      BY <1>10 DEF Adopt
    <3>2. QED
      BY <1>2, <1>3, <1>10, <2>1, <3>1, AdoptMoves
  <2>2. CASE ~UNCHANGED session
    <3>1. /\ Return(c) /\ session' = Closed({caller[c].won}) /\ UNCHANGED generation
          /\ caller[c].pc = "adopt"
      BY <1>10, <2>2 DEF Adopt
    <3>2. caller'[c].pc = "idle" /\ \A d \in Callers \ {c} : caller'[d] = caller[d]
      BY <3>1, Moves DEF Returned
    <3>3. \A s \in Sessions :
              \/ session'[s] = session[s]
              \/ session[s] # "none" /\ session'[s] \notin {"none", "dialling", "open"}
      BY <3>1, ClosedEffect
    <3>4. QED
      BY <3>1, <3>2, <3>3, SessionMoves
  <2>3. QED
    BY <2>1, <2>2
<1>11. ASSUME NEW c \in Callers, BeginEndpointGeneration(c) PROVE SessionsInStep'
  <2>1. CASE Returned(c) /\ UNCHANGED generation
    BY <1>2, <1>11, <2>1, BeginMoves
  <2>2. CASE ~(Returned(c) /\ UNCHANGED generation)
    <3>1. /\ generation' = generation + 1 /\ UNCHANGED session
          /\ caller[c].pc = "begin"
          /\ caller'[c].generation = generation + 1 /\ caller'[c].pc = "retire"
          /\ \A d \in Callers \ {c} : caller'[d] = caller[d]
      BY <1>11, <2>2, BeginMoves DEF GoesOn, BeginSection
    <3>2. generation \in Nat /\ \A s \in Sessions : s[1] \in Nat
      BY OwnerAssumption DEF TypeOK, Sessions
    <3>3. \A d \in Callers \ {c} : Attempts(d)' = Attempts(d)
      BY <3>1 DEF Attempts
    <3>4. \A s \in Attempts(c)' : session'[s] = "none"
      <4>1. ASSUME NEW s \in Sessions, s[1] = generation + 1 PROVE session[s] = "none"
        BY <3>2, <4>1 DEF SessionsInStep
      <4>2. QED
        BY <3>1, <4>1 DEF Attempts
    <3>5. \A s \in Sessions : session'[s] # "none" => s[1] <= generation'
      BY <3>1, <3>2 DEF SessionsInStep
    <3>6. \A s \in Sessions : session'[s] = "dialling" =>
             \E d \in Callers : caller'[d].pc = "race" /\ s \in Attempts(d)'
      <4>1. ASSUME NEW s \in Sessions, session'[s] = "dialling"
            PROVE  \E d \in Callers : caller'[d].pc = "race" /\ s \in Attempts(d)'
        <5>1. PICK d \in Callers : caller[d].pc = "race" /\ s \in Attempts(d)
          BY <3>1, <4>1 DEF SessionsInStep
        <5>2. d # c
          BY <3>1, <5>1
        <5>3. QED
          BY <3>1, <3>3, <5>1, <5>2
      <4>2. QED
        BY <4>1
    <3>7. \A s \in Sessions, d \in Callers : s \in Attempts(d)' =>
             /\ caller'[d].pc = "retire" => session'[s] = "none"
             /\ caller'[d].pc = "race" => session'[s] # "open"
      BY <3>1, <3>3, <3>4 DEF SessionsInStep
    <3>8. QED
      BY <3>5, <3>6, <3>7 DEF SessionsInStep
  <2>3. QED
    BY <2>1, <2>2
<1>12. ASSUME NEW c \in Callers, Retire(c) PROVE SessionsInStep'
  <2> DEFINE w == cleanup[c].close
             g == caller[c].generation
  <2>0. caller[c].pc = "retire" /\ Active(c) /\ UNCHANGED generation
    BY <1>12 DEF Retire, Active
  <2>1. CASE caller[c].op = "BeginRouteAttempts"
    <3>1. session' = [s \in Sessions |-> IF s \in {} THEN "dialling" ELSE Closed({w})[s]]
      BY <1>12, <2>1 DEF Retire
    <3>2. \A s \in Sessions :
              \/ session'[s] = session[s]
              \/ session[s] # "none" /\ session'[s] \notin {"none", "dialling", "open"}
      BY <3>1, ClosedEffect
    <3>3. caller'[c].pc = "idle" /\ \A d \in Callers \ {c} : caller'[d] = caller[d]
      BY <1>12, <2>1, RetireMoves DEF Returned
    <3>4. QED
      BY <2>0, <3>2, <3>3, SessionMoves
  <2>2. CASE caller[c].op # "BeginRouteAttempts"
    <3>1. \A s \in Sessions : session'[s] =
             IF s \in {g} \X caller[c].plan THEN "dialling" ELSE Closed({w})[s]
      BY <1>12, <2>2 DEF Retire
    <3>2. /\ caller'[c].pc = "race" /\ caller'[c].generation = g
          /\ \A d \in Callers \ {c} : caller'[d] = caller[d]
      BY <1>12, <2>2, RetireMoves DEF GoesOn
    <3>3. \A d \in Callers : Attempts(d)' = Attempts(d)
      BY <3>2 DEF Attempts
    <3>4. \A s \in Sessions : s \in {g} \X caller[c].plan => s \in Attempts(c)
      BY DEF Attempts
    <3>5. g \in 1 .. generation /\ generation \in Nat
      BY <2>0, OwnerAssumption DEF GenerationsOwned, TypeOK
    <3>6. ASSUME NEW s \in Sessions
          PROVE  /\ session'[s] # "none" => s[1] <= generation'
                 /\ \A d \in Callers : s \in Attempts(d)' =>
                       /\ caller'[d].pc = "retire" => session'[s] = "none"
                       /\ caller'[d].pc = "race" => session'[s] # "open"
                 /\ session'[s] = "dialling" =>
                       \E d \in Callers : caller'[d].pc = "race" /\ s \in Attempts(d)'
      <4>1. CASE s \in {g} \X caller[c].plan
        <5>1. session'[s] = "dialling" /\ s \in Attempts(c) /\ s[1] = g
          BY <3>1, <3>4, <4>1 DEF Attempts
        <5>2. \A d \in Callers \ {c} : Active(d) => s \notin Attempts(d)
          BY <2>0, <5>1, AttemptsApart
        <5>3. \A d \in Callers \ {c} : caller'[d].pc = "retire" => Active(d)
          BY <3>2 DEF Active
        <5>4. QED
          BY <2>0, <3>2, <3>3, <3>5, <5>1, <5>2, <5>3
      <4>2. CASE s \notin {g} \X caller[c].plan
        <5>1. \/ session'[s] = session[s]
              \/ session[s] \in {"ready", "open"} /\ session'[s] = "done"
          BY <3>1, <4>2, ClosedEffect
        <5>2. s \in Attempts(c) => session[s] = "none" /\ session'[s] = "none"
          BY <2>0, <5>1 DEF SessionsInStep
        <5>3. session'[s] = "dialling" =>
                 \E d \in Callers : caller'[d].pc = "race" /\ s \in Attempts(d)'
          <6>1. ASSUME session'[s] = "dialling"
                PROVE  \E d \in Callers : caller'[d].pc = "race" /\ s \in Attempts(d)'
            <7>1. PICK d \in Callers : caller[d].pc = "race" /\ s \in Attempts(d)
              BY <5>1, <6>1 DEF SessionsInStep
            <7>2. d # c
              BY <2>0, <7>1
            <7>3. QED
              BY <3>2, <3>3, <7>1, <7>2
          <6>2. QED
            BY <6>1
        <5>4. QED
          BY <2>0, <3>2, <3>3, <5>1, <5>2, <5>3 DEF SessionsInStep
      <4>3. QED
        BY <4>1, <4>2
    <3>7. QED
      BY <3>6 DEF SessionsInStep
  <2>3. QED
    BY <2>1, <2>2
<1>13. ASSUME NEW c \in Callers, LeaseFollows(c) \/ CloseLease(c) \/ Release(c)
       PROVE  SessionsInStep'
  BY <1>13, SessionFrame DEF LeaseFollows, CloseLease, Release
<1>14. ASSUME NEW s \in Sessions,
              DialEnds(s) \/ DialFails(s) \/ CloseLate(s) \/ SessionDies(s)
       PROVE  SessionsInStep'
  <2>1. session \in [Sessions -> {"none", "dialling", "ready", "late", "open", "done"}]
    BY DEF TypeOK
  <2>2. QED
    BY <1>14, <2>1, SessionFrame DEF DialEnds, DialFails, CloseLate, SessionDies
<1>15. ASSUME NEW s \in Sessions, RemoveWhenDone(s) PROVE SessionsInStep'
  BY <1>15, SessionFrame DEF RemoveWhenDone
<1>16. ASSUME NEW o \in Owners, Disconnect(o) \/ CloseOwner(o) PROVE SessionsInStep'
  BY <1>16, SessionFrame DEF Disconnect, CloseOwner
<1>17. ASSUME NEW o \in Owners, FinishCleanup(o) PROVE SessionsInStep'
  BY <1>17, SessionFrame, ClosedEffect DEF FinishCleanup
<1>18. QED
  BY <1>1, <1>4, <1>5, <1>6, <1>7, <1>8, <1>9, <1>10, <1>11, <1>12,
     <1>13, <1>14, <1>15, <1>16, <1>17 DEF Next, CallerStep

-----------------------------------------------------------------------------
(* What the authority publishes, and what is connected.                    *)

\* A step that publishes nothing new keeps the owner of what is published.
LEMMA AuthorityFrame ==
    ASSUME AuthorityHasOwner, UNCHANGED generation,
           authCurrent' \in {authCurrent, NoSession},
           \A o \in Owners : current[o] = authCurrent /\ authCurrent' # NoSession =>
              current'[o] = current[o] /\ closed'[o] = closed[o]
    PROVE  AuthorityHasOwner'
<1> SUFFICES ASSUME authCurrent' # NoSession
             PROVE  /\ authCurrent'[1] = generation
                    /\ \E o \in Owners : current'[o] = authCurrent' /\ ~closed'[o]
  BY DEF AuthorityHasOwner
<1>1. PICK o \in Owners : current[o] = authCurrent /\ ~closed[o]
  BY DEF AuthorityHasOwner
<1>2. QED
  BY <1>1 DEF AuthorityHasOwner

\* Every step keeps the owner of what the authority publishes.
LEMMA AuthorityStep ==
    ASSUME TypeOK, CallersInStep, AuthorityHasOwner, Next
    PROVE  AuthorityHasOwner'
<1>0. ASSUME UNCHANGED <<generation, authCurrent, current, closed>>
      PROVE  AuthorityHasOwner'
  BY <1>0 DEF AuthorityHasOwner
<1>1. ASSUME NEW c \in Callers,
             \/ Start(c) \/ TakeToken(c) \/ StopWaiting(c) \/ Reuse(c) \/ Retire(c)
             \/ Winner(c) \/ NoWinner(c) \/ Project(c) \/ File(c)
             \/ LeaseFollows(c) \/ CloseLease(c) \/ Release(c)
      PROVE  AuthorityHasOwner'
  BY <1>0, <1>1 DEF Start, TakeToken, StopWaiting, Reuse, Retire, Winner, NoWinner,
     Project, File, LeaseFollows, CloseLease, Release
<1>2. ASSUME NEW c \in Callers, BeginEndpointGeneration(c) PROVE AuthorityHasOwner'
  <2>1. CASE UNCHANGED <<generation, authCurrent, current, closed>>
    BY <1>0, <2>1
  <2>2. CASE ~UNCHANGED <<generation, authCurrent, current, closed>>
    <3>1. authCurrent' = NoSession
      BY <1>2, <2>2, BeginMoves DEF BeginSection
    <3>2. QED
      BY <3>1 DEF AuthorityHasOwner
  <2>3. QED
    BY <2>1, <2>2
<1>3. ASSUME NEW c \in Callers, Adopt(c) PROVE AuthorityHasOwner'
  <2>1. CASE ~Adoptable(c)
    BY <1>0, <1>3, <2>1 DEF Adopt
  <2>2. CASE Adoptable(c)
    <3>1. /\ authCurrent' = caller[c].won
          /\ current' = [current EXCEPT ![caller[c].owner] = caller[c].won]
          /\ UNCHANGED <<generation, closed>>
      BY <1>3, <2>2 DEF Adopt
    <3>2. caller[c].owner \in Owners /\ caller[c].won[1] = generation
      BY <1>3, <2>2 DEF Adopt, Adoptable, CallersInStep, Attempts
    <3>3. current'[caller[c].owner] = authCurrent' /\ ~closed'[caller[c].owner]
      BY <2>2, <3>1, <3>2 DEF Adoptable, TypeOK
    <3>4. QED
      BY <3>1, <3>2, <3>3 DEF AuthorityHasOwner
  <2>3. QED
    BY <2>1, <2>2
<1>4. ASSUME NEW s \in Sessions,
             DialEnds(s) \/ DialFails(s) \/ CloseLate(s) \/ SessionDies(s)
      PROVE  AuthorityHasOwner'
  BY <1>0, <1>4 DEF DialEnds, DialFails, CloseLate, SessionDies
<1>5. ASSUME NEW s \in Sessions, RemoveWhenDone(s) PROVE AuthorityHasOwner'
  <2>1. watched[s] \in Owners
    BY <1>5 DEF RemoveWhenDone, TypeOK
  <2>2. /\ UNCHANGED <<generation, closed>>
        /\ authCurrent' = IF authCurrent = s THEN NoSession ELSE authCurrent
        /\ current' = IF current[watched[s]] = s
                      THEN [current EXCEPT ![watched[s]] = NoSession] ELSE current
    BY <1>5 DEF RemoveWhenDone, AuthWithout
  <2>3. \A o \in Owners : current[o] = authCurrent /\ authCurrent' # NoSession =>
           current'[o] = current[o]
    BY <2>1, <2>2 DEF TypeOK
  <2>4. QED
    BY <2>2, <2>3, AuthorityFrame
<1>6. ASSUME NEW o \in Owners, Disconnect(o) PROVE AuthorityHasOwner'
  <2>1. /\ UNCHANGED <<generation, closed>>
        /\ authCurrent' = IF authCurrent = current[o] THEN NoSession ELSE authCurrent
        /\ current' = [current EXCEPT ![o] = NoSession]
    BY <1>6 DEF Disconnect, AuthWithout
  <2>2. \A x \in Owners : current[x] = authCurrent /\ authCurrent' # NoSession =>
           current'[x] = current[x]
    BY <2>1 DEF TypeOK
  <2>3. QED
    BY <2>1, <2>2, AuthorityFrame
<1>7. ASSUME NEW o \in Owners, CloseOwner(o) PROVE AuthorityHasOwner'
  <2>1. /\ UNCHANGED generation
        /\ closed' = [closed EXCEPT ![o] = TRUE]
        /\ authCurrent' = IF authCurrent = current[o] THEN NoSession ELSE authCurrent
        /\ current' = [current EXCEPT ![o] = NoSession]
    BY <1>7 DEF CloseOwner, AuthWithout
  <2>2. \A x \in Owners : current[x] = authCurrent /\ authCurrent' # NoSession =>
           current'[x] = current[x] /\ closed'[x] = closed[x]
    BY <2>1 DEF TypeOK
  <2>3. QED
    BY <2>1, <2>2, AuthorityFrame
<1>8. ASSUME NEW o \in Owners, FinishCleanup(o) PROVE AuthorityHasOwner'
  BY <1>0, <1>8 DEF FinishCleanup
<1>9. QED
  BY <1>1, <1>2, <1>3, <1>4, <1>5, <1>6, <1>7, <1>8 DEF Next, CallerStep

\* A step after which every connected session was connected before and is still
\* in the same hands.
LEMMA LeakFrame ==
    ASSUME NoLeakedSession,
           \A s \in Sessions : session'[s] \in {"ready", "open"} =>
              session[s] \in {"ready", "open"},
           authCurrent' = authCurrent,
           \A d \in Callers :
              /\ caller[d].pc \in {"race", "adopt"} => caller'[d] = caller[d],
           \A s \in Sessions :
              Taken(s) /\ session'[s] \in {"ready", "open"} => Taken(s)'
    PROVE  NoLeakedSession'
<1> SUFFICES ASSUME NEW s \in Sessions, session'[s] \in {"ready", "open"}
             PROVE  \/ s = authCurrent'
                    \/ \E d \in Callers : caller'[d].pc = "race" /\ s \in Attempts(d)'
                    \/ \E d \in Callers : caller'[d].pc = "adopt" /\ caller'[d].won = s
                    \/ Taken(s)'
  BY DEF NoLeakedSession, Taken
<1>1. CASE s = authCurrent
  BY <1>1
<1>2. ASSUME NEW d \in Callers, caller[d].pc = "race", s \in Attempts(d)
      PROVE  caller'[d].pc = "race" /\ s \in Attempts(d)'
  BY <1>2 DEF Attempts
<1>3. ASSUME NEW d \in Callers, caller[d].pc = "adopt", caller[d].won = s
      PROVE  caller'[d].pc = "adopt" /\ caller'[d].won = s
  BY <1>3
<1>4. Taken(s) => Taken(s)'
  OBVIOUS
<1>5. QED
  BY <1>1, <1>2, <1>3, <1>4 DEF NoLeakedSession, Taken

\* Every step keeps connected sessions in somebody's hands.
LEMMA LeakStep ==
    ASSUME SessionInv, Next
    PROVE  NoLeakedSession'
<1> USE DEF SessionInv
<1>0. ASSUME UNCHANGED <<session, authCurrent, cleanup, closing>>,
             NEW c \in Callers, caller[c].pc \notin {"race", "adopt"},
             \A d \in Callers \ {c} : caller'[d] = caller[d]
      PROVE  NoLeakedSession'
  <2>1. \A d \in Callers : caller[d].pc \in {"race", "adopt"} => caller'[d] = caller[d]
    BY <1>0
  <2>2. QED
    BY <1>0, <2>1, LeakFrame DEF Taken
<1>1. ASSUME NEW c \in Callers, Start(c) PROVE NoLeakedSession'
  <2>1. UNCHANGED <<session, authCurrent, cleanup, closing>> /\ caller[c].pc = "idle"
    BY <1>1 DEF Start
  <2>2. QED
    BY <1>0, <1>1, <2>1, StartEffect
<1>2. ASSUME NEW c \in Callers, TakeToken(c) PROVE NoLeakedSession'
  <2>0. UNCHANGED <<session, authCurrent, cleanup, closing>> /\ caller[c].pc = "acquire"
    BY <1>2 DEF TakeToken
  <2>1. CASE Return(c)
    BY <1>0, <2>0, <2>1, ReturnEffect
  <2>2. CASE ~Return(c)
    <3> DEFINE p == IF Keyed(caller[c].op) THEN "reuse" ELSE "begin"
    <3>1. p \in Labels /\ caller' = [caller EXCEPT ![c].pc = p]
      BY <1>2, <2>2 DEF TakeToken, Labels
    <3> HIDE DEF p
    <3>2. \A d \in Callers \ {c} : caller'[d] = caller[d]
      BY <3>1, PcEffect
    <3>3. QED
      BY <1>0, <2>0, <3>2
  <2>3. QED
    BY <2>1, <2>2
<1>3. ASSUME NEW c \in Callers, StopWaiting(c) \/ File(c) PROVE NoLeakedSession'
  <2>1. /\ UNCHANGED <<session, authCurrent, cleanup, closing>> /\ Return(c)
        /\ caller[c].pc \notin {"race", "adopt"}
    BY <1>3 DEF StopWaiting, File
  <2>2. QED
    BY <1>0, <2>1, ReturnEffect
<1>4. ASSUME NEW c \in Callers, Reuse(c) \/ Project(c) PROVE NoLeakedSession'
  <2>1. UNCHANGED <<session, authCurrent, cleanup, closing>>
    BY <1>4 DEF Reuse, Project
  <2>2. /\ caller[c].pc \notin {"race", "adopt"}
        /\ \A d \in Callers \ {c} : caller'[d] = caller[d]
    BY <1>4, ReuseMoves, ProjectMoves DEF Returned, GoesOn
  <2>3. QED
    BY <1>0, <2>1, <2>2
<1>5. ASSUME NEW c \in Callers, BeginEndpointGeneration(c) PROVE NoLeakedSession'
  <2>1. /\ caller[c].pc = "begin" /\ UNCHANGED <<session, closing>>
        /\ \A d \in Callers \ {c} : caller'[d] = caller[d]
    BY <1>5, BeginMoves DEF Returned, GoesOn
  <2>2. CASE UNCHANGED <<authCurrent, cleanup>>
    BY <1>0, <2>1, <2>2
  <2>3. CASE ~UNCHANGED <<authCurrent, cleanup>>
    <3>1. BeginSection(c)
      BY <1>5, <2>3, BeginMoves
    <3>2. /\ authCurrent # NoSession => cleanup'[c].close = authCurrent
          /\ \A x \in Callers \ {c} : cleanup'[x] = cleanup[x]
      BY <3>1 DEF BeginSection, TypeOK
    <3>3. cleanup[c].close = NoSession
      <4>1. cleanup[c] = NoWork
        BY <2>1 DEF CallersInStep
      <4>2. QED
        BY <4>1 DEF NoWork
    <3>4. ASSUME NEW s \in Sessions, session'[s] \in {"ready", "open"}
          PROVE  \/ s = authCurrent'
                 \/ \E d \in Callers : caller'[d].pc = "race" /\ s \in Attempts(d)'
                 \/ \E d \in Callers : caller'[d].pc = "adopt" /\ caller'[d].won = s
                 \/ Taken(s)'
      <4>1. s # NoSession
        BY NoSessionIsNone
      <4>2. CASE s = authCurrent
        BY <3>2, <4>1, <4>2 DEF Taken
      <4>3. ASSUME NEW d \in Callers, caller[d].pc = "race", s \in Attempts(d)
            PROVE  caller'[d].pc = "race" /\ s \in Attempts(d)'
        BY <2>1, <4>3 DEF Attempts
      <4>4. ASSUME NEW d \in Callers, caller[d].pc = "adopt", caller[d].won = s
            PROVE  caller'[d].pc = "adopt" /\ caller'[d].won = s
        BY <2>1, <4>4
      <4>5. Taken(s) => Taken(s)'
        BY <2>1, <3>2, <3>3, <4>1 DEF Taken
      <4>6. QED
        BY <2>1, <3>4, <4>2, <4>3, <4>4, <4>5 DEF NoLeakedSession, Taken
    <3>5. QED
      BY <3>4 DEF NoLeakedSession, Taken
  <2>4. QED
    BY <2>2, <2>3
<1>6. ASSUME NEW c \in Callers, Retire(c) PROVE NoLeakedSession'
  <2>1. /\ caller[c].pc = "retire" /\ UNCHANGED <<authCurrent, closing>>
        /\ cleanup' = [cleanup EXCEPT ![c] = NoWork]
    BY <1>6 DEF Retire
  <2>2. \A d \in Callers \ {c} : caller'[d] = caller[d]
    BY <1>6, RetireMoves DEF Returned, GoesOn
  <2>3. \A s \in Sessions : session'[s] \in {"ready", "open"} =>
           session'[s] = Closed({cleanup[c].close})[s]
    BY <1>6 DEF Retire
  <2>4. \A s \in Sessions : session'[s] \in {"ready", "open"} =>
           session[s] \in {"ready", "open"} /\ s # cleanup[c].close
    BY <2>3, ClosedEffect
  <2>5. \A x \in Callers \ {c} : cleanup'[x] = cleanup[x]
    BY <2>1 DEF TypeOK
  <2>6. \A d \in Callers : caller[d].pc \in {"race", "adopt"} => caller'[d] = caller[d]
    BY <2>1, <2>2
  <2>7. \A s \in Sessions :
           Taken(s) /\ session'[s] \in {"ready", "open"} => Taken(s)'
    BY <2>1, <2>4, <2>5 DEF Taken
  <2>8. QED
    BY <2>1, <2>4, <2>6, <2>7, LeakFrame
<1>7. ASSUME NEW c \in Callers, Winner(c) PROVE NoLeakedSession'
  <2>1. PICK s \in Attempts(c) :
          /\ session[s] = "ready"
          /\ \A x \in Sessions : session'[x] =
                IF x = s THEN session'[s]
                ELSE IF x \in Attempts(c) THEN Drained(x) ELSE session[x]
          /\ session'[s] = "open" => caller'[c].pc = "adopt" /\ caller'[c].won = s
          /\ session'[s] \in {"open", "done"}
          /\ \A d \in Callers \ {c} : caller'[d] = caller[d]
    <3>1. \A s \in Attempts(c) : s \in Sessions
      BY DEF Attempts
    <3>2. QED
      BY <1>7, <3>1, WinnerMoves DEF GoesOn, Returned
  <2>2. caller[c].pc = "race" /\ UNCHANGED <<authCurrent, cleanup, closing>>
    BY <1>7 DEF Winner
  <2>3. ASSUME NEW x \in Sessions, session'[x] \in {"ready", "open"}
        PROVE  \/ x = authCurrent'
               \/ \E d \in Callers : caller'[d].pc = "race" /\ x \in Attempts(d)'
               \/ \E d \in Callers : caller'[d].pc = "adopt" /\ caller'[d].won = x
               \/ Taken(x)'
    <3>1. CASE x = s
      BY <2>1, <2>3, <3>1
    <3>2. CASE x # s
      <4>1. x \notin Attempts(c)
        <5>1. x \in Attempts(c) => session[x] # "open"
          BY <2>2 DEF SessionsInStep
        <5>2. QED
          BY <2>1, <2>3, <3>2, <5>1 DEF Drained
      <4>2. session[x] = session'[x]
        BY <2>1, <3>2, <4>1
      <4>3. ASSUME NEW d \in Callers, caller[d].pc = "race", x \in Attempts(d)
            PROVE  caller'[d].pc = "race" /\ x \in Attempts(d)'
        BY <2>1, <4>1, <4>3 DEF Attempts
      <4>4. ASSUME NEW d \in Callers, caller[d].pc = "adopt", caller[d].won = x
            PROVE  caller'[d].pc = "adopt" /\ caller'[d].won = x
        BY <2>1, <2>2, <4>4
      <4>5. QED
        BY <2>2, <2>3, <4>2, <4>3, <4>4 DEF NoLeakedSession, Taken
    <3>3. QED
      BY <3>1, <3>2
  <2>4. QED
    BY <2>3 DEF NoLeakedSession, Taken
<1>8. ASSUME NEW c \in Callers, NoWinner(c) PROVE NoLeakedSession'
  <2>1. /\ caller[c].pc = "race" /\ UNCHANGED <<session, authCurrent, cleanup, closing>>
        /\ \A s \in Attempts(c) : session[s] \notin {"ready", "open"}
        /\ \A d \in Callers \ {c} : caller'[d] = caller[d]
    BY <1>8, ReturnEffect DEF NoWinner
  <2>2. ASSUME NEW x \in Sessions, session'[x] \in {"ready", "open"}
        PROVE  \/ x = authCurrent'
               \/ \E d \in Callers : caller'[d].pc = "race" /\ x \in Attempts(d)'
               \/ \E d \in Callers : caller'[d].pc = "adopt" /\ caller'[d].won = x
               \/ Taken(x)'
    <3>1. x \notin Attempts(c)
      BY <2>1, <2>2
    <3>2. ASSUME NEW d \in Callers, caller[d].pc = "race", x \in Attempts(d)
          PROVE  caller'[d].pc = "race" /\ x \in Attempts(d)'
      BY <2>1, <3>1, <3>2 DEF Attempts
    <3>3. ASSUME NEW d \in Callers, caller[d].pc = "adopt", caller[d].won = x
          PROVE  caller'[d].pc = "adopt" /\ caller'[d].won = x
      BY <2>1, <3>3
    <3>4. QED
      BY <2>1, <2>2, <3>2, <3>3 DEF NoLeakedSession, Taken
  <2>3. QED
    BY <2>2 DEF NoLeakedSession, Taken
<1>9. ASSUME NEW c \in Callers, Adopt(c) PROVE NoLeakedSession'
  <2>1. /\ caller[c].pc = "adopt" /\ UNCHANGED <<cleanup, closing>>
        /\ \A d \in Callers \ {c} : caller'[d] = caller[d]
    <3>1. caller[c].pc = "adopt" /\ UNCHANGED <<cleanup, closing>>
      BY <1>9 DEF Adopt
    <3>2. QED
      BY <1>9, <3>1, AdoptMoves DEF Returned, GoesOn
  <2>2. /\ \/ authCurrent' = caller[c].won /\ UNCHANGED session /\ authCurrent = NoSession
           \/ UNCHANGED authCurrent /\ session' = Closed({caller[c].won})
    BY <1>9 DEF Adopt, Adoptable
  <2>3. ASSUME NEW x \in Sessions, session'[x] \in {"ready", "open"}
        PROVE  \/ x = authCurrent'
               \/ \E d \in Callers : caller'[d].pc = "race" /\ x \in Attempts(d)'
               \/ \E d \in Callers : caller'[d].pc = "adopt" /\ caller'[d].won = x
               \/ Taken(x)'
    <3>1. session[x] \in {"ready", "open"} /\ x # NoSession
      BY <2>2, <2>3, ClosedEffect, NoSessionIsNone
    <3>2. CASE x = caller[c].won
      BY <2>2, <2>3, <3>2, ClosedEffect
    <3>3. CASE x # caller[c].won
      <4>1. ASSUME NEW d \in Callers, caller[d].pc = "race", x \in Attempts(d)
            PROVE  caller'[d].pc = "race" /\ x \in Attempts(d)'
        BY <2>1, <4>1 DEF Attempts
      <4>2. ASSUME NEW d \in Callers, caller[d].pc = "adopt", caller[d].won = x
            PROVE  caller'[d].pc = "adopt" /\ caller'[d].won = x
        BY <2>1, <3>3, <4>2
      <4>3. x = authCurrent => x = authCurrent'
        BY <2>2, <3>1
      <4>4. QED
        BY <2>1, <3>1, <4>1, <4>2, <4>3 DEF NoLeakedSession, Taken
    <3>4. QED
      BY <3>2, <3>3
  <2>4. QED
    BY <2>3 DEF NoLeakedSession, Taken
<1>10. ASSUME NEW c \in Callers, LeaseFollows(c) \/ CloseLease(c) \/ Release(c)
       PROVE  NoLeakedSession'
  BY <1>10, LeakFrame DEF LeaseFollows, CloseLease, Release, Taken
<1>11. ASSUME NEW s \in Sessions, DialEnds(s) PROVE NoLeakedSession'
  <2>1. /\ \A x \in Sessions \ {s} : session'[x] = session[x]
        /\ UNCHANGED <<authCurrent, cleanup, closing, caller>>
    BY <1>11 DEF DialEnds, TypeOK
  <2>2. \E c \in Callers : caller'[c].pc = "race" /\ s \in Attempts(c)'
    BY <1>11, <2>1 DEF DialEnds, SessionsInStep, Attempts
  <2>3. \A c \in Callers : Attempts(c)' = Attempts(c)
    BY <2>1 DEF Attempts
  <2>4. QED
    BY <2>1, <2>2, <2>3 DEF NoLeakedSession, Taken
<1>12. ASSUME NEW s \in Sessions, DialFails(s) \/ CloseLate(s) \/ SessionDies(s)
       PROVE  NoLeakedSession'
  <2>1. \A x \in Sessions : session'[x] \in {"ready", "open"} =>
           session[x] \in {"ready", "open"}
    BY <1>12 DEF DialFails, CloseLate, SessionDies, TypeOK
  <2>2. UNCHANGED <<authCurrent, cleanup, closing, caller>>
    BY <1>12 DEF DialFails, CloseLate, SessionDies
  <2>3. QED
    BY <2>1, <2>2, LeakFrame DEF Taken
<1>13. ASSUME NEW s \in Sessions, RemoveWhenDone(s) PROVE NoLeakedSession'
  <2>1. /\ session[s] = "done" /\ UNCHANGED <<session, cleanup, caller>>
        /\ authCurrent' = IF authCurrent = s THEN NoSession ELSE authCurrent
        /\ Later(watched[s], LeasesOn(watched[s], s), NoSession)
        /\ watched[s] # None
    BY <1>13 DEF RemoveWhenDone, AuthWithout
  <2>2. \A c \in Callers : Attempts(c)' = Attempts(c)
    BY <2>1 DEF Attempts
  <2>3. \A o \in Owners : closing[o] \subseteq closing'[o]
    <3>1. watched[s] \in Owners /\ NoSession \in MaybeSession
      BY <2>1 DEF TypeOK, MaybeSession
    <3>2. QED
      BY <2>1, <3>1, LaterEffect, HelperTypes
  <2>4. \A x \in Sessions : Taken(x) => Taken(x)'
    BY <2>1, <2>3 DEF Taken
  <2>5. ASSUME NEW x \in Sessions, session'[x] \in {"ready", "open"}
        PROVE  \/ x = authCurrent'
               \/ \E d \in Callers : caller'[d].pc = "race" /\ x \in Attempts(d)'
               \/ \E d \in Callers : caller'[d].pc = "adopt" /\ caller'[d].won = x
               \/ Taken(x)'
    <3>1. x = authCurrent => x = authCurrent'
      BY <2>1, <2>5
    <3>2. \/ x = authCurrent
          \/ \E d \in Callers : caller[d].pc = "race" /\ x \in Attempts(d)
          \/ \E d \in Callers : caller[d].pc = "adopt" /\ caller[d].won = x
          \/ Taken(x)
      BY <2>1, <2>5 DEF NoLeakedSession, Taken
    <3>3. QED
      BY <2>1, <2>2, <2>4, <3>1, <3>2
  <2>6. QED
    BY <2>5 DEF NoLeakedSession, Taken
<1>14. ASSUME NEW o \in Owners, Disconnect(o) \/ CloseOwner(o) PROVE NoLeakedSession'
  <2>1. /\ UNCHANGED <<session, cleanup, caller>>
        /\ authCurrent' \in {authCurrent, NoSession}
        /\ authCurrent' # authCurrent => current[o] = authCurrent
        /\ \E L \in SUBSET (Callers \X Sessions) : Later(o, L, current[o])
    <3>1. /\ LeasesOn(o, current[o]) \in SUBSET (Callers \X Sessions)
          /\ shared[o] \in SUBSET (Callers \X Sessions)
          /\ {} \in SUBSET (Callers \X Sessions)
      BY HelperTypes DEF TypeOK
    <3>2. QED
      BY <1>14, <3>1 DEF Disconnect, CloseOwner, AuthWithout
  <2>2. /\ \A x \in Owners : closing[x] \subseteq closing'[x]
        /\ current[o] # NoSession => \E w \in closing'[o] : w.close = current[o]
    <3>1. current[o] \in MaybeSession
      BY DEF TypeOK
    <3>2. QED
      BY <2>1, <3>1, LaterEffect
  <2>3. \A c \in Callers : Attempts(c)' = Attempts(c)
    BY <2>1 DEF Attempts
  <2>4. \A x \in Sessions : Taken(x) => Taken(x)'
    BY <2>1, <2>2 DEF Taken
  <2>5. ASSUME NEW x \in Sessions, session'[x] \in {"ready", "open"}
        PROVE  \/ x = authCurrent'
               \/ \E d \in Callers : caller'[d].pc = "race" /\ x \in Attempts(d)'
               \/ \E d \in Callers : caller'[d].pc = "adopt" /\ caller'[d].won = x
               \/ Taken(x)'
    <3>1. x = authCurrent => x = authCurrent' \/ Taken(x)'
      BY <2>1, <2>2, NoSessionIsNone DEF Taken
    <3>2. \/ x = authCurrent
          \/ \E d \in Callers : caller[d].pc = "race" /\ x \in Attempts(d)
          \/ \E d \in Callers : caller[d].pc = "adopt" /\ caller[d].won = x
          \/ Taken(x)
      BY <2>1, <2>5 DEF NoLeakedSession, Taken
    <3>3. QED
      BY <2>1, <2>3, <2>4, <3>1, <3>2
  <2>6. QED
    BY <2>5 DEF NoLeakedSession, Taken
<1>15. ASSUME NEW o \in Owners, FinishCleanup(o) PROVE NoLeakedSession'
  <2>1. PICK w \in closing[o] :
          session' = Closed({w.close}) /\ closing' = [closing EXCEPT ![o] = @ \ {w}]
    BY <1>15 DEF FinishCleanup
  <2>2. UNCHANGED <<authCurrent, caller, cleanup>>
    BY <1>15 DEF FinishCleanup
  <2>3. \A s \in Sessions : session'[s] \in {"ready", "open"} =>
           session[s] \in {"ready", "open"} /\ s # w.close
    BY <2>1, ClosedEffect
  <2>4. /\ closing'[o] = closing[o] \ {w}
        /\ \A x \in Owners \ {o} : closing'[x] = closing[x]
    BY <2>1 DEF TypeOK
  <2>5. ASSUME NEW s \in Sessions, Taken(s), s # w.close PROVE Taken(s)'
    <3>1. CASE \E c \in Callers : cleanup[c].close = s
      BY <2>2, <3>1 DEF Taken
    <3>2. ASSUME NEW x \in Owners, NEW v \in closing[x], v.close = s
          PROVE  v \in closing'[x]
      BY <2>4, <2>5, <3>2
    <3>3. QED
      BY <2>5, <3>1, <3>2 DEF Taken
  <2>6. \A s \in Sessions :
           Taken(s) /\ session'[s] \in {"ready", "open"} => Taken(s)'
    BY <2>3, <2>5
  <2>7. QED
    BY <2>2, <2>3, <2>6, LeakFrame
<1>16. QED
  BY <1>1, <1>2, <1>3, <1>4, <1>5, <1>6, <1>7, <1>8, <1>9, <1>10, <1>11,
     <1>12, <1>13, <1>14, <1>15 DEF Next, CallerStep

-----------------------------------------------------------------------------
(* The theorems.                                                           *)

\* The invariant holds of the empty owner maps.
LEMMA SessionInit == Init => SessionInv
<1> SUFFICES ASSUME Init PROVE SessionInv
  OBVIOUS
<1>1. Idle \in CallerState /\ Idle.pc = "idle" /\ NoWork \in Work
      /\ NoSession \in MaybeSession
  BY OwnerAssumption DEF Idle, CallerState, Labels, MaybeSession, NoSession, Work, NoWork
<1>2. \A c \in Callers : caller[c] = Idle /\ cleanup[c] = NoWork
  BY DEF Init
<1>3. TypeOK
  BY <1>1, OwnerAssumption DEF Init, TypeOK, Entries
<1>4. CallersInStep
  BY <1>1, <1>2 DEF CallersInStep
<1>5. GenerationsOwned
  BY <1>1, <1>2 DEF GenerationsOwned, Active
<1>6. SessionsInStep
  BY <1>1, <1>2 DEF SessionsInStep, Init
<1>7. LocksInStep
  <2>1. \A c \in Callers : entry[c] = NoEntry /\ ~Inside(c)
    BY <1>1, <1>2 DEF Init, Inside
  <2>2. \A e \in Entries : {c \in Callers : entry[c] = e} = {}
    BY <2>1, NoEntryIsNone
  <2>3. /\ \A e \in Entries : refs[e] = 0 /\ token[e] = None
        /\ \A o \in Owners : acquireLocks[o] = NoEntry
    BY DEF Init
  <2>4. \A e \in Entries :
          /\ refs[e] = Cardinality({c \in Callers : entry[c] = e})
          /\ \A c \in Callers : token[e] = c <=> Inside(c) /\ entry[c] = e
    BY <2>1, <2>2, <2>3, NoEntryIsNone, FS_EmptySet
  <2>5. QED
    BY <1>1, <1>2, <2>1, <2>3, <2>4 DEF LocksInStep
<1>8. AuthorityHasOwner
  BY DEF AuthorityHasOwner, Init
<1>9. NoLeakedSession
  BY DEF NoLeakedSession, Init
<1>10. QED
  BY <1>3, <1>4, <1>5, <1>6, <1>7, <1>8, <1>9 DEF SessionInv

\* Every step preserves the invariant.
LEMMA SessionNext == SessionInv /\ [Next]_vars => SessionInv'
<1> SUFFICES ASSUME SessionInv, [Next]_vars PROVE SessionInv'
  OBVIOUS
<1>1. CASE Next
  <2>1. TypeOK'
    BY <1>1, CallerTypes, OtherTypes DEF SessionInv, Next
  <2>2. CallersInStep' /\ GenerationsOwned' /\ SessionsInStep'
    BY <1>1, CallersStep, GenerationStep, SessionStep DEF SessionInv
  <2>3. LocksInStep' /\ AuthorityHasOwner' /\ NoLeakedSession'
    BY <1>1, LocksStep, AuthorityStep, LeakStep DEF SessionInv
  <2>4. QED
    BY <2>1, <2>2, <2>3 DEF SessionInv
<1>2. CASE UNCHANGED vars
  <2> USE <1>2 DEF vars, lockVars, SessionInv
  <2>1. TypeOK'
    BY DEF TypeOK
  <2>2. CallersInStep'
    BY DEF CallersInStep, Attempts
  <2>3. GenerationsOwned' /\ SessionsInStep'
    BY DEF GenerationsOwned, SessionsInStep, Active, Attempts
  <2>4. LocksInStep'
    BY DEF LocksInStep, Inside
  <2>5. AuthorityHasOwner' /\ NoLeakedSession'
    BY DEF AuthorityHasOwner, NoLeakedSession, Attempts
  <2>6. QED
    BY <2>1, <2>2, <2>3, <2>4, <2>5
<1>3. QED
  BY <1>1, <1>2

\* The strengthened invariant holds in every reachable state.
THEOREM SessionInvariant == Spec => []SessionInv
<1>1. QED
  BY SessionInit, SessionNext, PTL DEF Spec

\* The maps, leases and locals of the owners keep their types.
THEOREM SessionTypes == Spec => []TypeOK
<1>1. SessionInv => TypeOK
  BY DEF SessionInv
<1>2. QED
  BY <1>1, SessionInvariant, PTL

\* Two calls are never inside one owner: the invariant gives both the same entry,
\* and its token one holder.
LEMMA OneCallInside ==
    ASSUME TypeOK, CallersInStep, LocksInStep,
           NEW c \in Callers, NEW d \in Callers, Inside(c), Inside(d),
           caller[c].owner = caller[d].owner
    PROVE  c = d
<1>1. /\ entry[c] # NoEntry /\ entry[c][1] = caller[c].owner
      /\ entry[d] # NoEntry /\ entry[d][1] = caller[d].owner
  BY DEF LocksInStep, Inside
<1>2. entry[c] = entry[d] /\ entry[c] \in Entries
  BY <1>1 DEF LocksInStep, TypeOK
<1>3. token[entry[c]] = c /\ token[entry[c]] = d
  BY <1>2 DEF LocksInStep, Inside
<1>4. QED
  BY <1>3

\* Entries are created by the first call of an owner and deleted by the last, and
\* still no two calls connect at once (session_owner.go 132-181).
THEOREM OneConnects == Spec => []OneCallConnects
<1>1. SessionInv => OneCallConnects
  BY OneCallInside DEF SessionInv, OneCallConnects
<1>2. QED
  BY <1>1, SessionInvariant, PTL

\* The entry a call uses is the one new calls find, and the map keeps no entry that
\* nobody uses, however calls interleave (session_owner.go 134-142, 172-179).
THEOREM EntriesInUse == Spec => []EntryInUse
<1>1. ASSUME SessionInv PROVE EntryInUse
  <2>1. ASSUME NEW c \in Callers, entry[c] # NoEntry
        PROVE  /\ acquireLocks[entry[c][1]] = entry[c]
               /\ \/ token[entry[c]] = None
                  \/ \E d \in Callers :
                        token[entry[c]] = d /\ Inside(d) /\ entry[d] = entry[c]
    <3>1. entry[c] \in Entries /\ token[entry[c]] \in Callers \cup {None}
      BY <1>1, <2>1 DEF SessionInv, TypeOK
    <3>2. \A d \in Callers : token[entry[c]] = d => Inside(d) /\ entry[d] = entry[c]
      <4>1. ASSUME NEW e \in Entries, NEW d \in Callers, token[e] = d
            PROVE  Inside(d) /\ entry[d] = e
        BY <1>1, <4>1 DEF SessionInv, LocksInStep
      <4>2. QED
        BY <3>1, <4>1
    <3>3. acquireLocks[entry[c][1]] = entry[c]
      BY <1>1, <2>1 DEF SessionInv, LocksInStep
    <3>4. QED
      BY <3>1, <3>2, <3>3
  <2>2. QED
    BY <1>1, <2>1 DEF EntryInUse, SessionInv, LocksInStep
<1>2. QED
  BY <1>1, SessionInvariant, PTL

\* What the authority publishes is of the newest generation and the current
\* session of an owner that is open (session_owner.go 232-243, 306-315).
THEOREM PublishedHasOwner == Spec => []AuthorityHasOwner
<1>1. SessionInv => AuthorityHasOwner
  BY DEF SessionInv
<1>2. QED
  BY <1>1, SessionInvariant, PTL

\* No connected session is lost: it is published, raced, about to be adopted, or
\* waiting to be closed by the goroutine that took it out of the maps.
THEOREM NothingLeaks == Spec => []NoLeakedSession
<1>1. SessionInv => NoLeakedSession
  BY DEF SessionInv
<1>2. QED
  BY <1>1, SessionInvariant, PTL

-----------------------------------------------------------------------------
(* Configuration keys.                                                     *)

\* A step that only forgets sessions and keys, and at which a caller only goes
\* on to a place that says less about its owner.
LEMMA KeysFrame ==
    ASSUME CallersInStep, KeysInStep, UNCHANGED madeFor,
           \A o \in Owners :
              /\ config'[o] \in {config[o], None}
              /\ current'[o] \in {current[o], NoSession},
           \A c \in Callers :
              \/ caller'[c].pc \in {"idle", "acquire", "reuse", "begin"}
              \/ caller'[c] = caller[c]
              \/ /\ Active(c)
                 /\ caller'[c].op = caller[c].op
                 /\ caller'[c].owner = caller[c].owner
                 /\ caller'[c].key = caller[c].key
                 /\ caller'[c].pc \in {"project", "file"} =>
                       caller[c].pc \in {"project", "file"}
    PROVE  KeysInStep'
<1>1. \A o \in Owners :
         config'[o] # None => current'[o] = NoSession \/ madeFor'[o] = config'[o]
  BY DEF KeysInStep
<1>2. ASSUME NEW c \in Callers, Locked(caller'[c].op), Active(c)'
      PROVE  config'[caller'[c].owner] = None
  <2>1. Active(c) /\ caller'[c].op = caller[c].op /\ caller'[c].owner = caller[c].owner
    BY <1>2 DEF Active
  <2>2. caller[c].owner \in Owners
    BY <2>1 DEF Active, CallersInStep
  <2>3. QED
    BY <1>2, <2>1, <2>2 DEF KeysInStep
<1>3. ASSUME NEW c \in Callers, caller'[c].pc \in {"project", "file"}
      PROVE  \/ current'[caller'[c].owner] = NoSession
             \/ madeFor'[caller'[c].owner] = caller'[c].key
  <2>1. /\ caller[c].pc \in {"project", "file"}
        /\ caller'[c].owner = caller[c].owner /\ caller'[c].key = caller[c].key
    BY <1>3
  <2>2. caller[c].owner \in Owners
    BY <2>1 DEF CallersInStep
  <2>3. QED
    BY <2>1, <2>2 DEF KeysInStep
<1>5. QED
  BY <1>1, <1>2, <1>3 DEF KeysInStep, Locked

\* Every step keeps the keys in step, when no call connects without the token.
LEMMA KeysStep ==
    ASSUME NoDirectConnect, SessionInv, KeysInStep, Next
    PROVE  KeysInStep'
<1> USE DEF SessionInv
<1>0. ASSUME NEW c \in Callers, UNCHANGED <<config, current, madeFor>>,
             \/ Returned(c)
             \/ /\ caller'[c].pc \in {"acquire", "reuse", "begin"}
                /\ \A d \in Callers \ {c} : caller'[d] = caller[d]
             \/ /\ Active(c)
                /\ \E p : /\ GoesOn(c, p, caller[c].generation)
                          /\ p \in {"project", "file"} =>
                                caller[c].pc \in {"project", "file"}
      PROVE  KeysInStep'
  <2>1. \A d \in Callers \ {c} : caller'[d] = caller[d]
    BY <1>0 DEF Returned, GoesOn
  <2>2. \/ caller'[c].pc \in {"idle", "acquire", "reuse", "begin"}
        \/ /\ Active(c)
           /\ caller'[c].op = caller[c].op
           /\ caller'[c].owner = caller[c].owner
           /\ caller'[c].key = caller[c].key
           /\ caller'[c].pc \in {"project", "file"} => caller[c].pc \in {"project", "file"}
    BY <1>0 DEF Returned, GoesOn
  <2>3. QED
    BY <1>0, <2>1, <2>2, KeysFrame
<1>1. ASSUME NEW c \in Callers, Start(c) PROVE KeysInStep'
  <2>1. UNCHANGED <<config, current, madeFor>>
    BY <1>1 DEF Start
  <2>2. QED
    BY <1>0, <1>1, <2>1, StartEffect
<1>2. ASSUME NEW c \in Callers, TakeToken(c) PROVE KeysInStep'
  <2>0. UNCHANGED <<config, current, madeFor>>
    BY <1>2 DEF TakeToken
  <2>1. CASE Return(c)
    BY <1>0, <2>0, <2>1, Moves
  <2>2. CASE ~Return(c)
    <3> DEFINE p == IF Keyed(caller[c].op) THEN "reuse" ELSE "begin"
    <3>1. p \in Labels /\ caller' = [caller EXCEPT ![c].pc = p]
          /\ p \in {"reuse", "begin"}
      BY <1>2, <2>2 DEF TakeToken, Labels
    <3> HIDE DEF p
    <3>2. caller'[c].pc = p /\ \A d \in Callers \ {c} : caller'[d] = caller[d]
      BY <3>1, PcEffect
    <3>3. QED
      BY <1>0, <2>0, <3>1, <3>2
  <2>3. QED
    BY <2>1, <2>2
<1>3. ASSUME NEW c \in Callers, StopWaiting(c) \/ NoWinner(c) PROVE KeysInStep'
  <2>1. UNCHANGED <<config, current, madeFor>> /\ Return(c)
    BY <1>3 DEF StopWaiting, NoWinner
  <2>2. QED
    BY <1>0, <2>1, Moves
<1>4. ASSUME NEW c \in Callers, Reuse(c) PROVE KeysInStep'
  <2>1. UNCHANGED <<config, current, madeFor>>
    BY <1>4 DEF Reuse
  <2>2. GoesOn(c, "begin", caller[c].generation) =>
           caller'[c].pc = "begin" /\ \A d \in Callers \ {c} : caller'[d] = caller[d]
    BY DEF GoesOn
  <2>3. QED
    BY <1>0, <1>4, <2>1, <2>2, ReuseMoves
<1>5. ASSUME NEW c \in Callers, Retire(c) PROVE KeysInStep'
  <2>1. UNCHANGED <<config, current, madeFor>> /\ Active(c)
    BY <1>5 DEF Retire, Active
  <2>2. Returned(c) \/ GoesOn(c, "race", caller[c].generation)
    BY <1>5, RetireMoves
  <2>3. "race" \notin {"project", "file"}
    OBVIOUS
  <2>4. QED
    BY <1>0, <2>1, <2>2, <2>3
<1>6. ASSUME NEW c \in Callers, Winner(c) PROVE KeysInStep'
  <2>1. UNCHANGED <<config, current, madeFor>> /\ Active(c)
    BY <1>6 DEF Winner, Active
  <2>2. Returned(c) \/ GoesOn(c, "adopt", caller[c].generation)
    BY <1>6, WinnerMoves
  <2>3. "adopt" \notin {"project", "file"}
    OBVIOUS
  <2>4. QED
    BY <1>0, <2>1, <2>2, <2>3
<1>7. ASSUME NEW c \in Callers, Project(c) PROVE KeysInStep'
  <2>1. UNCHANGED <<config, current, madeFor>> /\ Active(c)
    BY <1>7 DEF Project, Active
  <2>2. QED
    BY <1>0, <1>7, <2>1, ProjectMoves
<1>8. ASSUME NEW c \in Callers, BeginEndpointGeneration(c) PROVE KeysInStep'
  <2>1. CASE Returned(c) /\ UNCHANGED <<config, current, madeFor>>
    BY <1>0, <2>1
  <2>2. CASE ~(Returned(c) /\ UNCHANGED <<config, current, madeFor>>)
    <3> DEFINE o == caller[c].owner
    <3>1. BeginSection(c) /\ GoesOn(c, "retire", generation + 1)
      BY <1>8, <2>2, BeginMoves
    <3>2. o \in Owners
      BY <1>8 DEF BeginEndpointGeneration, CallersInStep
    <3>3. /\ config'[o] = None /\ current'[o] = NoSession
          /\ \A x \in Owners \ {o} : /\ config'[x] = config[x]
                                     /\ current'[x] = current[x]
                                     /\ madeFor'[x] = madeFor[x]
      BY <3>1, <3>2 DEF BeginSection, TypeOK
    <3>4. /\ caller'[c].owner = o /\ caller'[c].pc = "retire"
          /\ \A d \in Callers \ {c} : caller'[d] = caller[d]
      BY <3>1 DEF GoesOn
    <3> HIDE DEF o
    <3>5. ASSUME NEW d \in Callers, Active(d)' PROVE caller'[d].owner \in Owners
      <4>1. CASE d = c
        BY <3>2, <3>4, <4>1
      <4>2. CASE d # c
        BY <3>4, <3>5, <4>2 DEF Active, CallersInStep
      <4>3. QED
        BY <4>1, <4>2
    <3>6. \A x \in Owners :
             config'[x] # None => current'[x] = NoSession \/ madeFor'[x] = config'[x]
      BY <3>3 DEF KeysInStep
    <3>7. ASSUME NEW d \in Callers, Locked(caller'[d].op), Active(d)'
          PROVE  config'[caller'[d].owner] = None
      <4>1. CASE caller'[d].owner = o
        BY <3>3, <4>1
      <4>2. CASE caller'[d].owner # o
        BY <3>3, <3>4, <3>5, <3>7, <4>2 DEF KeysInStep, Active
      <4>3. QED
        BY <4>1, <4>2
    <3>8. ASSUME NEW d \in Callers, caller'[d].pc \in {"project", "file"}
          PROVE  \/ current'[caller'[d].owner] = NoSession
                 \/ madeFor'[caller'[d].owner] = caller'[d].key
      <4>1. CASE caller'[d].owner = o
        BY <3>3, <4>1
      <4>2. CASE caller'[d].owner # o
        BY <3>3, <3>4, <3>5, <3>8, <4>2 DEF KeysInStep, Active
      <4>3. QED
        BY <4>1, <4>2
    <3>9. QED
      BY <3>6, <3>7, <3>8 DEF KeysInStep, Locked
  <2>3. QED
    BY <2>1, <2>2
<1>9. ASSUME NEW c \in Callers, Adopt(c) PROVE KeysInStep'
  <2>0. caller[c].pc = "adopt" /\ Active(c)
    BY <1>9 DEF Adopt, Active
  <2>1. CASE ~Adoptable(c)
    <3>1. UNCHANGED <<config, current, madeFor>> /\ Return(c)
      BY <1>9, <2>1 DEF Adopt
    <3>2. QED
      BY <1>0, <3>1, Moves
  <2>2. CASE Adoptable(c)
    <3> DEFINE o == caller[c].owner
    <3>1. o \in Owners /\ Locked(caller[c].op)
      BY <2>0 DEF CallersInStep, NoDirectConnect, Locked
    <3>2. config[o] = None
      BY <2>0, <3>1 DEF KeysInStep
    <3>3. /\ madeFor'[o] = caller[c].key /\ UNCHANGED config
          /\ \A x \in Owners \ {o} : /\ current'[x] = current[x]
                                     /\ madeFor'[x] = madeFor[x]
      BY <1>9, <2>2, <3>1 DEF Adopt, TypeOK
    <3>4. /\ \A d \in Callers \ {c} : caller'[d] = caller[d]
          /\ caller'[c].pc # "idle" => /\ caller'[c].owner = o
                                       /\ caller'[c].op = caller[c].op
                                       /\ caller'[c].key = caller[c].key
      BY <1>9, AdoptMoves DEF Returned, GoesOn
    <3> HIDE DEF o
    <3>5. \A x \in Owners :
             config'[x] # None => current'[x] = NoSession \/ madeFor'[x] = config'[x]
      BY <3>2, <3>3 DEF KeysInStep
    <3>6. ASSUME NEW d \in Callers, Locked(caller'[d].op), Active(d)'
          PROVE  config'[caller'[d].owner] = None
      <4>1. CASE d = c
        BY <3>2, <3>3, <3>4, <3>6, <4>1 DEF Active
      <4>2. CASE d # c
        BY <3>3, <3>4, <3>6, <4>2 DEF KeysInStep, Active
      <4>3. QED
        BY <4>1, <4>2
    <3>7. ASSUME NEW d \in Callers, caller'[d].pc \in {"project", "file"}
          PROVE  \/ current'[caller'[d].owner] = NoSession
                 \/ madeFor'[caller'[d].owner] = caller'[d].key
      <4>1. CASE d = c
        BY <3>3, <3>4, <3>7, <4>1
      <4>2. CASE d # c
        <5>1. /\ caller'[d] = caller[d] /\ caller[d].pc \in {"project", "file"}
              /\ caller[d].owner \in Owners /\ Keyed(caller[d].op)
          BY <3>4, <3>7, <4>2 DEF CallersInStep
        <5>2. Locked(caller[d].op)
          BY <5>1 DEF Keyed, Locked, EntryPoints
        <5>3. caller[d].owner # o
          BY <2>0, <3>1, <4>2, <5>1, <5>2, OneCallInside DEF o, Inside
        <5>4. QED
          BY <3>3, <5>1, <5>3 DEF KeysInStep
      <4>3. QED
        BY <4>1, <4>2
    <3>8. QED
      BY <3>5, <3>6, <3>7 DEF KeysInStep, Locked
  <2>3. QED
    BY <2>1, <2>2
<1>10. ASSUME NEW c \in Callers, File(c) PROVE KeysInStep'
  <2> DEFINE o == caller[c].owner
  <2>1. /\ caller[c].pc = "file" /\ UNCHANGED <<current, madeFor>> /\ Return(c)
    BY <1>10 DEF File
  <2>2. Returned(c)
    BY <2>1, Moves
  <2>3. CASE UNCHANGED config
    BY <1>0, <2>1, <2>2, <2>3
  <2>4. CASE ~UNCHANGED config
    <3>1. o \in Owners /\ Keyed(caller[c].op)
      BY <2>1 DEF CallersInStep
    <3>2. config'[o] = caller[c].key /\ \A x \in Owners \ {o} : config'[x] = config[x]
      BY <1>10, <2>4, <3>1 DEF File, TypeOK
    <3>3. caller'[c].pc = "idle" /\ \A d \in Callers \ {c} : caller'[d] = caller[d]
      BY <2>2 DEF Returned
    <3>4. Locked(caller[c].op)
      BY <3>1 DEF Keyed, Locked, EntryPoints
    <3>5. current[o] = NoSession \/ madeFor[o] = caller[c].key
      BY <2>1 DEF KeysInStep
    <3> HIDE DEF o
    <3>6. \A x \in Owners :
             config'[x] # None => current'[x] = NoSession \/ madeFor'[x] = config'[x]
      BY <2>1, <3>2, <3>5 DEF KeysInStep
    <3>7. ASSUME NEW d \in Callers, Locked(caller'[d].op), Active(d)'
          PROVE  config'[caller'[d].owner] = None
      <4>1. d # c /\ caller'[d] = caller[d] /\ Active(d)
        BY <3>3, <3>7 DEF Active
      <4>2. caller[d].owner \in Owners /\ caller[d].pc \notin {"idle", "acquire"}
        BY <4>1 DEF Active, CallersInStep
      <4>3. caller[d].owner # o
        BY <2>1, <3>4, <3>7, <4>1, <4>2, OneCallInside DEF o, Inside
      <4>4. QED
        BY <3>2, <3>7, <4>1, <4>2, <4>3 DEF KeysInStep
    <3>8. ASSUME NEW d \in Callers, caller'[d].pc \in {"project", "file"}
          PROVE  \/ current'[caller'[d].owner] = NoSession
                 \/ madeFor'[caller'[d].owner] = caller'[d].key
      BY <2>1, <3>3, <3>8 DEF KeysInStep
    <3>9. QED
      BY <3>6, <3>7, <3>8 DEF KeysInStep, Locked
  <2>5. QED
    BY <2>3, <2>4
<1>11. ASSUME UNCHANGED <<config, current, madeFor, caller>> PROVE KeysInStep'
  BY <1>11, KeysFrame
<1>12. ASSUME NEW c \in Callers, LeaseFollows(c) \/ CloseLease(c) \/ Release(c)
       PROVE  KeysInStep'
  BY <1>11, <1>12 DEF LeaseFollows, CloseLease, Release
<1>13. ASSUME NEW s \in Sessions,
              DialEnds(s) \/ DialFails(s) \/ CloseLate(s) \/ SessionDies(s)
       PROVE  KeysInStep'
  BY <1>11, <1>13 DEF DialEnds, DialFails, CloseLate, SessionDies
<1>14. ASSUME NEW s \in Sessions, RemoveWhenDone(s) PROVE KeysInStep'
  <2>1. watched[s] \in Owners
    BY <1>14 DEF RemoveWhenDone, TypeOK
  <2>2. UNCHANGED <<madeFor, caller>>
    BY <1>14 DEF RemoveWhenDone
  <2>3. \A x \in Owners : /\ config'[x] \in {config[x], None}
                          /\ current'[x] \in {current[x], NoSession}
    BY <1>14, <2>1 DEF RemoveWhenDone, TypeOK
  <2>4. QED
    BY <2>2, <2>3, KeysFrame
<1>15. ASSUME NEW o \in Owners, Disconnect(o) \/ CloseOwner(o) PROVE KeysInStep'
  <2>1. UNCHANGED <<madeFor, caller>>
    BY <1>15 DEF Disconnect, CloseOwner
  <2>2. \A x \in Owners : /\ config'[x] \in {config[x], None}
                          /\ current'[x] \in {current[x], NoSession}
    BY <1>15 DEF Disconnect, CloseOwner, TypeOK
  <2>3. QED
    BY <2>1, <2>2, KeysFrame
<1>16. ASSUME NEW o \in Owners, FinishCleanup(o) PROVE KeysInStep'
  BY <1>11, <1>16 DEF FinishCleanup
<1>17. QED
  BY <1>1, <1>2, <1>3, <1>4, <1>5, <1>6, <1>7, <1>8, <1>9, <1>10,
     <1>12, <1>13, <1>14, <1>15, <1>16 DEF Next, CallerStep

\* A session that may be handed out again for a configuration key was dialled
\* for that key, when every connection is made under the token: AcquireRoute
\* and the planned calls take it, pairing never adopts, and only tests call
\* ConnectRoute directly (session_owner.go 98-99, 126).
THEOREM ReusedForItsKey ==
    ASSUME NoDirectConnect
    PROVE  Spec => []ReuseSameKey
<1>1. Init => KeysInStep
  <2> SUFFICES ASSUME Init PROVE KeysInStep
    OBVIOUS
  <2>1. \A c \in Callers : caller[c] = Idle
    BY DEF Init
  <2>2. Idle.pc = "idle" /\ Idle.op = None
    BY DEF Idle
  <2>3. QED
    BY <2>1, <2>2 DEF Init, KeysInStep, Active
<1>2. SessionInv /\ KeysInStep /\ [Next]_vars => KeysInStep'
  <2> SUFFICES ASSUME SessionInv, KeysInStep, [Next]_vars PROVE KeysInStep'
    OBVIOUS
  <2>1. CASE Next
    BY <2>1, KeysStep
  <2>2. CASE UNCHANGED vars
    BY <2>2, KeysFrame DEF vars, SessionInv
  <2>3. QED
    BY <2>1, <2>2
<1>3. SessionInv /\ KeysInStep => ReuseSameKey
  BY DEF KeysInStep, ReuseSameKey, IsCurrent
<1>4. QED
  BY <1>1, <1>2, <1>3, SessionInvariant, PTL DEF Spec
=============================================================================
