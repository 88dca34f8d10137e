---------------------------- MODULE SessionOwner ----------------------------
(***************************************************************************)
(* The client's session owners (client/runtime/session_owner.go and        *)
(* planned_session.go): one endpoint, the generation authority that all    *)
(* owners of a process share, and the callers that acquire, ensure,        *)
(* connect, pair, disconnect, invalidate and close.  Endpoints share only  *)
(* the flag closed of an owner, so one endpoint stands for all of them.    *)
(*                                                                         *)
(* A session is named by its stamp, a generation and a route.  A step is   *)
(* one critical section of owner.mu (with authority.mu nested in it), or   *)
(* what a thread does between two of them.                                 *)
(***************************************************************************)
EXTENDS Integers, FiniteSets

CONSTANTS
    Owners,         \* SessionOwner objects on one SessionGenerationAuthority
    Callers,        \* goroutines that call an owner; each keeps one lease
    Keys,           \* configuration keys, opaque to the runtime
    Routes,         \* routes of the endpoint
    Overrides,      \* routes that planned calls ask for explicitly
    Calls,          \* who calls which entry point of which owner
    ClosingOwners,  \* owners that may be closed
    MaxGeneration   \* the last generation: math.MaxUint64 in the code

\* The entry points that allocate a generation.
EntryPoints ==
    {"AcquirePlanned", "EnsurePlanned", "ConnectPlanned", "AcquireRoute",
     "ConnectRoute", "BeginRouteAttempts"}

None == "none"

ASSUME OwnerAssumption ==
    /\ Calls \subseteq Callers \X Owners \X EntryPoints
    /\ ClosingOwners \subseteq Owners
    /\ Overrides \subseteq Routes
    /\ MaxGeneration \in Nat \ {0}
    /\ None \notin Callers \cup Owners \cup Routes   \* None is nil
    /\ IsFiniteSet(Callers)

\* The endpointAcquireEntry objects of an owner.  A call uses at most one, so as
\* many names as there are callers are enough.
Entries == Owners \X Callers
NoEntry == <<None, None>>

Sessions == (1..MaxGeneration) \X Routes
NoSession == <<0, None>>
MaybeSession == Sessions \cup {NoSession}

\* Which entry points take the endpoint's acquire token, race the routes of
\* a plan, compare configuration keys, and return a shared lease.
Locked(op)  == op \in EntryPoints \ {"ConnectRoute", "BeginRouteAttempts"}
Planned(op) == op \in {"AcquirePlanned", "EnsurePlanned", "ConnectPlanned"}
Keyed(op)   == op \in {"AcquirePlanned", "EnsurePlanned", "AcquireRoute"}
Leased(op)  == op \in {"AcquirePlanned", "AcquireRoute"}

VARIABLES
    generation,   \* authority.generations of the endpoint
    authCurrent,  \* authority.current of the endpoint
    current,      \* owner.current, by owner
    config,       \* owner.configs
    closed,       \* owner.closed
    acquireLocks, \* owner.acquireLocks of the endpoint: the entry of new calls
    refs,         \* refs of each entry
    token,        \* who has taken the token of each entry
    entry,        \* the entry a call has a reference to
    shared,       \* owner.sharedLeases: pairs of a caller and a session
    session,      \* the life of each session
    watched,      \* owner whose removeWhenDone goroutine waits on a session
    madeFor,      \* the key an owner's session was dialled for (history)
    lease,        \* the lease a caller holds
    cleanup,      \* leases and a session that a caller has taken under the lock
    closing,      \* the same for other goroutines, by owner
    caller        \* the program counter and locals of each caller

lockVars == <<acquireLocks, refs, entry>>
vars == <<generation, authCurrent, current, config, closed, lockVars, token,
          shared, session, watched, madeFor, lease, cleanup, closing, caller>>

Idle == [pc |-> "idle", op |-> None, owner |-> None, key |-> None,
         route |-> None, generation |-> 0, plan |-> {}, won |-> NoSession]

\* What is finished and closed after the lock has been released.
Work == [leases: SUBSET (Callers \X Sessions), close: MaybeSession]
NoWork == [leases |-> {}, close |-> NoSession]

\* Where a caller is, and the locals of the functions it is in.
Labels == {"idle", "acquire", "reuse", "begin", "retire", "race",
           "adopt", "project", "file"}
CallerState ==
    [pc: Labels, op: EntryPoints \cup {None}, owner: Owners \cup {None},
     key: Keys \cup {None}, route: Routes \cup {None},
     generation: 0..MaxGeneration, plan: SUBSET Routes, won: MaybeSession]

TypeOK ==
    /\ generation \in 0..MaxGeneration
    /\ authCurrent \in MaybeSession
    /\ current \in [Owners -> MaybeSession]
    /\ config \in [Owners -> Keys \cup {None}]
    /\ closed \in [Owners -> BOOLEAN]
    /\ acquireLocks \in [Owners -> Entries \cup {NoEntry}]
    /\ refs \in [Entries -> Nat]
    /\ token \in [Entries -> Callers \cup {None}]
    /\ entry \in [Callers -> Entries \cup {NoEntry}]
    /\ shared \in [Owners -> SUBSET (Callers \X Sessions)]
    /\ session \in [Sessions ->
          {"none", "dialling", "ready", "late", "open", "done"}]
    /\ watched \in [Sessions -> Owners \cup {None}]
    /\ madeFor \in [Owners -> Keys \cup {None}]
    /\ lease \in [Callers -> MaybeSession]
    /\ cleanup \in [Callers -> Work]
    /\ closing \in [Owners -> SUBSET Work]
    /\ caller \in [Callers -> CallerState]

Init ==
    /\ generation = 0
    /\ authCurrent = NoSession
    /\ current = [o \in Owners |-> NoSession]
    /\ config = [o \in Owners |-> None]
    /\ closed = [o \in Owners |-> FALSE]
    /\ acquireLocks = [o \in Owners |-> NoEntry]
    /\ refs = [e \in Entries |-> 0]
    /\ token = [e \in Entries |-> None]
    /\ entry = [c \in Callers |-> NoEntry]
    /\ shared = [o \in Owners |-> {}]
    /\ session = [s \in Sessions |-> "none"]
    /\ watched = [s \in Sessions |-> None]
    /\ madeFor = [o \in Owners |-> None]
    /\ lease = [c \in Callers |-> NoSession]
    /\ cleanup = [c \in Callers |-> NoWork]
    /\ closing = [o \in Owners |-> {}]
    /\ caller = [c \in Callers |-> Idle]

-----------------------------------------------------------------------------
(* Helpers.                                                                *)

\* authority.isCurrent, for the session an owner has as its own current one.
IsCurrent(o, s) ==
    /\ s # NoSession
    /\ current[o] = s
    /\ generation = s[1]
    /\ authCurrent = s

\* removeCurrent: the authority forgets s if s is what it has.
AuthWithout(s) == IF authCurrent = s THEN NoSession ELSE authCurrent

\* Close of sessions: their Done channel is closed; closing again is harmless.
Closed(S) == [s \in Sessions |->
    IF s \in S /\ session[s] \in {"ready", "open"} THEN "done" ELSE session[s]]

\* sharedApplicationLease.finish, for the leases of L that are still open.
Finished(L) ==
    [c \in Callers |-> IF <<c, lease[c]>> \in L THEN NoSession ELSE lease[c]]
Unshared(L) == [o \in Owners |-> shared[o] \ L]

\* takeSharedLeasesForSessionLocked: leases are matched by stamp.
LeasesOn(o, s) == {p \in shared[o] : p[2] = s}

\* Mutant: the deferred release of the token is forgotten.
ReturnKeepsToken(c) ==
    /\ caller' = [caller EXCEPT ![c] = Idle]
    /\ UNCHANGED token

\* The call returns; a caller that holds the token gives it back.  One that has
\* a reference to an entry returns with Release.
Return(c) ==
    /\ caller' = [caller EXCEPT ![c] = Idle]
    /\ token' = [e \in Entries |-> IF token[e] = c THEN None ELSE token[e]]
Goto(c, pc) ==
    /\ caller' = [caller EXCEPT ![c].pc = pc]
    /\ UNCHANGED token

\* What a goroutine has taken and will end once it has released the lock.
Later(o, L, s) ==
    closing' = IF L = {} /\ s = NoSession THEN closing
               ELSE [closing EXCEPT ![o] = @ \cup {[leases |-> L, close |-> s]}]

\* newSharedLeaseLocked.
NewLease(c, s) ==
    /\ lease' = [lease EXCEPT ![c] = s]
    /\ shared' = [shared EXCEPT ![caller[c].owner] = @ \cup {<<c, s>>}]

-----------------------------------------------------------------------------
(* Acquiring the endpoint and reusing what is there.                       *)

NewEntry(o) ==
    CHOOSE e \in Entries : e[1] = o /\ \A d \in Callers : entry[d] # e

\* Mutant: only the call that creates the entry is counted, none that waits.
ReferUncounted(c, o) ==
    LET new == acquireLocks[o] = NoEntry
        e == IF new THEN NewEntry(o) ELSE acquireLocks[o]
    IN
    /\ acquireLocks' = [acquireLocks EXCEPT ![o] = e]
    /\ refs' = [refs EXCEPT ![e] = 1]
    /\ token' = IF new THEN [token EXCEPT ![e] = None] ELSE token
    /\ entry' = [entry EXCEPT ![c] = e]

\* The first critical section of acquireEndpoint: the entry of the endpoint, or a
\* new one with its token in the channel; refs counts every call that will use it.
Refer(c, o) ==
    LET new == acquireLocks[o] = NoEntry
        e == IF new THEN NewEntry(o) ELSE acquireLocks[o]
    IN
    /\ acquireLocks' = [acquireLocks EXCEPT ![o] = e]
    /\ refs' = [refs EXCEPT ![e] = IF new THEN 1 ELSE @ + 1]
    /\ token' = IF new THEN [token EXCEPT ![e] = None] ELSE token
    /\ entry' = [entry EXCEPT ![c] = e]

Start(c) ==
    /\ caller[c].pc = "idle"
    /\ entry[c] = NoEntry
    /\ lease[c] = NoSession
    /\ \E o \in Owners, op \in EntryPoints :
        /\ <<c, o, op>> \in Calls
        /\ \E k \in IF Keyed(op) THEN Keys ELSE {None},
              r \in CASE Planned(op) -> Overrides \cup {None}
                     [] op \in {"AcquireRoute", "ConnectRoute"} -> Routes
                     [] OTHER -> {None} :
            caller' = [caller EXCEPT ![c] =
               [pc |-> IF Locked(op) THEN "acquire" ELSE "begin",
                op |-> op, owner |-> o, key |-> k, route |-> r,
                generation |-> 0, plan |-> {}, won |-> NoSession]]
        /\ IF Locked(op) THEN Refer(c, o) ELSE UNCHANGED <<lockVars, token>>
    /\ UNCHANGED <<generation, authCurrent, current, config, closed,
                   shared, session, watched, madeFor, lease, cleanup, closing>>

\* acquireEndpoint receives the token; a closed owner gives it back at once.
TakeToken(c) ==
    /\ caller[c].pc = "acquire"
    /\ token[entry[c]] = None
    /\ IF closed[caller[c].owner]
       THEN Return(c)
       ELSE /\ token' = [token EXCEPT ![entry[c]] = c]
            /\ caller' = [caller EXCEPT ![c].pc =
                            IF Keyed(caller[c].op) THEN "reuse" ELSE "begin"]
    /\ UNCHANGED <<generation, authCurrent, current, config, closed, lockVars,
                   shared, session, watched, madeFor, lease, cleanup, closing>>

\* acquireEndpoint gives up: ctx is cancelled or ownerDone is closed.
StopWaiting(c) ==
    /\ caller[c].pc = "acquire"
    /\ Return(c)
    /\ UNCHANGED <<generation, authCurrent, current, config, closed, lockVars,
                   shared, session, watched, madeFor, lease, cleanup, closing>>

\* releaseEndpointAcquireRef, the last thing a call does that has used an entry.
Release(c) ==
    LET e == entry[c] IN
    /\ caller[c].pc = "idle"
    /\ e # NoEntry
    /\ refs' = [refs EXCEPT ![e] = @ - 1]
    /\ acquireLocks' = IF refs[e] = 1 /\ acquireLocks[e[1]] = e
                       THEN [acquireLocks EXCEPT ![e[1]] = NoEntry] ELSE acquireLocks
    /\ entry' = [entry EXCEPT ![c] = NoEntry]
    /\ UNCHANGED <<generation, authCurrent, current, config, closed, token, shared,
                   session, watched, madeFor, lease, cleanup, closing, caller>>

\* routeOverrideAllowsReuse; AcquireRoute names a route but does not compare it.
RouteFits(c, s) ==
    \/ caller[c].op = "AcquireRoute"
    \/ caller[c].route \in {None, s[2]}

Reusable(c) ==
    LET o == caller[c].owner  s == current[caller[c].owner] IN
    /\ IsCurrent(o, s)
    /\ config[o] = caller[c].key
    /\ RouteFits(c, s)
    /\ session[s] # "done"

\* The first critical section of AcquirePlanned, EnsurePlanned, AcquireRoute.
Reuse(c) ==
    LET o == caller[c].owner IN
    /\ caller[c].pc = "reuse"
    /\ \/ /\ closed[o]
          /\ Return(c)
          /\ UNCHANGED <<shared, lease>>
       \/ /\ ~closed[o]
          /\ Reusable(c)
          /\ IF Leased(caller[c].op)
             THEN NewLease(c, current[o]) ELSE UNCHANGED <<shared, lease>>
          /\ Return(c)
       \/ /\ ~closed[o]
          /\ ~Reusable(c)
          /\ Goto(c, "begin")
          /\ UNCHANGED <<shared, lease>>
    /\ UNCHANGED <<generation, authCurrent, current, config, closed, lockVars,
                   session, watched, madeFor, cleanup, closing>>

-----------------------------------------------------------------------------
(* A new generation.                                                       *)

\* Mutant: the last generation is not special.
NeverExhausted == FALSE

\* beginEndpointGeneration refuses to wrap around.
Exhausted == generation = MaxGeneration

\* Mutant: the configuration key survives the session it was stored for.
BeginSectionKeepsKey(c) ==
    LET o == caller[c].owner IN
    /\ generation' = generation + 1
    /\ authCurrent' = NoSession
    /\ current' = [current EXCEPT ![o] = NoSession]
    /\ madeFor' = [madeFor EXCEPT ![o] = None]
    /\ shared' = [shared EXCEPT ![o] = {}]
    /\ cleanup' = [cleanup EXCEPT ![c] =
          [leases |-> shared[o],
           close |-> IF authCurrent # NoSession THEN authCurrent ELSE current[o]]]
    /\ UNCHANGED config

\* beginEndpointGeneration up to the unlock: the generation is advanced, the
\* old session and its leases are taken out of the maps.
BeginSection(c) ==
    LET o == caller[c].owner IN
    /\ generation' = generation + 1
    /\ authCurrent' = NoSession
    /\ current' = [current EXCEPT ![o] = NoSession]
    /\ config' = [config EXCEPT ![o] = None]
    /\ madeFor' = [madeFor EXCEPT ![o] = None]
    /\ shared' = [shared EXCEPT ![o] = {}]
    /\ cleanup' = [cleanup EXCEPT ![c] =
          [leases |-> shared[o],
           close |-> IF authCurrent # NoSession THEN authCurrent ELSE current[o]]]

\* The preflight of the planner may refuse the request before anything changes;
\* the plan is one route when the caller or a remembered choice names it.
BeginEndpointGeneration(c) ==
    LET o == caller[c].owner  r == caller[c].route IN
    /\ caller[c].pc = "begin"
    /\ \/ /\ closed[o] \/ Exhausted \/ Planned(caller[c].op)
          /\ Return(c)
          /\ UNCHANGED <<generation, authCurrent, current, config, shared,
                         madeFor, cleanup>>
       \/ /\ ~closed[o]
          /\ ~Exhausted
          /\ BeginSection(c)
          /\ \E plan \in IF r # None THEN {{r}}
                         ELSE {{x} : x \in Routes} \cup {Routes} :
                caller' = [caller EXCEPT ![c].pc = "retire", ![c].plan = plan,
                                         ![c].generation = generation + 1]
          /\ UNCHANGED token
    /\ UNCHANGED <<closed, lockVars, session, watched, lease, closing>>

\* After the unlock the leases end and the session closes; then the attempts
\* of the plan start, or BeginRouteAttempts returns its attempts.
Retire(c) ==
    LET w == cleanup[c]  g == caller[c].generation
        dialled == IF caller[c].op = "BeginRouteAttempts" THEN {}
                   ELSE {g} \X caller[c].plan
    IN
    /\ caller[c].pc = "retire"
    /\ lease' = Finished(w.leases)
    /\ shared' = Unshared(w.leases)
    /\ session' = [s \in Sessions |->
                      IF s \in dialled THEN "dialling" ELSE Closed({w.close})[s]]
    /\ cleanup' = [cleanup EXCEPT ![c] = NoWork]
    /\ IF caller[c].op = "BeginRouteAttempts" THEN Return(c) ELSE Goto(c, "race")
    /\ UNCHANGED <<generation, authCurrent, current, config, closed, lockVars,
                   watched, madeFor, closing>>

Attempts(c) == {s \in Sessions : s[1] = caller[c].generation}

\* Mutant: an attempt that has already answered is not drained.
DrainedDialling(s) == IF session[s] = "dialling" THEN "late" ELSE session[s]

\* runRoutePlan receives the first ready session: the other attempts are
\* cancelled and closeLateRouteAttempts waits for them.
Drained(s) ==
    IF session[s] \in {"dialling", "ready"} THEN "late" ELSE session[s]

Winner(c) ==
    /\ caller[c].pc = "race"
    /\ \E s \in Attempts(c) :
        /\ session[s] = "ready"
        /\ \/ /\ session' = [x \in Sessions |->
                    IF x = s THEN "open"
                    ELSE IF x \in Attempts(c) THEN Drained(x) ELSE session[x]]
              /\ caller' = [caller EXCEPT ![c].pc = "adopt", ![c].won = s]
              /\ UNCHANGED token
           \/ /\ Planned(caller[c].op)        \* ctx was cancelled meanwhile
              /\ session' = [x \in Sessions |->
                    IF x = s THEN "done"
                    ELSE IF x \in Attempts(c) THEN Drained(x) ELSE session[x]]
              /\ Return(c)
    /\ UNCHANGED <<generation, authCurrent, current, config, closed, lockVars,
                   shared, watched, madeFor, lease, cleanup, closing>>

\* Every attempt failed.
NoWinner(c) ==
    /\ caller[c].pc = "race"
    /\ \A s \in Attempts(c) : session[s] \in {"none", "done"}
    /\ Return(c)
    /\ UNCHANGED <<generation, authCurrent, current, config, closed, lockVars,
                   shared, session, watched, madeFor, lease, cleanup, closing>>

\* The connector of a route answers: a ready session, or an error.
DialEnds(s) ==
    /\ session[s] = "dialling"
    /\ session' = [session EXCEPT ![s] = "ready"]
    /\ UNCHANGED <<generation, authCurrent, current, config, closed, lockVars, token,
                   shared, watched, madeFor, lease, cleanup, closing, caller>>

DialFails(s) ==
    /\ session[s] = "dialling"
    /\ session' = [session EXCEPT ![s] = "done"]
    /\ UNCHANGED <<generation, authCurrent, current, config, closed, lockVars, token,
                   shared, watched, madeFor, lease, cleanup, closing, caller>>

\* closeLateRouteAttempts: the result of a cancelled attempt arrives and what
\* it connected is closed.
CloseLate(s) ==
    /\ session[s] = "late"
    /\ session' = [session EXCEPT ![s] = "done"]
    /\ UNCHANGED <<generation, authCurrent, current, config, closed, lockVars, token,
                   shared, watched, madeFor, lease, cleanup, closing, caller>>

\* Mutant: the generation is not compared.
AdoptableAnyGeneration(c) ==
    /\ ~closed[caller[c].owner]
    /\ authCurrent = NoSession

\* adoptReadyPeerSession: whether an attempt that has become ready may publish.
Adoptable(c) ==
    /\ ~closed[caller[c].owner]
    /\ generation = caller[c].generation
    /\ authCurrent = NoSession

Adopt(c) ==
    LET o == caller[c].owner  s == caller[c].won  op == caller[c].op IN
    /\ caller[c].pc = "adopt"
    /\ IF Adoptable(c)
       THEN /\ authCurrent' = s
            /\ current' = [current EXCEPT ![o] = s]
            /\ watched' = [watched EXCEPT ![s] = o]
            /\ madeFor' = [madeFor EXCEPT ![o] = caller[c].key]
            /\ UNCHANGED session
            /\ CASE Leased(op) -> Goto(c, "project")
                 [] op = "EnsurePlanned" -> Goto(c, "file")
                 [] OTHER -> Return(c)
       ELSE /\ session' = Closed({s})
            /\ Return(c)
            /\ UNCHANGED <<authCurrent, current, watched, madeFor>>
    /\ UNCHANGED <<generation, config, closed, lockVars, shared, lease, cleanup,
                   closing>>

\* ApplicationSession: the stamp must still be the current one.
Project(c) ==
    LET o == caller[c].owner IN
    /\ caller[c].pc = "project"
    /\ IF ~closed[o] /\ IsCurrent(o, caller[c].won)
       THEN Goto(c, "file") ELSE Return(c)
    /\ UNCHANGED <<generation, authCurrent, current, config, closed, lockVars,
                   shared, session, watched, madeFor, lease, cleanup, closing>>

\* The last critical section stores the key and creates the lease; it compares
\* only closed.  A closed owner has let go of every session, so the Disconnect
\* of its error path finds nothing to close.
File(c) ==
    LET o == caller[c].owner IN
    /\ caller[c].pc = "file"
    /\ IF closed[o]
       THEN UNCHANGED <<config, shared, lease>>
       ELSE /\ config' = [config EXCEPT ![o] = caller[c].key]
            /\ IF Leased(caller[c].op) THEN NewLease(c, caller[c].won)
               ELSE UNCHANGED <<shared, lease>>
    /\ Return(c)
    /\ UNCHANGED <<generation, authCurrent, current, closed, lockVars, session,
                   watched, madeFor, cleanup, closing>>

-----------------------------------------------------------------------------
(* Ending sessions and leases.                                             *)

\* A session ends by itself: the peer or the network is gone.
SessionDies(s) ==
    /\ session[s] = "open"
    /\ session' = [session EXCEPT ![s] = "done"]
    /\ UNCHANGED <<generation, authCurrent, current, config, closed, lockVars,
                   token, shared, watched, madeFor, lease, cleanup, closing, caller>>

\* removeWhenDone.
RemoveWhenDone(s) ==
    LET o == watched[s]  mine == current[watched[s]] = s IN
    /\ o # None
    /\ session[s] = "done"
    /\ current' = IF mine THEN [current EXCEPT ![o] = NoSession] ELSE current
    /\ config' = IF mine THEN [config EXCEPT ![o] = None] ELSE config
    /\ authCurrent' = AuthWithout(s)
    /\ shared' = [shared EXCEPT ![o] = @ \ LeasesOn(o, s)]
    /\ Later(o, LeasesOn(o, s), NoSession)
    /\ watched' = [watched EXCEPT ![s] = None]
    /\ UNCHANGED <<generation, closed, lockVars, token, session, madeFor, lease,
                   cleanup, caller>>

\* Mutant: a new lease gets no goroutine that waits for its session.
LeaseUnwatched(c) == FALSE

\* The goroutine of newSharedLeaseLocked: the lease ends with its session.
LeaseFollows(c) ==
    /\ lease[c] # NoSession
    /\ session[lease[c]] = "done"
    /\ lease' = [lease EXCEPT ![c] = NoSession]
    /\ shared' = Unshared({<<c, lease[c]>>})
    /\ UNCHANGED <<generation, authCurrent, current, config, closed, lockVars, token,
                   session, watched, madeFor, cleanup, closing, caller>>

\* The consumer closes the lease that its call has returned.
CloseLease(c) ==
    /\ lease[c] # NoSession
    /\ caller[c].pc = "idle" /\ entry[c] = NoEntry
    /\ lease' = [lease EXCEPT ![c] = NoSession]
    /\ shared' = Unshared({<<c, lease[c]>>})
    /\ UNCHANGED <<generation, authCurrent, current, config, closed, lockVars, token,
                   session, watched, madeFor, cleanup, closing, caller>>

\* Disconnect with the stamp of the current session leaves the key and the
\* leases of the endpoint; invalidateApplicationSession takes them too.
Disconnect(o) ==
    LET s == current[o] IN
    /\ IsCurrent(o, s)
    /\ \/ /\ Later(o, {}, s)
          /\ UNCHANGED <<config, shared>>
       \/ /\ Later(o, LeasesOn(o, s), s)
          /\ config' = [config EXCEPT ![o] = None]
          /\ shared' = [shared EXCEPT ![o] = @ \ LeasesOn(o, s)]
    /\ current' = [current EXCEPT ![o] = NoSession]
    /\ authCurrent' = AuthWithout(s)
    /\ UNCHANGED <<generation, closed, lockVars, token, session, watched,
                   madeFor, lease, cleanup, caller>>

\* SessionOwner.Close up to the unlock.
CloseOwner(o) ==
    /\ o \in ClosingOwners
    /\ ~closed[o]
    /\ closed' = [closed EXCEPT ![o] = TRUE]
    /\ authCurrent' = IF current[o] = NoSession THEN authCurrent
                      ELSE AuthWithout(current[o])
    /\ Later(o, shared[o], current[o])
    /\ current' = [current EXCEPT ![o] = NoSession]
    /\ config' = IF current[o] = NoSession THEN config
                 ELSE [config EXCEPT ![o] = None]
    /\ shared' = [shared EXCEPT ![o] = {}]
    /\ UNCHANGED <<generation, lockVars, token, session, watched, madeFor,
                   lease, cleanup, caller>>

\* What removeWhenDone, Disconnect, invalidate and Close do after their unlock.
FinishCleanup(o) ==
    /\ \E w \in closing[o] :
        /\ lease' = Finished(w.leases)
        /\ shared' = Unshared(w.leases)
        /\ session' = Closed({w.close})
        /\ closing' = [closing EXCEPT ![o] = @ \ {w}]
    /\ UNCHANGED <<generation, authCurrent, current, config, closed, lockVars,
                   token, watched, madeFor, cleanup, caller>>

-----------------------------------------------------------------------------
CallerStep(c) ==
    \/ Reuse(c) \/ BeginEndpointGeneration(c) \/ Retire(c)
    \/ Winner(c) \/ NoWinner(c) \/ Adopt(c) \/ Project(c) \/ File(c)
    \/ Release(c)

Next ==
    \/ \E c \in Callers : \/ Start(c) \/ TakeToken(c) \/ StopWaiting(c) \/ CallerStep(c)
                          \/ LeaseFollows(c) \/ CloseLease(c)
    \/ \E s \in Sessions : \/ DialEnds(s) \/ DialFails(s) \/ CloseLate(s)
                           \/ SessionDies(s) \/ RemoveWhenDone(s)
    \/ \E o \in Owners : \/ Disconnect(o) \/ CloseOwner(o) \/ FinishCleanup(o)

Spec == Init /\ [][Next]_vars

\* Goroutines run, and a connector answers (its adapters use deadlines).  A
\* waiting receiver of the token channel is served in turn.  Nothing obliges
\* the peers to fail, or anyone to start, disconnect or close.
Fairness ==
    /\ \A c \in Callers :
        /\ WF_vars(CallerStep(c))
        /\ SF_vars(TakeToken(c))
        /\ WF_vars(LeaseFollows(c))
    /\ \A s \in Sessions :
        /\ WF_vars(DialEnds(s) \/ DialFails(s))
        /\ WF_vars(CloseLate(s))
        /\ WF_vars(RemoveWhenDone(s))
    /\ \A o \in Owners : WF_vars(FinishCleanup(o))

FairSpec == Spec /\ Fairness

-----------------------------------------------------------------------------
(* Properties.                                                             *)

\* A connected session that the authority does not publish is in the hands of
\* a goroutine that will publish or close it: late dials, replaced, disconnected
\* and invalidated sessions do not stay connected for ever (session_owner.go 232,
\* 311-325, 367-460; planned_session.go 301-308).
NoLeakedSession ==
    \A s \in Sessions : session[s] \in {"ready", "open"} =>
        \/ s = authCurrent
        \/ \E c \in Callers : caller[c].pc = "race" /\ s \in Attempts(c)
        \/ \E c \in Callers : caller[c].pc = "adopt" /\ caller[c].won = s
        \/ \E c \in Callers : cleanup[c].close = s
        \/ \E o \in Owners : \E w \in closing[o] : w.close = s

\* What the authority publishes is of the newest generation, and an owner that is
\* still open has it as its own current session, so that its Close, Disconnect
\* or removeWhenDone will retire it (session_owner.go 232-243, 306-315, 430-436).
AuthorityHasOwner ==
    authCurrent # NoSession =>
        /\ authCurrent[1] = generation
        /\ \E o \in Owners : current[o] = authCurrent /\ ~closed[o]

\* A session that AcquirePlanned, EnsurePlanned or AcquireRoute may hand out
\* again for a configuration key was dialled for that key, although the key is
\* stored in a later critical section that does not look at the generation
\* (session_owner.go 98-99, 126; planned_session.go 137, 164).
ReuseSameKey ==
    \A o \in Owners :
        IsCurrent(o, current[o]) /\ config[o] # None
            => madeFor[o] = config[o]

\* A lease on a session that is gone ends, also when it was created after the
\* session had been replaced and its leases taken (session_owner.go 127, 518-523).
LeasesEnd ==
    \A c \in Callers :
        (lease[c] # NoSession /\ session[lease[c]] = "done")
            ~> lease[c] = NoSession

\* A call that is past the endpoint's token.
Inside(c) == Locked(caller[c].op) /\ caller[c].pc \notin {"idle", "acquire"}

\* At most one call of an owner looks for a session to reuse or connects one: two
\* calls never hold the tokens of two entries, although entries are created and
\* deleted as calls come and go (session_owner.go 132-181).
OneCallConnects ==
    \A c, d \in Callers :
        Inside(c) /\ Inside(d) /\ caller[c].owner = caller[d].owner => c = d

\* The entry that a call waits for or uses is the one new calls find, its token is
\* in the channel or with a call that is connecting, and an entry that nobody uses
\* is deleted (session_owner.go 134-142, 172-179).
EntryInUse ==
    /\ \A c \in Callers : entry[c] # NoEntry =>
          /\ acquireLocks[entry[c][1]] = entry[c]
          /\ \/ token[entry[c]] = None
             \/ \E d \in Callers :
                   token[entry[c]] = d /\ Inside(d) /\ entry[d] = entry[c]
    /\ \A o \in Owners : acquireLocks[o] # NoEntry =>
          \E c \in Callers : entry[c] = acquireLocks[o]

\* A call that waits for the token gets it, or finds its owner closed, although
\* others come and go and never leave it to a deleted entry
\* (session_owner.go 144-169).
WaitersServed ==
    \A c \in Callers : caller[c].pc = "acquire" ~> caller[c].pc # "acquire"
=============================================================================
