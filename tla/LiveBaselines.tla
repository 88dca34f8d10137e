---------------------------- MODULE LiveBaselines ----------------------------
(***************************************************************************)
(* The baselines that the daemon keeps for a protocol session so that      *)
(* ApplicationLiveScreenNext can answer with the changed rows only         *)
(* (core/protocol_live_screen_baseline.go, application_session_port.go,    *)
(* protocol_service.go).  A step is one critical section of                *)
(* liveBaselineMu, or what happens between two of them.  The other         *)
(* sessions of the server are the bytes they have reserved.                *)
(***************************************************************************)
EXTENDS Integers, FiniteSets

CONSTANTS
    Terminals,          \* terminal IDs
    Requests,           \* requests that the session serves at the same time
    BaselineSizes,      \* 8 bytes for each row and 64 more
    SessionLimit,       \* maxLiveScreenBaselineSessionBytes
    ServerLimit,        \* maxLiveScreenBaselineServerBytes
    EntryLimit,         \* maxLiveScreenBaselineEntries
    MaxScreen           \* revisions of a screen: what a client has observed, and what
                        \* a snapshot is of, may be any of them

ASSUME BaselineAssumption ==
    /\ BaselineSizes \subseteq Nat \ {0} /\ IsFiniteSet(BaselineSizes)
    /\ SessionLimit \in Nat /\ ServerLimit \in Nat /\ EntryLimit \in Nat
    /\ MaxScreen \in Nat \ {0}
    /\ IsFiniteSet(Terminals) /\ IsFiniteSet(Requests)

VARIABLES
    confirmed,     \* the baseline that the client is known to have
    offered,       \* the baseline of the last answer
    sessionBytes,  \* session.liveBaselineBytes
    serverBytes,   \* server.liveBaselineBytes
    others,        \* of those, the bytes of other sessions (history)
    timer,         \* session.liveBaselineTimer is set
    life,          \* "open", "closing" (requests.Wait), "closed"
    request        \* ApplicationLiveScreenNext

baselineVars == <<confirmed, offered, sessionBytes, serverBytes, others, timer,
                  life, request>>

\* expires: never while it is pinned, later, or past.
NoBaseline == [revision |-> 0, bytes |-> 0, pins |-> 0, expires |-> "never"]
NoRequest == [pc |-> "idle", terminal |-> "none", pinned |-> FALSE]

Baselines == [revision: 0..MaxScreen, bytes: BaselineSizes \cup {0},
              pins: 0..Cardinality(Requests), expires: {"never", "later", "past"}]
RequestStates == [pc: {"idle", "next", "answer", "release"},
                  terminal: Terminals \cup {"none"}, pinned: BOOLEAN]

BaselineTypeOK ==
    /\ confirmed \in [Terminals -> Baselines]
    /\ offered \in [Terminals -> Baselines]
    /\ sessionBytes \in 0..SessionLimit
    /\ serverBytes \in 0..ServerLimit
    /\ others \in 0..ServerLimit
    /\ timer \in BOOLEAN
    /\ life \in {"open", "closing", "closed"}
    /\ request \in [Requests -> RequestStates]

BaselineInit ==
    /\ confirmed = [t \in Terminals |-> NoBaseline]
    /\ offered = [t \in Terminals |-> NoBaseline]
    /\ sessionBytes = 0
    /\ serverBytes = 0
    /\ others = 0
    /\ timer = FALSE
    /\ life = "open"
    /\ request = [r \in Requests |-> NoRequest]

-----------------------------------------------------------------------------
(* The cache.  K and O are its two halves after the steps that a critical  *)
(* section has taken so far.                                               *)

Expired(b) == b.revision # 0 /\ b.pins = 0 /\ b.expires = "past"

\* pruneLiveScreenBaselinesLocked, for one half of the cache.
Pruned(half) ==
    [t \in Terminals |-> IF Expired(half[t]) THEN NoBaseline ELSE half[t]]

Entries(K, O) ==
    {t \in Terminals : K[t].revision # 0 \/ O[t].revision # 0}

\* The bytes of a half of the cache, each one counted.
CachedBytes(half) == UNION {{t} \X (1..half[t].bytes) : t \in Terminals}
BytesIn(half) == Cardinality(CachedBytes(half))

\* The bytes that dropCachedLiveScreenBaselineLocked takes off for what a
\* critical section has dropped from the half cache `before'.
Lost(before, after) == BytesIn(before) - BytesIn(after)

\* Mutant: only the confirmed half is looked at.
EnsuredForConfirmed(K, O) ==
    timer \/ \E t \in Terminals : K[t].revision # 0

\* ensureLiveScreenBaselineTimerLocked.
Ensured(K, O) ==
    timer \/ (life # "closed" /\ Entries(K, O) # {})

\* The critical section stores the halves K and O; what it has dropped is given
\* back to the session and the server.  added is what it has put in.
Store(K, O, dropped, added) ==
    /\ confirmed' = K
    /\ offered' = O
    /\ sessionBytes' = (IF sessionBytes < dropped THEN 0
                        ELSE sessionBytes - dropped) + added
    /\ serverBytes' = serverBytes - dropped + added

-----------------------------------------------------------------------------
(* A request.                                                              *)

\* Mutant: a pinned confirmed baseline is replaced as well.
MayPromoteAlways(K, x) == TRUE

\* An offered baseline that the client has observed becomes the confirmed one,
\* unless that is in use.
MayPromote(K, x) == K[x].pins = 0

\* acquireLiveScreenBaseline, with the revision the client has observed.
Acquire(q) ==
    /\ request[q].pc = "idle"
    /\ life # "closed"
    /\ \E t \in Terminals : \E observed \in 1..MaxScreen :
        LET K1 == Pruned(confirmed)
            O1 == Pruned(offered)
            seen == O1[t].revision = observed
            promote == seen /\ MayPromote(K1, t)
            K2 == IF promote THEN [K1 EXCEPT ![t] = O1[t]] ELSE K1
            O2 == IF promote THEN [O1 EXCEPT ![t] = NoBaseline] ELSE O1
            found == (seen => promote) /\ K2[t].revision = observed
            K3 == IF found THEN [K2 EXCEPT ![t].pins = @ + 1,
                                           ![t].expires = "never"] ELSE K2
            before == Lost(confirmed, K1) + Lost(offered, O1)
        IN /\ Store(K3, O2,
                    before + (IF promote THEN K1[t].bytes ELSE 0), 0)
           /\ timer' = IF found THEN Ensured(K3, O2) ELSE timer
           /\ request' = [request EXCEPT ![q] =
                [pc |-> "next", terminal |-> t, pinned |-> found]]
    /\ UNCHANGED <<others, life>>

\* nextLiveScreenWithBaseline returns a snapshot, or an error: the terminal is
\* gone, or the session's context is cancelled.
Answer(q) ==
    /\ request[q].pc = "next"
    /\ \E pc \in {"answer", "release"} :
        request' = [request EXCEPT ![q].pc = pc]
    /\ UNCHANGED <<confirmed, offered, sessionBytes, serverBytes, others, timer,
                   life>>

\* Mutant: the server's limit is not looked at.
FitsSession(used, bytes) == sessionBytes - used + bytes =< SessionLimit

\* The session's limit, and reserveLiveScreenBaselineBytes.
FitsLimits(used, bytes) ==
    /\ sessionBytes - used + bytes =< SessionLimit
    /\ serverBytes - used + bytes =< ServerLimit

\* offerLiveScreenBaseline: the snapshot may be of an earlier revision than that
\* of another request which has come in between.
Offer(q) ==
    LET t == request[q].terminal IN
    /\ request[q].pc = "answer"
    /\ request' = [request EXCEPT ![q].pc = "release"]
    /\ \E bytes \in BaselineSizes : \E revision \in 1..MaxScreen :
        LET K1 == Pruned(confirmed)
            O1 == Pruned(offered)
            pruned == Lost(confirmed, K1) + Lost(offered, O1)
            refused == \/ /\ t \notin Entries(K1, O1)
                          /\ Cardinality(Entries(K1, O1)) >= EntryLimit
                       \/ O1[t].pins > 0
                       \/ O1[t].revision > revision
            O2 == [O1 EXCEPT ![t] = NoBaseline]
            used == pruned + O1[t].bytes
            O3 == [O1 EXCEPT ![t] = [revision |-> revision, bytes |-> bytes,
                                     pins |-> 0, expires |-> "later"]]
            skipped == bytes > SessionLimit \/ life = "closed"
        IN \/ /\ skipped
              /\ UNCHANGED <<confirmed, offered, sessionBytes, serverBytes, timer>>
           \/ /\ ~skipped
              /\ refused
              /\ Store(K1, O1, pruned, 0)
              /\ UNCHANGED timer
           \/ /\ ~skipped
              /\ ~refused                \* another session may take the bytes
              /\ Store(K1, O2, used, 0)
              /\ UNCHANGED timer
           \/ /\ ~skipped
              /\ ~refused
              /\ FitsLimits(used, bytes)
              /\ Store(K1, O3, used, bytes)
              /\ timer' = Ensured(K1, O3)
    /\ UNCHANGED <<others, life>>

\* The deferred release.
ReleaseBaseline(q) ==
    LET t == request[q].terminal
        b == confirmed[t]
        K == [confirmed EXCEPT ![t] = [b EXCEPT !.pins = @ - 1,
                 !.expires = IF b.pins = 1 THEN "later" ELSE @]]
    IN
    /\ request[q].pc = "release"
    /\ request' = [request EXCEPT ![q] = NoRequest]
    /\ IF request[q].pinned
       THEN /\ confirmed' = K
            /\ timer' = Ensured(K, offered)
       ELSE UNCHANGED <<confirmed, timer>>
    /\ UNCHANGED <<offered, sessionBytes, serverBytes, others, life>>

-----------------------------------------------------------------------------
(* Time, and the end of a session.                                         *)

\* The time to live of baselines that are not pinned passes.
TimePasses ==
    /\ \E half \in {"confirmed", "offered"}, t \in Terminals :
        \/ /\ half = "confirmed"
           /\ confirmed[t].expires = "later"
           /\ confirmed' = [confirmed EXCEPT ![t].expires = "past"]
           /\ UNCHANGED offered
        \/ /\ half = "offered"
           /\ offered[t].expires = "later"
           /\ offered' = [offered EXCEPT ![t].expires = "past"]
           /\ UNCHANGED confirmed
    /\ UNCHANGED <<sessionBytes, serverBytes, others, timer, life, request>>

\* expireLiveScreenBaselines.
ExpireBaselines ==
    LET K == Pruned(confirmed)  O == Pruned(offered) IN
    /\ timer
    /\ Store(K, O, Lost(confirmed, K) + Lost(offered, O), 0)
    /\ timer' = (Entries(K, O) # {})
    /\ UNCHANGED <<others, life, request>>

\* run returns: the requests are cancelled and waited for.
EndSession ==
    /\ life = "open"
    /\ life' = "closing"
    /\ UNCHANGED <<confirmed, offered, sessionBytes, serverBytes, others, timer,
                   request>>

\* requests.Wait has returned.
RequestsDone == \A q \in Requests : request[q].pc = "idle"

\* clearLiveScreenBaselines.
ClearBaselines ==
    LET empty == [t \in Terminals |-> NoBaseline] IN
    /\ life = "closing"
    /\ RequestsDone
    /\ life' = "closed"
    /\ Store(empty, empty, BytesIn(confirmed) + BytesIn(offered), 0)
    /\ timer' = FALSE
    /\ UNCHANGED <<others, request>>

\* Other sessions reserve bytes of the server, and give some back.
OthersReserve ==
    /\ \E bytes \in BaselineSizes :
        /\ serverBytes + bytes =< ServerLimit
        /\ serverBytes' = serverBytes + bytes
        /\ others' = others + bytes
    /\ UNCHANGED <<confirmed, offered, sessionBytes, timer, life, request>>

OthersDrop ==
    /\ \E bytes \in 1..others :
        /\ serverBytes' = serverBytes - bytes
        /\ others' = others - bytes
    /\ UNCHANGED <<confirmed, offered, sessionBytes, timer, life, request>>

BaselineNext ==
    \/ \E q \in Requests :
        Acquire(q) \/ Answer(q) \/ Offer(q) \/ ReleaseBaseline(q)
    \/ TimePasses \/ ExpireBaselines
    \/ EndSession \/ ClearBaselines
    \/ OthersReserve \/ OthersDrop

BaselineSpec == BaselineInit /\ [][BaselineNext]_baselineVars

-----------------------------------------------------------------------------
(* Properties.                                                             *)

\* The bytes charged to the session are those of the baselines it caches, none
\* once it is closed, and together with those of the other sessions they are
\* what the server counts, within both limits
\* (protocol_live_screen_baseline.go 105-143, 182-198).
BytesExact ==
    /\ sessionBytes = BytesIn(confirmed) + BytesIn(offered)
    /\ sessionBytes =< SessionLimit
    /\ life = "closed" => sessionBytes = 0
    /\ serverBytes = sessionBytes + others
    /\ serverBytes =< ServerLimit

\* The pins of a baseline are the requests that use it: none is dropped or
\* replaced under a request, and none stays pinned without one
\* (protocol_live_screen_baseline.go 39-72, 162).
PinsMatchRequests ==
    \A t \in Terminals :
        /\ offered[t].pins = 0
        /\ confirmed[t].pins =
              Cardinality({q \in Requests : /\ request[q].pinned
                                            /\ request[q].terminal = t})

\* As long as the session has a baseline, a timer is set that will expire it
\* (protocol_live_screen_baseline.go 165-180).
TimerIsSet == Entries(confirmed, offered) # {} => timer
=============================================================================
