------------------------- MODULE LiveBaselinesProofs -------------------------
(***************************************************************************)
(* The bytes, the pins and the timer of the live screen baselines, for     *)
(* every number of terminals and requests and every limit.                 *)
(***************************************************************************)
EXTENDS LiveBaselines, FiniteSetTheorems, TLAPS

\* No cached baseline is larger than a session may hold.
Bounded ==
    \A t \in Terminals :
        confirmed[t].bytes =< SessionLimit /\ offered[t].bytes =< SessionLimit

\* A request that is under way has a terminal and keeps the session from being
\* closed; one that is not has pinned nothing.
Served ==
    \A q \in Requests :
        /\ request[q].pc = "idle" => ~request[q].pinned
        /\ request[q].pc # "idle" =>
              request[q].terminal \in Terminals /\ life # "closed"

BaselineInv ==
    /\ BaselineTypeOK
    /\ Bounded
    /\ Served
    /\ BytesExact
    /\ PinsMatchRequests
    /\ TimerIsSet

\* A half of the cache, as the critical sections build it.
Half(h) ==
    /\ h \in [Terminals -> Baselines]
    /\ \A t \in Terminals : h[t].bytes =< SessionLimit

-----------------------------------------------------------------------------
(* The bytes of a half of the cache.                                       *)

\* The bytes of the terminals other than t.
RestOf(h, t) == {z \in CachedBytes(h) : z[1] # t}

\* The bytes of one baseline can be counted.
LEMMA BaselineBytes ==
    ASSUME NEW t, NEW n \in Nat
    PROVE  /\ IsFiniteSet({t} \X (1 .. n))
           /\ Cardinality({t} \X (1 .. n)) = n
<1>1. IsFiniteSet(1 .. n) /\ Cardinality(1 .. n) = n
  <2>1. 1 \in Int /\ n \in Int
    OBVIOUS
  <2>. QED
    BY <2>1, FS_Interval
<1>2. IsFiniteSet({t}) /\ Cardinality({t}) = 1
  BY FS_Singleton
<1>3. /\ IsFiniteSet({t} \X (1 .. n))
      /\ Cardinality({t} \X (1 .. n)) = Cardinality({t}) * Cardinality(1 .. n)
  BY <1>1, <1>2, FS_Product
<1>. QED
  BY <1>1, <1>2, <1>3

\* A half of the cache holds numbers.
LEMMA HalfTypes ==
    ASSUME NEW h, Half(h), NEW t \in Terminals
    PROVE  /\ h[t] \in Baselines
           /\ h[t].bytes \in Nat
           /\ h[t].bytes \in 0 .. SessionLimit
           /\ h[t].pins \in Nat
           /\ h[t].revision \in Nat
           /\ SessionLimit \in Nat
<1>1. h[t] \in Baselines
  BY DEF Half
<1>2. SessionLimit \in Nat /\ BaselineSizes \subseteq Nat
  BY BaselineAssumption
<1>3. h[t].bytes \in Nat
  <2>1. h[t].bytes \in BaselineSizes \cup {0}
    BY <1>1 DEF Baselines
  <2>2. \A n \in BaselineSizes \cup {0} : n \in Nat
    BY <1>2
  <2>. QED
    BY <2>1, <2>2, Zenon
<1>4. h[t].bytes =< SessionLimit
  BY DEF Half
<1>5. h[t].pins \in 0 .. Cardinality(Requests)
  BY <1>1 DEF Baselines
<1>6. h[t].pins \in Nat
  BY <1>5, FS_CardinalityType, BaselineAssumption
<1>7. h[t].revision \in 0 .. MaxScreen
  BY <1>1 DEF Baselines
<1>. QED
  BY <1>1, <1>2, <1>3, <1>4, <1>6, <1>7

\* A byte of a half is one of a terminal's baseline.
LEMMA ByteOf ==
    ASSUME NEW h, NEW z
    PROVE  z \in CachedBytes(h) <=>
             \E t \in Terminals : z \in {t} \X (1 .. h[t].bytes)
BY DEF CachedBytes

\* The bytes of a half of the cache can be counted.
LEMMA HalfFinite ==
    ASSUME NEW h, Half(h)
    PROVE  IsFiniteSet(CachedBytes(h)) /\ BytesIn(h) \in Nat
<1>1. CachedBytes(h) \subseteq Terminals \X (1 .. SessionLimit)
  <2>. SUFFICES ASSUME NEW z \in CachedBytes(h)
                PROVE  z \in Terminals \X (1 .. SessionLimit)
    OBVIOUS
  <2>1. PICK t \in Terminals : z \in {t} \X (1 .. h[t].bytes)
    BY ByteOf
  <2>2. h[t].bytes \in 0 .. SessionLimit /\ SessionLimit \in Nat
    BY HalfTypes
  <2>. QED
    BY <2>1, <2>2
<1>2. IsFiniteSet(Terminals \X (1 .. SessionLimit))
  <2>1. SessionLimit \in Int /\ IsFiniteSet(Terminals)
    BY BaselineAssumption
  <2>2. IsFiniteSet(1 .. SessionLimit)
    BY <2>1, FS_Interval
  <2>. QED
    BY <2>1, <2>2, FS_Product
<1>3. IsFiniteSet(CachedBytes(h))
  BY <1>1, <1>2, FS_Subset
<1>. QED
  BY <1>3, FS_CardinalityType DEF BytesIn

\* The bytes of a half are those of one terminal and those of the others.
LEMMA SplitBytes ==
    ASSUME NEW h, Half(h), NEW t \in Terminals
    PROVE  /\ IsFiniteSet(RestOf(h, t))
           /\ Cardinality(RestOf(h, t)) \in Nat
           /\ BytesIn(h) = Cardinality(RestOf(h, t)) + h[t].bytes
<1>. DEFINE R == RestOf(h, t)
            N == {t} \X (1 .. h[t].bytes)
<1>1. IsFiniteSet(R)
  <2>1. R \subseteq CachedBytes(h)
    BY DEF RestOf
  <2>. QED
    BY <2>1, HalfFinite, FS_Subset
<1>2. h[t].bytes \in Nat
  BY HalfTypes
<1>3. IsFiniteSet(N) /\ Cardinality(N) = h[t].bytes
  BY <1>2, BaselineBytes
<1>4. CachedBytes(h) = R \cup N
  <2>1. ASSUME NEW z \in CachedBytes(h) PROVE z \in R \cup N
    <3>1. PICK u \in Terminals : z \in {u} \X (1 .. h[u].bytes)
      BY <2>1, ByteOf
    <3>2. CASE u = t
      BY <3>1, <3>2
    <3>3. CASE u # t
      BY <2>1, <3>1, <3>3 DEF RestOf
    <3>. QED
      BY <3>2, <3>3
  <2>2. ASSUME NEW z \in N PROVE z \in CachedBytes(h)
    BY <2>2, ByteOf
  <2>3. R \subseteq CachedBytes(h)
    BY DEF RestOf
  <2>. QED
    BY <2>1, <2>2, <2>3
<1>5. R \cap N = {}
  BY DEF RestOf
<1>. HIDE DEF R, N
<1>6. Cardinality(R \cup N) = Cardinality(R) + Cardinality(N) - Cardinality(R \cap N)
  BY <1>1, <1>3, FS_Union
<1>7. Cardinality(R) \in Nat
  BY <1>1, FS_CardinalityType
<1>8. BytesIn(h) = Cardinality(R) + h[t].bytes
  <2>1. Cardinality(R \cap N) = 0
    BY <1>5, FS_EmptySet
  <2>2. BytesIn(h) = Cardinality(R \cup N)
    BY <1>4 DEF BytesIn
  <2>. QED
    BY <1>2, <1>3, <1>6, <1>7, <2>1, <2>2
<1>. QED
  BY <1>1, <1>7, <1>8 DEF R

\* Replacing the baseline of one terminal changes the bytes of the half by the
\* difference of the two baselines.
LEMMA ReplaceBytes ==
    ASSUME NEW h, Half(h), NEW t \in Terminals, NEW b \in Baselines,
           b.bytes =< SessionLimit
    PROVE  /\ Half([h EXCEPT ![t] = b])
           /\ BytesIn([h EXCEPT ![t] = b]) = BytesIn(h) - h[t].bytes + b.bytes
<1>. DEFINE g == [h EXCEPT ![t] = b]
<1>1. h \in [Terminals -> Baselines]
  BY DEF Half
<1>2. g[t] = b /\ \A u \in Terminals : u # t => g[u] = h[u]
  BY <1>1
<1>3. Half(g)
  <2>1. g \in [Terminals -> Baselines]
    BY <1>1
  <2>2. ASSUME NEW u \in Terminals PROVE g[u].bytes =< SessionLimit
    BY <1>2 DEF Half
  <2>. QED
    BY <2>1, <2>2 DEF Half
<1>. HIDE DEF g
<1>4. RestOf(g, t) = RestOf(h, t)
  <2>1. ASSUME NEW z \in RestOf(g, t) PROVE z \in RestOf(h, t)
    <3>1. PICK u \in Terminals : z \in {u} \X (1 .. g[u].bytes)
      BY <2>1, ByteOf DEF RestOf
    <3>2. u # t /\ g[u] = h[u]
      BY <2>1, <3>1, <1>2 DEF RestOf
    <3>3. z \in CachedBytes(h)
      BY <3>1, <3>2, ByteOf
    <3>. QED
      BY <2>1, <3>3 DEF RestOf
  <2>2. ASSUME NEW z \in RestOf(h, t) PROVE z \in RestOf(g, t)
    <3>1. PICK u \in Terminals : z \in {u} \X (1 .. h[u].bytes)
      BY <2>2, ByteOf DEF RestOf
    <3>2. u # t /\ g[u] = h[u]
      BY <2>2, <3>1, <1>2 DEF RestOf
    <3>3. z \in CachedBytes(g)
      BY <3>1, <3>2, ByteOf
    <3>. QED
      BY <2>2, <3>3 DEF RestOf
  <2>. QED
    BY <2>1, <2>2
<1>5. BytesIn(h) = Cardinality(RestOf(h, t)) + h[t].bytes
  BY SplitBytes
<1>6. BytesIn(g) = Cardinality(RestOf(h, t)) + b.bytes
  BY <1>2, <1>3, <1>4, SplitBytes
<1>7. Cardinality(RestOf(h, t)) \in Nat
  BY SplitBytes
<1>8. h[t].bytes \in Nat /\ b.bytes \in Nat
  BY <1>2, <1>3, HalfTypes
<1>9. BytesIn(g) = BytesIn(h) - h[t].bytes + b.bytes
  BY <1>5, <1>6, <1>7, <1>8
<1>. QED
  BY <1>3, <1>9 DEF g

\* An empty half has no bytes.
LEMMA NoBytes ==
    /\ Half([t \in Terminals |-> NoBaseline])
    /\ BytesIn([t \in Terminals |-> NoBaseline]) = 0
<1>. DEFINE e == [t \in Terminals |-> NoBaseline]
<1>1. NoBaseline \in Baselines /\ NoBaseline.bytes = 0 /\ 0 =< SessionLimit
  <2>1. Cardinality(Requests) \in Nat
    BY FS_CardinalityType, BaselineAssumption
  <2>2. 0 \in 0 .. Cardinality(Requests) /\ 0 \in 0 .. MaxScreen
    BY <2>1, BaselineAssumption
  <2>. QED
    BY <2>2, BaselineAssumption DEF NoBaseline, Baselines
<1>2. Half(e)
  BY <1>1 DEF Half
<1>3. CachedBytes(e) = {}
  <2>. SUFFICES ASSUME NEW z \in CachedBytes(e) PROVE FALSE
    OBVIOUS
  <2>1. PICK t \in Terminals : z \in {t} \X (1 .. e[t].bytes)
    BY ByteOf
  <2>2. e[t].bytes = 0
    BY <1>1
  <2>. QED
    BY <2>1, <2>2
<1>. QED
  BY <1>2, <1>3, FS_EmptySet DEF BytesIn

\* Dropping what has expired keeps every pinned baseline, takes bytes off and
\* brings no terminal in.
LEMMA PrunedHalf ==
    ASSUME NEW h, Half(h)
    PROVE  /\ Half(Pruned(h))
           /\ BytesIn(Pruned(h)) =< BytesIn(h)
           /\ \A t \in Terminals :
                /\ Pruned(h)[t].pins = h[t].pins
                /\ Pruned(h)[t].revision # 0 => h[t].revision # 0
<1>. DEFINE g == Pruned(h)
<1>1. \A t \in Terminals :
        g[t] = h[t] \/ (h[t].pins = 0 /\ g[t] = NoBaseline)
  BY DEF Pruned, Expired
<1>2. NoBaseline \in Baselines /\ NoBaseline.bytes = 0 /\ NoBaseline.pins = 0
      /\ NoBaseline.revision = 0 /\ SessionLimit \in Nat
  <2>1. Cardinality(Requests) \in Nat
    BY FS_CardinalityType, BaselineAssumption
  <2>2. 0 \in 0 .. Cardinality(Requests) /\ 0 \in 0 .. MaxScreen
    BY <2>1, BaselineAssumption
  <2>. QED
    BY <2>2, BaselineAssumption DEF NoBaseline, Baselines
<1>3. g \in [Terminals -> Baselines]
  <2>1. h \in [Terminals -> Baselines]
    BY DEF Half
  <2>. QED
    BY <2>1, <1>2 DEF Pruned
<1>. HIDE DEF g
<1>4. Half(g)
  BY <1>1, <1>2, <1>3 DEF Half
<1>5. \A t \in Terminals : /\ g[t].pins = h[t].pins
                           /\ g[t].revision # 0 => h[t].revision # 0
  BY <1>1, <1>2
<1>6. CachedBytes(g) \subseteq CachedBytes(h)
  <2>. SUFFICES ASSUME NEW z \in CachedBytes(g) PROVE z \in CachedBytes(h)
    OBVIOUS
  <2>1. PICK t \in Terminals : z \in {t} \X (1 .. g[t].bytes)
    BY ByteOf
  <2>2. g[t] = h[t]
    BY <1>1, <1>2, <2>1
  <2>. QED
    BY <2>1, <2>2, ByteOf
<1>7. BytesIn(g) =< BytesIn(h)
  BY <1>6, HalfFinite, FS_Subset DEF BytesIn
<1>. QED
  BY <1>4, <1>5, <1>7 DEF g

-----------------------------------------------------------------------------
(* The requests that use a baseline.                                       *)

\* The requests of req that have pinned the baseline of t.
UsersIn(req, t) == {q \in Requests : req[q].pinned /\ req[q].terminal = t}

\* They can be counted, and are not more than the requests.
LEMMA UsersFinite ==
    ASSUME NEW req, NEW t
    PROVE  /\ IsFiniteSet(UsersIn(req, t))
           /\ Cardinality(UsersIn(req, t)) \in Nat
           /\ Cardinality(Requests) \in Nat
           /\ Cardinality(UsersIn(req, t)) \in 0 .. Cardinality(Requests)
<1>1. UsersIn(req, t) \subseteq Requests
  BY DEF UsersIn
<1>2. IsFiniteSet(Requests)
  BY BaselineAssumption
<1>3. IsFiniteSet(UsersIn(req, t))
      /\ Cardinality(UsersIn(req, t)) =< Cardinality(Requests)
  BY <1>1, <1>2, FS_Subset
<1>4. Cardinality(UsersIn(req, t)) \in Nat /\ Cardinality(Requests) \in Nat
  BY <1>2, <1>3, FS_CardinalityType
<1>. QED
  BY <1>3, <1>4

\* The users depend on what each request has pinned.
LEMMA UsersKept ==
    ASSUME NEW f, NEW g, NEW t,
           \A q \in Requests : (f[q].pinned /\ f[q].terminal = t) <=>
                               (g[q].pinned /\ g[q].terminal = t)
    PROVE  UsersIn(g, t) = UsersIn(f, t)
BY DEF UsersIn

\* One request more.
LEMMA UserAdded ==
    ASSUME NEW f, NEW g, NEW t, NEW q \in Requests,
           ~f[q].pinned, g[q].pinned, g[q].terminal = t,
           \A p \in Requests : p # q => g[p] = f[p]
    PROVE  Cardinality(UsersIn(g, t)) = Cardinality(UsersIn(f, t)) + 1
<1>1. UsersIn(g, t) = UsersIn(f, t) \cup {q} /\ q \notin UsersIn(f, t)
  BY DEF UsersIn
<1>. QED
  BY ZenonT(30), <1>1, UsersFinite, FS_AddElement

\* One request less.
LEMMA UserRemoved ==
    ASSUME NEW f, NEW g, NEW t, NEW q \in Requests,
           f[q].pinned, f[q].terminal = t, ~g[q].pinned,
           \A p \in Requests : p # q => g[p] = f[p]
    PROVE  Cardinality(UsersIn(f, t)) = Cardinality(UsersIn(g, t)) + 1
BY UserAdded

\* A pin is one of a request.
LEMMA PinsCounted ==
    /\ PinsMatchRequests <=>
         \A t \in Terminals :
            /\ offered[t].pins = 0
            /\ confirmed[t].pins = Cardinality(UsersIn(request, t))
    /\ PinsMatchRequests' <=>
         \A t \in Terminals :
            /\ offered'[t].pins = 0
            /\ confirmed'[t].pins = Cardinality(UsersIn(request', t))
BY DEF PinsMatchRequests, UsersIn

-----------------------------------------------------------------------------
(* What the steps have in common.                                          *)

\* The halves of the cache in a state of the invariant.
LEMMA Halves ==
    ASSUME BaselineTypeOK, Bounded
    PROVE  Half(confirmed) /\ Half(offered)
BY DEF BaselineTypeOK, Bounded, Half

\* A critical section that takes off what it has dropped and puts on what it has
\* added, within the limits, leaves the counters exact.
LEMMA StoredExactly ==
    ASSUME NEW K, NEW O, NEW dropped, NEW added \in Nat,
           BaselineTypeOK, Bounded, BytesExact,
           Half(K), Half(O),
           dropped = BytesIn(confirmed) + BytesIn(offered) + added
                        - (BytesIn(K) + BytesIn(O)),
           added =< BytesIn(K) + BytesIn(O),
           sessionBytes - dropped + added =< SessionLimit,
           serverBytes - dropped + added =< ServerLimit,
           life' = "closed" => BytesIn(K) + BytesIn(O) = 0,
           Store(K, O, dropped, added), others' = others
    PROVE  /\ BytesExact'
           /\ Bounded'
           /\ Half(confirmed') /\ Half(offered')
           /\ sessionBytes' \in 0 .. SessionLimit
           /\ serverBytes' \in 0 .. ServerLimit
           /\ others' \in 0 .. ServerLimit
<1>. DEFINE c == BytesIn(confirmed)
            o == BytesIn(offered)
            k == BytesIn(K)
            p == BytesIn(O)
<1>1. c \in Nat /\ o \in Nat /\ k \in Nat /\ p \in Nat
  BY Halves, HalfFinite
<1>2. sessionBytes \in Nat /\ serverBytes \in Nat /\ others \in 0 .. ServerLimit
      /\ SessionLimit \in Nat /\ ServerLimit \in Nat
  BY BaselineAssumption DEF BaselineTypeOK
<1>3. sessionBytes = c + o /\ serverBytes = sessionBytes + others
  BY DEF BytesExact
<1>4. /\ confirmed' = K /\ offered' = O
      /\ sessionBytes' = (IF sessionBytes < dropped THEN 0
                          ELSE sessionBytes - dropped) + added
      /\ serverBytes' = serverBytes - dropped + added
  BY DEF Store
<1>5. dropped = c + o + added - (k + p) /\ added =< k + p
  OBVIOUS
<1>6. life' = "closed" => k + p = 0
  OBVIOUS
<1>. HIDE DEF c, o, k, p
<1>7. /\ sessionBytes' = k + p
      /\ serverBytes' = k + p + others
      /\ k + p =< SessionLimit
      /\ k + p + others =< ServerLimit
  BY <1>1, <1>2, <1>3, <1>4, <1>5
<1>8. /\ sessionBytes' \in 0 .. SessionLimit
      /\ serverBytes' \in 0 .. ServerLimit
      /\ others' \in 0 .. ServerLimit
  BY <1>1, <1>2, <1>7
<1>9. /\ sessionBytes' =< SessionLimit
      /\ life' = "closed" => sessionBytes' = 0
      /\ serverBytes' = sessionBytes' + others'
      /\ serverBytes' =< ServerLimit
  BY <1>1, <1>2, <1>6, <1>7
<1>10. sessionBytes' = BytesIn(confirmed') + BytesIn(offered')
  BY <1>4, <1>7 DEF k, p
<1>11. BytesExact'
  BY <1>9, <1>10 DEF BytesExact
<1>12. Bounded'
  BY <1>4 DEF Bounded, Half
<1>. QED
  BY <1>4, <1>8, <1>11, <1>12

\* The terminals that have an entry after a critical section had one before.
LEMMA EntriesKept ==
    ASSUME NEW K, NEW O, NEW K1, NEW O1,
           \A t \in Terminals :
             K1[t].revision # 0 \/ O1[t].revision # 0 =>
                K[t].revision # 0 \/ O[t].revision # 0
    PROVE  Entries(K1, O1) \subseteq Entries(K, O)
BY DEF Entries

-----------------------------------------------------------------------------
(* The initial state, and the steps.                                       *)

\* The invariant holds when a session opens.
LEMMA InitBaselines ==
    ASSUME BaselineInit
    PROVE  BaselineInv
<1>1. confirmed = [t \in Terminals |-> NoBaseline] /\ offered = confirmed
  BY DEF BaselineInit
<1>2. Half(confirmed) /\ Half(offered) /\ BytesIn(confirmed) = 0 /\ BytesIn(offered) = 0
  BY <1>1, NoBytes
<1>3. \A q \in Requests : request[q] = NoRequest
  BY DEF BaselineInit
<1>4. \A t \in Terminals : confirmed[t] = NoBaseline /\ offered[t] = NoBaseline
  BY <1>1
<1>5. BaselineTypeOK
  <2>1. request \in [Requests -> RequestStates]
    BY DEF BaselineInit, NoRequest, RequestStates
  <2>2. 0 \in 0 .. SessionLimit /\ 0 \in 0 .. ServerLimit
    BY BaselineAssumption
  <2>. QED
    BY <1>2, <2>1, <2>2 DEF BaselineTypeOK, BaselineInit, Half
<1>6. Bounded
  BY <1>2 DEF Bounded, Half
<1>7. Served
  BY <1>3 DEF Served, NoRequest
<1>8. BytesExact
  BY <1>2, BaselineAssumption DEF BytesExact, BaselineInit
<1>9. PinsMatchRequests
  <2>. SUFFICES ASSUME NEW t \in Terminals
                PROVE  offered[t].pins = 0
                       /\ confirmed[t].pins = Cardinality(UsersIn(request, t))
    BY PinsCounted
  <2>1. UsersIn(request, t) = {}
    BY <1>3 DEF UsersIn, NoRequest
  <2>. QED
    BY <1>4, <2>1, FS_EmptySet DEF NoBaseline
<1>10. TimerIsSet
  BY <1>4 DEF TimerIsSet, Entries, NoBaseline
<1>. QED
  BY <1>5, <1>6, <1>7, <1>8, <1>9, <1>10 DEF BaselineInv

\* Steps that only move a request on, without changing what it has pinned.
LEMMA StepAnswer ==
    ASSUME BaselineInv, NEW q \in Requests, Answer(q)
    PROVE  BaselineInv'
<1>. USE DEF BaselineInv
<1>1. PICK pc \in {"answer", "release"} : request' = [request EXCEPT ![q].pc = pc]
  BY DEF Answer
<1>2. request \in [Requests -> RequestStates] /\ request[q].pc = "next"
  BY DEF Answer, BaselineTypeOK
<1>3. /\ request' \in [Requests -> RequestStates]
      /\ request'[q].pc = pc
      /\ request'[q].pinned = request[q].pinned
      /\ request'[q].terminal = request[q].terminal
      /\ \A p \in Requests : p # q => request'[p] = request[p]
  BY <1>1, <1>2 DEF RequestStates
<1>4. UNCHANGED <<confirmed, offered, sessionBytes, serverBytes, others, timer, life>>
  BY DEF Answer
<1>5. BaselineTypeOK'
  BY <1>3, <1>4 DEF BaselineTypeOK
<1>6. Bounded' /\ BytesExact' /\ TimerIsSet'
  BY <1>4 DEF Bounded, BytesExact, TimerIsSet
<1>7. Served'
  BY <1>2, <1>3, <1>4 DEF Served
<1>8. PinsMatchRequests'
  <2>. SUFFICES ASSUME NEW t \in Terminals
                PROVE  offered'[t].pins = 0
                       /\ confirmed'[t].pins = Cardinality(UsersIn(request', t))
    BY PinsCounted
  <2>1. UsersIn(request', t) = UsersIn(request, t)
    <3>1. \A p \in Requests : (request[p].pinned /\ request[p].terminal = t) <=>
                              (request'[p].pinned /\ request'[p].terminal = t)
      BY <1>3
    <3>. QED
      BY <3>1, UsersKept
  <2>. QED
    BY <1>4, <2>1, PinsCounted
<1>. QED
  BY <1>5, <1>6, <1>7, <1>8

\* The session ends, and other sessions reserve and give back bytes: the cache is
\* left alone.
LEMMA StepOutside ==
    ASSUME BaselineInv, EndSession \/ OthersReserve \/ OthersDrop
    PROVE  BaselineInv'
<1>. USE DEF BaselineInv
<1>1. UNCHANGED <<confirmed, offered, sessionBytes, timer, request>>
  BY DEF EndSession, OthersReserve, OthersDrop
<1>2. sessionBytes \in Nat /\ serverBytes \in Nat /\ others \in Nat
      /\ SessionLimit \in Nat /\ ServerLimit \in Nat
      /\ serverBytes = sessionBytes + others /\ serverBytes =< ServerLimit
  BY BaselineAssumption DEF BaselineTypeOK, BytesExact
<1>3. /\ serverBytes' = sessionBytes + others'
      /\ serverBytes' =< ServerLimit
      /\ serverBytes' \in 0 .. ServerLimit
      /\ others' \in 0 .. ServerLimit
  <2>1. CASE EndSession
    BY <1>2, <2>1 DEF EndSession
  <2>2. CASE OthersReserve
    <3>1. PICK bytes \in BaselineSizes : /\ serverBytes + bytes =< ServerLimit
                                         /\ serverBytes' = serverBytes + bytes
                                         /\ others' = others + bytes
      BY <2>2 DEF OthersReserve
    <3>2. bytes \in Nat
      BY BaselineAssumption
    <3>. QED
      BY <1>2, <3>1, <3>2
  <2>3. CASE OthersDrop
    <3>1. PICK bytes \in 1 .. others : /\ serverBytes' = serverBytes - bytes
                                       /\ others' = others - bytes
      BY <2>3 DEF OthersDrop
    <3>. QED
      BY <1>2, <3>1
  <2>. QED
    BY <2>1, <2>2, <2>3
<1>4. /\ life' \in {"open", "closing", "closed"}
      /\ life' = "closed" <=> life = "closed"
  BY DEF EndSession, OthersReserve, OthersDrop, BaselineTypeOK
<1>5. BaselineTypeOK'
  BY <1>1, <1>3, <1>4 DEF BaselineTypeOK
<1>6. BytesExact'
  <2>1. sessionBytes' = BytesIn(confirmed') + BytesIn(offered')
    BY <1>1 DEF BytesExact
  <2>2. sessionBytes' =< SessionLimit /\ (life' = "closed" => sessionBytes' = 0)
    BY <1>1, <1>4 DEF BytesExact
  <2>3. serverBytes' = sessionBytes' + others'
    BY <1>1, <1>3
  <2>4. serverBytes' =< ServerLimit
    BY <1>2, <1>3
  <2>. QED
    BY <2>1, <2>2, <2>3, <2>4 DEF BytesExact
<1>7. Bounded' /\ PinsMatchRequests' /\ TimerIsSet'
  BY <1>1 DEF Bounded, PinsMatchRequests, TimerIsSet
<1>8. Served'
  BY <1>1, <1>4 DEF Served
<1>. QED
  BY <1>5, <1>6, <1>7, <1>8

\* The half h once the baseline of t has lived long enough.
Aged(h, t) == [h EXCEPT ![t].expires = "past"]

\* The time to live of a baseline says nothing of its bytes, pins and revision.
LEMMA OnlyExpires ==
    ASSUME NEW h, Half(h), NEW t \in Terminals
    PROVE  /\ Half(Aged(h, t))
           /\ BytesIn(Aged(h, t)) = BytesIn(h)
           /\ \A u \in Terminals : /\ Aged(h, t)[u].pins = h[u].pins
                                   /\ Aged(h, t)[u].revision = h[u].revision
<1>. DEFINE g == Aged(h, t)
            b == [h[t] EXCEPT !.expires = "past"]
<1>1. h \in [Terminals -> Baselines] /\ h[t] \in Baselines
  BY DEF Half
<1>2. /\ b \in Baselines /\ b.bytes = h[t].bytes /\ b.pins = h[t].pins
      /\ b.revision = h[t].revision
  BY <1>1 DEF Baselines
<1>3. g = [h EXCEPT ![t] = b]
  BY DEF Aged
<1>. HIDE DEF b, g
<1>4. h[t].bytes =< SessionLimit /\ h[t].bytes \in Nat /\ BytesIn(h) \in Nat
  <2>1. h[t].bytes =< SessionLimit
    BY DEF Half
  <2>. QED
    BY <2>1, HalfTypes, HalfFinite
<1>5. Half(g) /\ BytesIn(g) = BytesIn(h) - h[t].bytes + b.bytes
  <2>1. b \in Baselines /\ b.bytes =< SessionLimit
    BY <1>2, <1>4
  <2>. QED
    BY <1>3, <2>1, ReplaceBytes
<1>6. BytesIn(g) = BytesIn(h)
  BY <1>2, <1>4, <1>5
<1>7. \A u \in Terminals : g[u].pins = h[u].pins /\ g[u].revision = h[u].revision
  BY <1>1, <1>2, <1>3
<1>. QED
  BY <1>5, <1>6, <1>7 DEF g

\* The time to live of a baseline passes: its bytes and pins stay.
LEMMA StepTimePasses ==
    ASSUME BaselineInv, TimePasses
    PROVE  BaselineInv'
<1>. USE DEF BaselineInv
<1>1. UNCHANGED <<sessionBytes, serverBytes, others, timer, life, request>>
  BY DEF TimePasses
<1>3. Half(confirmed) /\ Half(offered)
  BY Halves
<1>4. /\ Half(confirmed') /\ Half(offered')
      /\ BytesIn(confirmed') = BytesIn(confirmed)
      /\ BytesIn(offered') = BytesIn(offered)
      /\ \A u \in Terminals :
           /\ confirmed'[u].pins = confirmed[u].pins
           /\ confirmed'[u].revision = confirmed[u].revision
           /\ offered'[u].pins = offered[u].pins
           /\ offered'[u].revision = offered[u].revision
  <2>1. PICK t \in Terminals :
          \/ confirmed' = Aged(confirmed, t) /\ offered' = offered
          \/ offered' = Aged(offered, t) /\ confirmed' = confirmed
    BY DEF TimePasses, Aged
  <2>2. CASE confirmed' = Aged(confirmed, t) /\ offered' = offered
    <3>1. /\ Half(confirmed') /\ BytesIn(confirmed') = BytesIn(confirmed)
          /\ \A u \in Terminals : /\ confirmed'[u].pins = confirmed[u].pins
                                  /\ confirmed'[u].revision = confirmed[u].revision
      BY <1>3, <2>2, OnlyExpires
    <3>. QED
      BY <1>3, <2>2, <3>1
  <2>3. CASE offered' = Aged(offered, t) /\ confirmed' = confirmed
    <3>1. /\ Half(offered') /\ BytesIn(offered') = BytesIn(offered)
          /\ \A u \in Terminals : /\ offered'[u].pins = offered[u].pins
                                  /\ offered'[u].revision = offered[u].revision
      BY <1>3, <2>3, OnlyExpires
    <3>. QED
      BY <1>3, <2>3, <3>1
  <2>. QED
    BY <2>1, <2>2, <2>3
<1>5. BaselineTypeOK'
  BY <1>1, <1>4 DEF BaselineTypeOK, Half
<1>6. Bounded'
  BY <1>4 DEF Bounded, Half
<1>7. Served'
  BY <1>1 DEF Served
<1>8. BytesExact'
  BY <1>1, <1>4 DEF BytesExact
<1>9. PinsMatchRequests'
  BY <1>1, <1>4 DEF PinsMatchRequests
<1>10. TimerIsSet'
  BY <1>1, <1>4 DEF TimerIsSet, Entries
<1>. QED
  BY <1>5, <1>6, <1>7, <1>8, <1>9, <1>10

\* What dropping the expired baselines takes off is not negative, and leaves
\* every pin and no new entry.
LEMMA PrunedBoth ==
    ASSUME BaselineInv, NEW K, NEW O, K = Pruned(confirmed), O = Pruned(offered)
    PROVE  /\ Half(K) /\ Half(O)
           /\ BytesIn(K) \in Nat /\ BytesIn(O) \in Nat
           /\ BytesIn(confirmed) \in Nat /\ BytesIn(offered) \in Nat
           /\ BytesIn(K) =< BytesIn(confirmed) /\ BytesIn(O) =< BytesIn(offered)
           /\ \A t \in Terminals : K[t].pins = confirmed[t].pins /\ O[t].pins = 0
           /\ Entries(K, O) \subseteq Entries(confirmed, offered)
<1>1. Half(confirmed) /\ Half(offered)
  BY Halves DEF BaselineInv
<1>2. /\ Half(K) /\ BytesIn(K) =< BytesIn(confirmed)
      /\ \A t \in Terminals : /\ K[t].pins = confirmed[t].pins
                              /\ K[t].revision # 0 => confirmed[t].revision # 0
  BY <1>1, PrunedHalf
<1>3. /\ Half(O) /\ BytesIn(O) =< BytesIn(offered)
      /\ \A t \in Terminals : /\ O[t].pins = offered[t].pins
                              /\ O[t].revision # 0 => offered[t].revision # 0
  BY <1>1, PrunedHalf
<1>4. \A t \in Terminals : offered[t].pins = 0
  BY DEF BaselineInv, PinsMatchRequests
<1>5. BytesIn(K) \in Nat /\ BytesIn(O) \in Nat
      /\ BytesIn(confirmed) \in Nat /\ BytesIn(offered) \in Nat
  BY <1>1, <1>2, <1>3, HalfFinite
<1>6. Entries(K, O) \subseteq Entries(confirmed, offered)
  BY <1>2, <1>3 DEF Entries
<1>. QED
  BY <1>1, <1>2, <1>3, <1>4, <1>5, <1>6

\* The timer drops what has expired.
LEMMA StepExpire ==
    ASSUME BaselineInv, ExpireBaselines
    PROVE  BaselineInv'
<1>. USE DEF BaselineInv
<1>1. PICK K : K = Pruned(confirmed)
  OBVIOUS
<1>2. PICK O : O = Pruned(offered)
  OBVIOUS
<1>3. /\ Half(K) /\ Half(O)
      /\ BytesIn(K) \in Nat /\ BytesIn(O) \in Nat
      /\ BytesIn(confirmed) \in Nat /\ BytesIn(offered) \in Nat
      /\ BytesIn(K) =< BytesIn(confirmed) /\ BytesIn(O) =< BytesIn(offered)
      /\ \A t \in Terminals : K[t].pins = confirmed[t].pins /\ O[t].pins = 0
  BY <1>1, <1>2, PrunedBoth
<1>. DEFINE d == Lost(confirmed, K) + Lost(offered, O)
<1>4. /\ Store(K, O, d, 0)
      /\ timer' = (Entries(K, O) # {})
      /\ UNCHANGED <<others, life, request>>
  BY <1>1, <1>2 DEF ExpireBaselines
<1>5. /\ d = BytesIn(confirmed) + BytesIn(offered) + 0 - (BytesIn(K) + BytesIn(O))
      /\ d \in Nat
      /\ 0 =< BytesIn(K) + BytesIn(O)
  BY <1>3 DEF Lost
<1>. HIDE DEF d
<1>6. /\ sessionBytes \in Nat /\ serverBytes \in Nat /\ others \in Nat
      /\ SessionLimit \in Nat /\ ServerLimit \in Nat
      /\ sessionBytes =< SessionLimit /\ serverBytes =< ServerLimit
      /\ sessionBytes = BytesIn(confirmed) + BytesIn(offered)
  BY BaselineAssumption DEF BaselineTypeOK, BytesExact
<1>7. sessionBytes - d + 0 =< SessionLimit /\ serverBytes - d + 0 =< ServerLimit
  BY <1>5, <1>6
<1>8. life' = "closed" => BytesIn(K) + BytesIn(O) = 0
  <2>1. life' = "closed" => sessionBytes = 0
    BY <1>4 DEF BytesExact
  <2>. QED
    BY <1>3, <1>6, <2>1
<1>9. /\ BytesExact' /\ Bounded' /\ Half(confirmed') /\ Half(offered')
      /\ sessionBytes' \in 0 .. SessionLimit
      /\ serverBytes' \in 0 .. ServerLimit
      /\ others' \in 0 .. ServerLimit
  BY <1>3, <1>4, <1>5, <1>7, <1>8, StoredExactly
<1>10. confirmed' = K /\ offered' = O
  BY <1>4 DEF Store
<1>11. BaselineTypeOK'
  <2>1. timer' \in BOOLEAN /\ life' \in {"open", "closing", "closed"}
        /\ request' \in [Requests -> RequestStates]
    BY <1>4 DEF BaselineTypeOK
  <2>. QED
    BY <1>9, <2>1 DEF BaselineTypeOK, Half
<1>12. Served'
  BY <1>4 DEF Served
<1>13. PinsMatchRequests'
  BY <1>3, <1>4, <1>10 DEF PinsMatchRequests
<1>14. TimerIsSet'
  BY <1>4, <1>10 DEF TimerIsSet
<1>. QED
  BY <1>9, <1>11, <1>12, <1>13, <1>14

\* The session is closed once no request is left: nothing is pinned any more.
LEMMA StepClear ==
    ASSUME BaselineInv, ClearBaselines
    PROVE  BaselineInv'
<1>. USE DEF BaselineInv
<1>. DEFINE e == [t \in Terminals |-> NoBaseline]
            d == BytesIn(confirmed) + BytesIn(offered)
<1>1. Half(e) /\ BytesIn(e) = 0
  BY NoBytes
<1>2. \A t \in Terminals : e[t].pins = 0 /\ e[t].revision = 0
  BY DEF NoBaseline
<1>3. /\ Store(e, e, d, 0)
      /\ life' = "closed" /\ timer' = FALSE
      /\ UNCHANGED <<others, request>>
      /\ \A q \in Requests : request[q].pc = "idle"
  BY DEF ClearBaselines, RequestsDone
<1>. HIDE DEF e
<1>4. BytesIn(confirmed) \in Nat /\ BytesIn(offered) \in Nat
  BY Halves, HalfFinite
<1>5. d = BytesIn(confirmed) + BytesIn(offered) + 0 - (BytesIn(e) + BytesIn(e))
      /\ d \in Nat /\ 0 =< BytesIn(e) + BytesIn(e) /\ BytesIn(e) + BytesIn(e) = 0
  BY <1>1, <1>4
<1>. HIDE DEF d
<1>6. /\ sessionBytes \in Nat /\ serverBytes \in Nat
      /\ SessionLimit \in Nat /\ ServerLimit \in Nat
      /\ sessionBytes =< SessionLimit /\ serverBytes =< ServerLimit
  BY BaselineAssumption DEF BaselineTypeOK, BytesExact
<1>7. sessionBytes - d + 0 =< SessionLimit /\ serverBytes - d + 0 =< ServerLimit
  BY <1>5, <1>6
<1>8. /\ BytesExact' /\ Bounded' /\ Half(confirmed') /\ Half(offered')
      /\ sessionBytes' \in 0 .. SessionLimit
      /\ serverBytes' \in 0 .. ServerLimit
      /\ others' \in 0 .. ServerLimit
  BY <1>1, <1>3, <1>5, <1>7, StoredExactly
<1>9. confirmed' = e /\ offered' = e
  BY <1>3 DEF Store
<1>10. BaselineTypeOK'
  <2>1. timer' \in BOOLEAN /\ life' \in {"open", "closing", "closed"}
        /\ request' \in [Requests -> RequestStates]
    BY <1>3 DEF BaselineTypeOK
  <2>. QED
    BY <1>8, <2>1 DEF BaselineTypeOK, Half
<1>11. Served'
  BY <1>3 DEF Served
<1>12. PinsMatchRequests'
  <2>. SUFFICES ASSUME NEW t \in Terminals
                PROVE  offered'[t].pins = 0
                       /\ confirmed'[t].pins = Cardinality(UsersIn(request', t))
    BY PinsCounted
  <2>1. UsersIn(request', t) = {}
    BY <1>3 DEF UsersIn, Served
  <2>. QED
    BY <1>2, <1>9, <2>1, FS_EmptySet
<1>13. TimerIsSet'
  BY <1>2, <1>9 DEF TimerIsSet, Entries
<1>. QED
  BY <1>8, <1>10, <1>11, <1>12, <1>13

\* The deferred release takes one pin of its baseline back.
LEMMA StepRelease ==
    ASSUME BaselineInv, NEW q \in Requests, ReleaseBaseline(q)
    PROVE  BaselineInv'
<1>. USE DEF BaselineInv
<1>1. PICK t : t = request[q].terminal
  OBVIOUS
<1>2. PICK b : b = confirmed[t]
  OBVIOUS
<1>. DEFINE n == b.pins - 1
            x == IF b.pins = 1 THEN "later" ELSE b.expires
            c == [b EXCEPT !.pins = n, !.expires = x]
            K == [confirmed EXCEPT ![t] = c]
<1>3. /\ request[q].pc = "release"
      /\ request' = [request EXCEPT ![q] = NoRequest]
      /\ UNCHANGED <<offered, sessionBytes, serverBytes, others, life>>
      /\ IF request[q].pinned
         THEN confirmed' = K /\ timer' = Ensured(K, offered)
         ELSE UNCHANGED <<confirmed, timer>>
  BY <1>1, <1>2 DEF ReleaseBaseline
<1>4. request \in [Requests -> RequestStates] /\ Half(confirmed) /\ Half(offered)
  BY Halves DEF BaselineTypeOK
<1>5. t \in Terminals /\ life # "closed"
  BY <1>1, <1>3 DEF Served
<1>6. /\ request' \in [Requests -> RequestStates]
      /\ request'[q] = NoRequest
      /\ \A p \in Requests : p # q => request'[p] = request[p]
  <2>1. NoRequest \in RequestStates
    BY DEF NoRequest, RequestStates
  <2>. QED
    BY <1>3, <1>4, <2>1
<1>7. Served'
  BY <1>3, <1>6 DEF Served, NoRequest
<1>8. CASE ~request[q].pinned
  <2>1. UNCHANGED <<confirmed, offered, sessionBytes, serverBytes, others, timer, life>>
    BY <1>3, <1>8
  <2>2. BaselineTypeOK'
    BY <1>6, <2>1 DEF BaselineTypeOK
  <2>3. Bounded' /\ BytesExact' /\ TimerIsSet'
    BY <2>1 DEF Bounded, BytesExact, TimerIsSet
  <2>4. PinsMatchRequests'
    <3>. SUFFICES ASSUME NEW u \in Terminals
                  PROVE  offered'[u].pins = 0
                         /\ confirmed'[u].pins = Cardinality(UsersIn(request', u))
      BY PinsCounted
    <3>1. \A p \in Requests : (request[p].pinned /\ request[p].terminal = u) <=>
                              (request'[p].pinned /\ request'[p].terminal = u)
      BY <1>6, <1>8 DEF NoRequest
    <3>2. UsersIn(request', u) = UsersIn(request, u)
      BY <3>1, UsersKept
    <3>. QED
      BY <2>1, <3>2, PinsCounted
  <2>. QED
    BY <1>7, <2>2, <2>3, <2>4
<1>9. CASE request[q].pinned
  <2>1. /\ confirmed' = K /\ timer' = Ensured(K, offered)
        /\ UNCHANGED <<offered, sessionBytes, serverBytes, others, life>>
    BY <1>3, <1>9
  <2>2. Cardinality(UsersIn(request, t)) = Cardinality(UsersIn(request', t)) + 1
    <3>1. ~request'[q].pinned
      BY <1>6 DEF NoRequest
    <3>. QED
      BY <1>1, <1>6, <1>9, <3>1, UserRemoved
  <2>3. b.pins = Cardinality(UsersIn(request, t))
    BY <1>2, <1>5, PinsCounted
  <2>4. n = Cardinality(UsersIn(request', t)) /\ n \in 0 .. Cardinality(Requests)
    BY <2>2, <2>3, UsersFinite
  <2>5. b \in Baselines /\ b.bytes \in Nat /\ b.bytes =< SessionLimit
    <3>1. b \in Baselines /\ b.bytes \in Nat
      BY <1>2, <1>4, <1>5, HalfTypes
    <3>2. b.bytes =< SessionLimit
      BY <1>2, <1>5 DEF Bounded
    <3>. QED
      BY <3>1, <3>2
  <2>6. x \in {"never", "later", "past"}
    BY <2>5 DEF Baselines
  <2>. HIDE DEF n, x
  <2>7. /\ c \in Baselines /\ c.pins = n /\ c.bytes = b.bytes
    BY <2>4, <2>5, <2>6 DEF Baselines
  <2>. HIDE DEF c
  <2>8. Half(K) /\ BytesIn(K) = BytesIn(confirmed) - confirmed[t].bytes + c.bytes
    BY <1>4, <1>5, <2>5, <2>7, ReplaceBytes
  <2>9. BytesIn(K) = BytesIn(confirmed)
    BY <1>2, <1>4, <2>5, <2>7, <2>8, HalfFinite
  <2>10. K[t] = c /\ \A u \in Terminals : u # t => K[u] = confirmed[u]
    BY <1>4, <1>5 DEF Half
  <2>. HIDE DEF K
  <2>11. BaselineTypeOK'
    <3>1. timer' \in BOOLEAN
      BY <2>1 DEF Ensured, BaselineTypeOK
    <3>. QED
      BY <1>6, <2>1, <2>8, <3>1 DEF BaselineTypeOK, Half
  <2>12. Bounded'
    BY <2>1, <2>8 DEF Bounded, Half
  <2>13. BytesExact'
    BY <2>1, <2>9 DEF BytesExact
  <2>14. TimerIsSet'
    BY <1>5, <2>1 DEF TimerIsSet, Ensured
  <2>15. PinsMatchRequests'
    <3>. SUFFICES ASSUME NEW u \in Terminals
                  PROVE  offered'[u].pins = 0
                         /\ confirmed'[u].pins = Cardinality(UsersIn(request', u))
      BY PinsCounted
    <3>1. offered'[u].pins = 0
      BY <2>1, PinsCounted
    <3>2. CASE u = t
      BY <2>1, <2>4, <2>7, <2>10, <3>1, <3>2
    <3>3. CASE u # t
      <4>1. \A p \in Requests : (request[p].pinned /\ request[p].terminal = u) <=>
                                (request'[p].pinned /\ request'[p].terminal = u)
        BY <1>1, <1>6, <3>3 DEF NoRequest
      <4>2. UsersIn(request', u) = UsersIn(request, u)
        BY <4>1, UsersKept
      <4>. QED
        BY <2>1, <2>10, <3>1, <3>3, <4>2, PinsCounted
    <3>. QED
      BY <3>2, <3>3
  <2>. QED
    BY <1>7, <2>11, <2>12, <2>13, <2>14, <2>15
<1>. QED
  BY <1>8, <1>9

\* A request takes the offered baseline over as the confirmed one when the client
\* has seen it, and pins the confirmed one when it is what the client has.
LEMMA StepAcquire ==
    ASSUME BaselineInv, NEW q \in Requests, Acquire(q)
    PROVE  BaselineInv'
<1>. USE DEF BaselineInv
<1>. DEFINE K1 == Pruned(confirmed)
            O1 == Pruned(offered)
            seen(t, obs) == O1[t].revision = obs
            promote(t, obs) == seen(t, obs) /\ MayPromote(K1, t)
            K2(t, obs) == IF promote(t, obs) THEN [K1 EXCEPT ![t] = O1[t]] ELSE K1
            O2(t, obs) == IF promote(t, obs) THEN [O1 EXCEPT ![t] = NoBaseline]
                          ELSE O1
            found(t, obs) == (seen(t, obs) => promote(t, obs))
                               /\ K2(t, obs)[t].revision = obs
            K3(t, obs) == IF found(t, obs)
                          THEN [K2(t, obs) EXCEPT ![t].pins = @ + 1,
                                                  ![t].expires = "never"]
                          ELSE K2(t, obs)
            dropped(t, obs) == Lost(confirmed, K1) + Lost(offered, O1)
                               + (IF promote(t, obs) THEN K1[t].bytes ELSE 0)
<1>1. PICK t \in Terminals, obs \in 1 .. MaxScreen :
        /\ Store(K3(t, obs), O2(t, obs), dropped(t, obs), 0)
        /\ timer' = IF found(t, obs) THEN Ensured(K3(t, obs), O2(t, obs)) ELSE timer
        /\ request' = [request EXCEPT ![q] =
              [pc |-> "next", terminal |-> t, pinned |-> found(t, obs)]]
  BY DEF Acquire
<1>2. request[q].pc = "idle" /\ life # "closed" /\ UNCHANGED <<others, life>>
  BY DEF Acquire
<1>3. /\ Half(K1) /\ Half(O1)
      /\ BytesIn(K1) \in Nat /\ BytesIn(O1) \in Nat
      /\ BytesIn(confirmed) \in Nat /\ BytesIn(offered) \in Nat
      /\ BytesIn(K1) =< BytesIn(confirmed) /\ BytesIn(O1) =< BytesIn(offered)
      /\ \A u \in Terminals : K1[u].pins = confirmed[u].pins /\ O1[u].pins = 0
      /\ Entries(K1, O1) \subseteq Entries(confirmed, offered)
  BY PrunedBoth
<1>. HIDE DEF K1, O1
<1>4. /\ K1[t] \in Baselines /\ K1[t].bytes \in Nat /\ K1[t].bytes =< SessionLimit
      /\ O1[t] \in Baselines /\ O1[t].bytes \in Nat /\ O1[t].bytes =< SessionLimit
  BY <1>3, HalfTypes DEF Half
<1>5. NoBaseline \in Baselines /\ NoBaseline.bytes = 0 /\ NoBaseline.pins = 0
      /\ NoBaseline.revision = 0 /\ SessionLimit \in Nat /\ ServerLimit \in Nat
  <2>1. Cardinality(Requests) \in Nat
    BY FS_CardinalityType, BaselineAssumption
  <2>2. 0 \in 0 .. Cardinality(Requests) /\ 0 \in 0 .. MaxScreen
    BY <2>1, BaselineAssumption
  <2>. QED
    BY <2>2, BaselineAssumption DEF NoBaseline, Baselines
<1>. DEFINE A == K2(t, obs)
            B == O2(t, obs)
            lost == IF promote(t, obs) THEN K1[t].bytes ELSE 0
<1>6. /\ Half(A) /\ Half(B)
      /\ BytesIn(A) \in Nat /\ BytesIn(B) \in Nat /\ lost \in Nat
      /\ BytesIn(A) + BytesIn(B) = BytesIn(K1) + BytesIn(O1) - lost
      /\ \A u \in Terminals : A[u].pins = confirmed[u].pins /\ B[u].pins = 0
      /\ Entries(A, B) \subseteq Entries(confirmed, offered)
  <2>1. CASE ~promote(t, obs)
    <3>1. A = K1 /\ B = O1 /\ lost = 0
      BY <2>1
    <3>. HIDE DEF A, B, lost
    <3>. QED
      BY <1>3, <3>1
  <2>2. CASE promote(t, obs)
    <3>1. /\ A = [K1 EXCEPT ![t] = O1[t]] /\ B = [O1 EXCEPT ![t] = NoBaseline]
          /\ lost = K1[t].bytes /\ K1[t].pins = 0
      BY <2>2 DEF MayPromote
    <3>. HIDE DEF A, B, lost
    <3>2. Half(A) /\ BytesIn(A) = BytesIn(K1) - K1[t].bytes + O1[t].bytes
      BY <1>3, <1>4, <3>1, ReplaceBytes
    <3>3. 0 =< SessionLimit
      BY <1>5
    <3>4. Half(B) /\ BytesIn(B) = BytesIn(O1) - O1[t].bytes + NoBaseline.bytes
      BY <1>3, <1>5, <3>1, <3>3, ReplaceBytes
    <3>5. BytesIn(A) \in Nat /\ BytesIn(B) \in Nat
      BY <3>2, <3>4, HalfFinite
    <3>6. BytesIn(A) + BytesIn(B) = BytesIn(K1) + BytesIn(O1) - lost /\ lost \in Nat
      BY <1>3, <1>4, <1>5, <3>1, <3>2, <3>4
    <3>7. /\ A[t] = O1[t] /\ B[t] = NoBaseline
          /\ \A u \in Terminals : u # t => A[u] = K1[u] /\ B[u] = O1[u]
      BY <1>3, <3>1 DEF Half
    <3>8. \A u \in Terminals : A[u].pins = confirmed[u].pins /\ B[u].pins = 0
      BY <1>3, <1>5, <3>1, <3>7
    <3>9. Entries(A, B) \subseteq Entries(K1, O1)
      BY <1>5, <3>7 DEF Entries
    <3>. QED
      BY <1>3, <3>2, <3>4, <3>5, <3>6, <3>8, <3>9
  <2>. QED
    BY <2>1, <2>2
<1>7. request \in [Requests -> RequestStates] /\ ~request[q].pinned
  BY <1>2 DEF BaselineTypeOK, Served
<1>. DEFINE pin == found(t, obs)
            C == K3(t, obs)
            drop == dropped(t, obs)
<1>8. /\ pin \in BOOLEAN
      /\ drop = Lost(confirmed, K1) + Lost(offered, O1) + lost
      /\ C = IF pin THEN [A EXCEPT ![t].pins = @ + 1, ![t].expires = "never"] ELSE A
      /\ Store(C, B, drop, 0)
      /\ timer' = IF pin THEN Ensured(C, B) ELSE timer
      /\ request' = [request EXCEPT ![q] =
              [pc |-> "next", terminal |-> t, pinned |-> pin]]
  BY <1>1
<1>. HIDE DEF pin, C, drop, A, B, lost
<1>9. /\ request' \in [Requests -> RequestStates]
      /\ request'[q].pc = "next" /\ request'[q].terminal = t
      /\ request'[q].pinned = pin
      /\ \A p \in Requests : p # q => request'[p] = request[p]
  <2>1. [pc |-> "next", terminal |-> t, pinned |-> pin] \in RequestStates
    BY <1>8 DEF RequestStates
  <2>. QED
    BY <1>7, <1>8, <2>1
<1>10. \A u \in Terminals : u # t \/ ~pin => UsersIn(request', u) = UsersIn(request, u)
  <2>. SUFFICES ASSUME NEW u \in Terminals, u # t \/ ~pin
                PROVE  UsersIn(request', u) = UsersIn(request, u)
    OBVIOUS
  <2>1. \A p \in Requests : (request[p].pinned /\ request[p].terminal = u) <=>
                            (request'[p].pinned /\ request'[p].terminal = u)
    BY <1>7, <1>9
  <2>. QED
    BY <2>1, UsersKept
<1>11. /\ Half(C) /\ BytesIn(C) = BytesIn(A)
       /\ \A u \in Terminals : /\ C[u].pins = Cardinality(UsersIn(request', u))
                               /\ C[u].revision = A[u].revision
  <2>1. CASE ~pin
    <3>1. C = A
      BY <1>8, <2>1
    <3>. QED
      BY <1>6, <1>10, <2>1, <3>1, PinsCounted
  <2>2. CASE pin
    <3>1. Cardinality(UsersIn(request', t)) = Cardinality(UsersIn(request, t)) + 1
      BY <1>7, <1>9, <2>2, UserAdded
    <3>. DEFINE n == A[t].pins + 1
                b == [A[t] EXCEPT !.pins = n, !.expires = "never"]
    <3>2. n = Cardinality(UsersIn(request', t))
      BY <1>6, <3>1, PinsCounted
    <3>3. n \in 0 .. Cardinality(Requests)
      BY <3>2, UsersFinite
    <3>4. C = [A EXCEPT ![t] = b]
      BY <1>8, <2>2
    <3>5. A[t] \in Baselines /\ A[t].bytes \in Nat
      BY <1>6, HalfTypes
    <3>6. A[t].bytes =< SessionLimit
      BY <1>6 DEF Half
    <3>. HIDE DEF n
    <3>7. /\ b \in Baselines /\ b.pins = n /\ b.bytes = A[t].bytes
          /\ b.revision = A[t].revision
      BY <3>3, <3>5 DEF Baselines
    <3>. HIDE DEF b
    <3>8. b.bytes =< SessionLimit
      BY <3>6, <3>7
    <3>9. Half(C) /\ BytesIn(C) = BytesIn(A) - A[t].bytes + b.bytes
      BY <1>6, <3>4, <3>7, <3>8, ReplaceBytes
    <3>10. BytesIn(C) = BytesIn(A)
      BY <1>6, <3>5, <3>7, <3>9
    <3>11. C[t] = b /\ \A u \in Terminals : u # t => C[u] = A[u]
      BY <1>6, <3>4 DEF Half
    <3>12. \A u \in Terminals : C[u].revision = A[u].revision
      BY <3>7, <3>11
    <3>13. ASSUME NEW u \in Terminals
           PROVE  C[u].pins = Cardinality(UsersIn(request', u))
      <4>1. CASE u = t
        BY <3>2, <3>7, <3>11, <4>1
      <4>2. CASE u # t
        BY <1>6, <1>10, <3>11, <4>2, PinsCounted
      <4>. QED
        BY <4>1, <4>2
    <3>. QED
      BY <3>9, <3>10, <3>12, <3>13
  <2>. QED
    BY <2>1, <2>2
<1>12. BytesIn(C) \in Nat
  BY <1>11, HalfFinite
<1>13. /\ drop = BytesIn(confirmed) + BytesIn(offered) + 0 - (BytesIn(C) + BytesIn(B))
       /\ drop \in Nat /\ 0 =< BytesIn(C) + BytesIn(B)
  BY <1>3, <1>6, <1>8, <1>11 DEF Lost
<1>14. /\ sessionBytes \in Nat /\ serverBytes \in Nat
       /\ sessionBytes =< SessionLimit /\ serverBytes =< ServerLimit
  BY DEF BaselineTypeOK, BytesExact
<1>15. sessionBytes - drop + 0 =< SessionLimit /\ serverBytes - drop + 0 =< ServerLimit
  BY <1>5, <1>13, <1>14
<1>16. /\ BytesExact' /\ Bounded' /\ Half(confirmed') /\ Half(offered')
       /\ sessionBytes' \in 0 .. SessionLimit
       /\ serverBytes' \in 0 .. ServerLimit
       /\ others' \in 0 .. ServerLimit
  <2>1. life' # "closed"
    BY <1>2
  <2>. QED
    BY <1>2, <1>6, <1>8, <1>11, <1>13, <1>15, <2>1, StoredExactly
<1>17. confirmed' = C /\ offered' = B
  BY <1>8 DEF Store
<1>18. BaselineTypeOK'
  <2>1. timer' \in BOOLEAN
    BY <1>8 DEF Ensured, BaselineTypeOK
  <2>2. life' \in {"open", "closing", "closed"}
    BY <1>2 DEF BaselineTypeOK
  <2>. QED
    BY <1>9, <1>16, <2>1, <2>2 DEF BaselineTypeOK, Half
<1>19. Served'
  BY <1>2, <1>9 DEF Served
<1>20. PinsMatchRequests'
  BY <1>6, <1>11, <1>17, PinsCounted
<1>21. TimerIsSet'
  <2>1. Entries(C, B) \subseteq Entries(confirmed, offered)
    BY <1>6, <1>11 DEF Entries
  <2>2. CASE pin
    BY <1>2, <1>8, <1>17, <2>2 DEF TimerIsSet, Ensured
  <2>3. CASE ~pin
    BY <1>8, <1>17, <2>1, <2>3 DEF TimerIsSet
  <2>. QED
    BY <2>2, <2>3
<1>. QED
  BY <1>16, <1>18, <1>19, <1>20, <1>21

\* What a request offers takes the place of the offered baseline, which nobody
\* pins, when the limits leave room for it.
LEMMA StepOffer ==
    ASSUME BaselineInv, NEW q \in Requests, Offer(q)
    PROVE  BaselineInv'
<1>. USE DEF BaselineInv
<1>. PICK K1 : K1 = Pruned(confirmed)
  OBVIOUS
<1>. PICK O1 : O1 = Pruned(offered)
  OBVIOUS
<1>. PICK t : t = request[q].terminal
  OBVIOUS
<1>. DEFINE pruned == Lost(confirmed, K1) + Lost(offered, O1)
            used == pruned + O1[t].bytes
            O2 == [O1 EXCEPT ![t] = NoBaseline]
            new(revision, bytes) == [revision |-> revision, bytes |-> bytes,
                                     pins |-> 0, expires |-> "later"]
            O3(revision, bytes) == [O1 EXCEPT ![t] = new(revision, bytes)]
            Rest == UNCHANGED <<confirmed, offered, sessionBytes, serverBytes, timer>>
<1>1. PICK bytes \in BaselineSizes, revision \in 1 .. MaxScreen :
        \/ Rest
        \/ Store(K1, O1, pruned, 0) /\ UNCHANGED timer
        \/ Store(K1, O2, used, 0) /\ UNCHANGED timer
        \/ /\ bytes =< SessionLimit
           /\ FitsLimits(used, bytes)
           /\ Store(K1, O3(revision, bytes), used, bytes)
           /\ timer' = Ensured(K1, O3(revision, bytes))
  <2>1. \A bytes \in BaselineSizes : bytes \in Nat
    BY BaselineAssumption
  <2>2. SessionLimit \in Nat
    BY BaselineAssumption
  <2>3. PICK bytes \in BaselineSizes, revision \in 1 .. MaxScreen :
        \/ Rest
        \/ Store(K1, O1, pruned, 0) /\ UNCHANGED timer
        \/ Store(K1, O2, used, 0) /\ UNCHANGED timer
        \/ /\ ~(bytes > SessionLimit)
           /\ FitsLimits(used, bytes)
           /\ Store(K1, O3(revision, bytes), used, bytes)
           /\ timer' = Ensured(K1, O3(revision, bytes))
    BY DEF Offer
  <2>4. ~(bytes > SessionLimit) => bytes =< SessionLimit
    BY <2>1, <2>2
  <2>. HIDE DEF pruned, used, O2, O3, Rest
  <2>. QED
    BY <2>3, <2>4
<1>2. /\ request[q].pc = "answer" /\ UNCHANGED <<others, life>>
      /\ request' = [request EXCEPT ![q].pc = "release"]
  BY DEF Offer
<1>3. /\ Half(K1) /\ Half(O1)
      /\ BytesIn(K1) \in Nat /\ BytesIn(O1) \in Nat
      /\ BytesIn(confirmed) \in Nat /\ BytesIn(offered) \in Nat
      /\ BytesIn(K1) =< BytesIn(confirmed) /\ BytesIn(O1) =< BytesIn(offered)
      /\ \A u \in Terminals : K1[u].pins = confirmed[u].pins /\ O1[u].pins = 0
      /\ Entries(K1, O1) \subseteq Entries(confirmed, offered)
  BY PrunedBoth
<1>4. t \in Terminals /\ life # "closed" /\ life' # "closed"
  BY <1>2 DEF Served
<1>5. O1[t] \in Baselines /\ O1[t].bytes \in Nat
  BY <1>3, <1>4, HalfTypes
<1>6. NoBaseline \in Baselines /\ NoBaseline.bytes = 0 /\ NoBaseline.pins = 0
      /\ NoBaseline.revision = 0 /\ SessionLimit \in Nat /\ ServerLimit \in Nat
      /\ 0 \in 0 .. Cardinality(Requests)
  <2>1. Cardinality(Requests) \in Nat
    BY FS_CardinalityType, BaselineAssumption
  <2>2. 0 \in 0 .. Cardinality(Requests) /\ 0 \in 0 .. MaxScreen
    BY <2>1, BaselineAssumption
  <2>. QED
    BY <2>2, BaselineAssumption DEF NoBaseline, Baselines
<1>7. request \in [Requests -> RequestStates]
  BY DEF BaselineTypeOK
<1>8. /\ request' \in [Requests -> RequestStates]
      /\ request'[q].pc = "release"
      /\ request'[q].pinned = request[q].pinned
      /\ request'[q].terminal = request[q].terminal
      /\ \A p \in Requests : p # q => request'[p] = request[p]
  BY <1>2, <1>7 DEF RequestStates
<1>9. \A u \in Terminals : UsersIn(request', u) = UsersIn(request, u)
  <2>. SUFFICES ASSUME NEW u \in Terminals
                PROVE  UsersIn(request', u) = UsersIn(request, u)
    OBVIOUS
  <2>1. \A p \in Requests : (request[p].pinned /\ request[p].terminal = u) <=>
                            (request'[p].pinned /\ request'[p].terminal = u)
    BY <1>8
  <2>. QED
    BY <2>1, UsersKept
<1>10. Served'
  BY <1>2, <1>4, <1>8 DEF Served
<1>11. /\ sessionBytes \in Nat /\ serverBytes \in Nat
       /\ sessionBytes =< SessionLimit /\ serverBytes =< ServerLimit
  BY DEF BaselineTypeOK, BytesExact
<1>12. pruned = BytesIn(confirmed) + BytesIn(offered) - (BytesIn(K1) + BytesIn(O1))
       /\ pruned \in Nat
  BY <1>3 DEF Lost
<1>13. /\ Half(O2) /\ BytesIn(O2) = BytesIn(O1) - O1[t].bytes
       /\ \A u \in Terminals : O2[u].pins = 0
       /\ \A u \in Terminals : O2[u].revision # 0 => O1[u].revision # 0
  <2>1. NoBaseline.bytes =< SessionLimit
    BY <1>6
  <2>2. Half(O2) /\ BytesIn(O2) = BytesIn(O1) - O1[t].bytes + NoBaseline.bytes
    BY <1>3, <1>4, <1>6, <2>1, ReplaceBytes
  <2>3. BytesIn(O2) = BytesIn(O1) - O1[t].bytes
    BY <1>3, <1>5, <1>6, <2>2
  <2>4. O2[t] = NoBaseline /\ \A u \in Terminals : u # t => O2[u] = O1[u]
    BY <1>3, <1>4 DEF Half
  <2>. QED
    BY <1>3, <1>6, <2>2, <2>3, <2>4
<1>14. ASSUME NEW O, NEW dropped \in Nat, NEW added \in Nat,
              Half(O), \A u \in Terminals : O[u].pins = 0,
              dropped = BytesIn(confirmed) + BytesIn(offered) + added
                           - (BytesIn(K1) + BytesIn(O)),
              added =< BytesIn(K1) + BytesIn(O),
              sessionBytes - dropped + added =< SessionLimit,
              serverBytes - dropped + added =< ServerLimit,
              Store(K1, O, dropped, added),
              \/ timer' = timer /\ Entries(K1, O) \subseteq Entries(K1, O1)
              \/ timer' = Ensured(K1, O)
       PROVE  BaselineInv'
  <2>1. /\ BytesExact' /\ Bounded' /\ Half(confirmed') /\ Half(offered')
        /\ sessionBytes' \in 0 .. SessionLimit
        /\ serverBytes' \in 0 .. ServerLimit
        /\ others' \in 0 .. ServerLimit
    BY <1>2, <1>3, <1>4, <1>14, StoredExactly
  <2>2. confirmed' = K1 /\ offered' = O
    BY <1>14 DEF Store
  <2>3. timer' \in BOOLEAN
    BY <1>14 DEF Ensured, BaselineTypeOK
  <2>4. BaselineTypeOK'
    BY <1>2, <1>8, <2>1, <2>3 DEF BaselineTypeOK, Half
  <2>5. PinsMatchRequests'
    BY <1>3, <1>9, <1>14, <2>2, PinsCounted
  <2>6. TimerIsSet'
    <3>1. CASE timer' = timer /\ Entries(K1, O) \subseteq Entries(K1, O1)
      BY <1>3, <2>2, <3>1 DEF TimerIsSet
    <3>2. CASE timer' = Ensured(K1, O)
      BY <1>4, <2>2, <3>2 DEF TimerIsSet, Ensured
    <3>. QED
      BY <1>14, <3>1, <3>2
  <2>. QED
    BY <1>10, <2>1, <2>4, <2>5, <2>6
<1>15. CASE Rest
  <2>1. UNCHANGED <<confirmed, offered, sessionBytes, serverBytes, timer, others, life>>
    BY <1>2, <1>15
  <2>2. BaselineTypeOK'
    BY <1>8, <2>1 DEF BaselineTypeOK
  <2>3. Bounded' /\ BytesExact' /\ TimerIsSet'
    BY <2>1 DEF Bounded, BytesExact, TimerIsSet
  <2>4. PinsMatchRequests'
    BY <1>9, <2>1, PinsCounted
  <2>. QED
    BY <1>10, <2>2, <2>3, <2>4
<1>16. CASE Store(K1, O1, pruned, 0) /\ UNCHANGED timer
  <2>. HIDE DEF pruned
  <2>1. /\ pruned = BytesIn(confirmed) + BytesIn(offered) + 0
                      - (BytesIn(K1) + BytesIn(O1))
        /\ 0 =< BytesIn(K1) + BytesIn(O1)
        /\ sessionBytes - pruned + 0 =< SessionLimit
        /\ serverBytes - pruned + 0 =< ServerLimit
    BY <1>3, <1>6, <1>11, <1>12
  <2>. QED
    BY <1>3, <1>12, <1>14, <1>16, <2>1
<1>17. CASE Store(K1, O2, used, 0) /\ UNCHANGED timer
  <2>. HIDE DEF pruned, O2
  <2>1. used \in Nat /\ BytesIn(O2) \in Nat
    BY <1>5, <1>12, <1>13, HalfFinite
  <2>2. /\ used = BytesIn(confirmed) + BytesIn(offered) + 0
                      - (BytesIn(K1) + BytesIn(O2))
        /\ 0 =< BytesIn(K1) + BytesIn(O2)
    BY <1>3, <1>5, <1>12, <1>13, <2>1
  <2>. HIDE DEF used
  <2>3. /\ sessionBytes - used + 0 =< SessionLimit
        /\ serverBytes - used + 0 =< ServerLimit
    BY <1>6, <1>11, <2>1
  <2>4. Entries(K1, O2) \subseteq Entries(K1, O1)
    BY <1>13 DEF Entries
  <2>. QED
    BY <1>13, <1>14, <1>17, <2>1, <2>2, <2>3, <2>4
<1>18. CASE /\ bytes =< SessionLimit
            /\ FitsLimits(used, bytes)
            /\ Store(K1, O3(revision, bytes), used, bytes)
            /\ timer' = Ensured(K1, O3(revision, bytes))
  <2>. DEFINE b == new(revision, bytes)
              O == O3(revision, bytes)
  <2>1. bytes \in Nat
    BY BaselineAssumption
  <2>2. b \in Baselines /\ b.bytes = bytes /\ b.pins = 0
    <3>1. revision \in 0 .. MaxScreen
      OBVIOUS
    <3>. QED
      BY <1>6, <3>1 DEF Baselines
  <2>3. O = [O1 EXCEPT ![t] = b]
    OBVIOUS
  <2>4. Store(K1, O, used, bytes) /\ timer' = Ensured(K1, O) /\ FitsLimits(used, bytes)
    BY <1>18
  <2>. HIDE DEF b, O
  <2>5. b.bytes =< SessionLimit
    BY <1>18, <2>2
  <2>6. Half(O) /\ BytesIn(O) = BytesIn(O1) - O1[t].bytes + b.bytes
    BY <1>3, <1>4, <2>2, <2>3, <2>5, ReplaceBytes
  <2>7. O[t] = b /\ \A u \in Terminals : u # t => O[u] = O1[u]
    BY <1>3, <1>4, <2>3 DEF Half
  <2>8. \A u \in Terminals : O[u].pins = 0
    BY <1>3, <2>2, <2>7
  <2>. HIDE DEF pruned
  <2>9. BytesIn(O) \in Nat /\ used \in Nat
    BY <1>5, <1>12, <2>6, HalfFinite
  <2>10. Cardinality(RestOf(O, t)) \in Nat
         /\ BytesIn(O) = Cardinality(RestOf(O, t)) + bytes
    BY <1>4, <2>2, <2>6, <2>7, SplitBytes
  <2>11. /\ used = BytesIn(confirmed) + BytesIn(offered) + bytes
                      - (BytesIn(K1) + BytesIn(O))
         /\ bytes =< BytesIn(K1) + BytesIn(O)
    BY <1>3, <1>5, <1>12, <2>1, <2>2, <2>6, <2>9, <2>10
  <2>. HIDE DEF used
  <2>12. /\ sessionBytes - used + bytes =< SessionLimit
         /\ serverBytes - used + bytes =< ServerLimit
    BY <2>4 DEF FitsLimits
  <2>. QED
    BY <1>14, <2>1, <2>4, <2>6, <2>8, <2>9, <2>11, <2>12
<1>. QED
  BY <1>1, <1>15, <1>16, <1>17, <1>18

-----------------------------------------------------------------------------
(* The theorems.                                                           *)

\* The invariant of the baselines holds in every reachable state.
THEOREM BaselineInvariant == BaselineSpec => []BaselineInv
<1>1. BaselineInit => BaselineInv
  BY InitBaselines
<1>2. BaselineInv /\ [BaselineNext]_baselineVars => BaselineInv'
  <2>. SUFFICES ASSUME BaselineInv, [BaselineNext]_baselineVars
                PROVE  BaselineInv'
    OBVIOUS
  <2>1. CASE UNCHANGED baselineVars
    <3>1. UNCHANGED <<confirmed, offered, sessionBytes, serverBytes, others, timer,
                      life, request>>
      BY <2>1 DEF baselineVars
    <3>2. BaselineTypeOK' /\ Bounded' /\ Served'
      BY <3>1 DEF BaselineInv, BaselineTypeOK, Bounded, Served
    <3>3. BytesExact' /\ PinsMatchRequests' /\ TimerIsSet'
      BY <3>1 DEF BaselineInv, BytesExact, PinsMatchRequests, TimerIsSet
    <3>. QED
      BY <3>2, <3>3 DEF BaselineInv
  <2>2. CASE \E q \in Requests :
               Acquire(q) \/ Answer(q) \/ Offer(q) \/ ReleaseBaseline(q)
    BY <2>2, StepAcquire, StepAnswer, StepOffer, StepRelease
  <2>3. CASE TimePasses \/ ExpireBaselines
    BY <2>3, StepTimePasses, StepExpire
  <2>4. CASE EndSession \/ ClearBaselines \/ OthersReserve \/ OthersDrop
    BY <2>4, StepOutside, StepClear
  <2>. QED
    BY <2>1, <2>2, <2>3, <2>4 DEF BaselineNext
<1>. QED
  BY <1>1, <1>2, PTL DEF BaselineSpec

\* The bytes charged to a session and to the server are exactly those of the
\* cached baselines, within both limits, whatever sizes, limits and number of
\* requests there are (protocol_live_screen_baseline.go 105-143, 182-198).
THEOREM BaselineBytesExact == BaselineSpec => []BytesExact
<1>1. BaselineInv => BytesExact
  BY DEF BaselineInv
<1>. QED
  BY <1>1, BaselineInvariant, PTL

\* No baseline is dropped or replaced under a request that uses it, and none
\* stays pinned without one (protocol_live_screen_baseline.go 39-72, 162).
THEOREM BaselinePins == BaselineSpec => []PinsMatchRequests
<1>1. BaselineInv => PinsMatchRequests
  BY DEF BaselineInv
<1>. QED
  BY <1>1, BaselineInvariant, PTL

\* A session that has a baseline has a timer that will expire it
\* (protocol_live_screen_baseline.go 165-180).
THEOREM BaselineTimer == BaselineSpec => []TimerIsSet
<1>1. BaselineInv => TimerIsSet
  BY DEF BaselineInv
<1>. QED
  BY <1>1, BaselineInvariant, PTL
=============================================================================
