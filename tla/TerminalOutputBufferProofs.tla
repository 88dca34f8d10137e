--------------------- MODULE TerminalOutputBufferProofs ---------------------
(***************************************************************************)
(* Theorems about TerminalOutputBuffer, for every set of buffers, every    *)
(* mix of policies, every capacity, budget and chunk size.                 *)
(***************************************************************************)
EXTENDS TerminalOutputBuffer, FiniteSetTheorems, WellFoundedInduction, TLAPS

-----------------------------------------------------------------------------
(* Numbers.                                                                *)

\* A nonempty set of naturals has a least element: the head of a node list.
LEMMA LeastExists ==
    ASSUME NEW S \in SUBSET Nat, S # {}
    PROVE  \E s \in S : \A t \in S : s <= t
<1> DEFINE R == OpToRel(<, Nat)
<1>1. IsWellFoundedOn(R, Nat)
  BY NatLessThanWellFounded
<1>2. PICK x \in S : \A y \in S : ~ (<<y, x>> \in R)
  BY <1>1, WFMin
<1>3. \A y \in S : <<y, x>> \in R <=> y < x
  BY DEF OpToRel
<1> HIDE DEF R
<1>4. \A y \in S : ~(y < x)
  BY <1>2, <1>3, Zenon
<1>5. \A y \in S : x <= y
  BY <1>4
<1>6. QED
  BY <1>5

\* A nonempty set of bounded naturals has a greatest element: the tail.
LEMMA GreatestExists ==
    ASSUME NEW n \in Nat, NEW S \in SUBSET (0 .. n), S # {}
    PROVE  \E s \in S : \A t \in S : t <= s
<1> DEFINE M == {m \in Nat : \A t \in S : t <= m}
<1>1. PICK m \in M : \A k \in M : m <= k
  <2>1. n \in M /\ M \in SUBSET Nat
    OBVIOUS
  <2>2. QED
    BY <2>1, LeastExists
<1>2. m \in S
  <2>1. SUFFICES ASSUME m \notin S PROVE FALSE
    OBVIOUS
  <2>2. \A t \in S : t \in Nat /\ t <= m - 1
    BY <1>1, <2>1
  <2>3. m - 1 \in Nat /\ m - 1 \in M
    <3>1. PICK t \in S : TRUE
      OBVIOUS
    <3>2. m \in Nat /\ t \in Nat /\ t <= m - 1
      BY <2>2
    <3>3. m - 1 \in Nat
      BY <3>2
    <3>4. QED
      BY <3>3, <2>2
  <2>4. m <= m - 1
    BY <2>3, <1>1
  <2>5. QED
    BY <2>4
<1>3. QED
  BY <1>1, <1>2

\* Greatest(S) is the last sequence number of S, and 0 for no sequence number.
LEMMA GreatestIn ==
    ASSUME NEW S \in SUBSET Seqs
    PROVE  /\ Greatest(S) \in 0 .. MaxSeq
           /\ S # {} => Greatest(S) \in S /\ \A t \in S : t <= Greatest(S)
<1>1. CASE S = {}
  BY <1>1, ConstantsAssumption DEF Greatest
<1>2. CASE S # {}
  <2>1. S \in SUBSET (0 .. MaxSeq) /\ MaxSeq \in Nat
    BY ConstantsAssumption DEF Seqs
  <2>2. \E s \in S : \A t \in S : t <= s
    BY <1>2, <2>1, GreatestExists
  <2>3. Greatest(S) \in S /\ \A t \in S : t <= Greatest(S)
    BY <1>2, <2>2 DEF Greatest
  <2>4. QED
    BY <2>1, <2>3
<1>3. QED
  BY <1>1, <1>2

\* NextPending(S, s) is 0 or a sequence number of S behind s.
LEMMA NextPendingIn ==
    ASSUME NEW S \in SUBSET Seqs, NEW s \in 0 .. MaxSeq
    PROVE  /\ NextPending(S, s) \in 0 .. MaxSeq
           /\ (\E t \in S : t > s) =>
                 /\ NextPending(S, s) \in S /\ NextPending(S, s) > s
                 /\ \A t \in S : t > s => NextPending(S, s) <= t
           /\ ~(\E t \in S : t > s) => NextPending(S, s) = 0
<1> DEFINE T == {t \in S : t > s}
<1>1. S \in SUBSET (0 .. MaxSeq) /\ MaxSeq \in Nat /\ S \subseteq Nat
  BY ConstantsAssumption DEF Seqs
<1>2. CASE T = {}
  BY <1>1, <1>2 DEF NextPending
<1>3. CASE T # {}
  <2>1. T \in SUBSET Nat
    BY <1>1
  <2>2. \E x \in T : \A y \in T : x <= y
    BY <1>3, <2>1, LeastExists
  <2>3. Least(T) \in T /\ \A y \in T : Least(T) <= y
    BY <2>2 DEF Least
  <2>4. NextPending(S, s) = Least(T)
    BY <1>3 DEF NextPending
  <2>5. QED
    BY <1>1, <1>3, <2>3, <2>4
<1>4. QED
  BY <1>2, <1>3

-----------------------------------------------------------------------------
(* Bytes.                                                                  *)

\* The bytes of any sequence numbers of a buffer are finitely many.
LEMMA BytesFinite ==
    ASSUME NEW b \in Buffers, NEW S \in SUBSET Seqs
    PROVE  /\ IsFiniteSet(BytesOf(b, S))
           /\ Cardinality(BytesOf(b, S)) \in Nat
           /\ BytesOf(b, S) \subseteq AllBytes
<1>1. IsFiniteSet(Seqs)
  BY FS_Interval, ConstantsAssumption DEF Seqs
<1>2. IsFiniteSet({b} \X S)
  <2>1. IsFiniteSet(S)
    BY <1>1, FS_Subset
  <2>2. IsFiniteSet({b})
    BY FS_Singleton
  <2>3. QED
    BY <2>1, <2>2, FS_Product
<1>3. IsFiniteSet(1 .. ChunkBytes)
  BY FS_Interval, ConstantsAssumption
<1>4. IsFiniteSet(({b} \X S) \X (1 .. ChunkBytes))
  BY <1>2, <1>3, FS_Product
<1>5. BytesOf(b, S) \in SUBSET (({b} \X S) \X (1 .. ChunkBytes))
  BY DEF BytesOf
<1>6. IsFiniteSet(BytesOf(b, S)) /\ Cardinality(BytesOf(b, S)) \in Nat
  BY <1>4, <1>5, FS_Subset, FS_CardinalityType
<1>7. (({b} \X S) \X (1 .. ChunkBytes)) \subseteq AllBytes
  <2>1. S \subseteq 0 .. MaxSeq
    BY ConstantsAssumption DEF Seqs
  <2>2. ({b} \X S) \subseteq Buffers \X (0 .. MaxSeq)
    BY <2>1
  <2>3. QED
    BY <2>2 DEF AllBytes
<1>8. QED
  BY <1>5, <1>6, <1>7

\* So are the bytes a thread can owe.
LEMMA OwedFinite ==
    ASSUME NEW S \in SUBSET AllBytes
    PROVE  IsFiniteSet(S) /\ Cardinality(S) \in Nat
<1>1. IsFiniteSet(Buffers \X (0 .. MaxSeq)) /\ IsFiniteSet(1 .. ChunkBytes)
  <2>1. IsFiniteSet(0 .. MaxSeq) /\ IsFiniteSet(1 .. ChunkBytes)
    BY FS_Interval, ConstantsAssumption
  <2>2. QED
    BY <2>1, FS_Product, ConstantsAssumption
<1>2. IsFiniteSet(AllBytes)
  BY <1>1, FS_Product DEF AllBytes
<1>3. QED
  BY <1>2, FS_Subset, FS_CardinalityType

-----------------------------------------------------------------------------
(* Types of the helpers.                                                   *)

\* addGapLocked keeps a consumer state well typed.
LEMMA AddGapType ==
    ASSUME NEW st \in ConsumerStates, NEW s \in 0 .. MaxSeq, NEW n \in Nat
    PROVE  AddGap(st, s, n) \in ConsumerStates
<1>1. Larger(st.gapSeq, s) \in 0 .. MaxSeq
  BY DEF ConsumerStates, Larger
<1>2. st.gapBytes + n \in Nat
  BY DEF ConsumerStates
<1>3. CASE n = 0
  BY <1>3 DEF AddGap
<1>4. CASE n # 0
  BY <1>1, <1>2, <1>4 DEF AddGap, ConsumerStates
<1>5. QED
  BY <1>3, <1>4

\* Turning queued nodes into a pending gap keeps a consumer state well typed.
LEMMA GappedType ==
    ASSUME NEW b \in Buffers, NEW st \in ConsumerStates, NEW D \in SUBSET Seqs
    PROVE  Gapped(b, st, D) \in ConsumerStates
BY AddGapType, GreatestIn, BytesFinite DEF Gapped

\* The masks that Without leaves are masks, and name no new consumer.
LEMMA WithoutType ==
    ASSUME TypeOK, NEW b \in Buffers, NEW dropped
    PROVE  /\ Without(b, dropped) \in [Seqs -> SUBSET Consumers]
           /\ \A s \in Seqs : Without(b, dropped)[s] \subseteq pending[b][s]
BY DEF TypeOK, Without

\* What Reclaim frees is finite and is a part of the retained payload.
LEMMA FreedIn ==
    ASSUME NEW b \in Buffers, NEW left
    PROVE  /\ Freed(b, left) \subseteq BytesOf(b, Nodes(b))
           /\ Freed(b, left) \in SUBSET AllBytes
           /\ IsFiniteSet(Freed(b, left))
           /\ Cardinality(Freed(b, left)) \in Nat
<1>1. {s \in Nodes(b) : left[s] = {}} \in SUBSET Seqs
  BY DEF Nodes
<1>2. Freed(b, left) \subseteq BytesOf(b, Nodes(b))
  BY DEF Freed, BytesOf
<1>3. QED
  BY <1>1, <1>2, BytesFinite DEF Freed

\* Reclaim keeps the types of what it changes.
LEMMA ReclaimType ==
    ASSUME TypeOK, NEW b \in Buffers, NEW owner \in Buffers, NEW r \in Roles,
           NEW left \in [Seqs -> SUBSET Consumers], NEW extra \in SUBSET AllBytes,
           Reclaim(b, left, owner, r, extra)
    PROVE  /\ pending' \in [Buffers -> [Seqs -> SUBSET Consumers]]
           /\ resident' \in [Buffers -> Int]
           /\ owed' \in [Buffers -> [Roles -> SUBSET AllBytes]]
<1>1. Cardinality(Freed(b, left)) \in Nat /\ Freed(b, left) \in SUBSET AllBytes
  BY FreedIn
<1>2. pending' \in [Buffers -> [Seqs -> SUBSET Consumers]]
  BY DEF Reclaim, TypeOK
<1>3. resident' \in [Buffers -> Int]
  BY <1>1 DEF Reclaim, TypeOK
<1>4. owed' \in [Buffers -> [Roles -> SUBSET AllBytes]]
  BY <1>1 DEF Reclaim, TypeOK
<1>5. QED
  BY <1>2, <1>3, <1>4

\* A thread that goes to a label of its own code stays within it.
LEMMA GotoType ==
    ASSUME PcOK, NEW b \in Buffers, NEW r \in Roles, NEW label \in Labels[r],
           Goto(b, r, label)
    PROVE  PcOK'
BY DEF PcOK, Goto


\* The labels that the actions name belong to the threads that go there.
LEMMA LabelsIn ==
    /\ Labels["pump"] = PumpLabels /\ Labels["abort"] = AbortLabels
    /\ Labels["flush"] = FlushLabels
    /\ \A c \in Consumers : Labels[c] = ConsumerLabels
BY DEF Labels, Roles, Consumers

-----------------------------------------------------------------------------
(* The inductive invariant behind the types and the capacity.              *)

\* From the read of a chunk until the chunk has a sequence number or is given
\* up, the writer holds a chunk and there is a sequence number left for it;
\* from the capacity check until the append, the chunk fits.
Writing == {"local", "accept", "reserve", "evict", "refused", "append", "rel_local", "rel_evict"}
Checked == {"accept", "reserve", "evict", "append", "rel_evict"}

WriterOK ==
    \A b \in Buffers :
        /\ pc[b]["pump"] \in Writing => nextSeq[b] < MaxSeq /\ pump[b].size \in ChunkSizes
        /\ pc[b]["pump"] \in Checked => resident[b] + pump[b].size <= CapacityBytes

\* A new buffer, as newTerminalOutputBuffer makes it, is well typed.
LEMMA InitType == Init => TypeOK
<1> SUFFICES ASSUME Init PROVE TypeOK
  OBVIOUS
<1>1. PcOK
  BY LabelsIn DEF Init, PcOK, Roles, Consumers, ConsumerLabels, PumpLabels, AbortLabels, FlushLabels
<1>2. cons \in [Buffers -> [Consumers -> ConsumerStates]]
  <2>1. \A a \in BOOLEAN : NewConsumer(a) \in ConsumerStates
    BY ConstantsAssumption DEF NewConsumer, ConsumerStates
  <2>2. \A b \in Buffers, c \in Consumers : Enabled(b, c) \in BOOLEAN
    BY DEF Enabled
  <2>3. QED
    BY <2>1, <2>2 DEF Init
<1>3. pump \in [Buffers -> PumpStates]
  BY DEF Init, PumpStates
<1>4. flush \in [Buffers -> [consumer : Consumers, target : 0 .. MaxSeq]]
  BY ConstantsAssumption DEF Init, Consumers
<1>5. budget \in BudgetStates
  BY DEF Init, BudgetStates
<1>6. QED
  BY <1>1, <1>2, <1>3, <1>4, <1>5, ConstantsAssumption DEF Init, TypeOK


\* A step of a consumer, or of a writer on its consumers, keeps their types.
LEMMA UnavailableType ==
    ASSUME NEW st \in ConsumerStates
    PROVE  Unavailable(st) \in ConsumerStates
<1>1. 0 \in 0 .. MaxSeq
  BY ConstantsAssumption
<1>2. QED
  BY <1>1 DEF Unavailable, ConsumerStates

\* dropOldestLocked keeps the nodes, the consumers and the debt well typed.
LEMMA DropOldestType ==
    ASSUME TypeOK, NEW b \in Buffers, NEW owner \in Buffers, NEW n, DropOldest(b, n, owner)
    PROVE  /\ pending' \in [Buffers -> [Seqs -> SUBSET Consumers]]
           /\ resident' \in [Buffers -> Int]
           /\ owed' \in [Buffers -> [Roles -> SUBSET AllBytes]]
           /\ cons' \in [Buffers -> [Consumers -> ConsumerStates]]
<1> DEFINE dropped == DropOldestSets(b, n)
           left == Without(b, dropped)
           Moved(c, st) ==
               IF st.next \in dropped[c]
               THEN [st EXCEPT !.next = NextPending({s \in Seqs : c \in left[s]}, st.next)]
               ELSE st
<1>1. Reclaim(b, left, owner, "pump", {})
  BY DEF DropOldest
<1>2. left \in [Seqs -> SUBSET Consumers]
  BY WithoutType
<1>3. /\ pending' \in [Buffers -> [Seqs -> SUBSET Consumers]]
      /\ resident' \in [Buffers -> Int]
      /\ owed' \in [Buffers -> [Roles -> SUBSET AllBytes]]
  <2>1. "pump" \in Roles /\ {} \in SUBSET AllBytes
    BY DEF Roles
  <2>2. QED
    BY <1>1, <1>2, <2>1, ReclaimType
<1>4. ASSUME NEW c \in Consumers
      PROVE  Gapped(b, Moved(c, cons[b][c]), dropped[c]) \in ConsumerStates
  <2>1. dropped[c] \in SUBSET Seqs
    BY DEF DropOldestSets, Visited, Nodes
  <2>2. cons[b][c] \in ConsumerStates
    BY DEF TypeOK
  <2>3. NextPending({s \in Seqs : c \in left[s]}, cons[b][c].next) \in 0 .. MaxSeq
    BY <2>2, NextPendingIn DEF ConsumerStates
  <2>4. Moved(c, cons[b][c]) \in ConsumerStates
    BY <2>2, <2>3 DEF ConsumerStates
  <2>5. QED
    BY <2>1, <2>4, GappedType
<1>5. cons' = [cons EXCEPT ![b] =
                 [c \in Consumers |-> Gapped(b, Moved(c, cons[b][c]), dropped[c])]]
  BY DEF DropOldest
<1>6. cons' \in [Buffers -> [Consumers -> ConsumerStates]]
  BY <1>4, <1>5 DEF TypeOK
<1>7. QED
  BY <1>3, <1>6

\* dropIncomingLocked keeps the state well typed when a number is left for the chunk.
LEMMA DropIncomingType ==
    ASSUME TypeOK, WriterOK, NEW b \in Buffers, pc[b]["pump"] \in Writing, DropIncoming(b)
    PROVE  /\ pending' \in [Buffers -> [Seqs -> SUBSET Consumers]]
           /\ resident' \in [Buffers -> Int]
           /\ owed' \in [Buffers -> [Roles -> SUBSET AllBytes]]
           /\ cons' \in [Buffers -> [Consumers -> ConsumerStates]]
           /\ nextSeq' \in [Buffers -> 0 .. MaxSeq]
           /\ length' \in [Buffers -> [Seqs -> 0 .. ChunkBytes]]
           /\ asleep' \subseteq Buffers \X Roles
           /\ PcOK'
<1> DEFINE seq == nextSeq[b] + 1
           dropped == [c \in Consumers |-> IF cons[b][c].active THEN Queued(b, c) ELSE {}]
           Lose(c, st) ==
               IF st.active
               THEN AddGap(Gapped(b, [st EXCEPT !.next = 0], dropped[c]), seq, pump[b].size)
               ELSE st
<1>1. /\ seq \in 0 .. MaxSeq /\ seq \in Seqs
      /\ pump[b].size \in 0 .. ChunkBytes /\ pump[b].size \in Nat
  <2>1. nextSeq[b] < MaxSeq /\ pump[b].size \in ChunkSizes
    BY DEF WriterOK
  <2>2. nextSeq[b] \in 0 .. MaxSeq
    BY DEF TypeOK
  <2>3. MaxSeq \in Nat /\ ChunkBytes \in Nat /\ ChunkSizes \subseteq 1 .. ChunkBytes
    BY ConstantsAssumption
  <2>4. nextSeq[b] + 1 \in 1 .. MaxSeq
    BY <2>1, <2>2, <2>3
  <2>5. pump[b].size \in 1 .. ChunkBytes
    BY <2>1, <2>3
  <2>6. QED
    BY <2>3, <2>4, <2>5 DEF Seqs
<1>2. Reclaim(b, Without(b, dropped), b, "pump", {})
  BY DEF DropIncoming
<1>3. /\ pending' \in [Buffers -> [Seqs -> SUBSET Consumers]]
      /\ resident' \in [Buffers -> Int]
      /\ owed' \in [Buffers -> [Roles -> SUBSET AllBytes]]
  <2>1. "pump" \in Roles /\ {} \in SUBSET AllBytes
    BY DEF Roles
  <2>2. QED
    BY <1>2, <2>1, ReclaimType, WithoutType
<1>4. ASSUME NEW c \in Consumers
      PROVE  Lose(c, cons[b][c]) \in ConsumerStates
  <2>1. dropped[c] \in SUBSET Seqs
    BY DEF Queued
  <2>2. cons[b][c] \in ConsumerStates
    BY DEF TypeOK
  <2>3. [cons[b][c] EXCEPT !.next = 0] \in ConsumerStates
    BY <2>2, ConstantsAssumption DEF ConsumerStates
  <2>4. QED
    BY <1>1, <2>1, <2>2, <2>3, GappedType, AddGapType
<1>5. cons' = [cons EXCEPT ![b] = [c \in Consumers |-> Lose(c, cons[b][c])]]
  BY DEF DropIncoming
<1>6. cons' \in [Buffers -> [Consumers -> ConsumerStates]]
  BY <1>4, <1>5 DEF TypeOK
<1>7. nextSeq' \in [Buffers -> 0 .. MaxSeq]
  BY <1>1 DEF DropIncoming, TypeOK
<1>8. length' \in [Buffers -> [Seqs -> 0 .. ChunkBytes]]
  BY <1>1 DEF DropIncoming, TypeOK
<1>9. asleep' \subseteq Buffers \X Roles
  BY DEF DropIncoming, Broadcast, TypeOK
<1>10. PcOK'
  <2>1. Goto(b, "pump", "read") \/ Goto(b, "pump", "rel_read")
    BY DEF DropIncoming, GotoRelease, AfterRelease
  <2>2. "pump" \in Roles /\ "read" \in Labels["pump"] /\ "rel_read" \in Labels["pump"]
    BY LabelsIn DEF Roles, PumpLabels
  <2>3. QED
    BY <2>1, <2>2, GotoType DEF TypeOK
<1>11. QED
  BY <1>3, <1>6, <1>7, <1>8, <1>9, <1>10


\* A thread of the pump, of Close or of a consumer that goes to the release of
\* some bytes, or past it when there are none, stays within its labels.
LEMMA GotoReleaseType ==
    ASSUME PcOK, NEW b \in Buffers, NEW r \in Roles, NEW bytes, NEW label,
           label \in Labels[r], AfterRelease[label] \in Labels[r],
           GotoRelease(b, r, bytes, label)
    PROVE  PcOK'
<1>1. Goto(b, r, label) \/ Goto(b, r, AfterRelease[label])
  BY DEF GotoRelease
<1>2. QED
  BY <1>1, GotoType

\* The numbers an action computes with are numbers.
LEMMA PumpNumbers ==
    ASSUME TypeOK, NEW b \in Buffers
    PROVE  /\ pump[b] \in PumpStates /\ pump[b].size \in Nat /\ pump[b].size <= ChunkBytes
           /\ budget.resident \in Nat /\ MaxBytes \in Nat
<1>1. /\ \A n \in ChunkSizes \cup {0} : n \in Nat /\ n <= ChunkBytes
      /\ MaxBytes \in Nat
  BY ConstantsAssumption
<1>2. pump[b] \in PumpStates /\ budget \in BudgetStates
  BY DEF TypeOK
<1>3. pump[b].size \in ChunkSizes \cup {0} /\ budget.resident \in Nat
  BY <1>2 DEF PumpStates, BudgetStates
<1>4. QED
  BY <1>1, <1>2, <1>3

\* A chunk arriving from the PTY keeps the state well typed.
LEMMA PumpReadType ==
    ASSUME TypeOK, NEW b \in Buffers, PumpRead(b) PROVE TypeOK'
<1>1. PcOK'
  BY LabelsIn, GotoType DEF PumpRead, TypeOK, PumpLabels, Roles
<1>2. pump' \in [Buffers -> PumpStates]
  <2>1. PICK n \in ChunkSizes : pump' = [pump EXCEPT ![b].size = n]
    BY DEF PumpRead
  <2>2. [pump[b] EXCEPT !.size = n] \in PumpStates
    BY PumpNumbers DEF PumpStates
  <2>3. QED
    BY <2>1, <2>2 DEF TypeOK
<1>3. QED
  BY <1>1, <1>2 DEF PumpRead, TypeOK, nodeVars

\* The end of the PTY output keeps the state well typed.
LEMMA PumpEOFType ==
    ASSUME TypeOK, NEW b \in Buffers, PumpEOF(b) PROVE TypeOK'
<1>1. PcOK'
  BY LabelsIn, GotoType DEF PumpEOF, TypeOK, PumpLabels, Roles
<1>2. QED
  BY <1>1 DEF PumpEOF, TypeOK, nodeVars

\* The first critical section of writeChunk keeps the state well typed.
LEMMA WriteLocalType ==
    ASSUME TypeOK, WriterOK, NEW b \in Buffers, WriteLocal(b) PROVE TypeOK'
<1> DEFINE left == Without(b, DropOldestSets(b, pump[b].size))
<1>1. /\ "pump" \in Roles
      /\ {"accept", "seal", "read", "rel_local"} \subseteq Labels["pump"]
  BY LabelsIn DEF PumpLabels, Roles
<1>2. pc[b]["pump"] \in Writing
  BY DEF WriteLocal, At, Writing
<1>3. CASE asleep' = asleep \cup {<<b, "pump">>} /\ UNCHANGED <<nodeVars, pc, owed>>
  <2>1. PcOK'
    BY <1>3 DEF TypeOK, PcOK
  <2>2. asleep' \subseteq Buffers \X Roles
    BY <1>1, <1>3 DEF TypeOK
  <2>3. QED
    BY <1>3, <2>1, <2>2 DEF WriteLocal, TypeOK, nodeVars
<1>4. CASE /\ DropOldest(b, pump[b].size, b) /\ Goto(b, "pump", "rel_local")
           /\ UNCHANGED <<length, nextSeq, asleep>>
  <2>1. PcOK'
    BY <1>1, <1>4, GotoType DEF TypeOK
  <2>2. QED
    BY <1>4, <2>1, DropOldestType DEF WriteLocal, TypeOK
<1>5. CASE DropIncoming(b)
  BY <1>2, <1>5, DropIncomingType DEF WriteLocal, TypeOK
<1>6. CASE /\ Goto(b, "pump", "accept") \/ Goto(b, "pump", "seal") \/ Goto(b, "pump", "read")
           /\ UNCHANGED <<nodeVars, owed, asleep>>
  <2>1. PcOK'
    BY <1>1, <1>6, GotoType DEF TypeOK
  <2>2. QED
    BY <1>6, <2>1 DEF WriteLocal, TypeOK, nodeVars
<1>7. QED
  BY <1>3, <1>4, <1>5, <1>6 DEF WriteLocal

\* The acceptingOutput check of reserve keeps the state well typed.
LEMMA ReserveCheckType ==
    ASSUME TypeOK, NEW b \in Buffers, ReserveCheck(b) PROVE TypeOK'
<1>1. PcOK'
  BY LabelsIn, GotoType DEF ReserveCheck, TypeOK, PumpLabels, Roles
<1>2. QED
  BY <1>1 DEF ReserveCheck, TypeOK, nodeVars

\* The budget section of reserve keeps the state well typed.
LEMMA ReserveType ==
    ASSUME TypeOK, NEW b \in Buffers, Reserve(b) PROVE TypeOK'
<1>1. PcOK'
  <2>1. "pump" \in Roles /\ {"refused", "append", "accept", "evict"} \subseteq Labels["pump"]
    BY LabelsIn DEF PumpLabels, Roles
  <2>2. \E label \in {"refused", "append", "accept", "evict"} : Goto(b, "pump", label)
    BY DEF Reserve
  <2>3. QED
    BY <2>1, <2>2, GotoType DEF TypeOK
<1>2. budget' \in BudgetStates
  <2>1. [budget EXCEPT !.resident = @ + pump[b].size] \in BudgetStates
    <3>1. budget \in BudgetStates /\ budget.resident + pump[b].size \in Nat
      BY PumpNumbers DEF TypeOK
    <3>2. QED
      BY <3>1 DEF BudgetStates
  <2>2. QED
    BY <2>1 DEF Reserve, TypeOK
<1>3. pump' \in [Buffers -> PumpStates]
  <2>1. [pump[b] EXCEPT !.candidates = budget.buffers \cap DropBuffers,
                        !.remaining = budget.resident + pump[b].size - MaxBytes] \in PumpStates
    <3>1. /\ budget.resident + pump[b].size - MaxBytes \in Int
          /\ budget.buffers \cap DropBuffers \in SUBSET DropBuffers
          /\ pump[b] \in PumpStates
      BY PumpNumbers
    <3>2. QED
      BY <3>1 DEF PumpStates
  <2>2. CASE UNCHANGED pump
    BY <2>2 DEF TypeOK
  <2>3. CASE pump' = [pump EXCEPT
                 ![b].candidates = budget.buffers \cap DropBuffers,
                 ![b].remaining = budget.resident + pump[b].size - MaxBytes]
    BY <2>1, <2>3 DEF TypeOK
  <2>4. QED
    BY <2>2, <2>3 DEF Reserve
<1>4. parked' \subseteq Buffers
  BY DEF Reserve, TypeOK
<1>5. QED
  BY <1>1, <1>2, <1>3, <1>4 DEF Reserve, TypeOK, nodeVars

\* dropForAggregate on a candidate keeps the state well typed.
LEMMA EvictType ==
    ASSUME TypeOK, NEW b \in Buffers, Evict(b) PROVE TypeOK'
<1>1. PICK d \in pump[b].candidates :
          LET freed == Freed(d, Without(d, DropOldestSets(d, pump[b].remaining)))
              rest == pump[b].remaining - Cardinality(freed)
          IN  /\ DropOldest(d, pump[b].remaining, b)
              /\ Broadcast(d)
              /\ pump' = [pump EXCEPT
                     ![b].candidates = IF rest <= 0 THEN {} ELSE @ \ {d},
                     ![b].remaining = rest]
              /\ GotoRelease(b, "pump", freed, "rel_evict")
  BY DEF Evict
<1>2. d \in Buffers
  <2>1. pump[b].candidates \in SUBSET DropBuffers
    BY PumpNumbers DEF PumpStates
  <2>2. QED
    BY <2>1, ConstantsAssumption
<1>3. PcOK'
  <2>1. "pump" \in Roles /\ "rel_evict" \in Labels["pump"] /\ AfterRelease["rel_evict"] \in Labels["pump"]
    BY LabelsIn DEF PumpLabels, Roles, AfterRelease
  <2>2. QED
    BY <1>1, <2>1, GotoReleaseType DEF TypeOK
<1>4. pump' \in [Buffers -> PumpStates]
  <2> DEFINE freed == Freed(d, Without(d, DropOldestSets(d, pump[b].remaining)))
  <2>1. Cardinality(freed) \in Nat
    BY <1>2, FreedIn
  <2>2. ASSUME NEW C \in SUBSET DropBuffers, NEW n \in Int
        PROVE  [pump[b] EXCEPT !.candidates = C, !.remaining = n] \in PumpStates
    BY PumpNumbers DEF PumpStates
  <2>3. PICK C \in SUBSET DropBuffers, n \in Int :
            pump' = [pump EXCEPT ![b].candidates = C, ![b].remaining = n]
    <3> DEFINE rest == pump[b].remaining - Cardinality(freed)
               C == IF rest <= 0 THEN {} ELSE pump[b].candidates \ {d}
    <3>1. pump[b].candidates \in SUBSET DropBuffers /\ pump[b].remaining \in Int
      BY PumpNumbers DEF PumpStates
    <3>2. rest \in Int
      BY <2>1, <3>1
    <3>3. C \in SUBSET DropBuffers
      BY <3>1
    <3>4. pump' = [pump EXCEPT ![b].candidates = C, ![b].remaining = rest]
      BY <1>1 DEF TypeOK
    <3> HIDE DEF rest, C
    <3>5. QED
      BY <3>2, <3>3, <3>4
  <2>4. QED
    BY <2>2, <2>3 DEF TypeOK
<1>5. asleep' \subseteq Buffers \X Roles
  BY <1>1 DEF Broadcast, TypeOK
<1>6. QED
  BY <1>1, <1>2, <1>3, <1>4, <1>5, DropOldestType DEF Evict, TypeOK

\* The second attempt of reserve keeps the state well typed.
LEMMA ReserveRetryType ==
    ASSUME TypeOK, NEW b \in Buffers, ReserveRetry(b) PROVE TypeOK'
<1>1. PcOK'
  BY LabelsIn, GotoType DEF ReserveRetry, TypeOK, PumpLabels, Roles
<1>2. budget' \in BudgetStates
  <2>1. [budget EXCEPT !.resident = @ + pump[b].size] \in BudgetStates
    <3>1. budget \in BudgetStates /\ budget.resident + pump[b].size \in Nat
      BY PumpNumbers DEF TypeOK
    <3>2. QED
      BY <3>1 DEF BudgetStates
  <2>2. QED
    BY <2>1 DEF ReserveRetry, TypeOK
<1>3. pump' \in [Buffers -> PumpStates]
  <2>1. [pump[b] EXCEPT !.remaining = 0] \in PumpStates
    BY PumpNumbers DEF PumpStates
  <2>2. QED
    BY <2>1 DEF ReserveRetry, TypeOK
<1>4. QED
  BY <1>1, <1>2, <1>3 DEF ReserveRetry, TypeOK, nodeVars

\* writeChunk after a failed reservation keeps the state well typed.
LEMMA WriteRefusedType ==
    ASSUME TypeOK, WriterOK, NEW b \in Buffers, WriteRefused(b) PROVE TypeOK'
<1>1. CASE Goto(b, "pump", "seal") /\ UNCHANGED <<nodeVars, owed, asleep>>
  <2>1. PcOK'
    BY <1>1, LabelsIn, GotoType DEF TypeOK, PumpLabels, Roles
  <2>2. QED
    BY <1>1, <2>1 DEF WriteRefused, TypeOK, nodeVars
<1>2. CASE DropIncoming(b)
  BY <1>2, DropIncomingType DEF WriteRefused, At, Writing, TypeOK
<1>3. QED
  BY <1>1, <1>2 DEF WriteRefused


\* The chunk in the pump's hand, as bytes.
LEMMA InHandType ==
    ASSUME TypeOK, NEW b \in Buffers
    PROVE  /\ InHand(b) \in SUBSET AllBytes
           /\ IsFiniteSet(InHand(b)) /\ Cardinality(InHand(b)) = pump[b].size
<1>1. pump[b].size \in Nat /\ pump[b].size <= ChunkBytes /\ ChunkBytes \in Nat /\ MaxSeq \in Nat
  BY PumpNumbers, ConstantsAssumption
<1>2. 1 .. pump[b].size \subseteq 1 .. ChunkBytes /\ 0 \in 0 .. MaxSeq
  BY <1>1
<1>3. InHand(b) \in SUBSET AllBytes
  BY <1>2 DEF InHand, AllBytes
<1>4. IsFiniteSet({b}) /\ Cardinality({b}) = 1 /\ IsFiniteSet({0}) /\ Cardinality({0}) = 1
  BY FS_Singleton
<1>5. IsFiniteSet({b} \X {0}) /\ Cardinality({b} \X {0}) = 1
  BY <1>4, FS_Product
<1> DEFINE n == pump[b].size
<1> HIDE DEF n
<1>6. IsFiniteSet(1 .. n) /\ Cardinality(1 .. n) = n
  <2>1. n \in Nat
    BY <1>1 DEF n
  <2>2. QED
    BY <2>1, FS_Interval
<1>7. IsFiniteSet(InHand(b)) /\ Cardinality(InHand(b)) = 1 * n
  <2> DEFINE P == {b} \X {0}
             Q == 1 .. n
  <2>1. InHand(b) = P \X Q
    BY DEF InHand, n
  <2>2. IsFiniteSet(P) /\ Cardinality(P) = 1 /\ IsFiniteSet(Q) /\ Cardinality(Q) = n
    BY <1>5, <1>6
  <2> HIDE DEF P, Q
  <2>3. IsFiniteSet(P \X Q) /\ Cardinality(P \X Q) = Cardinality(P) * Cardinality(Q)
    BY <2>2, FS_Product
  <2>4. QED
    BY <2>1, <2>2, <2>3
<1>8. QED
  BY <1>1, <1>3, <1>7 DEF n

\* writeChunk after a successful reservation keeps the state well typed.
LEMMA AppendType ==
    ASSUME TypeOK, WriterOK, NEW b \in Buffers, AppendChunk(b) PROVE TypeOK'
<1> USE DEF AppendChunk
<1>1. "pump" \in Roles /\ {"rel_seal", "read", "rel_read"} \subseteq Labels["pump"]
  BY LabelsIn DEF PumpLabels, Roles
<1>2. InHand(b) \in SUBSET AllBytes
  BY InHandType
<1>3. CASE closed[b] \/ sealed[b]
  <2>1. PcOK'
    BY <1>1, <1>3, GotoType DEF TypeOK
  <2>2. owed' \in [Buffers -> [Roles -> SUBSET AllBytes]]
    <3>1. owed' = [owed EXCEPT ![b]["pump"] = InHand(b)]
      BY <1>3
    <3> HIDE DEF AppendChunk
    <3>2. QED
      BY <1>1, <1>2, <3>1 DEF TypeOK
  <2>3. QED
    BY <1>3, <2>1, <2>2 DEF TypeOK, nodeVars
<1>4. CASE ~closed[b] /\ ~sealed[b]
  <2> DEFINE seq == nextSeq[b] + 1
             mask == {c \in Consumers : cons[b][c].active /\ ~BehindGap(cons[b][c])}
             dropped == [c \in Consumers |->
                            IF cons[b][c].active /\ c \notin mask THEN Queued(b, c) ELSE {}]
             left == Without(b, dropped)
             freed == Freed(b, left)
             Take(c, st) ==
                 CASE c \in mask ->
                        IF st.next = 0 /\ st.first = 0 THEN [st EXCEPT !.next = seq] ELSE st
                   [] st.active /\ c \notin mask ->
                        AddGap(Gapped(b, [st EXCEPT !.next = IF st.first = 0 THEN 0 ELSE @],
                                      dropped[c]), seq, pump[b].size)
                   [] OTHER -> st
             paid == freed \cup (IF mask = {} THEN InHand(b) ELSE {})
  <2>1. /\ seq \in 0 .. MaxSeq /\ seq \in Seqs /\ 0 \in 0 .. MaxSeq
        /\ pump[b].size \in 0 .. ChunkBytes /\ pump[b].size \in Nat
    <3>1. nextSeq[b] < MaxSeq
      BY DEF At, Writing, WriterOK
    <3>2. nextSeq[b] \in 0 .. MaxSeq
      BY DEF TypeOK
    <3>3. MaxSeq \in Nat /\ ChunkBytes \in Nat
      BY ConstantsAssumption
    <3>4. pump[b].size \in Nat /\ pump[b].size <= ChunkBytes
      BY PumpNumbers
    <3> DEFINE n == nextSeq[b]
               m == pump[b].size
    <3>5. /\ n \in 0 .. MaxSeq /\ n < MaxSeq /\ MaxSeq \in Nat
          /\ m \in Nat /\ m <= ChunkBytes /\ ChunkBytes \in Nat
      BY <3>1, <3>2, <3>3, <3>4
    <3> HIDE DEF n, m
    <3>6. /\ n + 1 \in 0 .. MaxSeq /\ n + 1 \in 1 .. MaxSeq /\ 0 \in 0 .. MaxSeq
          /\ m \in 0 .. ChunkBytes
      BY <3>5
    <3>7. QED
      BY <3>5, <3>6 DEF n, m, Seqs
  <2>2. left \in [Seqs -> SUBSET Consumers]
    BY WithoutType
  <2>3. Cardinality(freed) \in Nat /\ freed \in SUBSET AllBytes
    BY FreedIn
  <2>4. nextSeq' \in [Buffers -> 0 .. MaxSeq]
    BY ZenonT(30), <1>4, <2>1 DEF TypeOK
  <2>5. length' \in [Buffers -> [Seqs -> 0 .. ChunkBytes]]
    <3>1. length' = [length EXCEPT ![b][seq] = pump[b].size]
      BY <1>4
    <3> HIDE DEF AppendChunk
    <3>2. QED
      BY <2>1, <3>1 DEF TypeOK
  <2>6. cons' \in [Buffers -> [Consumers -> ConsumerStates]]
    <3>1. ASSUME NEW c \in Consumers
          PROVE  Take(c, cons[b][c]) \in ConsumerStates
      <4>1. cons[b][c] \in ConsumerStates
        BY DEF TypeOK
      <4>2. dropped[c] \in SUBSET Seqs
        BY DEF Queued
      <4>3. /\ [cons[b][c] EXCEPT !.next = seq] \in ConsumerStates
            /\ [cons[b][c] EXCEPT !.next = IF cons[b][c].first = 0 THEN 0 ELSE @] \in ConsumerStates
        BY <2>1, <4>1 DEF ConsumerStates
      <4>4. AddGap(Gapped(b, [cons[b][c] EXCEPT !.next = IF cons[b][c].first = 0 THEN 0 ELSE @],
                          dropped[c]), seq, pump[b].size) \in ConsumerStates
        BY <2>1, <4>2, <4>3, GappedType, AddGapType
      <4>5. QED
        BY <4>1, <4>3, <4>4
    <3>2. cons' = [cons EXCEPT ![b] = [c \in Consumers |-> Take(c, cons[b][c])]]
      BY <1>4
    <3> HIDE DEF Take
    <3>3. QED
      BY <3>1, <3>2 DEF TypeOK
  <2>7. pending' \in [Buffers -> [Seqs -> SUBSET Consumers]]
    <3>1. pending' = [pending EXCEPT ![b] = [left EXCEPT ![seq] = mask]]
      BY <1>4
    <3>2. [left EXCEPT ![seq] = mask] \in [Seqs -> SUBSET Consumers]
      BY <2>1, <2>2
    <3>3. QED
      BY <3>1, <3>2 DEF TypeOK
  <2>8. resident' \in [Buffers -> Int]
    <3>1. resident' = [resident EXCEPT ![b] =
                          @ - Cardinality(freed) + (IF mask = {} THEN 0 ELSE pump[b].size)]
      BY <1>4
    <3> DEFINE n == IF mask = {} THEN 0 ELSE pump[b].size
               k == Cardinality(freed)
               v == resident[b] - k + n
    <3>2. n \in Nat /\ k \in Int /\ resident[b] \in Int
          /\ resident \in [Buffers -> Int]
      BY <2>1, <2>3 DEF TypeOK
    <3> HIDE DEF n, k
    <3>3. v \in Int
      BY <3>2
    <3>4. resident' = [resident EXCEPT ![b] = v]
      BY <3>1 DEF n, k
    <3> HIDE DEF v
    <3>5. QED
      BY <3>2, <3>3, <3>4
  <2>9. owed' \in [Buffers -> [Roles -> SUBSET AllBytes]]
    <3>1. owed' = [owed EXCEPT ![b]["pump"] = paid]
      BY <1>4
    <3>2. paid \in SUBSET AllBytes
      BY <1>2, <2>3
    <3> HIDE DEF paid
    <3>3. QED
      BY <1>1, <3>1, <3>2 DEF TypeOK
  <2>10. PcOK'
    <3>1. GotoRelease(b, "pump", paid, "rel_read")
      BY <1>4
    <3>2. AfterRelease["rel_read"] \in Labels["pump"]
      BY <1>1 DEF AfterRelease
    <3>3. QED
      BY <1>1, <3>1, <3>2, GotoReleaseType DEF TypeOK
  <2>11. asleep' \subseteq Buffers \X Roles
    BY <1>4 DEF Broadcast, TypeOK
  <2>12. QED
    BY <2>4, <2>5, <2>6, <2>7, <2>8, <2>9, <2>10, <2>11 DEF TypeOK
<1>5. QED
  BY <1>3, <1>4

\* Seal and the budget.wake that ends it keep the state well typed.
LEMMA SealType ==
    ASSUME TypeOK, NEW b \in Buffers, Seal(b) \/ SealWake(b) PROVE TypeOK'
<1>1. PcOK'
  BY LabelsIn, GotoType DEF Seal, SealWake, TypeOK, PumpLabels, Roles
<1>2. sealed' \in [Buffers -> BOOLEAN] /\ asleep' \subseteq Buffers \X Roles /\ parked' \subseteq Buffers
  BY DEF Seal, SealWake, TypeOK, Broadcast
<1>3. QED
  BY <1>1, <1>2 DEF Seal, SealWake, TypeOK, nodeVars

\* The start of abortOutputBuffer keeps the state well typed.
LEMMA AbortStartType ==
    ASSUME TypeOK, NEW b \in Buffers, AbortStart(b) PROVE TypeOK'
<1>1. PcOK'
  BY LabelsIn, GotoType DEF AbortStart, TypeOK, AbortLabels, Roles
<1>2. QED
  BY <1>1 DEF AbortStart, TypeOK, nodeVars

\* The callers of Close and Wait go where their own code goes on.
LEMMA CloserLabels ==
    ASSUME NEW r \in Closers
    PROVE  /\ r \in Roles
           /\ {AfterClose[r], AfterWait[r], "rel_unreg", AfterRelease["rel_unreg"]} \subseteq Labels[r]
BY LabelsIn DEF Closers, AfterClose, AfterWait, AfterRelease, PumpLabels, AbortLabels, Roles

\* Close keeps the state well typed.
LEMMA CloseType ==
    ASSUME TypeOK, NEW b \in Buffers, NEW r \in Closers, Close(b, r) PROVE TypeOK'
<1> USE DEF Close
<1>1. CASE closed[b]
  <2>1. PcOK'
    BY <1>1, CloserLabels, GotoType DEF TypeOK
  <2>2. QED
    BY <1>1, <2>1 DEF TypeOK, nodeVars
<1>2. CASE ~closed[b]
  <2> DEFINE dropped == [c \in Consumers |-> IF cons[b][c].active THEN Queued(b, c) ELSE {}]
             Lost(c, st) == IF st.active THEN Gapped(b, [st EXCEPT !.next = 0], dropped[c]) ELSE st
             Stop(c, st) == [Lost(c, st) EXCEPT !.active = FALSE, !.done = @ \/ pc[b][c] = "new"]
             left == Without(b, dropped)
  <2>1. cons' \in [Buffers -> [Consumers -> ConsumerStates]]
    <3>1. ASSUME NEW c \in Consumers
          PROVE  Stop(c, cons[b][c]) \in ConsumerStates
      <4> HIDE DEF Close
      <4>1. cons[b][c] \in ConsumerStates
        BY DEF TypeOK
      <4>2. dropped[c] \in SUBSET Seqs
        BY DEF Queued
      <4>3. [cons[b][c] EXCEPT !.next = 0] \in ConsumerStates
        BY <4>1, ConstantsAssumption DEF ConsumerStates
      <4>4. Lost(c, cons[b][c]) \in ConsumerStates
        BY <4>1, <4>2, <4>3, GappedType
      <4> HIDE DEF Lost
      <4>5. QED
        BY <4>4 DEF ConsumerStates
    <3>2. cons' = [cons EXCEPT ![b] = [c \in Consumers |-> Stop(c, cons[b][c])]]
      BY <1>2
    <3> HIDE DEF Stop
    <3>3. QED
      BY <3>1, <3>2 DEF TypeOK
  <2>2. /\ pending' \in [Buffers -> [Seqs -> SUBSET Consumers]]
        /\ resident' \in [Buffers -> Int]
        /\ owed' \in [Buffers -> [Roles -> SUBSET AllBytes]]
    <3>1. Reclaim(b, left, b, r, {}) /\ left \in [Seqs -> SUBSET Consumers]
      BY <1>2, WithoutType
    <3>2. r \in Roles /\ {} \in SUBSET AllBytes
      BY CloserLabels
    <3>3. QED
      BY <3>1, <3>2, ReclaimType
  <2>3. PcOK'
    <3>1. GotoRelease(b, r, Freed(b, left), "rel_unreg")
      BY <1>2
    <3>2. QED
      BY <3>1, CloserLabels, GotoReleaseType DEF TypeOK
  <2>4. closed' \in [Buffers -> BOOLEAN] /\ asleep' \subseteq Buffers \X Roles
    BY <1>2 DEF TypeOK, Broadcast
  <2>5. QED
    BY <1>2, <2>1, <2>2, <2>3, <2>4 DEF TypeOK
<1>3. QED
  BY <1>1, <1>2

\* budget.unregister keeps the state well typed.
LEMMA UnregisterType ==
    ASSUME TypeOK, NEW b \in Buffers, NEW r \in Closers, Unregister(b, r) PROVE TypeOK'
<1>1. PcOK'
  BY CloserLabels, GotoType DEF Unregister, TypeOK
<1>2. budget' \in BudgetStates
  BY DEF Unregister, TypeOK, BudgetStates
<1>3. QED
  BY <1>1, <1>2 DEF Unregister, TypeOK, nodeVars

\* The return of Wait keeps the state well typed.
LEMMA WaitType ==
    ASSUME TypeOK, NEW b \in Buffers, NEW r \in Closers, Wait(b, r) PROVE TypeOK'
<1>1. PcOK'
  BY CloserLabels, GotoType DEF Wait, TypeOK
<1>2. QED
  BY <1>1 DEF Wait, TypeOK, nodeVars

\* budget.close keeps the state well typed.
LEMMA BudgetCloseType ==
    ASSUME TypeOK, BudgetClose PROVE TypeOK'
<1>1. budget' \in BudgetStates
  BY DEF BudgetClose, TypeOK, BudgetStates
<1>2. QED
  BY <1>1 DEF BudgetClose, TypeOK, PcOK, nodeVars


\* The labels a consumer goes to are its own.
LEMMA ConsumerLabelsIn ==
    ASSUME NEW c \in Consumers
    PROVE  /\ c \in Roles /\ Labels[c] = ConsumerLabels
           /\ AfterRelease["rel_next"] \in ConsumerLabels
           /\ AfterRelease["rel_wake"] \in ConsumerLabels
BY LabelsIn DEF Roles, AfterRelease, ConsumerLabels

\* Replacing the state of one consumer by a consumer state keeps cons well typed.
LEMMA ConsUpdateType ==
    ASSUME TypeOK, NEW b \in Buffers, NEW c \in Consumers, NEW st \in ConsumerStates,
           cons' = [cons EXCEPT ![b][c] = st]
    PROVE  cons' \in [Buffers -> [Consumers -> ConsumerStates]]
BY DEF TypeOK

\* A consumer that finishes keeps its type.
LEMMA DoneType ==
    ASSUME TypeOK, NEW b \in Buffers, NEW c \in Consumers, NEW p \in BOOLEAN
    PROVE  [cons[b][c] EXCEPT !.failurePending = p, !.done = TRUE] \in ConsumerStates
<1>1. cons[b][c] \in ConsumerStates
  BY DEF TypeOK
<1>2. QED
  BY <1>1 DEF ConsumerStates

\* The start of run keeps the state well typed.
LEMMA RunType ==
    ASSUME TypeOK, NEW b \in Buffers, NEW c \in Consumers, Run(b, c) PROVE TypeOK'
<1>1. PcOK'
  BY ConsumerLabelsIn, GotoType DEF Run, TypeOK, ConsumerLabels
<1>2. cons' \in [Buffers -> [Consumers -> ConsumerStates]]
  <2>1. cons[b][c] \in ConsumerStates
    BY DEF TypeOK
  <2>2. [cons[b][c] EXCEPT !.done = TRUE] \in ConsumerStates
    BY <2>1 DEF ConsumerStates
  <2>3. (UNCHANGED cons) \/ cons' = [cons EXCEPT ![b][c] = [cons[b][c] EXCEPT !.done = TRUE]]
    BY DEF Run
  <2>4. QED
    BY <2>2, <2>3, ConsUpdateType DEF TypeOK
<1>3. QED
  BY <1>1, <1>2 DEF Run, TypeOK

\* next keeps the state well typed.
LEMMA NextBatchType ==
    ASSUME TypeOK, NEW b \in Buffers, NEW c \in Consumers, NextBatch(b, c) PROVE TypeOK'
<1> DEFINE st == cons[b][c]
<1>1. PcOK'
  <2>1. (UNCHANGED pc) \/ \E label \in ConsumerLabels : Goto(b, c, label)
    BY DEF NextBatch, ConsumerLabels
  <2>2. QED
    BY <2>1, ConsumerLabelsIn, GotoType DEF TypeOK, PcOK
<1>2. cons' \in [Buffers -> [Consumers -> ConsumerStates]]
  <2>1. st \in ConsumerStates
    BY DEF TypeOK
  <2>2. Greatest(Batch(b, c)) \in 0 .. MaxSeq
    BY GreatestIn DEF Batch
  <2>3. [st EXCEPT !.done = TRUE] \in ConsumerStates
    BY <2>1 DEF ConsumerStates
  <2>4. [st EXCEPT !.flyGapSeq = st.gapSeq, !.flyGapBytes = st.gapBytes,
                   !.gapSeq = 0, !.gapBytes = 0] \in ConsumerStates
    <3>1. 0 \in 0 .. MaxSeq
      BY ConstantsAssumption
    <3> HIDE DEF st
    <3>2. QED
      BY <2>1, <3>1 DEF ConsumerStates
  <2>5. [st EXCEPT !.first = st.next, !.last = Greatest(Batch(b, c))] \in ConsumerStates
    BY <2>1, <2>2 DEF ConsumerStates
  <2>6. \/ UNCHANGED cons
        \/ cons' = [cons EXCEPT ![b][c] = [st EXCEPT !.done = TRUE]]
        \/ cons' = [cons EXCEPT ![b][c] =
               [st EXCEPT !.flyGapSeq = st.gapSeq, !.flyGapBytes = st.gapBytes,
                          !.gapSeq = 0, !.gapBytes = 0]]
        \/ cons' = [cons EXCEPT ![b][c] =
               [st EXCEPT !.first = st.next, !.last = Greatest(Batch(b, c))]]
    BY DEF NextBatch, TypeOK
  <2>7. QED
    BY <2>3, <2>4, <2>5, <2>6, ConsUpdateType DEF TypeOK
<1>3. asleep' \subseteq Buffers \X Roles
  BY ConsumerLabelsIn DEF NextBatch, TypeOK
<1>4. QED
  BY <1>1, <1>2, <1>3 DEF NextBatch, TypeOK

\* A consumer giving up nodes keeps everything but its own state well typed.
LEMMA GiveUpType ==
    ASSUME TypeOK, NEW b \in Buffers, NEW c \in Consumers, NEW nodes,
           NEW label \in {"rel_next", "rel_wake"}, GiveUp(b, c, nodes, label),
           cons' \in [Buffers -> [Consumers -> ConsumerStates]]
    PROVE  TypeOK'
<1> DEFINE left == Without(b, [d \in Consumers |-> IF d = c THEN nodes ELSE {}])
<1>1. Reclaim(b, left, b, c, {}) /\ left \in [Seqs -> SUBSET Consumers]
  BY WithoutType DEF GiveUp
<1>2. /\ pending' \in [Buffers -> [Seqs -> SUBSET Consumers]]
      /\ resident' \in [Buffers -> Int]
      /\ owed' \in [Buffers -> [Roles -> SUBSET AllBytes]]
  <2>1. {} \in SUBSET AllBytes
    OBVIOUS
  <2>2. QED
    BY <1>1, <2>1, ConsumerLabelsIn, ReclaimType
<1>3. PcOK'
  <2>1. GotoRelease(b, c, Freed(b, left), label)
    BY DEF GiveUp
  <2>2. label \in Labels[c] /\ AfterRelease[label] \in Labels[c]
    BY ConsumerLabelsIn DEF ConsumerLabels
  <2>3. QED
    BY <2>1, <2>2, ConsumerLabelsIn, GotoReleaseType DEF TypeOK
<1>4. asleep' \subseteq Buffers \X Roles
  BY DEF GiveUp, Broadcast, TypeOK
<1>5. QED
  BY <1>2, <1>3, <1>4 DEF GiveUp, TypeOK

\* completeBatch keeps the state well typed.
LEMMA CompleteBatchType ==
    ASSUME TypeOK, NEW b \in Buffers, NEW c \in Consumers, CompleteBatch(b, c) PROVE TypeOK'
<1> DEFINE st == cons[b][c]
           mine == {s \in Seqs : c \in pending[b][s]}
           base == [st EXCEPT !.first = 0, !.last = 0, !.completed = Larger(@, st.last),
                              !.next = NextPending(mine, st.last)]
<1>1. base \in ConsumerStates
  <2>1. st \in ConsumerStates
    BY DEF TypeOK
  <2>2. 0 \in 0 .. MaxSeq /\ st.last \in 0 .. MaxSeq /\ Larger(st.completed, st.last) \in 0 .. MaxSeq
    BY <2>1, ConstantsAssumption DEF ConsumerStates, Larger
  <2>3. NextPending(mine, st.last) \in 0 .. MaxSeq
    BY <2>2, NextPendingIn
  <2>4. QED
    BY <2>1, <2>2, <2>3 DEF ConsumerStates
<1>2. Unavailable(base) \in ConsumerStates
  BY <1>1, UnavailableType
<1>3. CASE /\ GiveUp(b, c, {s \in mine : st.first <= s /\ s <= st.last}, "rel_next")
           /\ cons' = [cons EXCEPT ![b][c] = base]
  <2>1. cons' \in [Buffers -> [Consumers -> ConsumerStates]]
    BY <1>1, <1>3 DEF TypeOK
  <2>2. QED
    BY <1>3, <2>1, GiveUpType
<1>4. CASE /\ GiveUp(b, c, {s \in mine : st.first <= s}, "rel_wake")
           /\ cons' = [cons EXCEPT ![b][c] = Unavailable(base)]
  <2>1. cons' \in [Buffers -> [Consumers -> ConsumerStates]]
    BY <1>2, <1>4 DEF TypeOK
  <2>2. QED
    BY <1>4, <2>1, GiveUpType
<1>5. QED
  BY <1>3, <1>4 DEF CompleteBatch

\* completeGap keeps the state well typed.
LEMMA CompleteGapType ==
    ASSUME TypeOK, NEW b \in Buffers, NEW c \in Consumers, CompleteGap(b, c) PROVE TypeOK'
<1> DEFINE st == cons[b][c]
           queue == {s \in Seqs : c \in pending[b][s] /\ st.next # 0 /\ s >= st.next}
           base == [st EXCEPT !.flyGapSeq = 0, !.flyGapBytes = 0]
           told == [base EXCEPT !.completed = Larger(@, st.flyGapSeq)]
<1>1. base \in ConsumerStates /\ told \in ConsumerStates
  <2>1. st \in ConsumerStates
    BY DEF TypeOK
  <2>2. 0 \in 0 .. MaxSeq /\ Larger(st.completed, st.flyGapSeq) \in 0 .. MaxSeq
    BY <2>1, ConstantsAssumption DEF ConsumerStates, Larger
  <2>3. QED
    BY <2>1, <2>2 DEF ConsumerStates
<1>2. Unavailable(base) \in ConsumerStates
  BY <1>1, UnavailableType
<1>3. CASE GiveUp(b, c, {}, "rel_next") /\ cons' = [cons EXCEPT ![b][c] = told]
  <2>1. cons' \in [Buffers -> [Consumers -> ConsumerStates]]
    BY <1>1, <1>3 DEF TypeOK
  <2>2. QED
    BY <1>3, <2>1, GiveUpType
<1>4. CASE GiveUp(b, c, queue, "rel_wake") /\ cons' = [cons EXCEPT ![b][c] = Unavailable(base)]
  <2>1. cons' \in [Buffers -> [Consumers -> ConsumerStates]]
    BY <1>2, <1>4 DEF TypeOK
  <2>2. QED
    BY <1>4, <2>1, GiveUpType
<1>5. QED
  BY <1>3, <1>4 DEF CompleteGap

\* The wake-up and the callback after a failure keep the state well typed.
LEMMA FailureType ==
    ASSUME TypeOK, NEW b \in Buffers, NEW c \in Consumers, FailureWake(b, c) \/ FailureHandled(b, c)
    PROVE  TypeOK'
<1>1. PcOK'
  BY ConsumerLabelsIn, GotoType DEF FailureWake, FailureHandled, TypeOK, ConsumerLabels
<1>2. cons' \in [Buffers -> [Consumers -> ConsumerStates]]
  <2>1. \/ UNCHANGED cons
        \/ cons' = [cons EXCEPT ![b][c] =
                        [cons[b][c] EXCEPT !.failurePending = FALSE, !.done = TRUE]]
    BY DEF FailureWake, FailureHandled, TypeOK, nodeVars
  <2>2. QED
    BY <2>1, DoneType, ConsUpdateType DEF TypeOK
<1>3. asleep' \subseteq Buffers \X Roles /\ parked' \subseteq Buffers
  BY DEF FailureWake, FailureHandled, TypeOK, Broadcast
<1>4. QED
  BY <1>1, <1>2, <1>3 DEF FailureWake, FailureHandled, TypeOK, nodeVars

\* A pass of the loop of Flush leaves the flushing thread at one of its labels.
LEMMA FlushPassType ==
    ASSUME TypeOK, NEW b \in Buffers, NEW c, NEW target, FlushPass(b, c, target)
    PROVE  PcOK' /\ asleep' \subseteq Buffers \X Roles
<1>1. "flush" \in Roles /\ {"flush_error", "flush_ok", "check"} \subseteq Labels["flush"]
  BY LabelsIn DEF FlushLabels, Roles
<1>2. PcOK'
  BY <1>1, GotoType DEF FlushPass, TypeOK
<1>3. asleep' \subseteq Buffers \X Roles
  BY <1>1 DEF FlushPass, TypeOK
<1>4. QED
  BY <1>2, <1>3

\* Starting, waking and cancelling a Flush keep the state well typed.
LEMMA FlushType ==
    ASSUME TypeOK, NEW b \in Buffers, FlushStart(b) \/ FlushWoken(b) \/ FlushCancel(b)
    PROVE  TypeOK'
<1>1. CASE FlushStart(b)
  <2>1. PICK c \in Consumers :
            /\ flush' = [flush EXCEPT ![b] = [consumer |-> c, target |-> nextSeq[b]]]
            /\ FlushPass(b, c, nextSeq[b])
    BY <1>1 DEF FlushStart
  <2>2. flush' \in [Buffers -> [consumer : Consumers, target : 0 .. MaxSeq]]
    BY <2>1 DEF TypeOK
  <2>3. QED
    BY <1>1, <2>1, <2>2, FlushPassType DEF FlushStart, TypeOK, nodeVars
<1>2. CASE FlushWoken(b)
  BY <1>2, FlushPassType DEF FlushWoken, TypeOK, nodeVars
<1>3. CASE FlushCancel(b)
  <2>1. PcOK'
    BY <1>3, LabelsIn, GotoType DEF FlushCancel, TypeOK, FlushLabels, Roles
  <2>2. QED
    BY <1>3, <2>1 DEF FlushCancel, TypeOK, Broadcast, nodeVars
<1>4. QED
  BY <1>1, <1>2, <1>3

\* budget.release keeps the state well typed.
LEMMA ReleaseType ==
    ASSUME TypeOK, NEW b \in Buffers, NEW r \in Roles, Release(b, r) PROVE TypeOK'
<1>1. PcOK'
  <2>1. pc[b][r] \in Labels[r] /\ pc[b][r] \in DOMAIN AfterRelease
    BY DEF Release, TypeOK, PcOK
  <2>2. AfterRelease[pc[b][r]] \in Labels[r]
    BY <2>1, LabelsIn DEF Roles, Consumers, AfterRelease, PumpLabels, AbortLabels, FlushLabels,
                          ConsumerLabels
  <2>3. QED
    BY <2>2, GotoType DEF Release, TypeOK
<1>2. budget' \in BudgetStates
  <2>1. owed[b][r] \in SUBSET AllBytes
    BY DEF TypeOK
  <2>2. budget \in BudgetStates /\ budget.resident \in Nat /\ Cardinality(owed[b][r]) \in Nat
    BY <2>1, OwedFinite DEF TypeOK, BudgetStates
  <2>3. Larger(0, budget.resident - Cardinality(owed[b][r])) \in Nat
    BY <2>2 DEF Larger
  <2>4. budget' = [budget EXCEPT !.resident = Larger(0, budget.resident - Cardinality(owed[b][r]))]
    BY DEF Release
  <2>5. QED
    BY <2>2, <2>3, <2>4 DEF BudgetStates
<1>3. owed' \in [Buffers -> [Roles -> SUBSET AllBytes]]
  BY DEF Release, TypeOK
<1>4. QED
  BY <1>1, <1>2, <1>3 DEF Release, TypeOK, nodeVars


\* Every step keeps the types.
LEMMA TypeStep ==
    TypeOK /\ WriterOK /\ [Next]_vars => TypeOK'
<1> SUFFICES ASSUME TypeOK, WriterOK, [Next]_vars PROVE TypeOK'
  OBVIOUS
<1>1. ASSUME NEW b \in Buffers, PumpStep(b) PROVE TypeOK'
  BY <1>1, WriteLocalType, ReserveCheckType, ReserveType, EvictType, ReserveRetryType,
     WriteRefusedType, AppendType, SealType, PumpEOFType DEF PumpStep, PumpClosed
<1>2. ASSUME NEW b \in Buffers, Environment(b) PROVE TypeOK'
  BY <1>2, PumpReadType, PumpEOFType, AbortStartType, FlushType DEF Environment
<1>3. ASSUME NEW b \in Buffers, NEW r \in Closers, CloserStep(b, r) PROVE TypeOK'
  BY <1>3, CloseType, UnregisterType, WaitType DEF CloserStep
<1>4. ASSUME NEW b \in Buffers, NEW c \in Consumers, ConsumerStep(b, c) PROVE TypeOK'
  BY <1>4, RunType, NextBatchType, CompleteBatchType, CompleteGapType, FailureType
     DEF ConsumerStep
<1>5. CASE UNCHANGED vars
  BY <1>5 DEF vars, TypeOK, PcOK
<1>6. QED
  BY <1>1, <1>2, <1>3, <1>4, <1>5, FlushType, ReleaseType, BudgetCloseType DEF Next

-----------------------------------------------------------------------------
(* Capacity.                                                               *)

\* buffer.resident counts the nodes of the list, and sequence numbers that have
\* not been assigned have no node.
Retained ==
    \A b \in Buffers :
        /\ resident[b] = Cardinality(BytesOf(b, Nodes(b)))
        /\ resident[b] <= CapacityBytes
        /\ \A s \in Seqs : s > nextSeq[b] => pending[b][s] = {}

\* A step that leaves the nodes alone keeps the count.
LEMMA RetainedUnchanged ==
    ASSUME Retained, UNCHANGED <<pending, length, nextSeq, resident>>
    PROVE  Retained'
BY SMTT(30) DEF Retained, BytesOf, Nodes

\* Reclaiming nodes keeps the count, and takes from nobody but its buffer.
LEMMA ReclaimRetains ==
    ASSUME TypeOK, Retained, NEW b \in Buffers, NEW owner, NEW r, NEW extra,
           NEW left \in [Seqs -> SUBSET Consumers],
           \A s \in Seqs : left[s] \subseteq pending[b][s],
           Reclaim(b, left, owner, r, extra),
           \A x \in Buffers, s \in Seqs : s <= nextSeq[x] => length'[x][s] = length[x][s],
           \A x \in Buffers : nextSeq'[x] \in Nat /\ nextSeq'[x] >= nextSeq[x]
    PROVE  Retained' /\ \A x \in Buffers : resident'[x] <= resident[x]
<1> DEFINE all == BytesOf(b, Nodes(b))
           freed == Freed(b, left)
<1>1. /\ pending' = [pending EXCEPT ![b] = left]
      /\ resident' = [resident EXCEPT ![b] = @ - Cardinality(freed)]
  BY DEF Reclaim
<1>2. \A x \in Buffers : \A s \in Nodes(x) : s \in Seqs /\ length'[x][s] = length[x][s]
  <2>1. \A x \in Buffers : nextSeq[x] \in Nat
    BY ConstantsAssumption DEF TypeOK
  <2>2. \A s \in Seqs : s \in Nat
    BY ConstantsAssumption DEF Seqs
  <2>3. ASSUME NEW x \in Buffers, NEW s \in Nodes(x)
        PROVE  s \in Seqs /\ s <= nextSeq[x]
    <3>1. s \in Seqs /\ ~(s > nextSeq[x])
      BY DEF Nodes, Retained
    <3>2. QED
      BY <2>1, <2>2, <3>1
  <2>4. QED
    BY <2>3
<1>3. Nodes(b)' = {s \in Nodes(b) : left[s] # {}}
  BY <1>1 DEF Nodes, TypeOK
<1>4. BytesOf(b, Nodes(b))' = all \ freed
  <2>1. BytesOf(b, Nodes(b))' =
           {x \in ({b} \X {s \in Nodes(b) : left[s] # {}}) \X (1 .. ChunkBytes) :
               x[2] <= length'[b][x[1][2]]}
    BY <1>3 DEF BytesOf
  <2>2. @ = {x \in ({b} \X {s \in Nodes(b) : left[s] # {}}) \X (1 .. ChunkBytes) :
                x[2] <= length[b][x[1][2]]}
    BY <1>2
  <2>3. @ = all \ freed
    BY DEF BytesOf, Freed
  <2>4. QED
    BY <2>1, <2>2, <2>3
<1>5. /\ IsFiniteSet(all) /\ IsFiniteSet(freed) /\ freed \subseteq all
      /\ Cardinality(all) \in Nat /\ Cardinality(freed) \in Nat
  BY FreedIn, BytesFinite DEF Nodes
<1> HIDE DEF all, freed
<1>6. Cardinality(all \ freed) = Cardinality(all) - Cardinality(freed)
  <2>1. all \cap freed = freed
    BY <1>5
  <2>2. QED
    BY <1>5, <2>1, FS_Difference
<1>7. resident[b] = Cardinality(all) /\ resident[b] <= CapacityBytes /\ CapacityBytes \in Nat
  BY ConstantsAssumption DEF Retained, all
<1>8. resident'[b] = Cardinality(BytesOf(b, Nodes(b)))' /\ resident'[b] <= resident[b]
  <2>1. resident'[b] = Cardinality(all) - Cardinality(freed)
    BY <1>1, <1>7 DEF TypeOK
  <2>2. QED
    BY <1>4, <1>5, <1>6, <1>7, <2>1
<1>9. ASSUME NEW x \in Buffers, x # b
      PROVE  /\ resident'[x] = Cardinality(BytesOf(x, Nodes(x)))' /\ resident'[x] = resident[x]
             /\ pending'[x] = pending[x]
  <2>1. pending'[x] = pending[x] /\ resident'[x] = resident[x]
    BY <1>1, <1>9 DEF TypeOK
  <2>2. Nodes(x)' = Nodes(x)
    BY <2>1 DEF Nodes
  <2>3. BytesOf(x, Nodes(x))' = BytesOf(x, Nodes(x))
    BY <1>2, <2>2 DEF BytesOf
  <2>4. QED
    BY <2>1, <2>3 DEF Retained
<1>10. ASSUME NEW x \in Buffers, NEW s \in Seqs, s > nextSeq'[x]
       PROVE  pending'[x][s] = {}
  <2>1. nextSeq[x] \in Nat /\ nextSeq'[x] \in Nat /\ s \in Nat /\ nextSeq'[x] >= nextSeq[x]
    BY ConstantsAssumption DEF TypeOK, Seqs
  <2>2. pending[x][s] = {}
    BY <1>10, <2>1 DEF Retained
  <2>3. QED
    BY <1>1, <1>9, <2>2 DEF TypeOK
<1>11. \A x \in Buffers : resident'[x] <= resident[x] /\ resident'[x] \in Int /\ resident[x] \in Int
  <2>1. \A x \in Buffers : resident[x] \in Int
    BY DEF TypeOK
  <2>2. QED
    BY <1>1, <1>5, <1>8, <1>9, <2>1 DEF TypeOK
<1>12. \A x \in Buffers : resident'[x] <= CapacityBytes
  BY <1>7, <1>11 DEF Retained
<1>13. QED
  BY <1>8, <1>9, <1>10, <1>11, <1>12 DEF Retained


\* What the writer relies on survives a step in which every writer that still
\* holds its chunk held it before, and no buffer grew.
LEMMA WriterKept ==
    ASSUME TypeOK, TypeOK', WriterOK,
           ASSUME NEW x \in Buffers, pc'[x]["pump"] \in Writing
           PROVE  /\ pc[x]["pump"] \in Writing
                  /\ pc'[x]["pump"] \in Checked => pc[x]["pump"] \in Checked
                  /\ nextSeq'[x] = nextSeq[x] /\ pump'[x].size = pump[x].size
                  /\ resident'[x] <= resident[x]
    PROVE  WriterOK'
<1> SUFFICES ASSUME NEW x \in Buffers, pc'[x]["pump"] \in Writing
             PROVE  /\ nextSeq'[x] < MaxSeq /\ pump'[x].size \in ChunkSizes
                    /\ pc'[x]["pump"] \in Checked =>
                          resident'[x] + pump'[x].size <= CapacityBytes
  BY DEF WriterOK, Checked, Writing
<1>1. /\ pc[x]["pump"] \in Writing
      /\ pc'[x]["pump"] \in Checked => pc[x]["pump"] \in Checked
      /\ nextSeq'[x] = nextSeq[x] /\ pump'[x].size = pump[x].size
      /\ resident'[x] <= resident[x]
  OBVIOUS
<1>2. nextSeq'[x] < MaxSeq /\ pump'[x].size \in ChunkSizes
  BY <1>1 DEF WriterOK
<1>3. ASSUME pc'[x]["pump"] \in Checked
      PROVE  resident'[x] + pump'[x].size <= CapacityBytes
  <2>1. resident[x] + pump[x].size <= CapacityBytes
    BY <1>1, <1>3 DEF WriterOK
  <2>2. /\ resident[x] \in Int /\ resident'[x] \in Int
        /\ pump[x].size \in Nat /\ CapacityBytes \in Nat
    BY PumpNumbers, ConstantsAssumption DEF TypeOK
  <2>3. QED
    BY <1>1, <2>1, <2>2
<1>4. QED
  BY <1>2, <1>3

\* Where every pump stands after a thread has moved.
LEMMA GotoPump ==
    ASSUME TypeOK, NEW b \in Buffers, NEW r \in Roles, NEW label, Goto(b, r, label)
    PROVE  \A x \in Buffers :
              pc'[x]["pump"] = IF x = b /\ r = "pump" THEN label ELSE pc[x]["pump"]
BY DEF TypeOK, PcOK, Goto, Roles

\* Where a pump that may owe bytes goes: to the release or to what follows it.
LEMMA GotoReleasePump ==
    ASSUME TypeOK, NEW b \in Buffers, NEW r \in Roles, NEW bytes, NEW label,
           GotoRelease(b, r, bytes, label)
    PROVE  \A x \in Buffers :
              IF x = b /\ r = "pump" THEN pc'[x]["pump"] \in {label, AfterRelease[label]}
                                     ELSE pc'[x]["pump"] = pc[x]["pump"]
<1>1. Goto(b, r, label) \/ Goto(b, r, AfterRelease[label])
  BY DEF GotoRelease
<1>2. QED
  BY <1>1, GotoPump

CapacityInv == WriterOK /\ Retained

\* A step of a thread that is no pump and that leaves the nodes alone.
LEMMA OtherCapacity ==
    ASSUME TypeOK, TypeOK', CapacityInv, UNCHANGED <<pending, length, nextSeq, resident, pump>>,
           \A x \in Buffers : pc'[x]["pump"] = pc[x]["pump"]
    PROVE  CapacityInv'
<1>1. Retained'
  BY RetainedUnchanged DEF CapacityInv
<1>2. ASSUME NEW x \in Buffers, pc'[x]["pump"] \in Writing
      PROVE  /\ pc[x]["pump"] \in Writing
             /\ pc'[x]["pump"] \in Checked => pc[x]["pump"] \in Checked
             /\ nextSeq'[x] = nextSeq[x] /\ pump'[x].size = pump[x].size
             /\ resident'[x] <= resident[x]
  <2>1. resident[x] \in Int
    BY DEF TypeOK
  <2>2. QED
    BY <1>2, <2>1
<1>3. WriterOK'
  BY <1>2, WriterKept DEF CapacityInv
<1>4. QED
  BY <1>1, <1>3 DEF CapacityInv

\* A step of a thread that is no pump and that gives nodes up.
LEMMA OtherReclaimCapacity ==
    ASSUME TypeOK, TypeOK', CapacityInv, NEW b \in Buffers, NEW dropped, NEW owner, NEW r, NEW extra,
           Reclaim(b, Without(b, dropped), owner, r, extra), UNCHANGED <<length, nextSeq, pump>>,
           \A x \in Buffers : pc'[x]["pump"] = pc[x]["pump"]
    PROVE  CapacityInv'
<1>1. Retained' /\ \A x \in Buffers : resident'[x] <= resident[x]
  <2>1. \A x \in Buffers : nextSeq'[x] \in Nat /\ nextSeq'[x] >= nextSeq[x]
    BY ConstantsAssumption DEF TypeOK
  <2>2. QED
    BY <2>1, WithoutType, ReclaimRetains DEF CapacityInv
<1>2. WriterOK'
  BY <1>1, WriterKept DEF CapacityInv
<1>3. QED
  BY <1>1, <1>2 DEF CapacityInv

\* The consumers, Close, Flush and the budget.
LEMMA OthersStep ==
    ASSUME TypeOK, TypeOK', CapacityInv, NEW b \in Buffers, NEW c \in Consumers,
           \/ ConsumerStep(b, c) \/ FlushWoken(b) \/ FlushStart(b) \/ FlushCancel(b)
           \/ AbortStart(b) \/ BudgetClose
    PROVE  CapacityInv'
<1>1. c \in Roles /\ c # "pump" /\ "abort" \in Roles /\ "flush" \in Roles
  BY DEF Roles, Consumers
<1>2. ASSUME NEW nodes, NEW label, GiveUp(b, c, nodes, label)
      PROVE  CapacityInv'
  BY <1>1, <1>2, GotoReleasePump, OtherReclaimCapacity DEF GiveUp
<1>3. ASSUME NEW r \in Roles, NEW label, r # "pump", Goto(b, r, label) \/ UNCHANGED pc,
             UNCHANGED <<pending, length, nextSeq, resident, pump>>
      PROVE  CapacityInv'
  BY <1>3, GotoPump, OtherCapacity
<1>4. CASE CompleteBatch(b, c) \/ CompleteGap(b, c)
  BY <1>2, <1>4 DEF CompleteBatch, CompleteGap
<1>5. CASE Run(b, c)
  BY <1>1, <1>3, <1>5 DEF Run
<1>6. CASE NextBatch(b, c)
  BY <1>1, <1>3, <1>6 DEF NextBatch
<1>7. CASE FailureWake(b, c) \/ FailureHandled(b, c)
  BY <1>1, <1>3, <1>7 DEF FailureWake, FailureHandled, nodeVars
<1>8. CASE FlushStart(b) \/ FlushWoken(b) \/ FlushCancel(b)
  BY <1>1, <1>3, <1>8 DEF FlushStart, FlushWoken, FlushCancel, FlushPass, nodeVars
<1>9. CASE AbortStart(b)
  BY <1>1, <1>3, <1>9 DEF AbortStart, nodeVars
<1>10. CASE BudgetClose
  BY <1>10, OtherCapacity DEF BudgetClose, nodeVars
<1>11. QED
  BY <1>4, <1>5, <1>6, <1>7, <1>8, <1>9, <1>10 DEF ConsumerStep


\* Close and Wait, and the end of the pump: they take no part in a write.
LEMMA CloserStepCapacity ==
    ASSUME TypeOK, TypeOK', CapacityInv, NEW b \in Buffers, NEW r \in Closers, CloserStep(b, r)
    PROVE  CapacityInv'
<1>1. r \in Roles /\ {AfterClose[r], AfterWait[r], "rel_unreg", AfterRelease["rel_unreg"]}
                        \cap Writing = {}
  BY CloserLabels DEF Closers, AfterClose, AfterWait, AfterRelease, Writing
<1>2. ASSUME NEW label, Goto(b, r, label), label \notin Writing,
             UNCHANGED <<pending, length, nextSeq, resident, pump>>
      PROVE  CapacityInv'
  <2>1. Retained'
    BY <1>2, RetainedUnchanged DEF CapacityInv
  <2>2. \A x \in Buffers : pc'[x]["pump"] \in Writing => pc'[x]["pump"] = pc[x]["pump"]
    BY <1>1, <1>2, GotoPump
  <2>3. \A x \in Buffers : resident'[x] <= resident[x]
    BY <1>2 DEF TypeOK
  <2>4. WriterOK'
    BY <1>2, <2>2, <2>3, WriterKept DEF CapacityInv
  <2>5. QED
    BY <2>1, <2>4 DEF CapacityInv
<1>3. CASE Close(b, r) /\ closed[b]
  BY <1>1, <1>2, <1>3 DEF Close, nodeVars
<1>4. CASE Close(b, r) /\ ~closed[b]
  <2> DEFINE dropped == [c \in Consumers |-> IF cons[b][c].active THEN Queued(b, c) ELSE {}]
  <2>1. /\ Reclaim(b, Without(b, dropped), b, r, {})
        /\ GotoRelease(b, r, Freed(b, Without(b, dropped)), "rel_unreg")
        /\ UNCHANGED <<length, nextSeq, pump>>
    BY <1>4 DEF Close
  <2> HIDE DEF dropped
  <2>2. Retained' /\ \A x \in Buffers : resident'[x] <= resident[x]
    <3>1. \A x \in Buffers : nextSeq'[x] \in Nat /\ nextSeq'[x] >= nextSeq[x]
      BY <2>1, ConstantsAssumption DEF TypeOK
    <3>2. QED
      BY <2>1, <3>1, WithoutType, ReclaimRetains DEF CapacityInv
  <2>3. \A x \in Buffers : pc'[x]["pump"] \in Writing => pc'[x]["pump"] = pc[x]["pump"]
    BY <1>1, <2>1, GotoReleasePump
  <2>4. WriterOK'
    BY <2>1, <2>2, <2>3, WriterKept DEF CapacityInv
  <2>5. QED
    BY <2>2, <2>4 DEF CapacityInv
<1>5. CASE Unregister(b, r) \/ Wait(b, r)
  BY <1>1, <1>2, <1>5 DEF Unregister, Wait, nodeVars
<1>6. QED
  BY <1>3, <1>4, <1>5 DEF CloserStep

\* budget.release: the pump goes on with the write it is in, or ends it.
LEMMA ReleaseCapacity ==
    ASSUME TypeOK, TypeOK', CapacityInv, NEW b \in Buffers, NEW r \in Roles, Release(b, r)
    PROVE  CapacityInv'
<1>1. /\ pc[b][r] \in DOMAIN AfterRelease /\ Goto(b, r, AfterRelease[pc[b][r]])
      /\ UNCHANGED <<pending, length, nextSeq, resident, pump>>
  BY DEF Release, nodeVars
<1>2. Retained'
  BY <1>1, RetainedUnchanged DEF CapacityInv
<1>3. \A l \in DOMAIN AfterRelease :
         /\ AfterRelease[l] \in Writing => l \in Writing
         /\ AfterRelease[l] \in Checked => l \in Checked
  BY DEF AfterRelease, Writing, Checked
<1>4. \A x \in Buffers : /\ pc'[x]["pump"] \in Writing => pc[x]["pump"] \in Writing
                         /\ pc'[x]["pump"] \in Checked => pc[x]["pump"] \in Checked
  BY <1>1, <1>3, GotoPump
<1>5. \A x \in Buffers : resident'[x] <= resident[x]
  BY <1>1 DEF TypeOK
<1>6. WriterOK'
  BY <1>1, <1>4, <1>5, WriterKept DEF CapacityInv
<1>7. QED
  BY <1>2, <1>6 DEF CapacityInv

\* A step of the pump within a write, or out of one, that leaves the nodes alone.
LEMMA PumpCapacity ==
    ASSUME TypeOK, TypeOK', CapacityInv, NEW b \in Buffers, NEW label, Goto(b, "pump", label),
           UNCHANGED <<pending, length, nextSeq, resident>>,
           \A x \in Buffers : pump'[x].size = pump[x].size,
           label \in Writing => pc[b]["pump"] \in Writing,
           label \in Checked => pc[b]["pump"] \in Checked
    PROVE  CapacityInv'
<1>1. Retained'
  BY RetainedUnchanged DEF CapacityInv
<1>2. "pump" \in Roles
  BY DEF Roles
<1>3. \A x \in Buffers : /\ pc'[x]["pump"] \in Writing => pc[x]["pump"] \in Writing
                         /\ pc'[x]["pump"] \in Checked => pc[x]["pump"] \in Checked
  BY <1>2, GotoPump
<1>4. \A x \in Buffers : resident'[x] <= resident[x]
  BY DEF TypeOK
<1>5. WriterOK'
  BY <1>3, <1>4, WriterKept DEF CapacityInv
<1>6. QED
  BY <1>1, <1>5 DEF CapacityInv

\* dropOldestLocked by the pump of owner.
LEMMA DropOldestCapacity ==
    ASSUME TypeOK, TypeOK', CapacityInv, NEW b \in Buffers, NEW owner \in Buffers, NEW n,
           NEW label, DropOldest(b, n, owner), Goto(owner, "pump", label),
           UNCHANGED <<length, nextSeq>>,
           \A x \in Buffers : pump'[x].size = pump[x].size,
           label \in Writing => pc[owner]["pump"] \in Writing,
           label \in Checked => pc[owner]["pump"] \in Checked
    PROVE  CapacityInv'
<1>1. Reclaim(b, Without(b, DropOldestSets(b, n)), owner, "pump", {})
  BY DEF DropOldest
<1>2. Retained' /\ \A x \in Buffers : resident'[x] <= resident[x]
  <2>1. \A x \in Buffers : nextSeq'[x] \in Nat /\ nextSeq'[x] >= nextSeq[x]
    BY ConstantsAssumption DEF TypeOK
  <2>2. QED
    BY <1>1, <2>1, WithoutType, ReclaimRetains DEF CapacityInv
<1>3. "pump" \in Roles
  BY DEF Roles
<1>4. \A x \in Buffers : /\ pc'[x]["pump"] \in Writing => pc[x]["pump"] \in Writing
                         /\ pc'[x]["pump"] \in Checked => pc[x]["pump"] \in Checked
  BY <1>3, GotoPump
<1>5. WriterOK'
  BY <1>2, <1>4, WriterKept DEF CapacityInv
<1>6. QED
  BY <1>2, <1>5 DEF CapacityInv

\* dropIncomingLocked ends the write.
LEMMA DropIncomingCapacity ==
    ASSUME TypeOK, TypeOK', CapacityInv, NEW b \in Buffers, DropIncoming(b), UNCHANGED pump
    PROVE  CapacityInv'
<1> DEFINE dropped == [c \in Consumers |-> IF cons[b][c].active THEN Queued(b, c) ELSE {}]
           seq == nextSeq[b] + 1
<1>1. /\ Reclaim(b, Without(b, dropped), b, "pump", {})
      /\ GotoRelease(b, "pump", Freed(b, Without(b, dropped)), "rel_read")
      /\ nextSeq' = [nextSeq EXCEPT ![b] = seq]
      /\ length' = [length EXCEPT ![b][seq] = pump[b].size]
  BY DEF DropIncoming
<1> HIDE DEF dropped
<1>2. \A x \in Buffers : /\ nextSeq[x] \in Nat /\ nextSeq'[x] \in Nat /\ nextSeq'[x] >= nextSeq[x]
                         /\ x # b => nextSeq'[x] = nextSeq[x]
  BY <1>1, ConstantsAssumption DEF TypeOK
<1>3. \A x \in Buffers, s \in Seqs : s <= nextSeq[x] => length'[x][s] = length[x][s]
  BY <1>1, <1>2, ConstantsAssumption DEF TypeOK, Seqs
<1>4. Retained' /\ \A x \in Buffers : resident'[x] <= resident[x]
  BY <1>1, <1>2, <1>3, WithoutType, ReclaimRetains DEF CapacityInv
<1>5. \A x \in Buffers : pc'[x]["pump"] \in Writing => x # b /\ pc'[x]["pump"] = pc[x]["pump"]
  BY <1>1, GotoReleasePump DEF Roles, AfterRelease, Writing
<1>6. WriterOK'
  BY <1>2, <1>4, <1>5, WriterKept DEF CapacityInv
<1>7. QED
  BY <1>4, <1>6 DEF CapacityInv


\* The n bytes of one sequence number.
ChunkOf(b, s, n) == ({b} \X {s}) \X (1 .. n)

\* A chunk of n bytes has n bytes.
LEMMA ChunkCardinality ==
    ASSUME NEW b, NEW s, NEW n \in Nat
    PROVE  IsFiniteSet(ChunkOf(b, s, n)) /\ Cardinality(ChunkOf(b, s, n)) = n
<1> DEFINE P == {b} \X {s}
           Q == 1 .. n
<1>1. IsFiniteSet(P) /\ Cardinality(P) = 1
  <2>1. IsFiniteSet({b}) /\ Cardinality({b}) = 1 /\ IsFiniteSet({s}) /\ Cardinality({s}) = 1
    BY FS_Singleton
  <2>2. QED
    BY <2>1, FS_Product
<1>2. IsFiniteSet(Q) /\ Cardinality(Q) = n
  BY FS_Interval
<1> HIDE DEF P, Q
<1>3. IsFiniteSet(P \X Q) /\ Cardinality(P \X Q) = Cardinality(P) * Cardinality(Q)
  BY <1>1, <1>2, FS_Product
<1>4. QED
  BY <1>1, <1>2, <1>3 DEF P, Q, ChunkOf

\* writeChunk's append: what is given up leaves, and the chunk that passed the
\* capacity check several steps ago enters.
LEMMA AppendCapacity ==
    ASSUME TypeOK, TypeOK', CapacityInv, NEW b \in Buffers, AppendChunk(b)
    PROVE  CapacityInv'
<1>1. pc[b]["pump"] \in Writing /\ pc[b]["pump"] \in Checked
  BY DEF AppendChunk, At, Writing, Checked
<1>2. CASE closed[b] \/ sealed[b]
  <2>1. /\ Goto(b, "pump", "rel_seal")
        /\ UNCHANGED <<pending, length, nextSeq, resident, pump>>
    BY <1>2 DEF AppendChunk, nodeVars
  <2>2. "rel_seal" \notin Writing /\ "rel_seal" \notin Checked
    BY DEF Writing, Checked
  <2>3. QED
    BY <2>1, <2>2, PumpCapacity
<1>3. CASE ~closed[b] /\ ~sealed[b]
  <2> DEFINE seq == nextSeq[b] + 1
             mask == {c \in Consumers : cons[b][c].active /\ ~BehindGap(cons[b][c])}
             dropped == [c \in Consumers |->
                            IF cons[b][c].active /\ c \notin mask THEN Queued(b, c) ELSE {}]
             left == Without(b, dropped)
             freed == Freed(b, left)
             all == BytesOf(b, Nodes(b))
             n == pump[b].size
             chunk == ChunkOf(b, seq, n)
             paid == freed \cup (IF mask = {} THEN InHand(b) ELSE {})
  <2>1. /\ nextSeq' = [nextSeq EXCEPT ![b] = seq]
        /\ length' = [length EXCEPT ![b][seq] = n]
        /\ pending' = [pending EXCEPT ![b] = [left EXCEPT ![seq] = mask]]
        /\ resident' = [resident EXCEPT ![b] =
                           @ - Cardinality(freed) + (IF mask = {} THEN 0 ELSE n)]
        /\ GotoRelease(b, "pump", paid, "rel_read")
        /\ UNCHANGED pump
    BY <1>3 DEF AppendChunk
  <2>2. /\ left \in [Seqs -> SUBSET Consumers]
        /\ \A s \in Seqs : left[s] \subseteq pending[b][s]
    BY WithoutType
  <2>3. mask \in SUBSET Consumers
    OBVIOUS
  <2>4. /\ IsFiniteSet(all) /\ IsFiniteSet(freed) /\ freed \subseteq all
        /\ Cardinality(all) \in Nat /\ Cardinality(freed) \in Nat
    BY FreedIn, BytesFinite DEF Nodes
  <2>5. /\ seq \in Seqs /\ n \in Nat /\ n >= 1 /\ n <= ChunkBytes /\ ChunkBytes \in Nat
        /\ resident[b] + n <= CapacityBytes /\ CapacityBytes \in Nat
    <3>1. nextSeq[b] < MaxSeq /\ n \in ChunkSizes /\ resident[b] + n <= CapacityBytes
      BY <1>1 DEF WriterOK, CapacityInv
    <3>2. nextSeq[b] \in 0 .. MaxSeq /\ MaxSeq \in Nat
      BY ConstantsAssumption DEF TypeOK
    <3>3. /\ \A m \in ChunkSizes : m >= 1
          /\ ChunkBytes \in Nat /\ CapacityBytes \in Nat
      BY ConstantsAssumption
    <3>4. n \in Nat /\ n <= ChunkBytes
      BY PumpNumbers
    <3> HIDE DEF n
    <3>5. QED
      BY <3>1, <3>2, <3>3, <3>4 DEF Seqs
  <2>6. \A x \in Buffers : \A s \in Nodes(x) : s \in Seqs /\ s <= nextSeq[x]
    <3>1. \A x \in Buffers : nextSeq[x] \in Nat
      BY ConstantsAssumption DEF TypeOK
    <3>2. \A s \in Seqs : s \in Nat
      BY ConstantsAssumption DEF Seqs
    <3>3. ASSUME NEW x \in Buffers, NEW s \in Nodes(x)
          PROVE  s \in Seqs /\ s <= nextSeq[x]
      <4>1. s \in Seqs /\ ~(s > nextSeq[x])
        BY DEF Nodes, Retained, CapacityInv
      <4>2. QED
        BY <3>1, <3>2, <4>1
    <3>4. QED
      BY <3>3
  <2>7. seq \notin Nodes(b) /\ nextSeq[b] \in Nat
    <3>1. nextSeq[b] \in Nat
      BY ConstantsAssumption DEF TypeOK
    <3>2. QED
      BY <2>6, <3>1
  <2>8. \A s \in Nodes(b) : length'[b][s] = length[b][s] /\ s # seq
    BY <2>1, <2>6, <2>7 DEF TypeOK
  <2>9. length'[b][seq] = n
    BY <2>1, <2>5 DEF TypeOK
  <2> HIDE DEF seq, mask, left, freed, n
  <2>10. Nodes(b)' = {s \in Nodes(b) : left[s] # {}} \cup (IF mask = {} THEN {} ELSE {seq})
    <3>1. pending'[b] = [left EXCEPT ![seq] = mask]
      BY <2>1 DEF TypeOK
    <3>2. Nodes(b)' = {s \in Seqs : [left EXCEPT ![seq] = mask][s] # {}}
      BY <3>1 DEF Nodes
    <3>3. \A s \in Seqs : [left EXCEPT ![seq] = mask][s] = IF s = seq THEN mask ELSE left[s]
      BY <2>2
    <3>4. left[seq] = {}
      BY <2>2, <2>5, <2>7 DEF Nodes
    <3>5. \A s \in Seqs : left[s] # {} => s \in Nodes(b)
      BY <2>2 DEF Nodes
    <3>6. Nodes(b) \subseteq Seqs
      BY DEF Nodes
    <3>7. QED
      BY <2>5, <3>2, <3>3, <3>4, <3>5, <3>6
  <2>11. BytesOf(b, Nodes(b))' = (all \ freed) \cup (IF mask = {} THEN {} ELSE chunk)
    <3>1. ASSUME NEW S \in SUBSET Nodes(b)
          PROVE  {x \in ({b} \X S) \X (1 .. ChunkBytes) : x[2] <= length'[b][x[1][2]]} =
                 BytesOf(b, S)
      BY <2>8 DEF BytesOf
    <3>2. {x \in ({b} \X {seq}) \X (1 .. ChunkBytes) : x[2] <= length'[b][x[1][2]]} = chunk
      BY <2>5, <2>9 DEF ChunkOf
    <3>3. BytesOf(b, {s \in Nodes(b) : left[s] # {}}) = all \ freed
      BY DEF BytesOf, Freed, freed
    <3>4. BytesOf(b, Nodes(b))' =
             {x \in ({b} \X {s \in Nodes(b) : left[s] # {}}) \X (1 .. ChunkBytes) :
                 x[2] <= length'[b][x[1][2]]}
             \cup (IF mask = {} THEN {}
                   ELSE {x \in ({b} \X {seq}) \X (1 .. ChunkBytes) : x[2] <= length'[b][x[1][2]]})
      BY <2>10 DEF BytesOf
    <3>5. QED
      BY <3>1, <3>2, <3>3, <3>4
  <2>12. IsFiniteSet(chunk) /\ Cardinality(chunk) = n /\ chunk \cap all = {}
    <3>1. IsFiniteSet(chunk) /\ Cardinality(chunk) = n
      BY <2>5, ChunkCardinality
    <3>2. chunk \cap all = {}
      BY <2>7 DEF BytesOf, ChunkOf
    <3>3. QED
      BY <3>1, <3>2
  <2> HIDE DEF all, chunk, paid
  <2>13. Cardinality(all \ freed) = Cardinality(all) - Cardinality(freed) /\ IsFiniteSet(all \ freed)
    <3>1. all \cap freed = freed
      BY <2>4
    <3>2. QED
      BY <2>4, <3>1, FS_Difference
  <2>14. Cardinality((all \ freed) \cup chunk) = Cardinality(all) - Cardinality(freed) + n
    <3>1. (all \ freed) \cap chunk = {}
      BY <2>12
    <3>2. Cardinality((all \ freed) \cup chunk) =
             Cardinality(all \ freed) + Cardinality(chunk) - Cardinality({})
      BY <2>12, <2>13, <3>1, FS_Union
    <3>3. QED
      BY <2>4, <2>5, <2>12, <2>13, <3>2, FS_EmptySet
  <2>15. /\ resident'[b] = Cardinality(BytesOf(b, Nodes(b)))'
         /\ resident'[b] <= CapacityBytes
    <3>1. resident[b] = Cardinality(all) /\ resident[b] <= CapacityBytes
      BY DEF Retained, CapacityInv, all
    <3>2. resident'[b] = resident[b] - Cardinality(freed) + (IF mask = {} THEN 0 ELSE n)
      BY <2>1 DEF TypeOK
    <3>3. CASE mask = {}
      BY <2>4, <2>5, <2>11, <2>13, <3>1, <3>2, <3>3
    <3>4. CASE mask # {}
      <4>1. BytesOf(b, Nodes(b))' = (all \ freed) \cup chunk
        BY <2>11, <3>4
      <4>2. resident'[b] = Cardinality(all) - Cardinality(freed) + n
        BY <3>1, <3>2, <3>4
      <4>3. resident'[b] = Cardinality(BytesOf(b, Nodes(b)))'
        BY <2>14, <4>1, <4>2
      <4>4. resident'[b] <= CapacityBytes
        BY <2>4, <2>5, <3>1, <4>2
      <4>5. QED
        BY <4>3, <4>4
    <3>5. QED
      BY <3>3, <3>4
  <2>16. ASSUME NEW x \in Buffers, x # b
         PROVE  /\ pending'[x] = pending[x] /\ nextSeq'[x] = nextSeq[x] /\ resident'[x] = resident[x]
                /\ resident'[x] = Cardinality(BytesOf(x, Nodes(x)))'
                /\ resident'[x] <= CapacityBytes
    <3>1. /\ pending'[x] = pending[x] /\ nextSeq'[x] = nextSeq[x] /\ resident'[x] = resident[x]
          /\ length'[x] = length[x]
      BY <2>1, <2>16 DEF TypeOK
    <3>2. BytesOf(x, Nodes(x))' = BytesOf(x, Nodes(x))
      BY <3>1 DEF BytesOf, Nodes
    <3>3. QED
      BY <3>1, <3>2 DEF Retained, CapacityInv
  <2>17. ASSUME NEW x \in Buffers, NEW s \in Seqs, s > nextSeq'[x]
         PROVE  pending'[x][s] = {}
    <3>1. CASE x # b
      BY <2>16, <2>17, <3>1 DEF Retained, CapacityInv
    <3>2. CASE x = b
      <4>1. nextSeq'[b] = nextSeq[b] + 1 /\ s \in Nat
        BY <2>1, ConstantsAssumption DEF TypeOK, Seqs, seq
      <4>2. s > nextSeq[b] /\ s # seq
        BY <2>7, <2>17, <3>2, <4>1 DEF seq
      <4>3. pending[b][s] = {}
        BY <4>2 DEF Retained, CapacityInv
      <4>4. pending'[b][s] = left[s]
        BY <2>1, <2>2, <4>2 DEF TypeOK
      <4>5. QED
        BY <2>2, <3>2, <4>3, <4>4
    <3>3. QED
      BY <3>1, <3>2
  <2>18. Retained'
    BY <2>15, <2>16, <2>17 DEF Retained
  <2>19. \A x \in Buffers : pc'[x]["pump"] \in Writing => x # b /\ pc'[x]["pump"] = pc[x]["pump"]
    BY <2>1, GotoReleasePump DEF Roles, AfterRelease, Writing
  <2>20. \A x \in Buffers : resident[x] \in Int
    BY DEF TypeOK
  <2>21. WriterOK'
    <3>1. ASSUME NEW x \in Buffers, pc'[x]["pump"] \in Writing
          PROVE  /\ pc[x]["pump"] \in Writing
                 /\ pc'[x]["pump"] \in Checked => pc[x]["pump"] \in Checked
                 /\ nextSeq'[x] = nextSeq[x] /\ pump'[x].size = pump[x].size
                 /\ resident'[x] <= resident[x]
      <4>1. x # b /\ pc'[x]["pump"] = pc[x]["pump"]
        BY <2>19, <3>1
      <4>2. resident'[x] = resident[x] /\ nextSeq'[x] = nextSeq[x] /\ resident[x] \in Int
        BY <2>16, <2>20, <4>1
      <4>3. QED
        BY <2>1, <3>1, <4>1, <4>2
    <3>2. QED
      BY <3>1, WriterKept DEF CapacityInv
  <2>22. QED
    BY <2>18, <2>21 DEF CapacityInv
<1>4. QED
  BY <1>2, <1>3


\* The pump.
LEMMA PumpStepCapacity ==
    ASSUME TypeOK, TypeOK', CapacityInv, NEW b \in Buffers,
           PumpStep(b) \/ PumpRead(b) \/ PumpEOF(b)
    PROVE  CapacityInv'
<1> USE DEF Writing, Checked
<1>1. CASE PumpRead(b)
  <2>1. PICK m \in ChunkSizes : pump' = [pump EXCEPT ![b].size = m]
    BY <1>1 DEF PumpRead
  <2>2. /\ Goto(b, "pump", "local") /\ nextSeq[b] < MaxSeq
        /\ UNCHANGED <<pending, length, nextSeq, resident>>
    BY <1>1 DEF PumpRead, nodeVars
  <2>3. Retained'
    BY <2>2, RetainedUnchanged DEF CapacityInv
  <2>4. \A x \in Buffers : pc'[x]["pump"] = IF x = b THEN "local" ELSE pc[x]["pump"]
    BY <2>2, GotoPump DEF Roles
  <2>5. /\ pump'[b].size = m
        /\ \A x \in Buffers : x # b => pump'[x] = pump[x]
    BY <2>1, PumpNumbers DEF TypeOK, PumpStates
  <2>6. WriterOK'
    BY <2>2, <2>4, <2>5 DEF WriterOK, CapacityInv
  <2>7. QED
    BY <2>3, <2>6 DEF CapacityInv
<1>2. CASE PumpEOF(b) \/ PumpClosed(b)
  BY <1>2, PumpCapacity DEF PumpEOF, PumpClosed, nodeVars
<1>3. CASE WriteLocal(b)
  <2>1. pc[b]["pump"] = "local" /\ UNCHANGED pump
    BY <1>3 DEF WriteLocal, At
  <2>2. CASE UNCHANGED <<nodeVars, pc, owed>>
    BY <2>1, <2>2, OtherCapacity DEF nodeVars
  <2>3. CASE /\ DropOldest(b, pump[b].size, b) /\ Goto(b, "pump", "rel_local")
             /\ UNCHANGED <<length, nextSeq, asleep>>
    BY <2>1, <2>3, DropOldestCapacity
  <2>4. CASE DropIncoming(b)
    BY <2>1, <2>4, DropIncomingCapacity
  <2>5. CASE ~OverCapacity(b) /\ Goto(b, "pump", "accept") /\ UNCHANGED <<nodeVars, owed, asleep>>
    <3>1. Retained'
      BY <2>5, RetainedUnchanged DEF CapacityInv, nodeVars
    <3>2. \A x \in Buffers : pc'[x]["pump"] = IF x = b THEN "accept" ELSE pc[x]["pump"]
      BY <2>5, GotoPump DEF Roles
    <3>3. resident[b] + pump[b].size <= CapacityBytes
      <4>1. resident[b] \in Int /\ pump[b].size \in Nat /\ CapacityBytes \in Nat
        BY PumpNumbers, ConstantsAssumption DEF TypeOK
      <4>2. QED
        BY <2>5, <4>1 DEF OverCapacity
    <3>4. WriterOK'
      BY <2>1, <2>5, <3>2, <3>3 DEF WriterOK, CapacityInv, nodeVars
    <3>5. QED
      BY <3>1, <3>4 DEF CapacityInv
  <2>6. CASE /\ Goto(b, "pump", "seal") \/ Goto(b, "pump", "read")
             /\ UNCHANGED <<nodeVars, owed, asleep>>
    BY <2>1, <2>6, PumpCapacity DEF nodeVars
  <2>7. QED
    BY <1>3, <2>2, <2>3, <2>4, <2>5, <2>6 DEF WriteLocal
<1>4. CASE ReserveCheck(b)
  BY <1>4, PumpCapacity DEF ReserveCheck, At, nodeVars
<1>5. CASE Reserve(b)
  <2>1. /\ pc[b]["pump"] = "reserve" /\ UNCHANGED <<pending, length, nextSeq, resident>>
        /\ \E label \in {"refused", "append", "accept", "evict"} : Goto(b, "pump", label)
    BY <1>5 DEF Reserve, At, nodeVars
  <2>2. \A x \in Buffers : pump'[x].size = pump[x].size
    <3>1. CASE UNCHANGED pump
      BY <3>1
    <3>2. CASE pump' = [pump EXCEPT
                   ![b].candidates = budget.buffers \cap DropBuffers,
                   ![b].remaining = budget.resident + pump[b].size - MaxBytes]
      BY <3>2 DEF TypeOK, PumpStates
    <3>3. QED
      BY <1>5, <3>1, <3>2 DEF Reserve
  <2>3. QED
    BY <2>1, <2>2, PumpCapacity
<1>6. CASE Evict(b)
  <2>1. PICK d \in pump[b].candidates :
            LET freed == Freed(d, Without(d, DropOldestSets(d, pump[b].remaining)))
                rest == pump[b].remaining - Cardinality(freed)
            IN  /\ DropOldest(d, pump[b].remaining, b)
                /\ pump' = [pump EXCEPT
                       ![b].candidates = IF rest <= 0 THEN {} ELSE @ \ {d},
                       ![b].remaining = rest]
                /\ GotoRelease(b, "pump", freed, "rel_evict")
    BY <1>6 DEF Evict
  <2>2. d \in Buffers
    <3>1. pump[b].candidates \in SUBSET DropBuffers
      BY PumpNumbers DEF PumpStates
    <3>2. QED
      BY <3>1, ConstantsAssumption
  <2>3. \A x \in Buffers : pump'[x].size = pump[x].size
    BY <2>1 DEF TypeOK, PumpStates
  <2>4. Goto(b, "pump", "rel_evict") \/ Goto(b, "pump", "evict")
    BY <2>1 DEF GotoRelease, AfterRelease
  <2>5. pc[b]["pump"] = "evict" /\ UNCHANGED <<length, nextSeq>>
    BY <1>6 DEF Evict, At
  <2>6. DropOldest(d, pump[b].remaining, b)
    BY <2>1
  <2>7. QED
    BY <2>2, <2>3, <2>4, <2>5, <2>6, DropOldestCapacity
<1>7. CASE ReserveRetry(b)
  <2>1. /\ pc[b]["pump"] = "evict" /\ UNCHANGED <<pending, length, nextSeq, resident>>
        /\ Goto(b, "pump", "append") \/ Goto(b, "pump", "refused")
    BY <1>7 DEF ReserveRetry, At, nodeVars
  <2>2. \A x \in Buffers : pump'[x].size = pump[x].size
    BY <1>7 DEF ReserveRetry, TypeOK, PumpStates
  <2>3. QED
    BY <2>1, <2>2, PumpCapacity
<1>8. CASE WriteRefused(b)
  <2>1. CASE Goto(b, "pump", "seal") /\ UNCHANGED <<nodeVars, owed, asleep>>
    BY <1>8, <2>1, PumpCapacity DEF WriteRefused, nodeVars
  <2>2. CASE DropIncoming(b)
    BY <1>8, <2>2, DropIncomingCapacity DEF WriteRefused
  <2>3. QED
    BY <1>8, <2>1, <2>2 DEF WriteRefused
<1>9. CASE AppendChunk(b)
  BY <1>9, AppendCapacity
<1>10. CASE Seal(b) \/ SealWake(b)
  BY <1>10, PumpCapacity DEF Seal, SealWake, nodeVars
<1>11. QED
  BY <1>1, <1>2, <1>3, <1>4, <1>5, <1>6, <1>7, <1>8, <1>9, <1>10 DEF PumpStep

\* Every step of the specification preserves the capacity invariant.
LEMMA CapacityStep ==
    TypeOK /\ TypeOK' /\ CapacityInv /\ [Next]_vars => CapacityInv'
<1> SUFFICES ASSUME TypeOK, TypeOK', CapacityInv, [Next]_vars PROVE CapacityInv'
  OBVIOUS
<1>1. ASSUME NEW b \in Buffers, Environment(b) PROVE CapacityInv'
  BY <1>1, PumpStepCapacity, OthersStep DEF Environment, Consumers
<1>2. CASE UNCHANGED vars
  BY <1>2, OtherCapacity DEF vars
<1>3. CASE BudgetClose
  BY <1>3, OtherCapacity DEF BudgetClose, nodeVars
<1>4. QED
  BY <1>1, <1>2, <1>3, PumpStepCapacity, OthersStep, CloserStepCapacity, ReleaseCapacity
     DEF Next, Consumers

\* A new buffer retains nothing and its pump holds no chunk.
LEMMA InitCapacity == Init => CapacityInv
<1> SUFFICES ASSUME Init PROVE CapacityInv
  OBVIOUS
<1>1. WriterOK
  BY DEF Init, WriterOK, Writing, Checked, Roles, Consumers
<1>2. ASSUME NEW b \in Buffers
      PROVE  resident[b] = Cardinality(BytesOf(b, Nodes(b)))
  <2>1. Nodes(b) = {}
    BY DEF Init, Nodes
  <2>2. BytesOf(b, Nodes(b)) = {}
    BY <2>1 DEF BytesOf
  <2>3. QED
    BY <2>2, FS_EmptySet DEF Init
<1>3. Retained
  BY <1>2, ConstantsAssumption DEF Init, Retained
<1>4. QED
  BY <1>1, <1>3 DEF CapacityInv

-----------------------------------------------------------------------------
(* The theorems.                                                           *)

\* terminalOutputBuffer, its consumers and the budget keep their types in every
\* interleaving of writers, consumers, closers and flushers.
THEOREM TypeCorrect == Spec => []TypeOK
<1>1. Init => TypeOK /\ CapacityInv
  BY InitType, InitCapacity
<1>2. TypeOK /\ CapacityInv /\ [Next]_vars => TypeOK' /\ CapacityInv'
  BY TypeStep, CapacityStep DEF CapacityInv
<1>3. QED
  BY <1>1, <1>2, PTL DEF Spec

\* The capacity is a hard limit, and buffer.resident is what the list holds:
\* the check writeChunk makes before it waits for the aggregate budget is still
\* valid when it appends (the comment above Write).
THEOREM CapacityCorrect == Spec => []CapacityHeld
<1>1. Init => TypeOK /\ CapacityInv
  BY InitType, InitCapacity
<1>2. TypeOK /\ CapacityInv /\ [Next]_vars => TypeOK' /\ CapacityInv'
  BY TypeStep, CapacityStep DEF CapacityInv
<1>3. CapacityInv => CapacityHeld
  BY DEF CapacityInv, Retained, CapacityHeld
<1>4. QED
  BY <1>1, <1>2, <1>3, PTL DEF Spec

-----------------------------------------------------------------------------
(* The resident byte budget that the buffers of a daemon share is exact    *)
(* and a hard limit, for every number of buffers and all sizes.            *)

\* Node s of buffer b is not in the list.
Gone(b, s) == pending[b][s] = {}

\* The bytes a thread owes are nobody else's: it is about to release them, they
\* are of nodes that are gone or of its own chunk, and no other thread owes
\* them.
OwedApart ==
    \A d \in Buffers, r \in Roles : \A x \in owed[d][r] :
        /\ pc[d][r] \in DOMAIN AfterRelease
        /\ x[1][2] = 0 => r = "pump" /\ x[1][1] = d
        /\ x[1][2] # 0 => /\ x[1][2] <= nextSeq[x[1][1]]
                          /\ Gone(x[1][1], x[1][2])
        /\ \A e \in Buffers, q \in Roles : x \in owed[e][q] => e = d /\ q = r

BudgetInv == OwedApart /\ BudgetExact

-----------------------------------------------------------------------------
(* Bytes one by one.                                                       *)

\* The byte x belongs to a node, to a chunk that is reserved, to a debt.
InNode(x) ==
    /\ x[1][2] # 0 /\ ~Gone(x[1][1], x[1][2])
    /\ x[2] <= length[x[1][1]][x[1][2]]
InReserve(x) ==
    /\ x[1][2] = 0 /\ pc[x[1][1]]["pump"] = "append"
    /\ x[2] <= pump[x[1][1]].size
InDebt(x) == \E b \in Buffers, r \in Roles : x \in owed[b][r]

\* The parts of a byte.
LEMMA ByteParts ==
    ASSUME NEW x \in AllBytes
    PROVE  /\ x[1][1] \in Buffers /\ x[1][2] \in 0 .. MaxSeq /\ x[1][2] \in Nat
           /\ x[2] \in 1 .. ChunkBytes
           /\ x[1][2] # 0 <=> x[1][2] \in Seqs
BY ConstantsAssumption DEF AllBytes, Seqs

\* The bytes of sequence numbers, one by one.
LEMMA ByteIn ==
    ASSUME NEW b \in Buffers, NEW S \in SUBSET Seqs, NEW x
    PROVE  x \in BytesOf(b, S) <=>
              /\ x \in AllBytes /\ x[1][1] = b /\ x[1][2] \in S
              /\ x[2] <= length[b][x[1][2]]
<1>1. S \subseteq 0 .. MaxSeq
  BY ConstantsAssumption DEF Seqs
<1>2. QED
  BY <1>1 DEF BytesOf, AllBytes

\* The bytes in the hand of a pump, one by one.
LEMMA HandIn ==
    ASSUME TypeOK, NEW b \in Buffers, NEW x
    PROVE  x \in InHand(b) <=>
              x \in AllBytes /\ x[1][1] = b /\ x[1][2] = 0 /\ x[2] <= pump[b].size
<1>1. pump[b].size \in Nat /\ pump[b].size <= ChunkBytes /\ ChunkBytes \in Nat /\ MaxSeq \in Nat
  BY PumpNumbers, ConstantsAssumption
<1>2. QED
  BY <1>1 DEF InHand, AllBytes

ByteByByte ==
    TypeOK => \A x : x \in Charged <=>
                        x \in AllBytes /\ (InNode(x) \/ InReserve(x) \/ InDebt(x))

\* What the budget is charged for, byte by byte.
LEMMA ChargedIn == ByteByByte
<1> SUFFICES ASSUME TypeOK, NEW x
             PROVE  x \in Charged <=>
                        x \in AllBytes /\ (InNode(x) \/ InReserve(x) \/ InDebt(x))
  BY DEF ByteByByte
<1>1. (\E b \in Buffers : x \in BytesOf(b, Nodes(b))) <=> x \in AllBytes /\ InNode(x)
  <2>1. \A b \in Buffers : x \in BytesOf(b, Nodes(b)) <=>
            /\ x \in AllBytes /\ x[1][1] = b /\ x[1][2] \in Nodes(b)
            /\ x[2] <= length[b][x[1][2]]
    BY ByteIn DEF Nodes
  <2>2. QED
    BY <2>1, ByteParts DEF InNode, Nodes, Gone
<1>2. (\E b \in Buffers : pc[b]["pump"] = "append" /\ x \in InHand(b))
          <=> x \in AllBytes /\ InReserve(x)
  BY HandIn, ByteParts DEF InReserve
<1>3. InDebt(x) => x \in AllBytes
  BY DEF InDebt, TypeOK
<1>4. x \in Charged <=> \/ \E b \in Buffers : x \in BytesOf(b, Nodes(b))
                        \/ InDebt(x)
                        \/ \E b \in Buffers : pc[b]["pump"] = "append" /\ x \in InHand(b)
  <2>1. x \in UNION {BytesOf(b, Nodes(b)) : b \in Buffers}
           <=> \E b \in Buffers : x \in BytesOf(b, Nodes(b))
    OBVIOUS
  <2>2. x \in UNION {owed[b][r] : b \in Buffers, r \in Roles} <=> InDebt(x)
    BY DEF InDebt
  <2>3. x \in UNION {InHand(b) : b \in {y \in Buffers : pc[y]["pump"] = "append"}}
           <=> \E b \in Buffers : pc[b]["pump"] = "append" /\ x \in InHand(b)
    OBVIOUS
  <2>4. QED
    <3> DEFINE A == UNION {BytesOf(b, Nodes(b)) : b \in Buffers}
               B == UNION {owed[b][r] : b \in Buffers, r \in Roles}
               C == UNION {InHand(b) : b \in {y \in Buffers : pc[y]["pump"] = "append"}}
    <3>1. Charged = (A \cup B) \cup C
      BY DEF Charged
    <3> HIDE DEF A, B, C
    <3>2. x \in Charged <=> x \in A \/ x \in B \/ x \in C
      BY <3>1
    <3>3. QED
      BY <2>1, <2>2, <2>3, <3>2 DEF A, B, C
<1>5. QED
  BY <1>1, <1>2, <1>3, <1>4

\* The same of the next state.
LEMMA ChargedInNext == ByteByByte'
BY ChargedIn, PTL

\* A step that moves bytes between nodes, hands and debts, and pays nothing.
LEMMA SameCharge ==
    ASSUME TypeOK, TypeOK', BudgetExact, budget'.resident = budget.resident,
           \A x \in AllBytes : (InNode(x)' \/ InReserve(x)' \/ InDebt(x)')
                                  <=> (InNode(x) \/ InReserve(x) \/ InDebt(x))
    PROVE  BudgetExact'
<1>1. \A x : x \in Charged' <=> x \in Charged
  <2>1. \A x : x \in Charged <=>
            x \in AllBytes /\ (InNode(x) \/ InReserve(x) \/ InDebt(x))
    BY ChargedIn DEF ByteByByte
  <2>2. \A x : x \in Charged' <=>
            x \in AllBytes /\ (InNode(x)' \/ InReserve(x)' \/ InDebt(x)')
    BY ChargedInNext DEF ByteByByte
  <2>3. QED
    BY <2>1, <2>2
<1>2. Charged' = Charged
  BY <1>1
<1>3. QED
  BY <1>2 DEF BudgetExact

\* Where the threads stand after one of them has moved.
LEMMA GotoAll ==
    ASSUME TypeOK, NEW b \in Buffers, NEW r \in Roles, NEW label, Goto(b, r, label)
    PROVE  \A x \in Buffers, q \in Roles :
              pc'[x][q] = IF x = b /\ q = r THEN label ELSE pc[x][q]
BY DEF TypeOK, PcOK, Goto

\* What a thread owes, byte by byte.
LEMMA OwedByte ==
    ASSUME OwedApart, NEW d \in Buffers, NEW r \in Roles, NEW x \in owed[d][r]
    PROVE  /\ pc[d][r] \in DOMAIN AfterRelease
           /\ x[1][2] = 0 => r = "pump" /\ x[1][1] = d
           /\ x[1][2] # 0 => /\ x[1][2] <= nextSeq[x[1][1]]
                             /\ Gone(x[1][1], x[1][2])
           /\ \A e \in Buffers, q \in Roles : x \in owed[e][q] => e = d /\ q = r
BY DEF OwedApart

\* The debts after one of them has been set.
LEMMA OwedSet ==
    ASSUME TypeOK, NEW b \in Buffers, NEW r \in Roles, NEW S,
           owed' = [owed EXCEPT ![b][r] = S]
    PROVE  /\ owed'[b][r] = S
           /\ \A x \in Buffers, q \in Roles : ~(x = b /\ q = r) => owed'[x][q] = owed[x][q]
<1>1. owed'[b][r] = S
  BY DEF TypeOK
<1>2. \A x \in Buffers, q \in Roles : ~(x = b /\ q = r) => owed'[x][q] = owed[x][q]
  BY DEF TypeOK
<1>3. QED
  BY <1>1, <1>2

\* A thread that does not stand before a release owes nothing.
LEMMA NothingOwed ==
    ASSUME TypeOK, OwedApart, NEW b \in Buffers, NEW r \in Roles,
           pc[b][r] \notin DOMAIN AfterRelease
    PROVE  owed[b][r] = {}
BY DEF OwedApart

\* A step of one thread that moves no byte: it does not stand before a release,
\* and neither comes from a reservation nor makes one.
LEMMA QuietBudget ==
    ASSUME TypeOK, TypeOK', BudgetInv, NEW b \in Buffers, NEW r \in Roles,
           \/ UNCHANGED pc
           \/ /\ pc[b][r] \notin (DOMAIN AfterRelease) \cup {"append"}
              /\ \E label : label # "append" /\ Goto(b, r, label),
           UNCHANGED <<pending, length, nextSeq, owed>>,
           budget'.resident = budget.resident,
           \A x \in Buffers : pc[x]["pump"] = "append" => pump'[x].size = pump[x].size
    PROVE  BudgetInv'
<1>1. \A x \in Buffers, q \in Roles :
         \/ pc'[x][q] = pc[x][q]
         \/ pc[x][q] \notin (DOMAIN AfterRelease) \cup {"append"} /\ pc'[x][q] # "append"
  BY GotoAll
<1>2. "pump" \in Roles
  BY DEF Roles
<1>3. OwedApart'
  BY <1>1 DEF OwedApart, BudgetInv, Gone
<1>4. \A x \in AllBytes : /\ InNode(x)' <=> InNode(x)
                          /\ InReserve(x)' <=> InReserve(x)
                          /\ InDebt(x)' <=> InDebt(x)
  <2> SUFFICES ASSUME NEW x \in AllBytes
               PROVE  /\ InNode(x)' <=> InNode(x)
                      /\ InReserve(x)' <=> InReserve(x)
                      /\ InDebt(x)' <=> InDebt(x)
    OBVIOUS
  <2>1. x[1][1] \in Buffers
    BY ByteParts
  <2>2. pc'[x[1][1]]["pump"] = "append" <=> pc[x[1][1]]["pump"] = "append"
    BY <1>1, <1>2, <2>1
  <2>3. QED
    BY <2>1, <2>2 DEF InNode, InReserve, InDebt, Gone
<1>5. BudgetExact'
  BY <1>4, SameCharge DEF BudgetInv
<1>6. QED
  BY <1>3, <1>5 DEF BudgetInv

\* The reclaimed bytes, one by one.
LEMMA FreedByte ==
    ASSUME TypeOK, NEW b \in Buffers, NEW left, NEW x
    PROVE  x \in Freed(b, left) <=>
              /\ x \in AllBytes /\ x[1][1] = b /\ x[1][2] \in Seqs
              /\ ~Gone(b, x[1][2]) /\ left[x[1][2]] = {}
              /\ x[2] <= length[b][x[1][2]]
<1> DEFINE S == {s \in Nodes(b) : left[s] = {}}
<1>1. S \in SUBSET Seqs /\ Freed(b, left) = BytesOf(b, S)
  BY DEF Nodes, Freed
<1>2. x \in BytesOf(b, S) <=>
              /\ x \in AllBytes /\ x[1][1] = b /\ x[1][2] \in S
              /\ x[2] <= length[b][x[1][2]]
  <2> HIDE DEF S
  <2>1. QED
    BY <1>1, ByteIn
<1>3. QED
  BY <1>1, <1>2 DEF Nodes, Gone

\* reclaimLocked moves bytes from the list of b to the debt of a thread, which
\* goes to pay it.
LEMMA ReclaimBudget ==
    ASSUME TypeOK, TypeOK', BudgetInv, Retained,
           NEW b \in Buffers, NEW owner \in Buffers, NEW r \in Roles,
           NEW dropped, Reclaim(b, Without(b, dropped), owner, r, {}),
           pc[owner][r] \notin (DOMAIN AfterRelease) \cup {"append"},
           NEW label \in DOMAIN AfterRelease,
           GotoRelease(owner, r, Freed(b, Without(b, dropped)), label),
           budget'.resident = budget.resident,
           \A y \in Buffers : nextSeq'[y] >= nextSeq[y],
           \A y \in Buffers, s \in Seqs : s <= nextSeq[y] => length'[y][s] = length[y][s],
           \A y \in Buffers : pump'[y].size = pump[y].size
    PROVE  BudgetInv'
<1> DEFINE left == Without(b, dropped)
           freed == Freed(b, left)
<1> HIDE DEF left
<1>0. ASSUME NEW d \in Buffers, NEW q \in Roles, NEW x \in owed[d][q]
      PROVE  /\ pc[d][q] \in DOMAIN AfterRelease
             /\ x[1][2] = 0 => q = "pump" /\ x[1][1] = d
             /\ x[1][2] # 0 => /\ x[1][2] <= nextSeq[x[1][1]]
                               /\ Gone(x[1][1], x[1][2])
             /\ \A e \in Buffers, p \in Roles : x \in owed[e][p] => e = d /\ p = q
  <2>1. OwedApart
    BY DEF BudgetInv
  <2>2. QED
    BY <2>1, OwedByte
<1>1. /\ owed[owner][r] = {}
      /\ "pump" \in Roles
      /\ \A l \in DOMAIN AfterRelease : l # "append" /\ AfterRelease[l] # "append"
  BY NothingOwed DEF BudgetInv, Roles, AfterRelease
<1>2. \A x \in Buffers, q \in Roles :
         IF x = owner /\ q = r
         THEN /\ pc'[x][q] # "append" /\ pc[x][q] # "append"
              /\ freed # {} => pc'[x][q] \in DOMAIN AfterRelease
         ELSE pc'[x][q] = pc[x][q]
  <2>1. CASE freed = {}
    <3>1. Goto(owner, r, AfterRelease[label])
      BY <2>1 DEF GotoRelease, left
    <3>2. QED
      BY <2>1, <3>1, <1>1, GotoAll
  <2>2. CASE freed # {}
    <3>1. Goto(owner, r, label)
      BY <2>2 DEF GotoRelease, left
    <3>2. QED
      BY <3>1, <1>1, GotoAll
  <2>3. QED
    BY <2>1, <2>2
<1>3. /\ \A x \in Buffers, s \in Seqs :
            IF x = b THEN /\ Gone(x, s)' <=> left[s] = {}
                          /\ Gone(x, s) => left[s] = {}
                     ELSE Gone(x, s)' <=> Gone(x, s)
      /\ \A x \in Buffers, q \in Roles :
            owed'[x][q] = IF x = owner /\ q = r THEN freed ELSE owed[x][q]
  BY WithoutType DEF Reclaim, TypeOK, left, Gone
<1>4. \A x : x \in freed <=>
              /\ x \in AllBytes /\ x[1][1] = b /\ x[1][2] \in Seqs
              /\ ~Gone(b, x[1][2]) /\ left[x[1][2]] = {}
              /\ x[2] <= length[b][x[1][2]]
  BY FreedByte
<1>5. \A x \in Buffers, s \in Seqs :
         /\ nextSeq[x] \in Nat /\ nextSeq'[x] \in Nat /\ s \in Nat
         /\ s > nextSeq[x] => Gone(x, s)
  <2>1. \A x \in Buffers : nextSeq[x] \in Nat /\ nextSeq'[x] \in Nat
    BY DEF TypeOK
  <2>2. QED
    BY <2>1 DEF Retained, Seqs, Gone
<1> HIDE DEF freed
<1>6. OwedApart'
  <2> SUFFICES ASSUME NEW d \in Buffers, NEW q \in Roles, NEW x \in owed'[d][q]
               PROVE  /\ pc'[d][q] \in DOMAIN AfterRelease
                      /\ x[1][2] = 0 => q = "pump" /\ x[1][1] = d
                      /\ x[1][2] # 0 => /\ x[1][2] <= nextSeq'[x[1][1]]
                                        /\ Gone(x[1][1], x[1][2])'
                      /\ \A e \in Buffers, p \in Roles : x \in owed'[e][p] => e = d /\ p = q
    BY DEF OwedApart
  <2>1. x \in AllBytes
    BY DEF TypeOK
  <2>2. /\ x[1][1] \in Buffers /\ x[1][2] \in Nat
        /\ x[1][2] # 0 => x[1][2] \in Seqs
    BY <2>1, ByteParts
  <2>3. CASE d = owner /\ q = r
    <3>1. x \in freed
      BY <1>3, <2>3
    <3>2. /\ x[1][1] = b /\ x[1][2] \in Seqs /\ ~Gone(b, x[1][2])
          /\ left[x[1][2]] = {} /\ x[1][2] # 0
      BY <1>4, <3>1 DEF Seqs
    <3>3. x[1][2] <= nextSeq[b]
      BY <1>5, <3>2
    <3>4. \A e \in Buffers, p \in Roles : x \notin owed[e][p]
      BY <3>2 DEF OwedApart, BudgetInv
    <3>5. QED
      BY <1>2, <1>3, <1>5, <2>3, <3>1, <3>2, <3>3, <3>4
  <2>4. CASE ~(d = owner /\ q = r)
    <3>1. x \in owed[d][q]
      BY <1>3, <2>4
    <3>2. /\ pc[d][q] \in DOMAIN AfterRelease
          /\ x[1][2] = 0 => q = "pump" /\ x[1][1] = d
          /\ x[1][2] # 0 => /\ x[1][2] <= nextSeq[x[1][1]]
                            /\ Gone(x[1][1], x[1][2])
          /\ \A e \in Buffers, p \in Roles : x \in owed[e][p] => e = d /\ p = q
      BY <1>0, <3>1
    <3>3. x \notin freed
      BY <1>4, <2>2, <3>2 DEF Seqs
    <3>4. x[1][2] # 0 => Gone(x[1][1], x[1][2])'
      BY <1>3, <2>2, <3>2
    <3>5. x[1][2] # 0 => x[1][2] <= nextSeq'[x[1][1]]
      BY <1>5, <2>2, <3>2
    <3>6. QED
      BY <1>2, <1>3, <2>4, <3>2, <3>3, <3>4, <3>5
  <2>5. QED
    BY <2>3, <2>4
<1>7. \A x \in AllBytes : (InNode(x)' \/ InReserve(x)' \/ InDebt(x)')
                              <=> (InNode(x) \/ InReserve(x) \/ InDebt(x))
  <2> SUFFICES ASSUME NEW x \in AllBytes
               PROVE  (InNode(x)' \/ InReserve(x)' \/ InDebt(x)')
                              <=> (InNode(x) \/ InReserve(x) \/ InDebt(x))
    OBVIOUS
  <2>1. /\ x[1][1] \in Buffers /\ x[1][2] \in Nat
        /\ x[1][2] # 0 <=> x[1][2] \in Seqs
    BY ByteParts
  <2>2. InReserve(x)' <=> InReserve(x)
    BY <1>1, <1>2, <2>1 DEF InReserve
  <2>3. InDebt(x)' <=> InDebt(x) \/ x \in freed
    BY <1>1, <1>3 DEF InDebt
  <2>4. InNode(x) => length'[x[1][1]][x[1][2]] = length[x[1][1]][x[1][2]]
    BY <1>5, <2>1 DEF InNode
  <2>5. InNode(x)' => InNode(x)
    <3>1. InNode(x)' => x[1][2] \in Seqs /\ ~Gone(x[1][1], x[1][2])
      BY <1>3, <2>1 DEF InNode
    <3>2. x[1][2] \in Seqs /\ ~Gone(x[1][1], x[1][2])
             => length'[x[1][1]][x[1][2]] = length[x[1][1]][x[1][2]]
      BY <1>5, <2>1
    <3>3. QED
      BY <2>1, <3>1, <3>2 DEF InNode
  <2>6. x \in freed => InNode(x)
    BY <1>4, <2>1 DEF InNode
  <2>7. InNode(x) => InNode(x)' \/ x \in freed
    BY <1>3, <1>4, <2>1, <2>4 DEF InNode
  <2>8. QED
    BY <2>2, <2>3, <2>5, <2>6, <2>7
<1>8. BudgetExact'
  BY <1>7, SameCharge DEF BudgetInv
<1>9. QED
  BY <1>6, <1>8 DEF BudgetInv

\* budget.release pays a debt: no byte of it is charged for any other reason,
\* and the counter needs no clamping.
LEMMA ReleaseBudget ==
    ASSUME TypeOK, TypeOK', BudgetInv, NEW b \in Buffers, NEW r \in Roles, Release(b, r)
    PROVE  BudgetInv'
<1> DEFINE debt == owed[b][r]
<1>1. /\ pc[b][r] \in DOMAIN AfterRelease /\ Goto(b, r, AfterRelease[pc[b][r]])
      /\ UNCHANGED <<pending, length, nextSeq, pump>>
      /\ budget' = [budget EXCEPT !.resident = Larger(0, @ - Cardinality(debt))]
      /\ owed' = [owed EXCEPT ![b][r] = {}]
  BY DEF Release, nodeVars
<1>2. /\ \A x \in Buffers, q \in Roles :
            IF x = b /\ q = r THEN pc[x][q] # "append" /\ pc'[x][q] # "append"
                              ELSE pc'[x][q] = pc[x][q]
      /\ "pump" \in Roles
  BY <1>1, GotoAll DEF AfterRelease, Roles
<1>3. \A x \in Buffers, q \in Roles :
         owed'[x][q] = IF x = b /\ q = r THEN {} ELSE owed[x][q]
  BY <1>1 DEF TypeOK
<1>4. \A x \in Buffers : \A s : Gone(x, s)' <=> Gone(x, s)
  BY <1>1 DEF Gone
<1>5. OwedApart'
  <2> SUFFICES ASSUME NEW d \in Buffers, NEW q \in Roles, NEW x \in owed'[d][q]
               PROVE  /\ pc'[d][q] \in DOMAIN AfterRelease
                      /\ x[1][2] = 0 => q = "pump" /\ x[1][1] = d
                      /\ x[1][2] # 0 => /\ x[1][2] <= nextSeq'[x[1][1]]
                                        /\ Gone(x[1][1], x[1][2])'
                      /\ \A e \in Buffers, p \in Roles : x \in owed'[e][p] => e = d /\ p = q
    BY DEF OwedApart
  <2>1. x \in owed[d][q] /\ ~(d = b /\ q = r) /\ x \in AllBytes
    BY <1>3 DEF TypeOK
  <2>2. /\ pc[d][q] \in DOMAIN AfterRelease
        /\ x[1][2] = 0 => q = "pump" /\ x[1][1] = d
        /\ x[1][2] # 0 => /\ x[1][2] <= nextSeq[x[1][1]]
                          /\ Gone(x[1][1], x[1][2])
        /\ \A e \in Buffers, p \in Roles : x \in owed[e][p] => e = d /\ p = q
    BY <2>1, OwedByte DEF BudgetInv
  <2>3. x[1][1] \in Buffers
    BY <2>1, ByteParts
  <2>4. QED
    BY <1>1, <1>2, <1>3, <1>4, <2>1, <2>2, <2>3
<1>6. \A x : x \in Charged' <=> x \in Charged /\ x \notin debt
  <2> SUFFICES ASSUME NEW x PROVE x \in Charged' <=> x \in Charged /\ x \notin debt
    OBVIOUS
  <2>1. x \in Charged <=> x \in AllBytes /\ (InNode(x) \/ InReserve(x) \/ InDebt(x))
    BY ChargedIn DEF ByteByByte
  <2>2. x \in Charged' <=> x \in AllBytes /\ (InNode(x)' \/ InReserve(x)' \/ InDebt(x)')
    BY ChargedInNext DEF ByteByByte
  <2>3. ASSUME x \in AllBytes
        PROVE  (InNode(x)' \/ InReserve(x)' \/ InDebt(x)')
                  <=> (InNode(x) \/ InReserve(x) \/ InDebt(x)) /\ x \notin debt
    <3>1. x[1][1] \in Buffers
      BY <2>3, ByteParts
    <3>2. /\ InNode(x)' <=> InNode(x)
          /\ InReserve(x)' <=> InReserve(x)
      BY <1>1, <1>2, <1>4, <3>1 DEF InNode, InReserve
    <3>3. CASE x \in debt
      <4>1. /\ x[1][2] = 0 => r = "pump" /\ x[1][1] = b
            /\ x[1][2] # 0 => Gone(x[1][1], x[1][2])
            /\ \A e \in Buffers, p \in Roles : x \in owed[e][p] => e = b /\ p = r
        BY <3>3, OwedByte DEF BudgetInv
      <4>2. ~InNode(x) /\ ~InReserve(x)
        BY <1>2, <4>1 DEF InNode, InReserve
      <4>3. ~InDebt(x)'
        BY <1>3, <4>1 DEF InDebt
      <4>4. QED
        BY <3>2, <3>3, <4>2, <4>3
    <3>4. CASE x \notin debt
      <4>1. InDebt(x)' <=> InDebt(x)
        BY <1>3, <3>4 DEF InDebt
      <4>2. QED
        BY <3>2, <3>4, <4>1
    <3>5. QED
      BY <3>3, <3>4
  <2>4. QED
    BY <2>1, <2>2, <2>3
<1>7. debt \subseteq Charged /\ Charged \in SUBSET AllBytes
  <2>1. \A x \in debt : x \in AllBytes /\ InDebt(x)
    BY DEF TypeOK, InDebt
  <2>2. QED
    BY <2>1, ChargedIn DEF ByteByByte
<1>8. /\ IsFiniteSet(Charged) /\ Cardinality(Charged) \in Nat
      /\ Cardinality(debt) \in Nat
      /\ Cardinality(Charged \ debt) = Cardinality(Charged) - Cardinality(debt)
      /\ Cardinality(Charged \ debt) \in Nat
  <2>1. IsFiniteSet(Charged) /\ Cardinality(Charged) \in Nat
    BY <1>7, OwedFinite
  <2>2. IsFiniteSet(debt) /\ Cardinality(debt) \in Nat
    BY <1>7, OwedFinite
  <2>3. Charged \cap debt = debt
    BY <1>7
  <2>4. Cardinality(Charged \ debt) = Cardinality(Charged) - Cardinality(Charged \cap debt)
    BY <2>1, FS_Difference
  <2>5. Cardinality(Charged \ debt) \in Nat
    BY <1>7, OwedFinite
  <2>6. QED
    BY <2>1, <2>2, <2>3, <2>4, <2>5
<1>9. Charged' = Charged \ debt
  BY <1>6
<1>10. BudgetExact'
  <2>1. budget.resident = Cardinality(Charged) /\ budget.resident <= MaxBytes
    BY DEF BudgetInv, BudgetExact
  <2>2. budget'.resident = Larger(0, budget.resident - Cardinality(debt))
    BY <1>1 DEF TypeOK, BudgetStates
  <2>3. MaxBytes \in Nat
    BY ConstantsAssumption
  <2> HIDE DEF debt
  <2>4. budget'.resident = Cardinality(Charged \ debt) /\ budget'.resident <= MaxBytes
    BY <1>8, <2>1, <2>2, <2>3 DEF Larger
  <2>5. QED
    BY <1>9, <2>4 DEF BudgetExact
<1>11. QED
  BY <1>5, <1>10 DEF BudgetInv

\* A successful reservation charges the chunk, which is charged for nothing
\* else, and keeps the limit.
LEMMA ReserveBudget ==
    ASSUME TypeOK, TypeOK', BudgetInv, NEW b \in Buffers,
           pc[b]["pump"] \in {"reserve", "evict"}, Goto(b, "pump", "append"), Fits(b),
           budget'.resident = budget.resident + pump[b].size,
           UNCHANGED <<pending, length, nextSeq, owed>>,
           \A y \in Buffers : pump'[y].size = pump[y].size
    PROVE  BudgetInv'
<1> DEFINE hand == InHand(b)
<1>1. /\ \A x \in Buffers, q \in Roles :
            pc'[x][q] = IF x = b /\ q = "pump" THEN "append" ELSE pc[x][q]
      /\ "pump" \in Roles /\ pc[b]["pump"] \notin DOMAIN AfterRelease
  <2>1. "pump" \in Roles /\ pc[b]["pump"] \notin DOMAIN AfterRelease
    BY DEF AfterRelease, Roles
  <2>2. QED
    BY <2>1, GotoAll
<1>2. owed[b]["pump"] = {}
  BY <1>1, NothingOwed DEF BudgetInv
<1>3. \A x \in Buffers : \A s : Gone(x, s)' <=> Gone(x, s)
  BY DEF Gone
<1>4. OwedApart'
  <2> SUFFICES ASSUME NEW d \in Buffers, NEW q \in Roles, NEW x \in owed[d][q]
               PROVE  /\ pc'[d][q] \in DOMAIN AfterRelease
                      /\ x[1][2] = 0 => q = "pump" /\ x[1][1] = d
                      /\ x[1][2] # 0 => /\ x[1][2] <= nextSeq[x[1][1]]
                                        /\ Gone(x[1][1], x[1][2])'
                      /\ \A e \in Buffers, p \in Roles : x \in owed[e][p] => e = d /\ p = q
    BY DEF OwedApart
  <2>1. /\ pc[d][q] \in DOMAIN AfterRelease
        /\ x[1][2] = 0 => q = "pump" /\ x[1][1] = d
        /\ x[1][2] # 0 => /\ x[1][2] <= nextSeq[x[1][1]]
                          /\ Gone(x[1][1], x[1][2])
        /\ \A e \in Buffers, p \in Roles : x \in owed[e][p] => e = d /\ p = q
    BY OwedByte DEF BudgetInv
  <2>2. x \in AllBytes
    BY DEF TypeOK
  <2>3. x[1][1] \in Buffers
    BY <2>2, ByteParts
  <2>4. QED
    BY <1>1, <1>3, <2>1, <2>3
<1>5. \A x : /\ x \in hand => x \notin Charged
             /\ x \in Charged' <=> x \in Charged \/ x \in hand
  <2> SUFFICES ASSUME NEW x
               PROVE  /\ x \in hand => x \notin Charged
                      /\ x \in Charged' <=> x \in Charged \/ x \in hand
    OBVIOUS
  <2>1. x \in Charged <=> x \in AllBytes /\ (InNode(x) \/ InReserve(x) \/ InDebt(x))
    BY ChargedIn DEF ByteByByte
  <2>2. x \in Charged' <=> x \in AllBytes /\ (InNode(x)' \/ InReserve(x)' \/ InDebt(x)')
    BY ChargedInNext DEF ByteByByte
  <2>3. x \in hand <=> x \in AllBytes /\ x[1][1] = b /\ x[1][2] = 0 /\ x[2] <= pump[b].size
    BY HandIn
  <2>4. CASE x \in AllBytes
    <3>1. x[1][1] \in Buffers
      BY <2>4, ByteParts
    <3>2. /\ InNode(x)' <=> InNode(x)
          /\ InDebt(x)' <=> InDebt(x)
      BY <1>3, <3>1 DEF InNode, InDebt
    <3>3. InReserve(x)' <=> InReserve(x) \/ x \in hand
      BY <1>1, <2>3, <2>4, <3>1 DEF InReserve
    <3>4. x \in hand => ~InNode(x) /\ ~InReserve(x)
      BY <2>3 DEF InNode, InReserve
    <3>5. x \in hand => ~InDebt(x)
      <4> SUFFICES ASSUME x \in hand, NEW d \in Buffers, NEW q \in Roles, x \in owed[d][q]
                   PROVE  FALSE
        BY DEF InDebt
      <4>1. x[1][1] = b /\ x[1][2] = 0
        BY <2>3
      <4>2. q = "pump" /\ d = b
        BY <4>1, OwedByte DEF BudgetInv
      <4>3. QED
        BY <1>2, <4>2
    <3>6. QED
      BY <2>1, <2>2, <2>4, <3>2, <3>3, <3>4, <3>5
  <2>5. QED
    BY <2>1, <2>2, <2>3, <2>4
<1>6. Charged' = Charged \cup hand /\ Charged \cap hand = {}
  BY <1>5
<1>7. Charged \in SUBSET AllBytes
  BY ChargedIn DEF ByteByByte
<1>8. Cardinality(Charged') = Cardinality(Charged) + pump[b].size
  <2>1. IsFiniteSet(Charged) /\ Cardinality(Charged) \in Nat
    BY <1>7, OwedFinite
  <2>2. IsFiniteSet(hand) /\ Cardinality(hand) = pump[b].size /\ pump[b].size \in Nat
    BY InHandType, PumpNumbers
  <2> HIDE DEF hand
  <2>3. Cardinality(Charged \cup hand)
           = Cardinality(Charged) + Cardinality(hand) - Cardinality(Charged \cap hand)
    BY <2>1, <2>2, FS_Union
  <2>4. Cardinality(Charged \cap hand) = 0
    BY <1>6, FS_EmptySet
  <2>5. QED
    BY <1>6, <2>1, <2>2, <2>3, <2>4
<1>9. BudgetExact'
  BY <1>8 DEF BudgetInv, BudgetExact, Fits
<1>10. QED
  BY <1>4, <1>9 DEF BudgetInv

\* The bytes of a new node, one by one.
LEMMA ChunkIn ==
    ASSUME TypeOK, NEW b \in Buffers, NEW s \in Seqs, NEW x
    PROVE  x \in ChunkOf(b, s, pump[b].size) <=>
              x \in AllBytes /\ x[1][1] = b /\ x[1][2] = s /\ x[2] <= pump[b].size
<1>1. /\ pump[b].size \in Nat /\ pump[b].size <= ChunkBytes /\ ChunkBytes \in Nat
      /\ MaxSeq \in Nat /\ s \in 0 .. MaxSeq
  BY PumpNumbers, ConstantsAssumption DEF Seqs
<1>2. QED
  BY <1>1 DEF ChunkOf, AllBytes

\* The reserved chunk becomes a node or a debt, and what the consumers behind a
\* gap give up becomes a debt with it.
LEMMA AppendOpenBudget ==
    ASSUME TypeOK, TypeOK', CapacityInv, BudgetInv, NEW b \in Buffers,
           pc[b]["pump"] = "append", NEW dropped, NEW mask,
           pending' = [pending EXCEPT ![b] =
                          [Without(b, dropped) EXCEPT ![nextSeq[b] + 1] = mask]],
           nextSeq' = [nextSeq EXCEPT ![b] = nextSeq[b] + 1],
           length' = [length EXCEPT ![b][nextSeq[b] + 1] = pump[b].size],
           NEW paid, paid = Freed(b, Without(b, dropped))
                                \cup (IF mask = {} THEN InHand(b) ELSE {}),
           owed' = [owed EXCEPT ![b]["pump"] = paid],
           GotoRelease(b, "pump", paid, "rel_read"),
           UNCHANGED <<budget, pump>>
    PROVE  BudgetInv'
<1> DEFINE seq == nextSeq[b] + 1
           left == Without(b, dropped)
           freed == Freed(b, left)
           hand == InHand(b)
           new == ChunkOf(b, seq, pump[b].size)
<1>1. /\ seq \in Seqs /\ seq # 0 /\ nextSeq[b] \in Nat /\ "pump" \in Roles
      /\ \A y \in Buffers : nextSeq[y] \in Nat
  <2>1. nextSeq[b] < MaxSeq /\ nextSeq[b] \in 0 .. MaxSeq /\ MaxSeq \in Nat
    BY ConstantsAssumption DEF TypeOK, CapacityInv, WriterOK, Writing
  <2>2. \A y \in Buffers : nextSeq[y] \in Nat
    BY DEF TypeOK
  <2>3. QED
    BY <2>1, <2>2 DEF Seqs, Roles
<1>2. /\ left \in [Seqs -> SUBSET Consumers]
      /\ \A s \in Seqs : left[s] \subseteq pending[b][s]
  BY WithoutType
<1>3. owed[b]["pump"] = {}
  <2>1. pc[b]["pump"] \notin DOMAIN AfterRelease
    BY DEF AfterRelease
  <2>2. QED
    BY <1>1, <2>1, NothingOwed DEF BudgetInv
<1>4. \A x : x \in freed <=>
              /\ x \in AllBytes /\ x[1][1] = b /\ x[1][2] \in Seqs
              /\ ~Gone(b, x[1][2]) /\ left[x[1][2]] = {}
              /\ x[2] <= length[b][x[1][2]]
  BY FreedByte
<1>5. \A x : x \in hand <=> x \in AllBytes /\ x[1][1] = b /\ x[1][2] = 0 /\ x[2] <= pump[b].size
  BY HandIn
<1>6. \A x : x \in new <=> x \in AllBytes /\ x[1][1] = b /\ x[1][2] = seq /\ x[2] <= pump[b].size
  BY <1>1, ChunkIn
<1>7. /\ pending' = [pending EXCEPT ![b] = [left EXCEPT ![seq] = mask]]
      /\ nextSeq' = [nextSeq EXCEPT ![b] = seq]
      /\ length' = [length EXCEPT ![b][seq] = pump[b].size]
      /\ owed' = [owed EXCEPT ![b]["pump"] = paid]
      /\ GotoRelease(b, "pump", paid, "rel_read")
  OBVIOUS
<1> HIDE DEF seq, left, freed, hand, new
<1>8. /\ \A x \in Buffers, s \in Seqs :
            IF x = b THEN IF s = seq THEN Gone(x, s)' <=> mask = {}
                          ELSE /\ Gone(x, s)' <=> left[s] = {}
                               /\ Gone(x, s) => left[s] = {}
                     ELSE Gone(x, s)' <=> Gone(x, s)
      /\ \A x \in Buffers, s \in Seqs : s > nextSeq[x] => Gone(x, s)
      /\ Gone(b, seq)
  <2>1. \A x \in Buffers, s \in Seqs : s > nextSeq[x] => Gone(x, s)
    BY DEF CapacityInv, Retained, Gone
  <2>2. Gone(b, seq)
    BY <1>1, <2>1 DEF seq
  <2>3. QED
    BY <1>1, <1>2, <1>7, <2>1, <2>2 DEF TypeOK, Gone
<1>9. \A x \in Buffers, s \in Seqs :
         length'[x][s] = IF x = b /\ s = seq THEN pump[b].size ELSE length[x][s]
  BY <1>1, <1>7 DEF TypeOK
<1>10. \A x \in Buffers : nextSeq'[x] = IF x = b THEN seq ELSE nextSeq[x]
  BY <1>7 DEF TypeOK
<1>11. \A x \in Buffers, q \in Roles :
          owed'[x][q] = IF x = b /\ q = "pump" THEN paid ELSE owed[x][q]
  <2>1. "pump" \in Roles
    BY DEF Roles
  <2>2. ASSUME NEW x \in Buffers, NEW q \in Roles, x = b /\ q = "pump"
        PROVE  owed'[x][q] = paid
    BY <2>2 DEF TypeOK
  <2>3. ASSUME NEW x \in Buffers, NEW q \in Roles, ~(x = b /\ q = "pump")
        PROVE  owed'[x][q] = owed[x][q]
    BY <2>1, <2>3, OwedSet
  <2>4. QED
    BY ZenonT(30), <2>2, <2>3
<1>18. \A x : x \in paid <=> x \in freed \/ (mask = {} /\ x \in hand)
  BY DEF freed, hand, left
<1>12. \A x \in Buffers, q \in Roles :
          IF x = b /\ q = "pump"
          THEN /\ pc'[x][q] # "append"
               /\ paid # {} => pc'[x][q] \in DOMAIN AfterRelease
          ELSE pc'[x][q] = pc[x][q]
  <2>1. CASE paid = {}
    <3>1. Goto(b, "pump", "read")
      BY <1>7, <2>1 DEF GotoRelease, AfterRelease
    <3>2. QED
      BY <1>1, <2>1, <3>1, GotoAll
  <2>2. CASE paid # {}
    <3>1. Goto(b, "pump", "rel_read") /\ "rel_read" \in DOMAIN AfterRelease
      BY <1>7, <2>2 DEF GotoRelease, AfterRelease
    <3>2. QED
      BY <1>1, <3>1, GotoAll
  <2>3. QED
    BY <2>1, <2>2
<1>13. OwedApart'
  <2> SUFFICES ASSUME NEW d \in Buffers, NEW q \in Roles, NEW x \in owed'[d][q]
               PROVE  /\ pc'[d][q] \in DOMAIN AfterRelease
                      /\ x[1][2] = 0 => q = "pump" /\ x[1][1] = d
                      /\ x[1][2] # 0 => /\ x[1][2] <= nextSeq'[x[1][1]]
                                        /\ Gone(x[1][1], x[1][2])'
                      /\ \A e \in Buffers, p \in Roles : x \in owed'[e][p] => e = d /\ p = q
    BY DEF OwedApart
  <2>1. x \in AllBytes
    BY DEF TypeOK
  <2>2. /\ x[1][1] \in Buffers /\ x[1][2] \in Nat
        /\ x[1][2] # 0 => x[1][2] \in Seqs
    BY <2>1, ByteParts
  <2>3. CASE d = b /\ q = "pump"
    <3>1. x \in freed \/ x \in hand
      BY <1>11, <1>18, <2>3
    <3>2. x[1][1] = b /\ (x[1][2] # 0 <=> x \in freed)
      BY <1>4, <1>5, <3>1 DEF Seqs
    <3>3. ASSUME x[1][2] # 0
          PROVE  x[1][2] <= nextSeq'[x[1][1]] /\ Gone(x[1][1], x[1][2])'
      <4>1. ~Gone(b, x[1][2]) /\ left[x[1][2]] = {}
        BY <1>4, <3>2, <3>3
      <4>2. x[1][2] <= nextSeq[b] /\ x[1][2] # seq
        BY <1>1, <1>8, <2>2, <3>2, <3>3, <4>1
      <4>3. QED
        BY <1>1, <1>8, <1>10, <2>2, <3>2, <3>3, <4>1, <4>2 DEF seq
    <3>4. ASSUME NEW e \in Buffers, NEW p \in Roles, x \in owed[e][p]
          PROVE  FALSE
      <4>1. /\ x[1][2] = 0 => p = "pump" /\ x[1][1] = e
            /\ x[1][2] # 0 => Gone(x[1][1], x[1][2])
        BY <3>4, OwedByte DEF BudgetInv
      <4>2. QED
        BY <1>3, <1>4, <3>2, <3>4, <4>1
    <3>5. pc'[d][q] \in DOMAIN AfterRelease
      BY <1>11, <1>12, <2>3
    <3>6. \A e \in Buffers, p \in Roles : x \in owed'[e][p] => e = d /\ p = q
      BY <1>11, <2>3, <3>4
    <3>7. QED
      BY <2>3, <3>2, <3>3, <3>5, <3>6
  <2>4. CASE ~(d = b /\ q = "pump")
    <3>1. x \in owed[d][q]
      BY <1>11, <2>4
    <3>2. /\ pc[d][q] \in DOMAIN AfterRelease
          /\ x[1][2] = 0 => q = "pump" /\ x[1][1] = d
          /\ x[1][2] # 0 => /\ x[1][2] <= nextSeq[x[1][1]]
                            /\ Gone(x[1][1], x[1][2])
          /\ \A e \in Buffers, p \in Roles : x \in owed[e][p] => e = d /\ p = q
      BY <3>1, OwedByte DEF BudgetInv
    <3>3. x \notin freed
      BY <1>4, <2>2, <3>2 DEF Seqs
    <3>4. x \notin hand
      BY <1>5, <2>4, <3>2
    <3>5. ASSUME x[1][2] # 0
          PROVE  x[1][2] <= nextSeq'[x[1][1]] /\ Gone(x[1][1], x[1][2])'
      <4>1. x[1][1] = b => x[1][2] # seq
        BY <1>1, <2>2, <3>2, <3>5 DEF seq
      <4>2. QED
        BY <1>1, <1>8, <1>10, <2>2, <3>2, <3>5, <4>1 DEF seq
    <3>6. pc'[d][q] \in DOMAIN AfterRelease
      BY <1>12, <2>4, <3>2
    <3>7. \A e \in Buffers, p \in Roles : x \in owed'[e][p] => e = d /\ p = q
      <4>1. x \notin paid
        BY <1>18, <3>3, <3>4
      <4>2. QED
        BY <1>11, <3>2, <4>1
    <3>8. QED
      BY <3>2, <3>5, <3>6, <3>7
  <2>5. QED
    BY <2>3, <2>4
<1>14. ASSUME NEW x \in AllBytes
       PROVE  /\ InNode(x)' <=> (InNode(x) /\ x \notin freed) \/ (mask # {} /\ x \in new)
              /\ x \in freed => InNode(x)
              /\ x \in new => ~InNode(x) /\ ~InReserve(x) /\ ~InDebt(x) /\ x \notin hand
              /\ InReserve(x) <=> InReserve(x)' \/ x \in hand
              /\ x \in hand => ~InNode(x) /\ ~InReserve(x)' /\ ~InDebt(x) /\ x \notin freed
              /\ InDebt(x)' <=> InDebt(x) \/ x \in freed \/ (mask = {} /\ x \in hand)
  <2>1. /\ x[1][1] \in Buffers /\ x[1][2] \in Nat
        /\ x[1][2] # 0 <=> x[1][2] \in Seqs
    BY ByteParts
  <2>2. InNode(x)' <=> (InNode(x) /\ x \notin freed) \/ (mask # {} /\ x \in new)
    <3>1. CASE x[1][1] = b /\ x[1][2] = seq
      BY <1>1, <1>6, <1>8, <1>9, <2>1, <3>1 DEF InNode
    <3>2. CASE ~(x[1][1] = b /\ x[1][2] = seq)
      BY <1>4, <1>6, <1>8, <1>9, <2>1, <3>2 DEF InNode
    <3>3. QED
      BY <3>1, <3>2
  <2>3. x \in freed => InNode(x)
    BY <1>4, <2>1 DEF InNode
  <2>4. ASSUME InDebt(x)
        PROVE  x \notin hand /\ x \notin new
    <3>1. PICK e \in Buffers, p \in Roles : x \in owed[e][p]
      BY <2>4 DEF InDebt
    <3>2. /\ x[1][2] = 0 => p = "pump" /\ x[1][1] = e
          /\ x[1][2] # 0 => x[1][2] <= nextSeq[x[1][1]]
      BY <3>1, OwedByte DEF BudgetInv
    <3>3. QED
      BY <1>1, <1>3, <1>5, <1>6, <3>1, <3>2 DEF seq
  <2>5. x \in new => ~InNode(x) /\ ~InReserve(x) /\ x \notin hand
    BY <1>1, <1>5, <1>6, <1>8 DEF InNode, InReserve
  <2>6. /\ InReserve(x) <=> InReserve(x)' \/ x \in hand
        /\ x \in hand => ~InReserve(x)'
    BY <1>1, <1>5, <1>12, <2>1 DEF InReserve
  <2>7. x \in hand => ~InNode(x) /\ x \notin freed
    BY <1>4, <1>5, <2>1 DEF InNode
  <2>8. InDebt(x)' <=> InDebt(x) \/ x \in paid
    BY <1>1, <1>3, <1>11 DEF InDebt
  <2>9. QED
    BY <1>18, <2>2, <2>3, <2>4, <2>5, <2>6, <2>7, <2>8
<1>15. CASE mask = {}
  <2>1. \A x \in AllBytes : (InNode(x)' \/ InReserve(x)' \/ InDebt(x)')
                                 <=> (InNode(x) \/ InReserve(x) \/ InDebt(x))
    BY <1>14, <1>15
  <2>2. BudgetExact'
    BY <2>1, SameCharge DEF BudgetInv
  <2>3. QED
    BY <1>13, <2>2 DEF BudgetInv
<1>16. CASE mask # {}
  <2>1. \A x : /\ x \in hand => x \in Charged
               /\ x \in new => x \notin Charged
               /\ x \in Charged' <=> (x \in Charged /\ x \notin hand) \/ x \in new
    <3> SUFFICES ASSUME NEW x
                 PROVE  /\ x \in hand => x \in Charged
                        /\ x \in new => x \notin Charged
                        /\ x \in Charged' <=> (x \in Charged /\ x \notin hand) \/ x \in new
      OBVIOUS
    <3>1. x \in Charged <=> x \in AllBytes /\ (InNode(x) \/ InReserve(x) \/ InDebt(x))
      BY ChargedIn DEF ByteByByte
    <3>2. x \in Charged' <=> x \in AllBytes /\ (InNode(x)' \/ InReserve(x)' \/ InDebt(x)')
      BY ChargedInNext DEF ByteByByte
    <3>3. x \in hand \/ x \in new => x \in AllBytes
      BY <1>5, <1>6
    <3>4. CASE x \in AllBytes
      <4>1. /\ InNode(x)' <=> (InNode(x) /\ x \notin freed) \/ (mask # {} /\ x \in new)
            /\ x \in freed => InNode(x)
            /\ x \in new => ~InNode(x) /\ ~InReserve(x) /\ ~InDebt(x) /\ x \notin hand
            /\ InReserve(x) <=> InReserve(x)' \/ x \in hand
            /\ x \in hand => ~InNode(x) /\ ~InReserve(x)' /\ ~InDebt(x) /\ x \notin freed
            /\ InDebt(x)' <=> InDebt(x) \/ x \in freed \/ (mask = {} /\ x \in hand)
        BY <1>14, <3>4
      <4>2. QED
        BY <1>16, <3>1, <3>2, <3>4, <4>1, Zenon
    <3>5. QED
      BY <3>1, <3>2, <3>3, <3>4
  <2>2. /\ Charged' = (Charged \ hand) \cup new
        /\ (Charged \ hand) \cap new = {} /\ Charged \cap hand = hand
    BY <2>1
  <2>3. Charged \in SUBSET AllBytes /\ Charged \ hand \in SUBSET AllBytes
    BY ChargedIn DEF ByteByByte
  <2>4. /\ IsFiniteSet(Charged) /\ Cardinality(Charged) \in Nat
        /\ IsFiniteSet(Charged \ hand) /\ Cardinality(Charged \ hand) \in Nat
    BY <2>3, OwedFinite
  <2>5. /\ Cardinality(hand) = pump[b].size /\ pump[b].size \in Nat
        /\ IsFiniteSet(new) /\ Cardinality(new) = pump[b].size
    BY InHandType, PumpNumbers, ChunkCardinality DEF hand, new
  <2>6. Cardinality(Charged \ hand) = Cardinality(Charged) - Cardinality(hand)
    BY <2>2, <2>4, FS_Difference
  <2>7. Cardinality((Charged \ hand) \cup new)
           = Cardinality(Charged \ hand) + Cardinality(new) - Cardinality((Charged \ hand) \cap new)
    BY <2>4, <2>5, FS_Union
  <2>8. Cardinality((Charged \ hand) \cap new) = 0
    BY <2>2, FS_EmptySet
  <2>9. Cardinality(Charged') = Cardinality(Charged)
    BY <2>2, <2>4, <2>5, <2>6, <2>7, <2>8
  <2>10. BudgetExact'
    BY <2>9 DEF BudgetInv, BudgetExact
  <2>11. QED
    BY <1>13, <2>10 DEF BudgetInv
<1>17. QED
  BY <1>15, <1>16

\* writeChunk after a successful reservation.
LEMMA AppendBudget ==
    ASSUME TypeOK, TypeOK', CapacityInv, BudgetInv, NEW b \in Buffers, AppendChunk(b)
    PROVE  BudgetInv'
<1>1. pc[b]["pump"] = "append" /\ UNCHANGED <<budget, pump>> /\ "pump" \in Roles
  BY DEF AppendChunk, At, Roles
<1>2. CASE closed[b] \/ sealed[b]
  <2>1. /\ Goto(b, "pump", "rel_seal") /\ UNCHANGED <<pending, length, nextSeq>>
        /\ owed' = [owed EXCEPT ![b]["pump"] = InHand(b)]
    BY <1>2 DEF AppendChunk, nodeVars
  <2>2. /\ owed'[b]["pump"] = InHand(b)
        /\ \A x \in Buffers, q \in Roles :
              ~(x = b /\ q = "pump") => owed'[x][q] = owed[x][q]
    <3>1. owed'[b]["pump"] = InHand(b)
      BY <1>1, <2>1 DEF TypeOK
    <3>2. \A x \in Buffers, q \in Roles : ~(x = b /\ q = "pump") => owed'[x][q] = owed[x][q]
      BY <1>1, <2>1, OwedSet
    <3>3. QED
      BY <3>1, <3>2
  <2>3. /\ \A x \in Buffers, q \in Roles :
              pc'[x][q] = IF x = b /\ q = "pump" THEN "rel_seal" ELSE pc[x][q]
        /\ "rel_seal" \in DOMAIN AfterRelease /\ pc[b]["pump"] \notin DOMAIN AfterRelease
    BY <1>1, <2>1, GotoAll DEF AfterRelease
  <2>4. owed[b]["pump"] = {}
    BY <1>1, <2>3, NothingOwed DEF BudgetInv
  <2>5. \A x \in Buffers : \A s : Gone(x, s)' <=> Gone(x, s)
    BY <2>1 DEF Gone
  <2>6. \A x : x \in InHand(b) <=>
                  x \in AllBytes /\ x[1][1] = b /\ x[1][2] = 0 /\ x[2] <= pump[b].size
    BY HandIn
  <2>7. ASSUME NEW x \in InHand(b), NEW e \in Buffers, NEW p \in Roles, x \in owed[e][p]
        PROVE  FALSE
    <3>1. x[1][2] = 0 /\ x[1][1] = b
      BY <2>6
    <3>2. p = "pump" /\ e = b
      BY <2>7, <3>1, OwedByte DEF BudgetInv
    <3>3. QED
      BY <2>4, <2>7, <3>2
  <2>8. OwedApart'
    <3> SUFFICES ASSUME NEW d \in Buffers, NEW q \in Roles, NEW x \in owed'[d][q]
                 PROVE  /\ pc'[d][q] \in DOMAIN AfterRelease
                        /\ x[1][2] = 0 => q = "pump" /\ x[1][1] = d
                        /\ x[1][2] # 0 => /\ x[1][2] <= nextSeq'[x[1][1]]
                                          /\ Gone(x[1][1], x[1][2])'
                        /\ \A e \in Buffers, p \in Roles : x \in owed'[e][p] => e = d /\ p = q
      BY DEF OwedApart
    <3>1. CASE d = b /\ q = "pump"
      <4>1. x \in InHand(b)
        BY <2>2, <3>1
      <4>2. x[1][2] = 0 /\ x[1][1] = b
        BY <2>6, <4>1
      <4>3. \A e \in Buffers, p \in Roles : x \in owed'[e][p] => e = d /\ p = q
        BY <2>2, <2>7, <3>1, <4>1
      <4>4. QED
        BY <2>3, <3>1, <4>2, <4>3
    <3>2. CASE ~(d = b /\ q = "pump")
      <4>1. x \in owed[d][q] /\ x \in AllBytes
        BY <2>2, <3>2 DEF TypeOK
      <4>2. /\ pc[d][q] \in DOMAIN AfterRelease
            /\ x[1][2] = 0 => q = "pump" /\ x[1][1] = d
            /\ x[1][2] # 0 => /\ x[1][2] <= nextSeq[x[1][1]]
                              /\ Gone(x[1][1], x[1][2])
            /\ \A e \in Buffers, p \in Roles : x \in owed[e][p] => e = d /\ p = q
        BY <4>1, OwedByte DEF BudgetInv
      <4>3. x[1][1] \in Buffers /\ x \notin InHand(b)
        BY <2>7, <4>1, ByteParts
      <4>4. \A e \in Buffers, p \in Roles : x \in owed'[e][p] => e = d /\ p = q
        BY <2>2, <4>2, <4>3
      <4>5. QED
        BY <2>1, <2>3, <2>5, <3>2, <4>2, <4>3, <4>4
    <3>3. QED
      BY <3>1, <3>2
  <2>9. \A x \in AllBytes : (InNode(x)' \/ InReserve(x)' \/ InDebt(x)')
                                <=> (InNode(x) \/ InReserve(x) \/ InDebt(x))
    <3> SUFFICES ASSUME NEW x \in AllBytes
                 PROVE  (InNode(x)' \/ InReserve(x)' \/ InDebt(x)')
                                <=> (InNode(x) \/ InReserve(x) \/ InDebt(x))
      OBVIOUS
    <3>1. x[1][1] \in Buffers
      BY ByteParts
    <3>2. InNode(x)' <=> InNode(x)
      BY <2>1, <2>5, <3>1 DEF InNode
    <3>3. InReserve(x) <=> InReserve(x)' \/ x \in InHand(b)
      BY <1>1, <2>3, <2>6, <3>1 DEF InReserve
    <3>4. InDebt(x)' <=> InDebt(x) \/ x \in InHand(b)
      BY <1>1, <2>2, <2>4 DEF InDebt
    <3>5. QED
      BY <3>2, <3>3, <3>4
  <2>10. BudgetExact'
    BY <1>1, <2>9, SameCharge DEF BudgetInv
  <2>11. QED
    BY <2>8, <2>10 DEF BudgetInv
<1>3. CASE ~closed[b] /\ ~sealed[b]
  <2> DEFINE mask == {c \in Consumers : cons[b][c].active /\ ~BehindGap(cons[b][c])}
             dropped == [c \in Consumers |->
                            IF cons[b][c].active /\ c \notin mask THEN Queued(b, c) ELSE {}]
             paid == Freed(b, Without(b, dropped)) \cup (IF mask = {} THEN InHand(b) ELSE {})
  <2>1. /\ pending' = [pending EXCEPT ![b] =
                          [Without(b, dropped) EXCEPT ![nextSeq[b] + 1] = mask]]
        /\ nextSeq' = [nextSeq EXCEPT ![b] = nextSeq[b] + 1]
        /\ length' = [length EXCEPT ![b][nextSeq[b] + 1] = pump[b].size]
        /\ owed' = [owed EXCEPT ![b]["pump"] = paid]
        /\ GotoRelease(b, "pump", paid, "rel_read")
    BY <1>3 DEF AppendChunk
  <2>2. paid = Freed(b, Without(b, dropped)) \cup (IF mask = {} THEN InHand(b) ELSE {})
    OBVIOUS
  <2> HIDE DEF mask, dropped, paid
  <2>3. QED
    BY <1>1, <2>1, <2>2, AppendOpenBudget
<1>4. QED
  BY <1>2, <1>3

\* dropIncomingLocked turns what the consumers had queued into a debt.
LEMMA DropIncomingBudget ==
    ASSUME TypeOK, TypeOK', CapacityInv, BudgetInv, NEW b \in Buffers,
           pc[b]["pump"] \in {"local", "refused"}, DropIncoming(b), UNCHANGED <<budget, pump>>
    PROVE  BudgetInv'
<1> DEFINE dropped == [c \in Consumers |-> IF cons[b][c].active THEN Queued(b, c) ELSE {}]
           seq == nextSeq[b] + 1
<1>1. /\ Reclaim(b, Without(b, dropped), b, "pump", {})
      /\ GotoRelease(b, "pump", Freed(b, Without(b, dropped)), "rel_read")
      /\ nextSeq' = [nextSeq EXCEPT ![b] = seq]
      /\ length' = [length EXCEPT ![b][seq] = pump[b].size]
  BY DEF DropIncoming
<1> HIDE DEF dropped
<1>2. /\ "pump" \in Roles /\ "rel_read" \in DOMAIN AfterRelease
      /\ pc[b]["pump"] \notin (DOMAIN AfterRelease) \cup {"append"}
  BY DEF Roles, AfterRelease
<1>3. \A x \in Buffers : nextSeq[x] \in Nat /\ nextSeq'[x] = IF x = b THEN seq ELSE nextSeq[x]
  BY <1>1 DEF TypeOK
<1>4. \A x \in Buffers : nextSeq'[x] >= nextSeq[x]
  BY <1>3
<1>5. \A x \in Buffers, s \in Seqs : s <= nextSeq[x] => length'[x][s] = length[x][s]
  <2>1. \A x \in Buffers, s \in Seqs : ~(x = b /\ s = seq) => length'[x][s] = length[x][s]
    BY <1>1 DEF TypeOK
  <2>2. \A s \in Seqs : s \in Nat /\ (s <= nextSeq[b] => s # seq)
    BY <1>3 DEF Seqs
  <2>3. QED
    BY <2>1, <2>2
<1>6. Retained
  BY DEF CapacityInv
<1>7. QED
  BY <1>1, <1>2, <1>4, <1>5, <1>6, ReclaimBudget

\* dropOldestLocked turns the oldest nodes of a buffer into a debt of the pump
\* that needs the room, which may be the pump of another buffer.
LEMMA DropOldestBudget ==
    ASSUME TypeOK, TypeOK', CapacityInv, BudgetInv, NEW b \in Buffers, NEW owner \in Buffers,
           NEW n, NEW label \in DOMAIN AfterRelease,
           pc[owner]["pump"] \in {"local", "evict"}, DropOldest(b, n, owner),
           GotoRelease(owner, "pump", Freed(b, Without(b, DropOldestSets(b, n))), label),
           UNCHANGED <<length, nextSeq, budget>>,
           \A y \in Buffers : pump'[y].size = pump[y].size
    PROVE  BudgetInv'
<1>1. Reclaim(b, Without(b, DropOldestSets(b, n)), owner, "pump", {})
  BY DEF DropOldest
<1>2. /\ "pump" \in Roles
      /\ pc[owner]["pump"] \notin (DOMAIN AfterRelease) \cup {"append"}
  BY DEF Roles, AfterRelease
<1>3. \A x \in Buffers : nextSeq[x] \in Nat /\ nextSeq'[x] >= nextSeq[x]
  BY DEF TypeOK
<1>4. \A x \in Buffers, s \in Seqs : s <= nextSeq[x] => length'[x][s] = length[x][s]
  OBVIOUS
<1>5. Retained
  BY DEF CapacityInv
<1> DEFINE dropped == DropOldestSets(b, n)
<1> HIDE DEF dropped
<1>6. QED
  BY <1>1, <1>2, <1>3, <1>4, <1>5, ReclaimBudget

\* Every step of the pump keeps the budget exact.
LEMMA PumpStepBudget ==
    ASSUME TypeOK, TypeOK', CapacityInv, BudgetInv, NEW b \in Buffers,
           PumpStep(b) \/ PumpRead(b) \/ PumpEOF(b)
    PROVE  BudgetInv'
<1>1. /\ "pump" \in Roles
      /\ \A l \in {"read", "local", "accept", "reserve", "evict", "refused", "seal", "wake_sealed"} :
            l \notin (DOMAIN AfterRelease) \cup {"append"}
  BY DEF Roles, AfterRelease
<1>2. ASSUME NEW from \in {"read", "local", "accept", "reserve", "evict", "refused", "seal",
                           "wake_sealed"},
             NEW label, label # "append", pc[b]["pump"] = from, Goto(b, "pump", label),
             UNCHANGED <<pending, length, nextSeq, owed>>,
             budget'.resident = budget.resident,
             \A y \in Buffers : pc[y]["pump"] = "append" => pump'[y].size = pump[y].size
      PROVE  BudgetInv'
  BY <1>1, <1>2, QuietBudget
<1>3. CASE PumpRead(b)
  <2>1. /\ pc[b]["pump"] = "read" /\ Goto(b, "pump", "local")
        /\ UNCHANGED <<pending, length, nextSeq, owed, budget>>
    BY <1>3 DEF PumpRead, At, nodeVars
  <2>2. \A y \in Buffers : pc[y]["pump"] = "append" => pump'[y].size = pump[y].size
    BY <1>3, <2>1 DEF PumpRead, TypeOK
  <2>3. QED
    BY <1>2, <2>1, <2>2
<1>4. CASE PumpEOF(b)
  BY <1>2, <1>4 DEF PumpEOF, At, nodeVars
<1>5. CASE WriteLocal(b)
  <2>1. pc[b]["pump"] = "local" /\ UNCHANGED <<budget, pump>>
    BY <1>5 DEF WriteLocal, At
  <2>2. CASE UNCHANGED <<nodeVars, pc, owed>>
    BY <1>1, <2>1, <2>2, QuietBudget DEF nodeVars
  <2>3. CASE /\ Goto(b, "pump", "accept") \/ Goto(b, "pump", "seal") \/ Goto(b, "pump", "read")
             /\ UNCHANGED <<nodeVars, owed, asleep>>
    BY <1>2, <2>1, <2>3 DEF nodeVars
  <2>4. CASE DropIncoming(b)
    BY <2>1, <2>4, DropIncomingBudget
  <2> DEFINE freed == Freed(b, Without(b, DropOldestSets(b, pump[b].size)))
  <2>5. CASE /\ freed # {} /\ DropOldest(b, pump[b].size, b) /\ Goto(b, "pump", "rel_local")
             /\ UNCHANGED <<length, nextSeq, asleep>>
    <3>1. GotoRelease(b, "pump", freed, "rel_local") /\ "rel_local" \in DOMAIN AfterRelease
      BY <2>5 DEF GotoRelease, AfterRelease
    <3>2. QED
      BY <2>1, <2>5, <3>1, DropOldestBudget
  <2>6. QED
    BY <1>5, <2>2, <2>3, <2>4, <2>5 DEF WriteLocal
<1>6. CASE ReserveCheck(b)
  BY <1>2, <1>6 DEF ReserveCheck, At, nodeVars
<1>7. CASE Reserve(b)
  <2>1. /\ pc[b]["pump"] = "reserve" /\ UNCHANGED <<pending, length, nextSeq, owed>>
    BY <1>7 DEF Reserve, At, nodeVars
  <2>2. \A x \in Buffers : pump'[x].size = pump[x].size
    <3>1. CASE UNCHANGED pump
      BY <3>1
    <3>2. CASE pump' = [pump EXCEPT
                   ![b].candidates = budget.buffers \cap DropBuffers,
                   ![b].remaining = budget.resident + pump[b].size - MaxBytes]
      BY <3>2 DEF TypeOK, PumpStates
    <3>3. QED
      BY <1>7, <3>1, <3>2 DEF Reserve
  <2>3. CASE /\ Goto(b, "pump", "refused") \/ Goto(b, "pump", "accept") \/ Goto(b, "pump", "evict")
             /\ UNCHANGED budget
    BY <1>2, <2>1, <2>2, <2>3
  <2>4. CASE /\ Fits(b) /\ Goto(b, "pump", "append")
             /\ budget' = [budget EXCEPT !.resident = @ + pump[b].size]
    <3>1. budget'.resident = budget.resident + pump[b].size
      BY <2>4 DEF TypeOK, BudgetStates
    <3>2. QED
      BY <2>1, <2>2, <2>4, <3>1, ReserveBudget
  <2>5. QED
    BY <1>7, <2>3, <2>4 DEF Reserve
<1>8. CASE Evict(b)
  <2>1. PICK d \in pump[b].candidates :
            LET freed == Freed(d, Without(d, DropOldestSets(d, pump[b].remaining)))
                rest == pump[b].remaining - Cardinality(freed)
            IN  /\ DropOldest(d, pump[b].remaining, b)
                /\ pump' = [pump EXCEPT
                       ![b].candidates = IF rest <= 0 THEN {} ELSE @ \ {d},
                       ![b].remaining = rest]
                /\ GotoRelease(b, "pump", freed, "rel_evict")
    BY <1>8 DEF Evict
  <2>2. d \in Buffers
    <3>1. pump[b].candidates \in SUBSET DropBuffers
      BY PumpNumbers DEF PumpStates
    <3>2. QED
      BY <3>1, ConstantsAssumption
  <2>3. \A x \in Buffers : pump'[x].size = pump[x].size
    BY <2>1 DEF TypeOK, PumpStates
  <2>4. /\ pc[b]["pump"] = "evict" /\ UNCHANGED <<length, nextSeq, budget>>
        /\ "rel_evict" \in DOMAIN AfterRelease
    BY <1>8 DEF Evict, At, AfterRelease
  <2>5. /\ DropOldest(d, pump[b].remaining, b)
        /\ GotoRelease(b, "pump", Freed(d, Without(d, DropOldestSets(d, pump[b].remaining))),
                       "rel_evict")
    BY <2>1
  <2>6. QED
    BY <2>2, <2>3, <2>4, <2>5, DropOldestBudget
<1>9. CASE ReserveRetry(b)
  <2>1. /\ pc[b]["pump"] = "evict" /\ UNCHANGED <<pending, length, nextSeq, owed>>
    BY <1>9 DEF ReserveRetry, At, nodeVars
  <2>2. \A x \in Buffers : pump'[x].size = pump[x].size
    BY <1>9 DEF ReserveRetry, TypeOK, PumpStates
  <2>3. CASE Goto(b, "pump", "refused") /\ UNCHANGED budget
    BY <1>2, <2>1, <2>2, <2>3
  <2>4. CASE /\ Fits(b) /\ Goto(b, "pump", "append")
             /\ budget' = [budget EXCEPT !.resident = @ + pump[b].size]
    <3>1. budget'.resident = budget.resident + pump[b].size
      BY <2>4 DEF TypeOK, BudgetStates
    <3>2. QED
      BY <2>1, <2>2, <2>4, <3>1, ReserveBudget
  <2>5. QED
    BY <1>9, <2>3, <2>4 DEF ReserveRetry
<1>10. CASE WriteRefused(b)
  <2>1. pc[b]["pump"] = "refused" /\ UNCHANGED <<budget, pump>>
    BY <1>10 DEF WriteRefused, At
  <2>2. CASE Goto(b, "pump", "seal") /\ UNCHANGED <<nodeVars, owed, asleep>>
    BY <1>2, <2>1, <2>2 DEF nodeVars
  <2>3. CASE DropIncoming(b)
    BY <2>1, <2>3, DropIncomingBudget
  <2>4. QED
    BY <1>10, <2>2, <2>3 DEF WriteRefused
<1>11. CASE AppendChunk(b)
  BY <1>11, AppendBudget
<1>12. CASE Seal(b) \/ SealWake(b)
  BY <1>2, <1>12 DEF Seal, SealWake, At, nodeVars
<1>13. QED
  BY <1>3, <1>4, <1>5, <1>6, <1>7, <1>8, <1>9, <1>10, <1>11, <1>12 DEF PumpStep, PumpClosed

\* A section of a consumer or of a caller of Close that gives nodes up.
LEMMA GivenUpBudget ==
    ASSUME TypeOK, TypeOK', CapacityInv, BudgetInv, NEW b \in Buffers, NEW r \in Roles,
           NEW dropped, NEW label \in DOMAIN AfterRelease,
           pc[b][r] \in {"close", "ingest", "gap"},
           Reclaim(b, Without(b, dropped), b, r, {}),
           GotoRelease(b, r, Freed(b, Without(b, dropped)), label),
           UNCHANGED <<length, nextSeq, budget, pump>>
    PROVE  BudgetInv'
<1>1. pc[b][r] \notin (DOMAIN AfterRelease) \cup {"append"}
  BY DEF AfterRelease
<1>2. \A x \in Buffers : nextSeq[x] \in Nat /\ nextSeq'[x] >= nextSeq[x]
  BY DEF TypeOK
<1>3. \A x \in Buffers, s \in Seqs : s <= nextSeq[x] => length'[x][s] = length[x][s]
  OBVIOUS
<1>4. Retained
  BY DEF CapacityInv
<1>5. QED
  BY <1>1, <1>2, <1>3, <1>4, ReclaimBudget

\* Close, Unregister and Wait, called by the pump or by the abort.
LEMMA CloserStepBudget ==
    ASSUME TypeOK, TypeOK', CapacityInv, BudgetInv, NEW b \in Buffers, NEW r \in Closers,
           CloserStep(b, r)
    PROVE  BudgetInv'
<1>1. /\ r \in Roles /\ AfterClose[r] # "append" /\ AfterWait[r] # "append"
      /\ \A l \in {"close", "unregister", "wait"} : l \notin (DOMAIN AfterRelease) \cup {"append"}
      /\ "rel_unreg" \in DOMAIN AfterRelease
  BY DEF Closers, Roles, AfterClose, AfterWait, AfterRelease
<1>2. ASSUME NEW from \in {"close", "unregister", "wait"},
             NEW label, label # "append", pc[b][r] = from, Goto(b, r, label),
             UNCHANGED <<pending, length, nextSeq, owed, pump>>,
             budget'.resident = budget.resident
      PROVE  BudgetInv'
  BY <1>1, <1>2, QuietBudget
<1>3. CASE Close(b, r)
  <2>1. pc[b][r] = "close" /\ UNCHANGED <<budget, pump>>
    BY <1>3 DEF Close
  <2>2. CASE closed[b]
    BY <1>1, <1>2, <1>3, <2>1, <2>2 DEF Close, nodeVars
  <2>3. CASE ~closed[b]
    <3> DEFINE dropped == [c \in Consumers |-> IF cons[b][c].active THEN Queued(b, c) ELSE {}]
    <3>1. /\ Reclaim(b, Without(b, dropped), b, r, {})
          /\ GotoRelease(b, r, Freed(b, Without(b, dropped)), "rel_unreg")
          /\ UNCHANGED <<length, nextSeq>>
      BY <1>3, <2>3 DEF Close
    <3> HIDE DEF dropped
    <3>2. QED
      BY <1>1, <2>1, <3>1, GivenUpBudget
  <2>4. QED
    BY <2>2, <2>3
<1>4. CASE Unregister(b, r)
  <2>1. budget'.resident = budget.resident
    BY <1>4 DEF Unregister, TypeOK, BudgetStates
  <2>2. QED
    BY <1>1, <1>2, <1>4, <2>1 DEF Unregister, nodeVars
<1>5. CASE Wait(b, r)
  BY <1>1, <1>2, <1>5 DEF Wait, nodeVars
<1>6. QED
  BY <1>3, <1>4, <1>5 DEF CloserStep

\* The consumers, Flush and the start of an abort.
LEMMA OthersBudget ==
    ASSUME TypeOK, TypeOK', CapacityInv, BudgetInv, NEW b \in Buffers, NEW c \in Consumers,
           \/ ConsumerStep(b, c) \/ FlushWoken(b) \/ FlushStart(b) \/ FlushCancel(b)
           \/ AbortStart(b)
    PROVE  BudgetInv'
<1>1. /\ c \in Roles /\ "abort" \in Roles /\ "flush" \in Roles
      /\ \A l \in {"idle", "check", "new", "next", "wake", "failed", "exited"} :
            l \notin (DOMAIN AfterRelease) \cup {"append"}
      /\ {"rel_next", "rel_wake"} \subseteq DOMAIN AfterRelease
  BY DEF Roles, Consumers, AfterRelease
<1>2. ASSUME NEW r \in Roles,
             \/ UNCHANGED pc
             \/ /\ pc[b][r] \in {"idle", "check", "new", "next", "wake", "failed", "exited"}
                /\ \E label : label # "append" /\ Goto(b, r, label),
             UNCHANGED <<pending, length, nextSeq, owed, pump, budget>>
      PROVE  BudgetInv'
  BY <1>1, <1>2, QuietBudget
<1>3. ASSUME NEW nodes, NEW label \in DOMAIN AfterRelease, GiveUp(b, c, nodes, label),
             pc[b][c] \in {"ingest", "gap"}
      PROVE  BudgetInv'
  <2> DEFINE dropped == [d \in Consumers |-> IF d = c THEN nodes ELSE {}]
  <2>1. /\ Reclaim(b, Without(b, dropped), b, c, {})
        /\ GotoRelease(b, c, Freed(b, Without(b, dropped)), label)
        /\ UNCHANGED <<length, nextSeq, budget, pump>>
    BY <1>3 DEF GiveUp
  <2> HIDE DEF dropped
  <2>2. QED
    BY <1>1, <1>3, <2>1, GivenUpBudget
<1>4. CASE Run(b, c) \/ NextBatch(b, c) \/ FailureWake(b, c) \/ FailureHandled(b, c)
  BY <1>1, <1>2, <1>4 DEF Run, NextBatch, FailureWake, FailureHandled, At, nodeVars
<1>5. CASE CompleteBatch(b, c)
  BY <1>1, <1>3, <1>5 DEF CompleteBatch, At
<1>6. CASE CompleteGap(b, c)
  BY <1>1, <1>3, <1>6 DEF CompleteGap, At
<1>7. CASE FlushWoken(b) \/ FlushStart(b) \/ FlushCancel(b)
  BY <1>1, <1>2, <1>7 DEF FlushWoken, FlushStart, FlushCancel, FlushPass, At, nodeVars
<1>8. CASE AbortStart(b)
  BY <1>1, <1>2, <1>8 DEF AbortStart, nodeVars
<1>9. QED
  BY <1>4, <1>5, <1>6, <1>7, <1>8 DEF ConsumerStep

\* Every step keeps the budget exact.
LEMMA BudgetStep ==
    TypeOK /\ TypeOK' /\ CapacityInv /\ BudgetInv /\ [Next]_vars => BudgetInv'
<1> SUFFICES ASSUME TypeOK, TypeOK', CapacityInv, BudgetInv, [Next]_vars PROVE BudgetInv'
  OBVIOUS
<1>1. ASSUME NEW b \in Buffers, Environment(b) PROVE BudgetInv'
  BY <1>1, PumpStepBudget, OthersBudget DEF Environment, Consumers
<1>2. CASE UNCHANGED vars
  BY SMTT(30), <1>2 DEF vars, BudgetInv, OwedApart, Gone, BudgetExact, Charged, BytesOf, Nodes, InHand
<1>3. CASE BudgetClose
  <2>1. /\ UNCHANGED <<pending, length, nextSeq, owed, pump, pc>>
        /\ budget'.resident = budget.resident
    BY <1>3 DEF BudgetClose, nodeVars, TypeOK, BudgetStates
  <2>2. BudgetExact'
    BY <2>1 DEF BudgetInv, BudgetExact, Charged, BytesOf, Nodes, InHand
  <2>3. OwedApart'
    BY <2>1 DEF BudgetInv, OwedApart, Gone
  <2>4. QED
    BY <2>2, <2>3 DEF BudgetInv
<1>4. QED
  BY <1>1, <1>2, <1>3, PumpStepBudget, OthersBudget, CloserStepBudget, ReleaseBudget
     DEF Next, Consumers

\* At the start nothing is charged.
LEMMA InitBudget == Init => BudgetInv
<1> SUFFICES ASSUME Init PROVE BudgetInv
  OBVIOUS
<1>1. OwedApart
  BY DEF Init, OwedApart
<1>2. \A x : x \notin Charged
  <2>1. TypeOK
    BY InitType
  <2>2. ASSUME NEW x \in AllBytes PROVE ~InNode(x) /\ ~InReserve(x) /\ ~InDebt(x)
    <3>1. x[1][1] \in Buffers /\ (x[1][2] # 0 <=> x[1][2] \in Seqs)
      BY ByteParts
    <3>2. QED
      BY <3>1 DEF Init, InNode, Gone, InReserve, InDebt, Roles, Consumers
  <2>3. QED
    BY <2>1, <2>2, ChargedIn DEF ByteByByte
<1>3. Charged = {}
  BY <1>2
<1>4. BudgetExact
  BY <1>3, FS_EmptySet, ConstantsAssumption DEF Init, BudgetExact
<1>5. QED
  BY <1>1, <1>4 DEF BudgetInv

-----------------------------------------------------------------------------

\* The budget of the daemon is exact and a hard limit: whatever the writers,
\* evictions, consumers, closes and failures of all its buffers do, the counter
\* is at every moment the number of bytes that are retained, reserved or about
\* to be released, and no more than the maximum (terminalOutputResidentBudget).
THEOREM BudgetCorrect == Spec => []BudgetExact
<1>1. Init => TypeOK /\ CapacityInv /\ BudgetInv
  BY InitType, InitCapacity, InitBudget
<1>2. TypeOK /\ CapacityInv /\ BudgetInv /\ [Next]_vars => TypeOK' /\ CapacityInv' /\ BudgetInv'
  BY TypeStep, CapacityStep, BudgetStep DEF CapacityInv
<1>3. BudgetInv => BudgetExact
  BY DEF BudgetInv
<1>4. QED
  BY <1>1, <1>2, <1>3, PTL DEF Spec

=============================================================================
