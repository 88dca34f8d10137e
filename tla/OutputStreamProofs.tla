------------------------- MODULE OutputStreamProofs -------------------------
(***************************************************************************)
(* Theorems about the stream that a terminal output buffer presents to its *)
(* consumers, for every set of buffers, every mix of policies, every       *)
(* capacity, budget and chunk size: no hole, no duplicate, exact gaps, no  *)
(* lost wake-up, and the refinement of OutputStream.                       *)
(***************************************************************************)
EXTENDS TerminalOutputBufferProofs

-----------------------------------------------------------------------------
(* The inductive invariant.                                                *)

\* The sequence numbers a consumer still has to be given or is ingesting.
Mine(b, c) == {s \in Seqs : c \in pending[b][s]}

\* The bytes of the sequence numbers S under the lengths in row, and how many
\* bytes there are behind lo, up to hi.
RowBytes(row, b, S) ==
    {x \in ({b} \X S) \X (1 .. ChunkBytes) : x[2] <= row[x[1][2]]}

Weight(row, b, lo, hi) == Cardinality(RowBytes(row, b, (lo + 1) .. hi))

\* A batch in flight starts behind what is accounted for, and so does a gap in
\* flight, which says how many bytes it covers; there is never one and the other.
HandOK(st, row, b) ==
    /\ st.first # 0 => /\ st.first = st.completed + 1
                       /\ st.first <= st.last
                       /\ st.flyGapSeq = 0
    /\ st.flyGapSeq # 0 => st.completed < st.flyGapSeq
    /\ st.flyGapBytes = Weight(row, b, st.completed, st.flyGapSeq)

\* The pending gap starts behind what has been handed over, and has its weight.
GapOK(st, row, b) ==
    /\ Handed(st) <= Frontier(st)
    /\ st.gapBytes > 0 => Handed(st) < st.gapSeq
    /\ st.gapBytes = 0 => st.gapSeq = 0
    /\ st.gapBytes = Weight(row, b, Handed(st), Frontier(st))

\* The sequence numbers behind f, up to m.
Stretch(f, m) == (f + 1) .. m

\* Where the cursor stands when all is given up to f of n sequence numbers.
CursorAt(f, n) == IF f = n THEN 0 ELSE f + 1

\* Of n sequence numbers the consumer still has those in flight and, behind the
\* gap, all the others; its cursor stands at the first of these.
QueueOK(st, mine, n) ==
    /\ Frontier(st) <= n
    /\ \A s \in Seqs : s \in mine <=> InFlight(st, s) \/ (Frontier(st) < s /\ s <= n)
    /\ st.first # 0 => st.next \in {0, st.first}
    /\ st.first = 0 => st.next = IF Frontier(st) = n THEN 0 ELSE Frontier(st) + 1

InLine(st, mine, n, row, b) == HandOK(st, row, b) /\ GapOK(st, row, b) /\ QueueOK(st, mine, n)

\* A sequence number that has been assigned stands for at least one byte, so that
\* addGapLocked, which ignores a loss of no bytes, never ignores a chunk.
LengthsOK ==
    \A b \in Buffers, s \in Seqs : s <= nextSeq[b] => length[b][s] \in 1 .. ChunkBytes

Failing == {"rel_wake", "wake", "failed"}

\* Where a consumer's goroutine stands says what it has in hand; it takes part
\* in the buffer (active) until it fails or the buffer is closed.
Phase(at, st, on, shut) ==
    /\ at = "ingest" <=> st.first # 0
    /\ at = "gap" <=> st.flyGapSeq # 0
    /\ st.failed => at \in Failing \cup {"exited"}
    /\ at \in Failing => st.failed
    /\ ~on => at = "exited" /\ ~st.failed
    /\ st.active <=> on /\ ~st.failed /\ ~shut

PhaseOK ==
    \A b \in Buffers, c \in Consumers :
        Phase(pc[b][c], cons[b][c], Enabled(b, c), closed[b])

LineOK ==
    \A b \in Buffers, c \in Consumers :
        Enabled(b, c) /\ ~cons[b][c].failed =>
            InLine(cons[b][c], Mine(b, c), nextSeq[b], length[b], b)

StreamInv == LengthsOK /\ PhaseOK /\ LineOK

-----------------------------------------------------------------------------
(* Weights of stretches of the stream.                                     *)

\* A byte of a stretch, by its two parts.
LEMMA RowByte ==
    ASSUME NEW row, NEW b, NEW S, NEW x
    PROVE  x \in RowBytes(row, b, S) <=>
              \E s \in S, i \in 1 .. ChunkBytes : x = <<<<b, s>>, i>> /\ i <= row[s]
BY DEF RowBytes

\* A stretch has finitely many bytes, and an empty one has none.
LEMMA WeightType ==
    ASSUME NEW row, NEW b, NEW lo \in Nat, NEW hi \in Nat
    PROVE  /\ IsFiniteSet(RowBytes(row, b, (lo + 1) .. hi))
           /\ Weight(row, b, lo, hi) \in Nat
           /\ hi <= lo => Weight(row, b, lo, hi) = 0
<1> DEFINE S == (lo + 1) .. hi
           all == ({b} \X S) \X (1 .. ChunkBytes)
<1>1. IsFiniteSet(S) /\ IsFiniteSet({b}) /\ IsFiniteSet(1 .. ChunkBytes)
  <2>1. lo + 1 \in Int /\ hi \in Int /\ 1 \in Int /\ ChunkBytes \in Int
    BY ConstantsAssumption
  <2>2. IsFiniteSet({b})
    BY FS_Singleton
  <2>3. QED
    BY <2>1, <2>2, FS_Interval
<1>2. IsFiniteSet({b} \X S)
  BY <1>1, FS_Product
<1>3. IsFiniteSet(all)
  BY <1>1, <1>2, FS_Product
<1>4. RowBytes(row, b, S) \in SUBSET all
  BY DEF RowBytes
<1>5. IsFiniteSet(RowBytes(row, b, S)) /\ Cardinality(RowBytes(row, b, S)) \in Nat
  BY <1>3, <1>4, FS_Subset, FS_CardinalityType
<1>6. ASSUME hi <= lo PROVE Cardinality(RowBytes(row, b, S)) = 0
  <2>1. S = {}
    BY <1>6
  <2>2. RowBytes(row, b, S) = {}
    BY <2>1 DEF RowBytes
  <2>3. QED
    BY <2>2, FS_EmptySet
<1>7. QED
  BY <1>5, <1>6 DEF Weight

\* The weights of adjacent stretches add up: a gap that grows counts every byte
\* once.
LEMMA WeightSum ==
    ASSUME NEW row, NEW b, NEW lo \in Nat, NEW mid \in Nat, NEW hi \in Nat,
           lo <= mid, mid <= hi
    PROVE  Weight(row, b, lo, hi) = Weight(row, b, lo, mid) + Weight(row, b, mid, hi)
<1> DEFINE A == RowBytes(row, b, (lo + 1) .. mid)
           B == RowBytes(row, b, (mid + 1) .. hi)
           C == RowBytes(row, b, (lo + 1) .. hi)
<1>1. \A s : s \in (lo + 1) .. hi <=> s \in (lo + 1) .. mid \/ s \in (mid + 1) .. hi
  OBVIOUS
<1>2. \A s : ~(s \in (lo + 1) .. mid /\ s \in (mid + 1) .. hi)
  OBVIOUS
<1>3. C = A \cup B
  <2>1. \A x : x \in C <=> x \in A \/ x \in B
    BY <1>1 DEF RowBytes
  <2> HIDE DEF A, B, C
  <2>2. QED
    BY <2>1
<1>4. A \cap B = {}
  <2>1. SUFFICES ASSUME NEW x, x \in A, x \in B PROVE FALSE
    OBVIOUS
  <2>2. x[1][2] \in (lo + 1) .. mid /\ x[1][2] \in (mid + 1) .. hi
    BY <2>1 DEF RowBytes
  <2>3. QED
    BY <2>2, <1>2, Zenon
<1>5. IsFiniteSet(A) /\ IsFiniteSet(B)
  BY WeightType
<1> HIDE DEF A, B, C
<1>6. Cardinality(C) = Cardinality(A) + Cardinality(B) - Cardinality(A \cap B)
  BY <1>3, <1>5, FS_Union
<1>7. Cardinality(A \cap B) = 0 /\ Cardinality(A) \in Nat /\ Cardinality(B) \in Nat
  BY <1>4, <1>5, FS_EmptySet, FS_CardinalityType
<1>8. QED
  BY <1>6, <1>7 DEF A, B, C, Weight

\* The weight of one sequence number is its length.
LEMMA WeightOne ==
    ASSUME NEW row, NEW b, NEW lo \in Nat, row[lo + 1] \in 1 .. ChunkBytes
    PROVE  Weight(row, b, lo, lo + 1) = row[lo + 1]
<1> DEFINE n == row[lo + 1]
<1>1. (lo + 1) .. (lo + 1) = {lo + 1}
  OBVIOUS
<1>2. RowBytes(row, b, {lo + 1}) = ChunkOf(b, lo + 1, n)
  <2>1. ASSUME NEW x, x \in RowBytes(row, b, {lo + 1}) PROVE x \in ChunkOf(b, lo + 1, n)
    <3>1. PICK s \in {lo + 1}, i \in 1 .. ChunkBytes : x = <<<<b, s>>, i>> /\ i <= row[s]
      BY <2>1, RowByte
    <3>2. s = lo + 1 /\ i \in 1 .. n
      BY <3>1
    <3>3. QED
      BY <3>1, <3>2 DEF ChunkOf
  <2>2. ASSUME NEW x, x \in ChunkOf(b, lo + 1, n) PROVE x \in RowBytes(row, b, {lo + 1})
    <3>1. PICK i \in 1 .. n : x = <<<<b, lo + 1>>, i>>
      BY <2>2 DEF ChunkOf
    <3>2. i \in 1 .. ChunkBytes /\ i <= row[lo + 1] /\ lo + 1 \in {lo + 1}
      BY <3>1, ConstantsAssumption
    <3>3. QED
      BY <3>1, <3>2, RowByte
  <2>3. QED
    BY <2>1, <2>2
<1>3. n \in Nat
  BY ConstantsAssumption
<1>4. QED
  BY <1>1, <1>2, <1>3, ChunkCardinality DEF Weight

\* A stretch whose last sequence number has a byte is not empty.
LEMMA WeightPositive ==
    ASSUME NEW row, NEW b, NEW lo \in Nat, NEW hi \in Nat, lo < hi,
           row[hi] \in 1 .. ChunkBytes
    PROVE  Weight(row, b, lo, hi) > 0
<1>1. PICK k \in Nat : hi = k + 1
  <2>1. hi - 1 \in Nat /\ hi = (hi - 1) + 1
    OBVIOUS
  <2>2. QED
    BY <2>1
<1>2. Weight(row, b, lo, hi) = Weight(row, b, lo, k) + Weight(row, b, k, hi)
  BY <1>1, WeightSum
<1>3. Weight(row, b, k, hi) = row[hi]
  BY <1>1, WeightOne
<1>4. Weight(row, b, lo, k) \in Nat
  BY WeightType
<1>5. QED
  BY <1>2, <1>3, <1>4

\* Only the lengths of the stretch matter.
LEMMA WeightSame ==
    ASSUME NEW row, NEW row2, NEW b, NEW lo \in Nat, NEW hi \in Nat,
           \A s \in (lo + 1) .. hi : row2[s] = row[s]
    PROVE  Weight(row2, b, lo, hi) = Weight(row, b, lo, hi)
<1>1. RowBytes(row2, b, (lo + 1) .. hi) = RowBytes(row, b, (lo + 1) .. hi)
  <2>1. \A x : x \in RowBytes(row2, b, (lo + 1) .. hi) <=> x \in RowBytes(row, b, (lo + 1) .. hi)
    BY DEF RowBytes
  <2>2. QED
    BY <2>1
<1>2. QED
  BY <1>1 DEF Weight

-----------------------------------------------------------------------------
(* What each operation does to the line of one consumer.                   *)

\* The numbers in a consumer state.
LEMMA StateNumbers ==
    ASSUME NEW st \in ConsumerStates
    PROVE  /\ st.completed \in 0 .. MaxSeq
           /\ st.first \in 0 .. MaxSeq
           /\ st.last \in 0 .. MaxSeq
           /\ st.next \in 0 .. MaxSeq
           /\ st.flyGapSeq \in 0 .. MaxSeq
           /\ st.gapSeq \in 0 .. MaxSeq
           /\ st.gapBytes \in Nat
           /\ st.flyGapBytes \in Nat
           /\ Handed(st) \in 0 .. MaxSeq
           /\ Frontier(st) \in 0 .. MaxSeq
BY ConstantsAssumption DEF ConsumerStates, Handed, Frontier

\* The same batch and the same gap in flight.
SameHand(st2, st) ==
    /\ st2.completed = st.completed
    /\ st2.first = st.first
    /\ st2.last = st.last
    /\ st2.flyGapSeq = st.flyGapSeq
    /\ st2.flyGapBytes = st.flyGapBytes

\* The same standing towards the buffer.
SameStanding(st2, st) ==
    /\ st2.active = st.active
    /\ st2.done = st.done
    /\ st2.failed = st.failed
    /\ st2.failurePending = st.failurePending

\* Every consumer keeps what it has in hand, and its goroutine stands where it stood.
HandsKept ==
    \A x \in Buffers, c \in Consumers :
        /\ SameHand(cons'[x][c], cons[x][c])
        /\ cons'[x][c].failed = cons[x][c].failed
        /\ pc'[x][c] = pc[x][c]

\* What depends on the hand alone.
LEMMA SameHanded ==
    ASSUME NEW st, NEW st2, SameHand(st2, st)
    PROVE  /\ Handed(st2) = Handed(st)
           /\ \A s : InFlight(st2, s) <=> InFlight(st, s)
           /\ \A row, b : HandOK(st, row, b) => HandOK(st2, row, b)
BY DEF SameHand, Handed, InFlight, HandOK

\* A consumer state is determined, as far as its line goes, by its hand, its gap
\* and its cursor.
LEMMA SameLine ==
    ASSUME NEW st, NEW st2, SameHand(st2, st), st2.gapBytes = st.gapBytes,
           st2.gapSeq = st.gapSeq, st2.next = st.next,
           NEW mine, NEW n, NEW row, NEW b, InLine(st, mine, n, row, b)
    PROVE  InLine(st2, mine, n, row, b)
<1>1. Handed(st2) = Handed(st) /\ Frontier(st2) = Frontier(st) /\ st2.first = st.first
  BY SameHanded DEF Frontier, SameHand
<1>2. HandOK(st2, row, b)
  BY SameHanded DEF InLine
<1>3. GapOK(st2, row, b)
  BY <1>1 DEF InLine, GapOK
<1>4. QueueOK(st2, mine, n)
  BY <1>1, SameHanded DEF InLine, QueueOK
<1>5. QED
  BY <1>2, <1>3, <1>4 DEF InLine

\* addGapLocked changes the gap and nothing else.
LEMMA AddGapFields ==
    ASSUME NEW st \in ConsumerStates, NEW through \in 0 .. MaxSeq, NEW bytes \in Nat
    PROVE  LET st2 == AddGap(st, through, bytes)
           IN  /\ SameHand(st2, st)
               /\ SameStanding(st2, st)
               /\ st2.next = st.next
               /\ st2.gapBytes = st.gapBytes + bytes
               /\ st2.gapSeq = IF bytes = 0 THEN st.gapSeq ELSE Larger(st.gapSeq, through)
               /\ st2 \in ConsumerStates
<1>1. CASE bytes = 0
  BY <1>1, StateNumbers DEF AddGap, SameHand, SameStanding
<1>2. CASE bytes # 0
  BY <1>2, AddGapType DEF AddGap, SameHand, SameStanding, ConsumerStates
<1>3. QED
  BY <1>1, <1>2

\* A gap that takes in the stretch up to m ends at m and has the weight of both.
LEMMA GapGrows ==
    ASSUME NEW st \in ConsumerStates, NEW row, NEW b, GapOK(st, row, b),
           NEW m \in 0 .. MaxSeq, Frontier(st) <= m,
           Frontier(st) < m => row[m] \in 1 .. ChunkBytes,
           NEW through \in 0 .. MaxSeq, Frontier(st) < m => through = m
    PROVE  LET st2 == AddGap(st, through, Weight(row, b, Frontier(st), m))
           IN  /\ SameHand(st2, st)
               /\ SameStanding(st2, st)
               /\ st2.next = st.next
               /\ st2 \in ConsumerStates
               /\ GapOK(st2, row, b)
               /\ Frontier(st2) = m
<1> DEFINE H == Handed(st)
           F == Frontier(st)
           w == Weight(row, b, F, m)
           st2 == AddGap(st, through, w)
<1>1. H \in Nat /\ F \in Nat /\ m \in Nat /\ st.gapSeq \in Nat /\ st.gapBytes \in Nat
  BY StateNumbers, ConstantsAssumption
<1>2. w \in Nat /\ (F = m => w = 0) /\ (F < m => w > 0)
  BY <1>1, WeightType, WeightPositive
<1>3. /\ SameHand(st2, st)
      /\ SameStanding(st2, st)
      /\ st2.next = st.next
      /\ st2.gapBytes = st.gapBytes + w
      /\ st2.gapSeq = IF w = 0 THEN st.gapSeq ELSE Larger(st.gapSeq, through)
      /\ st2 \in ConsumerStates
  BY <1>2, AddGapFields
<1>4. Handed(st2) = H
  BY <1>3, SameHanded
<1>5. Weight(row, b, H, m) = Weight(row, b, H, F) + w
  BY <1>1, WeightSum DEF GapOK
<1>6. st.gapBytes = Weight(row, b, H, F) /\ H <= F
  BY DEF GapOK
<1>7. st2.gapBytes = Weight(row, b, H, m)
  BY <1>3, <1>5, <1>6
<1>8. CASE F = m
  <2>1. st2.gapBytes = st.gapBytes /\ st2.gapSeq = st.gapSeq
    BY <1>1, <1>2, <1>3, <1>8
  <2>2. Frontier(st2) = F
    BY <2>1, <1>4 DEF Frontier
  <2>3. GapOK(st2, row, b)
    BY <2>1, <2>2, <1>4 DEF GapOK
  <2> HIDE DEF st2, F
  <2>4. QED
    BY <2>2, <2>3, <1>3, <1>8 DEF st2, F
<1>9. CASE F < m
  <2>1. st2.gapBytes > 0 /\ st2.gapSeq = Larger(st.gapSeq, m)
    BY <1>1, <1>2, <1>3, <1>9
  <2>2. st.gapSeq <= F
    BY <1>1 DEF GapOK, Frontier
  <2>3. st2.gapSeq = m
    BY <2>1, <2>2, <1>1, <1>9 DEF Larger
  <2>4. Frontier(st2) = m
    BY <2>1, <2>3 DEF Frontier
  <2>5. GapOK(st2, row, b)
    BY <2>1, <2>3, <2>4, <1>1, <1>4, <1>6, <1>7, <1>9 DEF GapOK
  <2>6. QED
    BY <2>4, <2>5, <1>3
<1>10. QED
  BY <1>1, <1>8, <1>9

\* Of the nodes of a consumer, those behind the frontier are the ones not in flight.
LEMMA QueueBehind ==
    ASSUME NEW st \in ConsumerStates, NEW mine \in SUBSET Seqs, NEW n \in 0 .. MaxSeq,
           NEW row, NEW b, InLine(st, mine, n, row, b)
    PROVE  /\ \A s \in mine : ~InFlight(st, s) <=> Frontier(st) < s
           /\ \A s \in (Frontier(st) + 1) .. n : s \in mine /\ ~InFlight(st, s)
           /\ \A s \in mine : s \in Nat /\ s <= n
<1>1. st.first # 0 => Handed(st) = st.last
  BY DEF Handed
<1>2. \A s \in Seqs : InFlight(st, s) => s <= Handed(st) /\ s <= st.last
  BY <1>1, StateNumbers DEF InFlight, Seqs
<1>3. Handed(st) <= Frontier(st) /\ Frontier(st) <= n
  BY DEF InLine, GapOK, QueueOK
<1>4. Handed(st) \in Nat /\ Frontier(st) \in Nat /\ MaxSeq \in Nat
  BY StateNumbers, ConstantsAssumption
<1>5. \A s \in Seqs : s \in mine <=> InFlight(st, s) \/ (Frontier(st) < s /\ s <= n)
  BY DEF InLine, QueueOK
<1>6. \A s \in Seqs : InFlight(st, s) => s <= Frontier(st)
  BY <1>2, <1>3, <1>4 DEF Seqs
<1>7. (Frontier(st) + 1) .. n \subseteq Seqs
  BY <1>4 DEF Seqs
<1>8. \A s \in mine : s \in Nat /\ s <= n
  BY <1>3, <1>4, <1>5, <1>6 DEF Seqs
<1>9. \A s \in mine : ~InFlight(st, s) <=> Frontier(st) < s
  BY <1>4, <1>5, <1>6 DEF Seqs
<1>10. \A s \in (Frontier(st) + 1) .. n : s \in mine /\ ~InFlight(st, s)
  BY <1>4, <1>5, <1>6, <1>7
<1>11. QED
  BY <1>8, <1>9, <1>10

\* What an overflow takes from the head of the queue is a stretch.
LEMMA DropIsStretch ==
    ASSUME NEW st \in ConsumerStates, NEW mine \in SUBSET Seqs, NEW n \in 0 .. MaxSeq,
           NEW row, NEW b, InLine(st, mine, n, row, b),
           NEW D \in SUBSET mine,
           \A s \in D : ~InFlight(st, s),
           \A s \in D, t \in mine : t < s /\ ~InFlight(st, t) => t \in D
    PROVE  \E m \in 0 .. MaxSeq :
              /\ Frontier(st) <= m
              /\ m <= n
              /\ D = Stretch(Frontier(st), m)
              /\ Frontier(st) < m => Greatest(D) = m
<1> DEFINE F == Frontier(st)
<1>1. F \in 0 .. MaxSeq /\ F <= n /\ MaxSeq \in Nat
  BY StateNumbers, ConstantsAssumption DEF InLine, QueueOK
<1>2. D \in SUBSET Seqs
  OBVIOUS
<1>3. CASE D = {}
  <2>1. D = Stretch(F, F)
    BY <1>1, <1>3 DEF Stretch
  <2>2. QED
    BY <1>1, <2>1
<1>4. CASE D # {}
  <2> DEFINE m == Greatest(D)
  <2>1. m \in D /\ m \in 0 .. MaxSeq /\ \A t \in D : t <= m
    BY <1>2, <1>4, GreatestIn
  <2>7. Greatest(D) = m
    OBVIOUS
  <2> HIDE DEF m
  <2>2. F < m /\ m <= n
    BY <2>1, QueueBehind
  <2>3. \A s \in D : s \in (F + 1) .. m
    <3>1. \A s \in D : s \in Nat /\ F < s
      BY QueueBehind
    <3>2. QED
      BY <3>1, <1>1, <2>1
  <2>4. \A s \in (F + 1) .. m : s \in D
    <3> SUFFICES ASSUME NEW s \in (F + 1) .. m PROVE s \in D
      OBVIOUS
    <3>1. s \in mine /\ ~InFlight(st, s)
      BY <1>1, <2>1, <2>2, QueueBehind
    <3>2. CASE s = m
      BY <3>2, <2>1
    <3>3. CASE s < m
      BY <3>1, <3>3, <2>1
    <3>4. QED
      BY <3>2, <3>3, <2>1
  <2>5. D = Stretch(F, m)
    BY <2>3, <2>4 DEF Stretch
  <2>6. QED
    <3>1. F <= m
      BY <1>1, <2>1, <2>2
    <3>2. QED
      BY <3>1, <2>1, <2>2, <2>5, <2>7
<1>5. QED
  BY <1>3, <1>4

\* A consumer state whose cursor goes to nx and whose nodes D become a gap.
Lost(st, nx, D, row, b) ==
    AddGap([st EXCEPT !.next = nx], Greatest(D), Cardinality(RowBytes(row, b, D)))

\* A consumer in line loses the stretch up to m, keeps rest, and its cursor
\* goes to nx, the head of what is left.
Losing(st, mine, n, row, b, m, D, rest, nx) ==
    /\ st \in ConsumerStates
    /\ mine \in SUBSET Seqs
    /\ n \in 0 .. MaxSeq
    /\ InLine(st, mine, n, row, b)
    /\ \A s \in Seqs : s <= n => row[s] \in 1 .. ChunkBytes
    /\ m \in 0 .. MaxSeq
    /\ Frontier(st) <= m
    /\ m <= n
    /\ D = Stretch(Frontier(st), m)
    /\ Frontier(st) < m => Greatest(D) = m
    /\ rest = mine \ D
    /\ nx \in 0 .. MaxSeq
    /\ st.first # 0 => nx \in {0, st.first}
    /\ st.first = 0 => nx = CursorAt(m, n)

\* Turning the head of the queue into a gap keeps the consumer in line, when the
\* cursor follows.
LEMMA DropKeepsLine ==
    ASSUME NEW st, NEW mine, NEW n, NEW row, NEW b, NEW m, NEW D, NEW rest, NEW nx,
           Losing(st, mine, n, row, b, m, D, rest, nx)
    PROVE  LET st2 == Lost(st, nx, D, row, b)
           IN  /\ InLine(st2, rest, n, row, b)
               /\ SameStanding(st2, st)
               /\ SameHand(st2, st)
               /\ st2 \in ConsumerStates
               /\ Frontier(st2) = m
               /\ st2.next = nx
<1>14. /\ st \in ConsumerStates
       /\ mine \in SUBSET Seqs
       /\ n \in 0 .. MaxSeq
       /\ InLine(st, mine, n, row, b)
       /\ \A s \in Seqs : s <= n => row[s] \in 1 .. ChunkBytes
       /\ m \in 0 .. MaxSeq
       /\ Frontier(st) <= m
       /\ m <= n
       /\ D = Stretch(Frontier(st), m)
       /\ Frontier(st) < m => Greatest(D) = m
       /\ rest = mine \ D
       /\ nx \in 0 .. MaxSeq
       /\ st.first # 0 => nx \in {0, st.first}
       /\ st.first = 0 => nx = CursorAt(m, n)
  BY DEF Losing
<1> USE <1>14
<1> DEFINE st1 == [st EXCEPT !.next = nx]
           F == Frontier(st)
<1>1. /\ st1 \in ConsumerStates
      /\ SameHand(st1, st)
      /\ SameStanding(st1, st)
      /\ st1.next = nx
      /\ st1.gapBytes = st.gapBytes
      /\ st1.gapSeq = st.gapSeq
  BY DEF ConsumerStates, SameHand, SameStanding
<1> HIDE DEF st1
<1>2. Handed(st1) = Handed(st) /\ Frontier(st1) = F
  BY <1>1, SameHanded DEF Frontier
<1>3. GapOK(st1, row, b)
  BY <1>1, <1>2 DEF InLine, GapOK
<1>4. F \in Nat /\ F <= n /\ MaxSeq \in Nat
  BY StateNumbers, ConstantsAssumption DEF InLine, QueueOK
<1>5. D \in SUBSET Seqs
  BY <1>4 DEF Seqs, Stretch
<1>6. Greatest(D) \in 0 .. MaxSeq
  BY <1>5, GreatestIn
<1>7. F < m => row[m] \in 1 .. ChunkBytes
  BY <1>4 DEF Seqs
<1>8. Cardinality(RowBytes(row, b, D)) = Weight(row, b, F, m)
  BY DEF Weight, Stretch
<1> DEFINE st2 == AddGap(st1, Greatest(D), Cardinality(RowBytes(row, b, D)))
<1>9. /\ SameHand(st2, st1)
      /\ SameStanding(st2, st1)
      /\ st2.next = st1.next
      /\ st2 \in ConsumerStates
      /\ GapOK(st2, row, b)
      /\ Frontier(st2) = m
  BY <1>1, <1>2, <1>3, <1>6, <1>7, <1>8, GapGrows
<1> HIDE DEF st2
<1>10. SameHand(st2, st) /\ SameStanding(st2, st) /\ st2.next = nx
  BY <1>1, <1>9 DEF SameHand, SameStanding
<1>11. HandOK(st2, row, b)
  BY <1>10, SameHanded DEF InLine
<1>12. QueueOK(st2, rest, n)
  <2>1. ASSUME NEW s \in Seqs
        PROVE  s \in rest <=> InFlight(st2, s) \/ (m < s /\ s <= n)
    <3>1. InFlight(st2, s) <=> InFlight(st, s)
      BY <1>10, SameHanded
    <3>2. s \in mine <=> InFlight(st, s) \/ (F < s /\ s <= n)
      BY DEF InLine, QueueOK
    <3>3. InFlight(st, s) => s <= F
      <4>1. InFlight(st, s) => s \in mine
        BY <3>2
      <4>2. QED
        BY <4>1, <1>4, QueueBehind DEF Seqs
    <3>4. s \in D <=> F < s /\ s <= m
      BY <1>4 DEF Seqs, Stretch
    <3>5. QED
      BY <3>1, <3>2, <3>3, <3>4, <1>4 DEF Seqs
  <2>2. st2.first = st.first
    BY <1>10 DEF SameHand
  <2>3. QED
    BY <2>1, <2>2, <1>9, <1>10 DEF QueueOK, CursorAt
<1>13. QED
  BY <1>9, <1>10, <1>11, <1>12 DEF InLine, st1, st2, Lost

\* Lengths of sequence numbers that are not yet assigned do not matter.
LEMMA RowGrows ==
    ASSUME NEW st \in ConsumerStates, NEW mine, NEW n \in 0 .. MaxSeq, NEW row, NEW row2,
           NEW b, InLine(st, mine, n, row, b),
           \A s \in Seqs : s <= n => row2[s] = row[s]
    PROVE  HandOK(st, row2, b) /\ GapOK(st, row2, b)
<1>1. /\ Handed(st) <= Frontier(st)
      /\ Frontier(st) <= n
      /\ st.first # 0 => st.flyGapSeq = 0
      /\ st.flyGapSeq # 0 => st.completed < st.flyGapSeq
  BY DEF InLine, HandOK, GapOK, QueueOK
<1>2. /\ Handed(st) \in Nat
      /\ Frontier(st) \in Nat
      /\ st.completed \in Nat
      /\ st.flyGapSeq \in Nat
      /\ n \in Nat
      /\ MaxSeq \in Nat
  BY StateNumbers, ConstantsAssumption
<1>3. st.flyGapSeq <= n
  <2>1. st.flyGapSeq # 0 => Handed(st) = st.flyGapSeq
    BY <1>1 DEF Handed
  <2>2. QED
    BY <2>1, <1>1, <1>2
<1>4. Weight(row2, b, st.completed, st.flyGapSeq) = Weight(row, b, st.completed, st.flyGapSeq)
  <2>1. \A s \in (st.completed + 1) .. st.flyGapSeq : row2[s] = row[s]
    BY <1>2, <1>3 DEF Seqs
  <2>2. QED
    BY <2>1, <1>2, WeightSame
<1>5. Weight(row2, b, Handed(st), Frontier(st)) = Weight(row, b, Handed(st), Frontier(st))
  <2>1. \A s \in (Handed(st) + 1) .. Frontier(st) : row2[s] = row[s]
    BY <1>1, <1>2 DEF Seqs
  <2>2. QED
    BY <2>1, <1>2, WeightSame
<1>6. QED
  BY <1>4, <1>5 DEF InLine, HandOK, GapOK

\* A consumer with nothing queued that loses the next chunk stays in line.
LEMMA LoseNext ==
    ASSUME NEW st \in ConsumerStates, NEW mine \in SUBSET Seqs, NEW n \in 0 .. MaxSeq,
           NEW row, NEW row2, NEW b, InLine(st, mine, n, row, b),
           n < MaxSeq, Frontier(st) = n,
           \A s \in Seqs : s <= n => row2[s] = row[s],
           row2[n + 1] \in 1 .. ChunkBytes
    PROVE  LET st2 == AddGap(st, n + 1, row2[n + 1])
           IN  /\ InLine(st2, mine, n + 1, row2, b)
               /\ SameStanding(st2, st)
               /\ SameHand(st2, st)
               /\ st2 \in ConsumerStates
               /\ st2.next = st.next
<1> DEFINE st2 == AddGap(st, n + 1, row2[n + 1])
<1>1. n \in Nat /\ MaxSeq \in Nat /\ n + 1 \in 0 .. MaxSeq
  BY ConstantsAssumption
<1>2. HandOK(st, row2, b) /\ GapOK(st, row2, b)
  BY RowGrows
<1>3. Weight(row2, b, n, n + 1) = row2[n + 1]
  BY <1>1, WeightOne
<1>4. /\ SameHand(st2, st)
      /\ SameStanding(st2, st)
      /\ st2.next = st.next
      /\ st2 \in ConsumerStates
      /\ GapOK(st2, row2, b)
      /\ Frontier(st2) = n + 1
  <2>1. Frontier(st) <= n + 1
    BY <1>1
  <2>2. QED
    BY <2>1, <1>1, <1>2, <1>3, GapGrows
<1> HIDE DEF st2
<1>5. HandOK(st2, row2, b)
  BY <1>2, <1>4, SameHanded
<1>6. QueueOK(st2, mine, n + 1)
  <2>1. ASSUME NEW s \in Seqs
        PROVE  s \in mine <=> InFlight(st2, s) \/ (n + 1 < s /\ s <= n + 1)
    <3>1. InFlight(st2, s) <=> InFlight(st, s)
      BY <1>4, SameHanded
    <3>2. s \in mine <=> InFlight(st, s) \/ (n < s /\ s <= n)
      BY DEF InLine, QueueOK
    <3>3. QED
      BY <3>1, <3>2, <1>1 DEF Seqs
  <2>2. st2.first = st.first
    BY <1>4 DEF SameHand
  <2>3. /\ st.first # 0 => st.next \in {0, st.first}
        /\ st.first = 0 => st.next = 0
    BY DEF InLine, QueueOK
  <2>4. QED
    BY <2>1, <2>2, <2>3, <1>1, <1>4 DEF QueueOK
<1>7. QED
  BY <1>4, <1>5, <1>6 DEF InLine, st2

\* The state of a consumer that takes the chunk behind n sequence numbers.
Taking(st, n) == IF st.next = 0 /\ st.first = 0 THEN [st EXCEPT !.next = n + 1] ELSE st

\* A consumer that has no gap to hear of takes the next chunk behind its queue.
LEMMA TakeNext ==
    ASSUME NEW st \in ConsumerStates, NEW mine \in SUBSET Seqs, NEW n \in 0 .. MaxSeq,
           NEW row, NEW row2, NEW b, InLine(st, mine, n, row, b),
           n < MaxSeq, st.gapBytes = 0,
           \A s \in Seqs : s <= n => row2[s] = row[s]
    PROVE  /\ InLine(Taking(st, n), mine \cup {n + 1}, n + 1, row2, b)
           /\ SameStanding(Taking(st, n), st)
           /\ SameHand(Taking(st, n), st)
<1> DEFINE st2 == Taking(st, n)
<1>1. n \in Nat /\ MaxSeq \in Nat
  BY ConstantsAssumption
<1>2. HandOK(st, row2, b) /\ GapOK(st, row2, b)
  BY RowGrows
<1>3. /\ SameHand(st2, st)
      /\ SameStanding(st2, st)
      /\ st2.gapBytes = st.gapBytes
      /\ st2.gapSeq = st.gapSeq
      /\ st2.next = IF st.next = 0 /\ st.first = 0 THEN n + 1 ELSE st.next
  BY DEF ConsumerStates, SameHand, SameStanding, Taking
<1> HIDE DEF st2
<1>4. Handed(st2) = Handed(st) /\ Frontier(st2) = Frontier(st) /\ st2.first = st.first
  BY <1>3, SameHanded DEF Frontier, SameHand
<1>5. HandOK(st2, row2, b) /\ GapOK(st2, row2, b)
  BY <1>2, <1>3, <1>4, SameHanded DEF GapOK
<1>6. Frontier(st) \in Nat /\ Frontier(st) <= n
  BY StateNumbers DEF InLine, QueueOK
<1>7. QueueOK(st2, mine \cup {n + 1}, n + 1)
  <2>1. ASSUME NEW s \in Seqs
        PROVE  s \in mine \cup {n + 1} <=> InFlight(st2, s) \/ (Frontier(st2) < s /\ s <= n + 1)
    <3>1. InFlight(st2, s) <=> InFlight(st, s)
      BY <1>3, SameHanded
    <3>2. s \in mine <=> InFlight(st, s) \/ (Frontier(st) < s /\ s <= n)
      BY DEF InLine, QueueOK
    <3>3. QED
      BY <3>1, <3>2, <1>1, <1>4, <1>6 DEF Seqs
  <2>2. /\ st.first # 0 => st.next \in {0, st.first}
        /\ st.first = 0 => st.next = IF Frontier(st) = n THEN 0 ELSE Frontier(st) + 1
    BY DEF InLine, QueueOK
  <2>3. Frontier(st2) <= n + 1 /\ Frontier(st2) # n + 1
    BY <1>1, <1>4, <1>6
  <2>4. st2.first = 0 => st2.next = Frontier(st2) + 1
    BY <2>2, <1>1, <1>3, <1>4, <1>6
  <2>5. st2.first # 0 => st2.next \in {0, st2.first}
    BY <2>2, <1>3, <1>4
  <2>6. QED
    BY <2>1, <2>3, <2>4, <2>5 DEF QueueOK
<1>8. QED
  BY <1>3, <1>5, <1>7 DEF InLine, st2

\* next hands over a batch: the nodes from the cursor to a node of the queue.
LEMMA HandPayload ==
    ASSUME NEW st \in ConsumerStates, NEW mine \in SUBSET Seqs, NEW n \in 0 .. MaxSeq,
           NEW row, NEW b, InLine(st, mine, n, row, b),
           st.first = 0, st.flyGapSeq = 0, st.gapBytes = 0, st.next # 0,
           NEW last \in mine, st.next <= last
    PROVE  LET st2 == [st EXCEPT !.first = st.next, !.last = last]
           IN  /\ InLine(st2, mine, n, row, b)
               /\ st2.first = st.completed + 1
<1> DEFINE st2 == [st EXCEPT !.first = st.next, !.last = last]
<1>1. /\ st2.first = st.next
      /\ st2.last = last
      /\ st2.next = st.next
      /\ st2.completed = st.completed
      /\ st2.flyGapSeq = 0
      /\ st2.flyGapBytes = st.flyGapBytes
      /\ st2.gapBytes = 0
      /\ st2.gapSeq = st.gapSeq
  BY DEF ConsumerStates
<1> HIDE DEF st2
<1>2. Handed(st) = st.completed /\ Frontier(st) = st.completed
  BY StateNumbers DEF Handed, Frontier
<1>3. Handed(st2) = last /\ Frontier(st2) = last
  BY <1>1 DEF Handed, Frontier
<1>4. st.completed \in Nat /\ n \in Nat /\ MaxSeq \in Nat /\ last \in Nat /\ last <= n
  <2>1. last \in Nat /\ last <= n
    BY QueueBehind
  <2>2. QED
    BY <2>1, StateNumbers, ConstantsAssumption
<1>5. st.next = st.completed + 1
  BY <1>2 DEF InLine, QueueOK
<1>6. HandOK(st2, row, b)
  BY <1>1, <1>4, <1>5 DEF InLine, HandOK
<1>7. GapOK(st2, row, b)
  <2>1. Weight(row, b, last, last) = 0
    BY <1>4, WeightType
  <2>2. st.gapSeq = 0
    BY DEF InLine, GapOK
  <2>3. QED
    BY <2>1, <2>2, <1>1, <1>3, <1>4 DEF GapOK
<1>8. QueueOK(st2, mine, n)
  <2>1. ASSUME NEW s \in Seqs
        PROVE  s \in mine <=> InFlight(st2, s) \/ (last < s /\ s <= n)
    <3>1. InFlight(st2, s) <=> st.completed < s /\ s <= last
      BY <1>1, <1>4, <1>5 DEF InFlight, Seqs
    <3>2. s \in mine <=> st.completed < s /\ s <= n
      BY <1>2 DEF InLine, QueueOK, InFlight
    <3>3. st.completed < last
      BY <1>4, <1>5
    <3>4. QED
      BY <3>1, <3>2, <3>3, <1>4 DEF Seqs
  <2>2. QED
    BY <2>1, <1>1, <1>3, <1>4 DEF QueueOK
<1>9. QED
  BY <1>1, <1>5, <1>6, <1>7, <1>8 DEF InLine, st2

\* next hands over the pending gap.
LEMMA HandGap ==
    ASSUME NEW st \in ConsumerStates, NEW mine \in SUBSET Seqs, NEW n \in 0 .. MaxSeq,
           NEW row, NEW b, InLine(st, mine, n, row, b),
           st.first = 0, st.flyGapSeq = 0, st.gapBytes > 0
    PROVE  LET st2 == [st EXCEPT !.flyGapSeq = st.gapSeq, !.flyGapBytes = st.gapBytes,
                                 !.gapSeq = 0, !.gapBytes = 0]
           IN  /\ InLine(st2, mine, n, row, b)
               /\ st2.flyGapSeq = st.gapSeq
               /\ st.completed < st.gapSeq
               /\ st.gapSeq <= n
               /\ st.gapBytes = Weight(row, b, st.completed, st.gapSeq)
<1> DEFINE st2 == [st EXCEPT !.flyGapSeq = st.gapSeq, !.flyGapBytes = st.gapBytes,
                             !.gapSeq = 0, !.gapBytes = 0]
<1>1. /\ st2.first = 0
      /\ st2.last = st.last
      /\ st2.next = st.next
      /\ st2.completed = st.completed
      /\ st2.flyGapSeq = st.gapSeq
      /\ st2.flyGapBytes = st.gapBytes
      /\ st2.gapBytes = 0
      /\ st2.gapSeq = 0
  BY DEF ConsumerStates
<1> HIDE DEF st2
<1>2. Handed(st) = st.completed /\ Frontier(st) = st.gapSeq
  BY DEF Handed, Frontier
<1>3. /\ st.completed < st.gapSeq
      /\ st.gapSeq <= n
      /\ st.gapBytes = Weight(row, b, st.completed, st.gapSeq)
  BY <1>2 DEF InLine, GapOK, QueueOK
<1>4. st.completed \in Nat /\ st.gapSeq \in Nat /\ st.gapSeq # 0
  BY <1>3, StateNumbers
<1>5. Handed(st2) = st.gapSeq /\ Frontier(st2) = st.gapSeq
  BY <1>1, <1>4 DEF Handed, Frontier
<1>6. HandOK(st2, row, b)
  BY <1>1, <1>3 DEF HandOK
<1>7. GapOK(st2, row, b)
  <2>1. Weight(row, b, st.gapSeq, st.gapSeq) = 0
    BY <1>4, WeightType
  <2>2. QED
    BY <2>1, <1>1, <1>4, <1>5 DEF GapOK
<1>8. QueueOK(st2, mine, n)
  <2>1. \A s : InFlight(st2, s) <=> InFlight(st, s)
    BY <1>1 DEF InFlight
  <2>2. QED
    BY <2>1, <1>1, <1>2, <1>5 DEF InLine, QueueOK
<1>9. QED
  BY <1>1, <1>3, <1>6, <1>7, <1>8 DEF InLine, st2

\* completeBatch: the batch is accounted for, the cursor goes to the queue.
LEMMA BatchDone ==
    ASSUME NEW st \in ConsumerStates, NEW mine \in SUBSET Seqs, NEW n \in 0 .. MaxSeq,
           NEW row, NEW b, InLine(st, mine, n, row, b), st.first # 0
    PROVE  LET st2 == [st EXCEPT !.first = 0, !.last = 0, !.completed = Larger(@, st.last),
                                 !.next = NextPending(mine, st.last)]
           IN  /\ InLine(st2, {s \in mine : ~(st.first <= s /\ s <= st.last)}, n, row, b)
               /\ st2.completed = st.last
<1> DEFINE st2 == [st EXCEPT !.first = 0, !.last = 0, !.completed = Larger(@, st.last),
                             !.next = NextPending(mine, st.last)]
           F == Frontier(st)
<1>1. /\ st2.first = 0
      /\ st2.next = NextPending(mine, st.last)
      /\ st2.completed = Larger(st.completed, st.last)
      /\ st2.flyGapSeq = st.flyGapSeq
      /\ st2.flyGapBytes = st.flyGapBytes
      /\ st2.gapBytes = st.gapBytes
      /\ st2.gapSeq = st.gapSeq
  BY DEF ConsumerStates
<1> HIDE DEF st2
<1>2. /\ st.first = st.completed + 1
      /\ st.first <= st.last
      /\ st.flyGapSeq = 0
      /\ st.flyGapBytes = Weight(row, b, st.completed, 0)
  BY DEF InLine, HandOK
<1>3. /\ st.completed \in Nat
      /\ st.last \in Nat
      /\ F \in Nat
      /\ n \in Nat
      /\ MaxSeq \in Nat
      /\ st.last \in 0 .. MaxSeq
  BY StateNumbers, ConstantsAssumption
<1>4. Handed(st) = st.last /\ st.last <= F /\ F <= n
  BY DEF Handed, InLine, GapOK, QueueOK
<1>5. st2.completed = st.last
  BY <1>1, <1>2, <1>3 DEF Larger
<1>6. Handed(st2) = st.last /\ Frontier(st2) = F
  <2>1. Handed(st2) = st.last
    BY <1>1, <1>2, <1>5 DEF Handed
  <2>2. QED
    BY <2>1, <1>1, <1>4 DEF Frontier
<1>7. HandOK(st2, row, b)
  <2>1. Weight(row, b, st.completed, 0) = 0 /\ Weight(row, b, st.last, 0) = 0
    BY <1>3, WeightType
  <2>2. QED
    BY <2>1, <1>1, <1>2, <1>5 DEF HandOK
<1>8. GapOK(st2, row, b)
  BY <1>1, <1>4, <1>6 DEF InLine, GapOK
<1>9. \A s \in Seqs : s \in mine <=> (st.first <= s /\ s <= st.last) \/ (F < s /\ s <= n)
  BY DEF InLine, QueueOK, InFlight
<1>10. st2.next = IF F = n THEN 0 ELSE F + 1
  <2>1. \A t \in mine : t > st.last <=> F < t
    BY <1>3, <1>4, <1>9 DEF Seqs
  <2>2. CASE F = n
    <3>1. ~ \E t \in mine : t > st.last
      BY <2>1, <2>2, <1>3, QueueBehind
    <3>2. QED
      BY <3>1, <2>2, <1>1, <1>3, NextPendingIn
  <2>3. CASE F # n
    <3>1. F + 1 \in mine /\ F + 1 > st.last
      BY <2>3, <1>3, <1>4, <1>9 DEF Seqs
    <3>2. /\ NextPending(mine, st.last) \in mine
          /\ NextPending(mine, st.last) > st.last
          /\ NextPending(mine, st.last) <= F + 1
      BY <3>1, <1>3, NextPendingIn
    <3>3. F < NextPending(mine, st.last) /\ NextPending(mine, st.last) \in Nat
      BY <3>2, <2>1, QueueBehind
    <3>4. QED
      BY <3>2, <3>3, <2>3, <1>1, <1>3
  <2>4. QED
    BY <2>2, <2>3
<1>11. QueueOK(st2, {s \in mine : ~(st.first <= s /\ s <= st.last)}, n)
  <2>1. ASSUME NEW s \in Seqs
        PROVE  s \in {t \in mine : ~(st.first <= t /\ t <= st.last)}
                  <=> InFlight(st2, s) \/ (F < s /\ s <= n)
    <3>1. ~InFlight(st2, s)
      BY <1>1 DEF InFlight
    <3>2. QED
      BY <3>1, <1>3, <1>4, <1>9 DEF Seqs
  <2>2. QED
    BY <2>1, <1>1, <1>4, <1>6, <1>10 DEF QueueOK
<1>12. QED
  BY <1>5, <1>7, <1>8, <1>11 DEF InLine, st2

\* completeGap: the gap is accounted for.
LEMMA GapDone ==
    ASSUME NEW st \in ConsumerStates, NEW mine \in SUBSET Seqs, NEW n \in 0 .. MaxSeq,
           NEW row, NEW b, InLine(st, mine, n, row, b), st.flyGapSeq # 0
    PROVE  LET st2 == [st EXCEPT !.flyGapSeq = 0, !.flyGapBytes = 0,
                                 !.completed = Larger(@, st.flyGapSeq)]
           IN  /\ InLine(st2, mine, n, row, b)
               /\ st2.completed = st.flyGapSeq
<1> DEFINE st2 == [st EXCEPT !.flyGapSeq = 0, !.flyGapBytes = 0,
                             !.completed = Larger(@, st.flyGapSeq)]
<1>1. /\ st2.first = st.first
      /\ st2.last = st.last
      /\ st2.next = st.next
      /\ st2.completed = Larger(st.completed, st.flyGapSeq)
      /\ st2.flyGapSeq = 0
      /\ st2.flyGapBytes = 0
      /\ st2.gapBytes = st.gapBytes
      /\ st2.gapSeq = st.gapSeq
  BY DEF ConsumerStates
<1> HIDE DEF st2
<1>2. st.first = 0 /\ st.completed < st.flyGapSeq
  BY DEF InLine, HandOK
<1>3. st.completed \in Nat /\ st.flyGapSeq \in Nat
  BY StateNumbers
<1>4. st2.completed = st.flyGapSeq
  BY <1>1, <1>2, <1>3 DEF Larger
<1>5. Handed(st) = st.flyGapSeq
  BY <1>2 DEF Handed
<1>6. Handed(st2) = Handed(st)
  BY <1>1, <1>2, <1>4, <1>5 DEF Handed
<1>7. Frontier(st2) = Frontier(st)
  BY <1>1, <1>6 DEF Frontier
<1>8. HandOK(st2, row, b)
  <2>1. Weight(row, b, st.flyGapSeq, 0) = 0
    BY <1>3, WeightType
  <2>2. QED
    BY <2>1, <1>1, <1>2, <1>4 DEF HandOK
<1>9. GapOK(st2, row, b)
  BY <1>1, <1>6, <1>7 DEF InLine, GapOK
<1>10. QueueOK(st2, mine, n)
  <2>1. \A s : InFlight(st2, s) <=> InFlight(st, s)
    BY <1>1 DEF InFlight
  <2>2. QED
    BY <2>1, <1>1, <1>7 DEF InLine, QueueOK
<1>11. QED
  BY <1>4, <1>8, <1>9, <1>10 DEF InLine, st2

-----------------------------------------------------------------------------
(* Steps of a buffer.                                                      *)

\* A consumer of the state is in line when it is neither disabled nor failed.
LEMMA LineOf ==
    ASSUME TypeOK, LineOK, NEW b \in Buffers, NEW c \in Consumers,
           Enabled(b, c), ~cons[b][c].failed
    PROVE  /\ cons[b][c] \in ConsumerStates
           /\ Mine(b, c) \in SUBSET Seqs
           /\ nextSeq[b] \in 0 .. MaxSeq
           /\ InLine(cons[b][c], Mine(b, c), nextSeq[b], length[b], b)
<1>1. cons[b][c] \in ConsumerStates /\ nextSeq[b] \in 0 .. MaxSeq
  BY DEF TypeOK
<1>2. Mine(b, c) \in SUBSET Seqs
  BY DEF Mine
<1>3. InLine(cons[b][c], Mine(b, c), nextSeq[b], length[b], b)
  BY DEF LineOK
<1>4. QED
  BY <1>1, <1>2, <1>3

\* It is enough to look at the buffer a step works on.
LEMMA LineOnBuffer ==
    ASSUME LineOK, NEW b \in Buffers,
           \A x \in Buffers : x # b =>
              /\ cons'[x] = cons[x]
              /\ pending'[x] = pending[x]
              /\ nextSeq'[x] = nextSeq[x]
              /\ length'[x] = length[x],
           \A c \in Consumers : Enabled(b, c) /\ ~cons'[b][c].failed =>
              InLine(cons'[b][c], {s \in Seqs : c \in pending'[b][s]}, nextSeq'[b], length'[b], b)
    PROVE  LineOK'
<1> SUFFICES ASSUME NEW x \in Buffers, NEW c \in Consumers,
                    Enabled(x, c), ~cons'[x][c].failed
             PROVE  InLine(cons'[x][c], {s \in Seqs : c \in pending'[x][s]},
                           nextSeq'[x], length'[x], x)
  BY DEF LineOK, Mine, Enabled
<1>1. CASE x = b
  BY <1>1
<1>2. CASE x # b
  BY <1>2 DEF LineOK, Mine
<1>3. QED
  BY <1>1, <1>2

\* The phase of a consumer that does not move.
LEMMA PhaseKept ==
    ASSUME PhaseOK, closed' = closed,
           \A x \in Buffers, c \in Consumers :
              /\ pc'[x][c] = pc[x][c]
              /\ SameHand(cons'[x][c], cons[x][c])
              /\ SameStanding(cons'[x][c], cons[x][c])
    PROVE  PhaseOK'
BY DEF PhaseOK, Phase, SameHand, SameStanding, Enabled, Failing

\* A step of the pump, a closer or a flusher moves no consumer.
LEMMA GotoOther ==
    ASSUME TypeOK, NEW b \in Buffers, NEW r \in Roles \ Consumers, NEW label,
           Goto(b, r, label)
    PROVE  \A x \in Buffers, c \in Consumers : pc'[x][c] = pc[x][c]
BY DEF TypeOK, PcOK, Goto, Roles

\* ... and neither does one that goes to a release or past it.
LEMMA GotoReleaseOther ==
    ASSUME TypeOK, NEW b \in Buffers, NEW r \in Roles \ Consumers, NEW bytes, NEW label,
           GotoRelease(b, r, bytes, label)
    PROVE  \A x \in Buffers, c \in Consumers : pc'[x][c] = pc[x][c]
BY GotoOther DEF GotoRelease

\* A step that touches neither consumers nor nodes keeps the invariant.
LEMMA QuietStream ==
    ASSUME StreamInv, UNCHANGED <<pending, length, nextSeq, cons, closed>>,
           \A x \in Buffers, c \in Consumers : pc'[x][c] = pc[x][c]
    PROVE  StreamInv' /\ HandsKept
<1>1. LengthsOK'
  BY DEF StreamInv, LengthsOK
<1>2. PhaseOK'
  BY PhaseKept DEF StreamInv, SameHand, SameStanding
<1>3. LineOK'
  BY DEF StreamInv, LineOK, Mine, Enabled
<1>4. HandsKept
  BY DEF HandsKept, SameHand
<1>5. QED
  BY <1>1, <1>2, <1>3, <1>4 DEF StreamInv

\* dropOldestLocked takes nodes from the head: with a node it visits every node
\* before it.
LEMMA VisitedFromHead ==
    ASSUME NEW b \in Buffers, NEW required \in Int, NEW s \in Visited(b, required),
           NEW t \in Nodes(b), t < s
    PROVE  t \in Visited(b, required)
<1> DEFINE Before(u) == {v \in Nodes(b) : v < u /\ Pinned(b, v) = {}}
<1>1. Nodes(b) \in SUBSET Seqs /\ Seqs \subseteq Nat /\ s \in Nodes(b)
  BY DEF Nodes, Seqs, Visited
<1>2. Before(t) \subseteq Before(s)
  <2> SUFFICES ASSUME NEW v \in Before(t) PROVE v \in Before(s)
    OBVIOUS
  <2>1. v \in Nodes(b) /\ v < t /\ Pinned(b, v) = {}
    OBVIOUS
  <2>2. v < s
    <3>1. v \in Nat /\ t \in Nat /\ s \in Nat
      BY <2>1 DEF Nodes, Seqs, Visited
    <3>2. QED
      BY <3>1, <2>1
  <2>3. QED
    BY <2>1, <2>2
<1>3. Before(s) \in SUBSET Seqs /\ Before(t) \in SUBSET Seqs
  BY <1>1
<1>4. Cardinality(BytesOf(b, Before(s))) < required
  BY DEF Visited
<1> HIDE DEF Before
<1>5. BytesOf(b, Before(t)) \in SUBSET BytesOf(b, Before(s))
  BY <1>2 DEF BytesOf
<1>6. IsFiniteSet(BytesOf(b, Before(s))) /\ Cardinality(BytesOf(b, Before(s))) \in Nat
  BY <1>3, BytesFinite
<1>7. Cardinality(BytesOf(b, Before(t))) \in Nat
  BY <1>3, BytesFinite
<1>8. Cardinality(BytesOf(b, Before(t))) <= Cardinality(BytesOf(b, Before(s)))
  BY <1>5, <1>6, FS_Subset
<1>9. Cardinality(BytesOf(b, Before(t))) < required
  BY <1>4, <1>6, <1>7, <1>8
<1>10. t \in {u \in Nodes(b) : Cardinality(BytesOf(b, Before(u))) < required}
  BY <1>9
<1>11. QED
  BY <1>10 DEF Visited, Before

\* A consumer loses the stretch up to m, keeps rest, and its cursor goes to nx.
Dropping(st, mine, n, row, b, m, D, rest, nx) ==
    /\ st \in ConsumerStates
    /\ mine \in SUBSET Seqs
    /\ n \in 0 .. MaxSeq
    /\ InLine(st, mine, n, row, b)
    /\ m \in 0 .. MaxSeq
    /\ Frontier(st) <= m
    /\ m <= n
    /\ D = Stretch(Frontier(st), m)
    /\ Frontier(st) < m => Greatest(D) = m
    /\ rest = mine \ D
    /\ st.next \in D => nx = NextPending(rest, st.next)
    /\ st.next \notin D => nx = st.next

\* Where dropOldestLocked puts the cursor of a consumer that loses D.
LEMMA CursorMoves ==
    ASSUME NEW st, NEW mine, NEW n, NEW row, NEW b, NEW m, NEW D, NEW rest, NEW nx,
           Dropping(st, mine, n, row, b, m, D, rest, nx)
    PROVE  /\ nx \in 0 .. MaxSeq
           /\ st.first # 0 => nx \in {0, st.first}
           /\ st.first = 0 => nx = CursorAt(m, n)
<1>9. /\ st \in ConsumerStates
      /\ mine \in SUBSET Seqs
      /\ n \in 0 .. MaxSeq
      /\ InLine(st, mine, n, row, b)
      /\ m \in 0 .. MaxSeq
      /\ Frontier(st) <= m
      /\ m <= n
      /\ D = Stretch(Frontier(st), m)
      /\ rest = mine \ D
      /\ st.next \in D => nx = NextPending(rest, st.next)
      /\ st.next \notin D => nx = st.next
  BY DEF Dropping
<1> USE <1>9
<1> DEFINE F == Frontier(st)
<1> USE DEF Stretch
<1>1. /\ F \in Nat
      /\ n \in Nat
      /\ MaxSeq \in Nat
      /\ st.next \in 0 .. MaxSeq
      /\ st.first \in Nat
      /\ F <= n
      /\ m \in Nat
  BY StateNumbers, ConstantsAssumption DEF InLine, QueueOK
<1>2. nx \in 0 .. MaxSeq
  <2>1. rest \in SUBSET Seqs
    OBVIOUS
  <2>2. NextPending(rest, st.next) \in 0 .. MaxSeq
    BY <2>1, <1>1, NextPendingIn
  <2>3. QED
    BY <2>2, <1>1
<1>3. ASSUME st.first # 0 PROVE nx \in {0, st.first}
  <2>1. st.next \in {0, st.first}
    BY <1>3 DEF InLine, QueueOK
  <2>2. st.first <= F
    <3>1. st.first <= st.last /\ Handed(st) = st.last
      BY <1>3 DEF InLine, HandOK, Handed
    <3>2. Handed(st) <= Frontier(st)
      BY DEF InLine, GapOK
    <3>3. QED
      BY <3>1, <3>2, StateNumbers
  <2>3. st.next \notin D
    BY <2>1, <2>2, <1>1
  <2>4. QED
    BY <2>1, <2>3
<1>4. ASSUME st.first = 0 PROVE nx = IF m = n THEN 0 ELSE m + 1
  <2>1. st.next = IF F = n THEN 0 ELSE F + 1
    BY <1>4 DEF InLine, QueueOK
  <2>2. CASE F = m
    BY <2>1, <2>2, <1>1
  <2>3. CASE F < m
    <3>1. st.next = F + 1 /\ st.next \in D
      BY <2>1, <2>3, <1>1
    <3>2. nx = NextPending(rest, F + 1)
      BY <3>1
    <3>3. \A s \in Seqs : s \in mine \ D <=> m < s /\ s <= n
      BY <1>1, <1>4, <2>3 DEF InLine, QueueOK, InFlight, Seqs
    <3>4. F + 1 \in 0 .. MaxSeq /\ F + 1 <= m
      BY <1>1, <2>3
    <3>5. CASE m = n
      <4>1. ~ \E t \in mine \ D : t > F + 1
        BY <3>3, <3>5, <1>1 DEF Seqs
      <4>2. QED
        BY <4>1, <3>2, <3>4, <3>5, NextPendingIn
    <3>6. CASE m # n
      <4>1. m + 1 \in mine \ D /\ m + 1 > F + 1
        <5>1. m + 1 \in Seqs /\ m < m + 1 /\ m + 1 <= n
          BY <3>6, <1>1 DEF Seqs
        <5>2. m + 1 > F + 1
          BY <3>4, <1>1
        <5>3. QED
          BY <5>1, <5>2, <3>3
      <4>2. nx \in mine \ D /\ nx <= m + 1
        <5>1. rest \in SUBSET Seqs /\ m + 1 \in rest /\ nx = NextPending(rest, F + 1)
          BY <4>1, <3>2
        <5> HIDE DEF F
        <5>2. nx \in rest /\ nx <= m + 1
          BY <5>1, <4>1, <3>4, NextPendingIn
        <5>3. QED
          BY <5>2
      <4>3. m < nx
        <5>1. nx \in Seqs
          BY <4>2
        <5>2. QED
          BY <5>1, <4>2, <3>3
      <4>4. QED
        BY <4>2, <4>3, <3>6, <1>1, <1>2
    <3>7. QED
      BY <3>5, <3>6
  <2>4. QED
    BY <2>2, <2>3, <1>1
<1>5. QED
  BY <1>2, <1>3, <1>4 DEF CursorAt

\* The queued nodes of a consumer become a gap: nothing but gap and cursor change.
LEMMA GappedFields ==
    ASSUME TypeOK, NEW b \in Buffers, NEW st \in ConsumerStates, NEW D \in SUBSET Seqs
    PROVE  /\ SameHand(Gapped(b, st, D), st)
           /\ SameStanding(Gapped(b, st, D), st)
           /\ Gapped(b, st, D) \in ConsumerStates
           /\ Gapped(b, st, D) =
                 AddGap(st, Greatest(D), Cardinality(RowBytes(length[b], b, D)))
<1>1. BytesOf(b, D) = RowBytes(length[b], b, D)
  BY DEF BytesOf, RowBytes
<1>2. Greatest(D) \in 0 .. MaxSeq /\ Cardinality(BytesOf(b, D)) \in Nat
  BY GreatestIn, BytesFinite
<1>3. QED
  BY <1>1, <1>2, AddGapFields DEF Gapped

\* A new cursor leaves the rest of a consumer state alone.
LEMMA CursorFields ==
    ASSUME NEW st \in ConsumerStates, NEW nx \in 0 .. MaxSeq
    PROVE  /\ SameHand([st EXCEPT !.next = nx], st)
           /\ SameStanding([st EXCEPT !.next = nx], st)
           /\ [st EXCEPT !.next = nx] \in ConsumerStates
           /\ nx = st.next => [st EXCEPT !.next = nx] = st
BY DEF ConsumerStates, SameHand, SameStanding

\* So a consumer from which dropOldestLocked takes D stays in line.
LEMMA DropsInLine ==
    ASSUME NEW st \in ConsumerStates, NEW mine \in SUBSET Seqs, NEW n \in 0 .. MaxSeq,
           NEW row, NEW b, InLine(st, mine, n, row, b),
           \A s \in Seqs : s <= n => row[s] \in 1 .. ChunkBytes,
           NEW D \in SUBSET mine,
           \A s \in D : ~InFlight(st, s),
           \A s \in D, t \in mine : t < s /\ ~InFlight(st, t) => t \in D,
           NEW rest, rest = mine \ D, NEW nx,
           st.next \in D => nx = NextPending(rest, st.next),
           st.next \notin D => nx = st.next,
           NEW st2, st2 = Lost(st, nx, D, row, b)
    PROVE  InLine(st2, rest, n, row, b) /\ Frontier(st) <= Frontier(st2)
<1>1. PICK m \in 0 .. MaxSeq :
              /\ Frontier(st) <= m
              /\ m <= n
              /\ D = Stretch(Frontier(st), m)
              /\ Frontier(st) < m => Greatest(D) = m
  BY DropIsStretch
<1>2. /\ nx \in 0 .. MaxSeq
      /\ st.first # 0 => nx \in {0, st.first}
      /\ st.first = 0 => nx = CursorAt(m, n)
  <2>1. Dropping(st, mine, n, row, b, m, D, rest, nx)
    BY <1>1 DEF Dropping
  <2>2. QED
    BY <2>1, CursorMoves
<1>3. InLine(st2, rest, n, row, b) /\ Frontier(st2) = m
  <2>1. Losing(st, mine, n, row, b, m, D, rest, nx)
    BY <1>1, <1>2 DEF Losing
  <2>2. QED
    BY <2>1, DropKeepsLine
<1>4. QED
  BY <1>1, <1>3

\* dropOldestLocked keeps every consumer in line, hands nothing over and takes
\* nothing from a hand; a frontier only moves forward.
LEMMA DropOldestStream ==
    ASSUME TypeOK, StreamInv, NEW b \in Buffers, NEW owner \in Buffers, NEW required \in Int,
           DropOldest(b, required, owner), UNCHANGED <<length, nextSeq>>
    PROVE  /\ LineOK'
           /\ \A x \in Buffers, c \in Consumers :
                 /\ SameHand(cons'[x][c], cons[x][c])
                 /\ SameStanding(cons'[x][c], cons[x][c])
           /\ \A c \in Consumers : Enabled(b, c) /\ ~cons[b][c].failed =>
                 Frontier(cons[b][c]) <= Frontier(cons'[b][c])
<1> DEFINE dropped == DropOldestSets(b, required)
           left == Without(b, dropped)
           Nx(c) == IF cons[b][c].next \in dropped[c]
                    THEN NextPending({s \in Seqs : c \in left[s]}, cons[b][c].next)
                    ELSE cons[b][c].next
           Moved(c, st) ==
               IF st.next \in dropped[c]
               THEN [st EXCEPT !.next = NextPending({s \in Seqs : c \in left[s]}, st.next)]
               ELSE st
<1>1. /\ pending' = [pending EXCEPT ![b] = left]
      /\ cons' = [cons EXCEPT ![b] =
                    [c \in Consumers |-> Gapped(b, Moved(c, cons[b][c]), dropped[c])]]
  BY DEF DropOldest, Reclaim
<1>2. ASSUME NEW c \in Consumers
      PROVE  /\ dropped[c] = Visited(b, required) \cap Queued(b, c)
             /\ dropped[c] \in SUBSET Seqs
             /\ dropped[c] \in SUBSET Mine(b, c)
             /\ \A s \in dropped[c] : ~InFlight(cons[b][c], s)
             /\ {s \in Seqs : c \in left[s]} = Mine(b, c) \ dropped[c]
             /\ Mine(b, c) \in SUBSET Seqs
             /\ cons[b][c] \in ConsumerStates
  <2>1. dropped[c] = Visited(b, required) \cap Queued(b, c)
    BY DEF DropOldestSets
  <2>2. dropped[c] \in SUBSET Mine(b, c) /\ \A s \in dropped[c] : ~InFlight(cons[b][c], s)
    BY <2>1 DEF Queued, Mine
  <2>3. {s \in Seqs : c \in left[s]} = Mine(b, c) \ dropped[c]
    BY DEF Without, Mine
  <2>4. QED
    BY <2>1, <2>2, <2>3 DEF Mine, TypeOK
<1> HIDE DEF dropped, left
<1>3. ASSUME NEW c \in Consumers
      PROVE  /\ Nx(c) \in 0 .. MaxSeq
             /\ Moved(c, cons[b][c]) = [cons[b][c] EXCEPT !.next = Nx(c)]
             /\ cons'[b][c] = Gapped(b, [cons[b][c] EXCEPT !.next = Nx(c)], dropped[c])
             /\ SameHand(cons'[b][c], cons[b][c])
             /\ SameStanding(cons'[b][c], cons[b][c])
  <2>1. cons[b][c].next \in 0 .. MaxSeq
    BY <1>2, StateNumbers
  <2>2. Nx(c) \in 0 .. MaxSeq
    BY <2>1, NextPendingIn
  <2>3. Moved(c, cons[b][c]) = [cons[b][c] EXCEPT !.next = Nx(c)]
    <3>1. CASE cons[b][c].next \in dropped[c]
      BY <3>1
    <3>2. CASE cons[b][c].next \notin dropped[c]
      BY <3>2, <2>1, <1>2, CursorFields
    <3>3. QED
      BY <3>1, <3>2
  <2>4. cons'[b][c] = Gapped(b, Moved(c, cons[b][c]), dropped[c])
    BY <1>1 DEF TypeOK
  <2> HIDE DEF Nx, Moved
  <2>5. cons'[b][c] = Gapped(b, [cons[b][c] EXCEPT !.next = Nx(c)], dropped[c])
    BY <2>3, <2>4
  <2> DEFINE st1 == [cons[b][c] EXCEPT !.next = Nx(c)]
  <2>6. st1 \in ConsumerStates /\ SameHand(st1, cons[b][c]) /\ SameStanding(st1, cons[b][c])
    BY <2>2, <1>2, CursorFields
  <2> HIDE DEF st1
  <2>7. SameHand(cons'[b][c], st1) /\ SameStanding(cons'[b][c], st1)
    <3>1. SameHand(Gapped(b, st1, dropped[c]), st1) /\ SameStanding(Gapped(b, st1, dropped[c]), st1)
      BY <2>6, <1>2, GappedFields
    <3>2. QED
      BY <3>1, <2>5 DEF st1
  <2>8. QED
    BY <2>2, <2>3, <2>5, <2>6, <2>7 DEF SameHand, SameStanding
<1>4. ASSUME NEW c \in Consumers, Enabled(b, c), ~cons[b][c].failed
      PROVE  /\ InLine(cons'[b][c], {s \in Seqs : c \in pending'[b][s]}, nextSeq'[b], length'[b], b)
             /\ Frontier(cons[b][c]) <= Frontier(cons'[b][c])
  <2> DEFINE st == cons[b][c]
             mine == Mine(b, c)
             D == dropped[c]
             n == nextSeq[b]
  <2>1. /\ st \in ConsumerStates
        /\ mine \in SUBSET Seqs
        /\ n \in 0 .. MaxSeq
        /\ InLine(st, mine, n, length[b], b)
    BY <1>4, LineOf DEF StreamInv
  <2>2. \A s \in D, t \in mine : t < s /\ ~InFlight(st, t) => t \in D
    <3> SUFFICES ASSUME NEW s \in D, NEW t \in mine, t < s, ~InFlight(st, t)
                 PROVE  t \in D
      OBVIOUS
    <3>1. t \in Nodes(b) /\ t \in Queued(b, c)
      BY DEF Mine, Nodes, Queued
    <3>2. s \in Visited(b, required)
      BY <1>2
    <3>3. t \in Visited(b, required)
      BY <3>1, <3>2, VisitedFromHead
    <3>4. QED
      BY <3>1, <3>3, <1>2
  <2>3. D \in SUBSET mine /\ \A s \in D : ~InFlight(st, s)
    BY <1>2
  <2>4. \A s \in Seqs : s <= n => length[b][s] \in 1 .. ChunkBytes
    BY DEF StreamInv, LengthsOK
  <2>5. {s \in Seqs : c \in left[s]} = mine \ D
    BY <1>2
  <2>6. Nx(c) = IF st.next \in D THEN NextPending(mine \ D, st.next) ELSE st.next
    BY <2>5
  <2>7. cons'[b][c] = Gapped(b, [st EXCEPT !.next = Nx(c)], D)
    BY <1>3
  <2>8. Nx(c) \in 0 .. MaxSeq
    BY <1>3
  <2>9. {s \in Seqs : c \in pending'[b][s]} = mine \ D
    BY <2>5, <1>1 DEF TypeOK
  <2> HIDE DEF st, mine, D, n, Nx
  <2>10. PICK row : row = length[b]
    OBVIOUS
  <2>11. PICK nx : nx = Nx(c)
    OBVIOUS
  <2>12. cons'[b][c] = Lost(st, nx, D, row, b)
    <3>1. [st EXCEPT !.next = Nx(c)] \in ConsumerStates
      BY <2>1, <2>8, CursorFields
    <3>2. D \in SUBSET Seqs
      BY <2>1, <2>3
    <3>3. QED
      BY <3>1, <3>2, <2>7, <2>10, <2>11, GappedFields DEF Lost
  <2>13. /\ InLine(st, mine, n, row, b)
         /\ \A s \in Seqs : s <= n => row[s] \in 1 .. ChunkBytes
         /\ st.next \in D => nx = NextPending(mine \ D, st.next)
         /\ st.next \notin D => nx = st.next
    BY <2>1, <2>4, <2>6, <2>10, <2>11
  <2>16. PICK rest : rest = mine \ D
    OBVIOUS
  <2>14. InLine(cons'[b][c], rest, n, row, b) /\ Frontier(st) <= Frontier(cons'[b][c])
    BY <2>1, <2>2, <2>3, <2>12, <2>13, <2>16, DropsInLine
  <2>15. QED
    BY <2>9, <2>10, <2>14, <2>16 DEF n, st
<1>5. \A x \in Buffers : x # b =>
        /\ cons'[x] = cons[x]
        /\ pending'[x] = pending[x]
        /\ nextSeq'[x] = nextSeq[x]
        /\ length'[x] = length[x]
  BY <1>1 DEF TypeOK
<1>6. LineOK'
  <2>1. \A c \in Consumers : cons'[b][c].failed = cons[b][c].failed
    BY <1>3 DEF SameStanding
  <2>2. QED
    BY <2>1, <1>4, <1>5, LineOnBuffer DEF StreamInv
<1>7. ASSUME NEW x \in Buffers, NEW c \in Consumers
      PROVE  SameHand(cons'[x][c], cons[x][c]) /\ SameStanding(cons'[x][c], cons[x][c])
  <2>1. CASE x = b
    BY <2>1, <1>3
  <2>2. CASE x # b
    BY <2>2, <1>5 DEF SameHand, SameStanding
  <2>3. QED
    BY <2>1, <2>2
<1>8. QED
  BY <1>4, <1>6, <1>7

\* A consumer in line loses everything that is queued.
LosingAll(st, mine, n, row, b, D, rest, nx) ==
    /\ st \in ConsumerStates
    /\ mine \in SUBSET Seqs
    /\ n \in 0 .. MaxSeq
    /\ InLine(st, mine, n, row, b)
    /\ \A s \in Seqs : s <= n => row[s] \in 1 .. ChunkBytes
    /\ D = {s \in mine : ~InFlight(st, s)}
    /\ rest = mine \ D
    /\ nx \in 0 .. MaxSeq
    /\ st.first # 0 => nx \in {0, st.first}
    /\ st.first = 0 => nx = 0

LEMMA LoseQueue ==
    ASSUME NEW st, NEW mine, NEW n, NEW row, NEW b, NEW D, NEW rest, NEW nx,
           LosingAll(st, mine, n, row, b, D, rest, nx)
    PROVE  LET st2 == Lost(st, nx, D, row, b)
           IN  /\ InLine(st2, rest, n, row, b)
               /\ SameStanding(st2, st)
               /\ SameHand(st2, st)
               /\ st2 \in ConsumerStates
               /\ Frontier(st2) = n
               /\ st2.next = nx
<1>1. /\ st \in ConsumerStates
      /\ mine \in SUBSET Seqs
      /\ n \in 0 .. MaxSeq
      /\ InLine(st, mine, n, row, b)
      /\ \A s \in Seqs : s <= n => row[s] \in 1 .. ChunkBytes
      /\ D = {s \in mine : ~InFlight(st, s)}
      /\ rest = mine \ D
      /\ nx \in 0 .. MaxSeq
      /\ st.first # 0 => nx \in {0, st.first}
      /\ st.first = 0 => nx = 0
  BY DEF LosingAll
<1>2. D \in SUBSET mine /\ \A s \in D : ~InFlight(st, s)
  BY <1>1
<1>3. \A s \in D, t \in mine : t < s /\ ~InFlight(st, t) => t \in D
  BY <1>1
<1>4. PICK m \in 0 .. MaxSeq :
              /\ Frontier(st) <= m
              /\ m <= n
              /\ D = Stretch(Frontier(st), m)
              /\ Frontier(st) < m => Greatest(D) = m
  BY <1>1, <1>2, <1>3, DropIsStretch
<1>5. m = n
  <2>1. SUFFICES ASSUME m < n PROVE FALSE
    BY <1>1, <1>4
  <2>2. Frontier(st) \in Nat /\ n \in Nat /\ n \in (Frontier(st) + 1) .. n
    BY <2>1, <1>1, <1>4, StateNumbers
  <2>3. n \in mine /\ ~InFlight(st, n)
    BY <2>2, <1>1, QueueBehind
  <2>4. n \in Stretch(Frontier(st), m)
    BY <2>3, <1>1, <1>4
  <2>5. QED
    BY <2>1, <2>4, <1>4 DEF Stretch
<1>6. Losing(st, mine, n, row, b, m, D, rest, nx)
  <2>1. CursorAt(m, n) = 0
    BY <1>5 DEF CursorAt
  <2>2. QED
    BY <2>1, <1>1, <1>4 DEF Losing
<1>7. QED
  BY <1>5, <1>6, DropKeepsLine

\* What a consumer has left when it loses a chunk together with its queue.
LEMMA LoseQueueAndNext ==
    ASSUME NEW st, NEW mine, NEW n, NEW row, NEW b, NEW D, NEW rest, NEW nx,
           LosingAll(st, mine, n, row, b, D, rest, nx),
           NEW row2, n < MaxSeq,
           \A s \in Seqs : s <= n => row2[s] = row[s],
           row2[n + 1] \in 1 .. ChunkBytes,
           NEW st2, st2 = AddGap(Lost(st, nx, D, row, b), n + 1, row2[n + 1])
    PROVE  /\ InLine(st2, rest, n + 1, row2, b)
           /\ SameStanding(st2, st)
           /\ SameHand(st2, st)
<1>1. PICK st1 : st1 = Lost(st, nx, D, row, b)
  OBVIOUS
<1>2. /\ InLine(st1, rest, n, row, b)
      /\ SameStanding(st1, st)
      /\ SameHand(st1, st)
      /\ st1 \in ConsumerStates
      /\ Frontier(st1) = n
  BY <1>1, LoseQueue
<1>3. n \in 0 .. MaxSeq /\ rest \in SUBSET Seqs
  BY DEF LosingAll
<1>4. /\ InLine(st2, rest, n + 1, row2, b)
      /\ SameStanding(st2, st1)
      /\ SameHand(st2, st1)
  BY <1>1, <1>2, <1>3, LoseNext
<1>5. QED
  BY <1>2, <1>4 DEF SameStanding, SameHand

\* Gapped over a new cursor is Lost.
LEMMA GappedIsLost ==
    ASSUME TypeOK, NEW b \in Buffers, NEW st \in ConsumerStates, NEW nx \in 0 .. MaxSeq,
           NEW D \in SUBSET Seqs
    PROVE  /\ Gapped(b, [st EXCEPT !.next = nx], D) = Lost(st, nx, D, length[b], b)
           /\ SameHand(Gapped(b, [st EXCEPT !.next = nx], D), st)
           /\ SameStanding(Gapped(b, [st EXCEPT !.next = nx], D), st)
           /\ Gapped(b, [st EXCEPT !.next = nx], D) \in ConsumerStates
<1> DEFINE st1 == [st EXCEPT !.next = nx]
<1>1. st1 \in ConsumerStates /\ SameHand(st1, st) /\ SameStanding(st1, st)
  BY CursorFields
<1> HIDE DEF st1
<1>2. /\ SameHand(Gapped(b, st1, D), st1)
      /\ SameStanding(Gapped(b, st1, D), st1)
      /\ Gapped(b, st1, D) \in ConsumerStates
      /\ Gapped(b, st1, D) = AddGap(st1, Greatest(D), Cardinality(RowBytes(length[b], b, D)))
  BY <1>1, GappedFields
<1>3. SameHand(Gapped(b, st1, D), st) /\ SameStanding(Gapped(b, st1, D), st)
  BY <1>1, <1>2 DEF SameHand, SameStanding
<1>4. QED
  BY <1>2, <1>3 DEF st1, Lost

\* The queue of a consumer that is in line.
LEMMA QueuedIs ==
    ASSUME NEW b \in Buffers, NEW c \in Consumers
    PROVE  /\ Queued(b, c) = {s \in Mine(b, c) : ~InFlight(cons[b][c], s)}
           /\ Queued(b, c) \in SUBSET Seqs
BY DEF Queued, Mine

\* An active consumer, and what it means for it to lose its queue.
LEMMA ActiveLoses ==
    ASSUME TypeOK, StreamInv, NEW b \in Buffers, NEW c \in Consumers, cons[b][c].active,
           NEW nx \in 0 .. MaxSeq,
           cons[b][c].first # 0 => nx \in {0, cons[b][c].first},
           cons[b][c].first = 0 => nx = 0
    PROVE  /\ Enabled(b, c) /\ ~cons[b][c].failed /\ ~closed[b]
           /\ LosingAll(cons[b][c], Mine(b, c), nextSeq[b], length[b], b, Queued(b, c),
                        Mine(b, c) \ Queued(b, c), nx)
<1>1. Enabled(b, c) /\ ~cons[b][c].failed /\ ~closed[b]
  BY DEF StreamInv, PhaseOK, Phase
<1>2. \A s \in Seqs : s <= nextSeq[b] => length[b][s] \in 1 .. ChunkBytes
  BY DEF StreamInv, LengthsOK
<1>3. /\ cons[b][c] \in ConsumerStates
      /\ Mine(b, c) \in SUBSET Seqs
      /\ nextSeq[b] \in 0 .. MaxSeq
      /\ InLine(cons[b][c], Mine(b, c), nextSeq[b], length[b], b)
  BY <1>1, LineOf DEF StreamInv
<1>4. QED
  BY <1>1, <1>2, <1>3, QueuedIs DEF LosingAll

\* The chunk of a writer gets the next sequence number.
LEMMA NumberAssigned ==
    ASSUME TypeOK, WriterOK, LengthsOK, NEW b \in Buffers, pc[b]["pump"] \in Writing,
           nextSeq' = [nextSeq EXCEPT ![b] = nextSeq[b] + 1],
           length' = [length EXCEPT ![b][nextSeq[b] + 1] = pump[b].size]
    PROVE  /\ LengthsOK'
           /\ nextSeq[b] < MaxSeq
           /\ nextSeq[b] \in Nat
           /\ nextSeq'[b] = nextSeq[b] + 1
           /\ \A s \in Seqs : s <= nextSeq[b] => length'[b][s] = length[b][s]
           /\ length'[b][nextSeq[b] + 1] = pump[b].size
           /\ pump[b].size \in 1 .. ChunkBytes
           /\ \A x \in Buffers : x # b => nextSeq'[x] = nextSeq[x] /\ length'[x] = length[x]
<1>1. nextSeq[b] < MaxSeq /\ pump[b].size \in ChunkSizes
  BY DEF WriterOK
<1>2. pump[b].size \in 1 .. ChunkBytes
  BY <1>1, ConstantsAssumption
<1>3. nextSeq[b] \in 0 .. MaxSeq /\ nextSeq[b] \in Nat /\ MaxSeq \in Nat
  BY ConstantsAssumption DEF TypeOK
<1>4. nextSeq[b] + 1 \in Seqs
  BY <1>1, <1>3 DEF Seqs
<1>5. nextSeq'[b] = nextSeq[b] + 1 /\ \A x \in Buffers : x # b => nextSeq'[x] = nextSeq[x]
  BY DEF TypeOK
<1>6. \A x \in Buffers, s \in Seqs : length'[x][s] =
         IF x = b /\ s = nextSeq[b] + 1 THEN pump[b].size ELSE length[x][s]
  BY <1>4 DEF TypeOK
<1>7. \A x \in Buffers : x # b => length'[x] = length[x]
  BY DEF TypeOK
<1>8. \A s \in Seqs : s <= nextSeq[b] => length'[b][s] = length[b][s]
  BY <1>3, <1>6 DEF Seqs
<1>9. LengthsOK'
  <2> SUFFICES ASSUME NEW x \in Buffers, NEW s \in Seqs, s <= nextSeq'[x]
               PROVE  length'[x][s] \in 1 .. ChunkBytes
    BY DEF LengthsOK
  <2>1. CASE x # b
    BY <2>1, <1>5, <1>6 DEF LengthsOK
  <2>2. CASE x = b /\ s = nextSeq[b] + 1
    BY <2>2, <1>2, <1>6
  <2>3. CASE x = b /\ s # nextSeq[b] + 1
    <3>1. s <= nextSeq[b]
      BY <2>3, <1>3, <1>5 DEF Seqs
    <3>2. QED
      BY <3>1, <2>3, <1>6 DEF LengthsOK
  <2>4. QED
    BY <2>1, <2>2, <2>3
<1>10. QED
  BY <1>1, <1>2, <1>3, <1>4, <1>5, <1>6, <1>7, <1>8, <1>9

\* A consumer that loses its queue and the chunk that gets the next number.
LEMMA LosesIncoming ==
    ASSUME TypeOK, StreamInv, NEW b \in Buffers, NEW c \in Consumers, cons[b][c].active,
           nextSeq[b] < MaxSeq, nextSeq'[b] = nextSeq[b] + 1,
           \A s \in Seqs : s <= nextSeq[b] => length'[b][s] = length[b][s],
           length'[b][nextSeq[b] + 1] = pump[b].size,
           pump[b].size \in 1 .. ChunkBytes,
           NEW nx \in 0 .. MaxSeq,
           cons[b][c].first # 0 => nx \in {0, cons[b][c].first},
           cons[b][c].first = 0 => nx = 0,
           cons'[b][c] = AddGap(Gapped(b, [cons[b][c] EXCEPT !.next = nx], Queued(b, c)),
                                nextSeq[b] + 1, pump[b].size),
           {s \in Seqs : c \in pending'[b][s]} = Mine(b, c) \ Queued(b, c)
    PROVE  /\ InLine(cons'[b][c], {s \in Seqs : c \in pending'[b][s]}, nextSeq'[b],
                     length'[b], b)
           /\ SameHand(cons'[b][c], cons[b][c])
           /\ SameStanding(cons'[b][c], cons[b][c])
<1> DEFINE st == cons[b][c]
           D == Queued(b, c)
           rest == Mine(b, c) \ Queued(b, c)
           n == nextSeq[b]
           row == length[b]
           row2 == length'[b]
           st2 == cons'[b][c]
<1>1. LosingAll(st, Mine(b, c), n, row, b, D, rest, nx)
  BY ActiveLoses
<1>2. st2 = AddGap(Lost(st, nx, D, row, b), n + 1, row2[n + 1])
  <2>1. st \in ConsumerStates /\ D \in SUBSET Seqs
    BY QueuedIs DEF TypeOK
  <2>2. Gapped(b, [st EXCEPT !.next = nx], D) = Lost(st, nx, D, row, b)
    BY <2>1, GappedIsLost
  <2>3. QED
    BY <2>2
<1>3. /\ n < MaxSeq
      /\ \A s \in Seqs : s <= n => row2[s] = row[s]
      /\ row2[n + 1] \in 1 .. ChunkBytes
  OBVIOUS
<1>4. {s \in Seqs : c \in pending'[b][s]} = rest /\ nextSeq'[b] = n + 1
  OBVIOUS
<1> HIDE DEF st, D, rest, n, row, row2, st2
<1>5. /\ InLine(st2, rest, n + 1, row2, b)
      /\ SameStanding(st2, st)
      /\ SameHand(st2, st)
  BY <1>1, <1>2, <1>3, LoseQueueAndNext
<1>6. QED
  BY <1>4, <1>5 DEF st, row2, st2

\* dropIncomingLocked keeps every consumer in line.
LEMMA DropIncomingStream ==
    ASSUME TypeOK, WriterOK, StreamInv, NEW b \in Buffers, pc[b]["pump"] \in Writing,
           ~closed[b], DropIncoming(b), closed' = closed
    PROVE  StreamInv' /\ HandsKept
<1> DEFINE seq == nextSeq[b] + 1
           dropped == [c \in Consumers |-> IF cons[b][c].active THEN Queued(b, c) ELSE {}]
           left == Without(b, dropped)
           Lose(c, st) ==
               IF st.active
               THEN AddGap(Gapped(b, [st EXCEPT !.next = 0], dropped[c]), seq, pump[b].size)
               ELSE st
<1>1. /\ nextSeq' = [nextSeq EXCEPT ![b] = seq]
      /\ length' = [length EXCEPT ![b][seq] = pump[b].size]
      /\ pending' = [pending EXCEPT ![b] = left]
      /\ cons' = [cons EXCEPT ![b] = [c \in Consumers |-> Lose(c, cons[b][c])]]
      /\ GotoRelease(b, "pump", Freed(b, left), "rel_read")
  BY DEF DropIncoming, Reclaim
<1>2. /\ LengthsOK'
      /\ nextSeq[b] < MaxSeq
      /\ nextSeq[b] \in Nat
      /\ nextSeq'[b] = nextSeq[b] + 1
      /\ \A s \in Seqs : s <= nextSeq[b] => length'[b][s] = length[b][s]
      /\ length'[b][nextSeq[b] + 1] = pump[b].size
      /\ pump[b].size \in 1 .. ChunkBytes
      /\ \A x \in Buffers : x # b => nextSeq'[x] = nextSeq[x] /\ length'[x] = length[x]
  BY <1>1, NumberAssigned DEF StreamInv
<1>3. \A x \in Buffers, c \in Consumers : pc'[x][c] = pc[x][c]
  BY <1>1, GotoReleaseOther DEF Roles, Consumers
<1>4. ASSUME NEW c \in Consumers, cons[b][c].active
      PROVE  /\ InLine(cons'[b][c], {s \in Seqs : c \in pending'[b][s]}, nextSeq'[b],
                       length'[b], b)
             /\ SameHand(cons'[b][c], cons[b][c])
             /\ SameStanding(cons'[b][c], cons[b][c])
  <2>1. cons'[b][c] = AddGap(Gapped(b, [cons[b][c] EXCEPT !.next = 0], Queued(b, c)),
                             nextSeq[b] + 1, pump[b].size)
    BY <1>1, <1>4 DEF TypeOK
  <2>2. {s \in Seqs : c \in pending'[b][s]} = Mine(b, c) \ Queued(b, c)
    <3>1. dropped[c] = Queued(b, c)
      BY <1>4
    <3>2. pending'[b] = left
      BY <1>1 DEF TypeOK
    <3> HIDE DEF dropped
    <3>3. QED
      BY <3>1, <3>2 DEF Without, Mine
  <2>3. 0 \in 0 .. MaxSeq
    BY ConstantsAssumption
  <2>4. QED
    BY <2>1, <2>2, <2>3, <1>2, <1>4, LosesIncoming
<1>5. ASSUME NEW c \in Consumers, ~cons[b][c].active
      PROVE  /\ cons'[b][c] = cons[b][c]
             /\ ~Enabled(b, c) \/ cons[b][c].failed
  <2>1. cons'[b][c] = cons[b][c]
    BY <1>1, <1>5 DEF TypeOK
  <2>2. QED
    BY <2>1, <1>5 DEF StreamInv, PhaseOK, Phase
<1>6. \A x \in Buffers : x # b =>
        /\ cons'[x] = cons[x]
        /\ pending'[x] = pending[x]
        /\ nextSeq'[x] = nextSeq[x]
        /\ length'[x] = length[x]
  BY <1>1, <1>2 DEF TypeOK
<1>7. LineOK'
  BY <1>4, <1>5, <1>6, LineOnBuffer DEF StreamInv
<1>8. ASSUME NEW x \in Buffers, NEW c \in Consumers
      PROVE  SameHand(cons'[x][c], cons[x][c]) /\ SameStanding(cons'[x][c], cons[x][c])
  <2>1. CASE x = b /\ cons[b][c].active
    BY <2>1, <1>4
  <2>2. CASE x # b \/ ~cons[b][c].active
    BY <2>2, <1>5, <1>6 DEF SameHand, SameStanding
  <2>3. QED
    BY <2>1, <2>2
<1>9. PhaseOK'
  BY <1>3, <1>8, PhaseKept DEF StreamInv
<1>10. HandsKept
  BY <1>3, <1>8 DEF HandsKept, SameStanding
<1>11. QED
  BY <1>2, <1>7, <1>9, <1>10 DEF StreamInv

\* writeChunk's append keeps every consumer in line: those without a gap take the
\* chunk, the others lose it behind their gap.
LEMMA AppendStream ==
    ASSUME TypeOK, WriterOK, StreamInv, NEW b \in Buffers, AppendChunk(b)
    PROVE  StreamInv' /\ HandsKept
<1>0. pc[b]["pump"] \in Writing /\ closed' = closed
  BY DEF AppendChunk, At, Writing
<1>1. CASE closed[b] \/ sealed[b]
  <2>1. Goto(b, "pump", "rel_seal") /\ UNCHANGED <<pending, length, nextSeq, cons>>
    BY <1>1 DEF AppendChunk, nodeVars
  <2>2. QED
    BY <2>1, <1>0, GotoOther, QuietStream DEF Roles, Consumers
<1>2. CASE ~closed[b] /\ ~sealed[b]
  <2> DEFINE seq == nextSeq[b] + 1
             mask == {c \in Consumers : cons[b][c].active /\ ~BehindGap(cons[b][c])}
             dropped == [c \in Consumers |->
                            IF cons[b][c].active /\ c \notin mask THEN Queued(b, c) ELSE {}]
             left == Without(b, dropped)
             freed == Freed(b, left)
             Take(c, st) ==
                 CASE c \in mask ->
                        IF st.next = 0 /\ st.first = 0 THEN [st EXCEPT !.next = seq] ELSE st
                   [] st.active /\ c \notin mask ->
                        AddGap(Gapped(b, [st EXCEPT !.next = IF st.first = 0 THEN 0 ELSE @],
                                      dropped[c]), seq, pump[b].size)
                   [] OTHER -> st
  <2>1. /\ nextSeq' = [nextSeq EXCEPT ![b] = seq]
        /\ length' = [length EXCEPT ![b][seq] = pump[b].size]
        /\ cons' = [cons EXCEPT ![b] = [c \in Consumers |-> Take(c, cons[b][c])]]
        /\ pending' = [pending EXCEPT ![b] = [left EXCEPT ![seq] = mask]]
        /\ GotoRelease(b, "pump", freed \cup (IF mask = {} THEN InHand(b) ELSE {}), "rel_read")
    BY <1>2 DEF AppendChunk
  <2>2. /\ LengthsOK'
        /\ nextSeq[b] < MaxSeq
        /\ nextSeq[b] \in Nat
        /\ nextSeq'[b] = nextSeq[b] + 1
        /\ \A s \in Seqs : s <= nextSeq[b] => length'[b][s] = length[b][s]
        /\ length'[b][nextSeq[b] + 1] = pump[b].size
        /\ pump[b].size \in 1 .. ChunkBytes
        /\ \A x \in Buffers : x # b => nextSeq'[x] = nextSeq[x] /\ length'[x] = length[x]
    BY <1>0, <2>1, NumberAssigned DEF StreamInv
  <2>3. \A x \in Buffers, c \in Consumers : pc'[x][c] = pc[x][c]
    BY <2>1, GotoReleaseOther DEF Roles, Consumers
  <2>4. /\ \A c \in Consumers : cons'[b][c] = Take(c, cons[b][c])
        /\ pending'[b] = [left EXCEPT ![seq] = mask]
        /\ left \in [Seqs -> SUBSET Consumers]
        /\ seq \in Seqs
    <3>1. seq \in Seqs
      BY <2>2, ConstantsAssumption DEF Seqs
    <3>2. left \in [Seqs -> SUBSET Consumers]
      BY WithoutType
    <3> HIDE DEF Take, left, mask, dropped
    <3>3. QED
      BY <3>1, <3>2, <2>1 DEF TypeOK
  <2>5. \A c \in Consumers, s \in Seqs :
           c \in pending'[b][s] <=>
              IF s = seq THEN c \in mask ELSE c \in pending[b][s] /\ s \notin dropped[c]
    BY <2>4 DEF Without
  <2> HIDE DEF left, freed
  <2>6. ASSUME NEW c \in Consumers, Enabled(b, c), ~cons[b][c].failed
        PROVE  /\ cons[b][c] \in ConsumerStates
               /\ Mine(b, c) \in SUBSET Seqs
               /\ nextSeq[b] \in 0 .. MaxSeq
               /\ InLine(cons[b][c], Mine(b, c), nextSeq[b], length[b], b)
               /\ seq \notin Mine(b, c)
    <3>1. /\ cons[b][c] \in ConsumerStates
          /\ Mine(b, c) \in SUBSET Seqs
          /\ nextSeq[b] \in 0 .. MaxSeq
          /\ InLine(cons[b][c], Mine(b, c), nextSeq[b], length[b], b)
      BY <2>6, LineOf DEF StreamInv
    <3>2. \A s \in Mine(b, c) : s <= nextSeq[b]
      BY <3>1, QueueBehind
    <3>3. QED
      BY <3>1, <3>2, <2>2
  <2>7. ASSUME NEW c \in Consumers, c \in mask
        PROVE  /\ InLine(cons'[b][c], {s \in Seqs : c \in pending'[b][s]}, nextSeq'[b],
                         length'[b], b)
               /\ SameHand(cons'[b][c], cons[b][c])
               /\ SameStanding(cons'[b][c], cons[b][c])
    <3>1. cons[b][c].active /\ ~BehindGap(cons[b][c]) /\ dropped[c] = {}
      BY <2>7
    <3>2. Enabled(b, c) /\ ~cons[b][c].failed
      BY <3>1 DEF StreamInv, PhaseOK, Phase
    <3>3. {s \in Seqs : c \in pending'[b][s]} = Mine(b, c) \cup {seq}
      BY <2>4, <2>5, <2>7, <3>1 DEF Mine
    <3>4. cons'[b][c] = IF cons[b][c].next = 0 /\ cons[b][c].first = 0
                        THEN [cons[b][c] EXCEPT !.next = seq] ELSE cons[b][c]
      BY <2>4, <2>7
    <3>5. cons[b][c].gapBytes = 0
      BY <3>1, <3>2, <2>6, StateNumbers DEF BehindGap
    <3> HIDE DEF mask, dropped, Take
    <3> DEFINE st == cons[b][c]
               mine == Mine(b, c)
               n == nextSeq[b]
               row == length[b]
               row2 == length'[b]
    <3>6. /\ st \in ConsumerStates
          /\ mine \in SUBSET Seqs
          /\ n \in 0 .. MaxSeq
          /\ InLine(st, mine, n, row, b)
          /\ n < MaxSeq
          /\ st.gapBytes = 0
          /\ \A s \in Seqs : s <= n => row2[s] = row[s]
      BY <2>2, <2>6, <3>2, <3>5
    <3>7. /\ cons'[b][c] = Taking(st, n)
          /\ {s \in Seqs : c \in pending'[b][s]} = mine \cup {n + 1}
          /\ nextSeq'[b] = n + 1
      BY <3>3, <3>4, <2>2 DEF Taking
    <3> HIDE DEF st, mine, n, row, row2
    <3>8. /\ InLine(cons'[b][c], mine \cup {n + 1}, n + 1, row2, b)
          /\ SameStanding(cons'[b][c], st)
          /\ SameHand(cons'[b][c], st)
      <4>1. /\ InLine(Taking(st, n), mine \cup {n + 1}, n + 1, row2, b)
            /\ SameStanding(Taking(st, n), st)
            /\ SameHand(Taking(st, n), st)
        BY <3>6, TakeNext
      <4>2. QED
        BY <3>7, <4>1
    <3>9. QED
      BY <3>7, <3>8 DEF st, row2
  <2>8. ASSUME NEW c \in Consumers, cons[b][c].active, c \notin mask
        PROVE  /\ InLine(cons'[b][c], {s \in Seqs : c \in pending'[b][s]}, nextSeq'[b],
                         length'[b], b)
               /\ SameHand(cons'[b][c], cons[b][c])
               /\ SameStanding(cons'[b][c], cons[b][c])
    <3> DEFINE nx == IF cons[b][c].first = 0 THEN 0 ELSE cons[b][c].next
    <3>1. dropped[c] = Queued(b, c)
      BY <2>8
    <3>2. Enabled(b, c) /\ ~cons[b][c].failed
      BY <2>8 DEF StreamInv, PhaseOK, Phase
    <3>3. cons'[b][c] = AddGap(Gapped(b, [cons[b][c] EXCEPT !.next = nx], Queued(b, c)),
                               nextSeq[b] + 1, pump[b].size)
      <4>1. cons'[b][c] =
               AddGap(Gapped(b, [cons[b][c] EXCEPT !.next =
                                    IF cons[b][c].first = 0 THEN 0 ELSE @], dropped[c]),
                      seq, pump[b].size)
        BY <2>4, <2>8
      <4>2. [cons[b][c] EXCEPT !.next = IF cons[b][c].first = 0 THEN 0 ELSE @]
               = [cons[b][c] EXCEPT !.next = nx]
        OBVIOUS
      <4> HIDE DEF nx, dropped
      <4>3. QED
        BY <4>1, <4>2, <3>1
    <3>4. {s \in Seqs : c \in pending'[b][s]} = Mine(b, c) \ Queued(b, c)
      <4>1. seq \notin Mine(b, c)
        BY <3>2, <2>6
      <4>2. \A s \in Seqs : c \in pending'[b][s] <=> s \in Mine(b, c) \ Queued(b, c)
        BY <4>1, <3>1, <2>5, <2>8 DEF Mine
      <4>3. QED
        BY <4>2 DEF Mine
    <3>5. /\ nx \in 0 .. MaxSeq
          /\ cons[b][c].first # 0 => nx \in {0, cons[b][c].first}
          /\ cons[b][c].first = 0 => nx = 0
      BY <3>2, <2>6, StateNumbers, ConstantsAssumption DEF InLine, QueueOK
    <3> HIDE DEF nx, mask, dropped, Take
    <3>6. QED
      BY <2>2, <2>8, <3>3, <3>4, <3>5, LosesIncoming
  <2>9. ASSUME NEW c \in Consumers, ~cons[b][c].active
        PROVE  /\ cons'[b][c] = cons[b][c]
               /\ ~Enabled(b, c) \/ cons[b][c].failed
    <3>1. cons'[b][c] = cons[b][c]
      BY <2>4, <2>9
    <3>2. QED
      BY <3>1, <2>9, <1>2 DEF StreamInv, PhaseOK, Phase
  <2>10. \A x \in Buffers : x # b =>
          /\ cons'[x] = cons[x]
          /\ pending'[x] = pending[x]
          /\ nextSeq'[x] = nextSeq[x]
          /\ length'[x] = length[x]
    BY <2>1, <2>2 DEF TypeOK
  <2> HIDE DEF mask, dropped, Take
  <2>11. LineOK'
    BY <2>7, <2>8, <2>9, <2>10, LineOnBuffer DEF StreamInv
  <2>12. ASSUME NEW x \in Buffers, NEW c \in Consumers
         PROVE  SameHand(cons'[x][c], cons[x][c]) /\ SameStanding(cons'[x][c], cons[x][c])
    <3>1. CASE x = b /\ cons[b][c].active
      BY <3>1, <2>7, <2>8
    <3>2. CASE x # b \/ ~cons[b][c].active
      BY <3>2, <2>9, <2>10 DEF SameHand, SameStanding
    <3>3. QED
      BY <3>1, <3>2
  <2>13. PhaseOK'
    BY <1>0, <2>3, <2>12, PhaseKept DEF StreamInv
  <2>14. HandsKept
    BY <2>3, <2>12 DEF HandsKept, SameStanding
  <2>15. QED
    BY <2>2, <2>11, <2>13, <2>14 DEF StreamInv
<1>3. QED
  BY <1>1, <1>2

\* Close keeps every consumer in line: its queue becomes a gap it will never hear of.
LEMMA CloseStream ==
    ASSUME TypeOK, StreamInv, NEW b \in Buffers, NEW r \in Closers, Close(b, r)
    PROVE  StreamInv' /\ HandsKept
<1>0. r \in Roles \ Consumers
  BY DEF Closers, Roles, Consumers
<1>1. CASE closed[b]
  <2>1. Goto(b, r, AfterClose[r]) /\ UNCHANGED <<pending, length, nextSeq, cons, closed>>
    BY <1>1 DEF Close, nodeVars
  <2>2. QED
    BY <2>1, <1>0, GotoOther, QuietStream
<1>2. CASE ~closed[b]
  <2> DEFINE dropped == [c \in Consumers |-> IF cons[b][c].active THEN Queued(b, c) ELSE {}]
             left == Without(b, dropped)
             Stop(c, st) ==
                 LET lost == IF st.active
                             THEN Gapped(b, [st EXCEPT !.next = 0], dropped[c])
                             ELSE st
                 IN  [lost EXCEPT !.active = FALSE, !.done = @ \/ pc[b][c] = "new"]
  <2>1. /\ closed' = [closed EXCEPT ![b] = TRUE]
        /\ cons' = [cons EXCEPT ![b] = [c \in Consumers |-> Stop(c, cons[b][c])]]
        /\ pending' = [pending EXCEPT ![b] = left]
        /\ GotoRelease(b, r, Freed(b, left), "rel_unreg")
        /\ UNCHANGED <<length, nextSeq>>
    BY <1>2 DEF Close, Reclaim
  <2>2. \A x \in Buffers, c \in Consumers : pc'[x][c] = pc[x][c]
    BY <2>1, <1>0, GotoReleaseOther
  <2>3. LengthsOK'
    BY <2>1 DEF StreamInv, LengthsOK
  <2>4. ASSUME NEW c \in Consumers
        PROVE  /\ SameHand(cons'[b][c], cons[b][c])
               /\ cons'[b][c].failed = cons[b][c].failed
               /\ cons'[b][c].active = FALSE
               /\ Enabled(b, c) /\ ~cons[b][c].failed =>
                     InLine(cons'[b][c], {s \in Seqs : c \in pending'[b][s]}, nextSeq'[b],
                            length'[b], b)
    <3> DEFINE st == cons[b][c]
               lost == IF st.active THEN Gapped(b, [st EXCEPT !.next = 0], dropped[c]) ELSE st
    <3>1. cons'[b][c] = [lost EXCEPT !.active = FALSE, !.done = @ \/ pc[b][c] = "new"]
      BY <2>1 DEF TypeOK
    <3>2. st \in ConsumerStates /\ 0 \in 0 .. MaxSeq
      BY ConstantsAssumption DEF TypeOK
    <3>3. {s \in Seqs : c \in pending'[b][s]} = {s \in Mine(b, c) : s \notin dropped[c]}
      <4>1. pending'[b] = left
        BY <2>1 DEF TypeOK
      <4> HIDE DEF dropped
      <4>2. QED
        BY <4>1 DEF Without, Mine
    <3>4. /\ lost \in ConsumerStates
          /\ SameHand(lost, st)
          /\ lost.failed = st.failed
          /\ st.active =>
                InLine(lost, {s \in Seqs : c \in pending'[b][s]}, nextSeq[b], length[b], b)
      <4>1. CASE ~st.active
        BY <4>1, <3>2 DEF SameHand
      <4>2. CASE st.active
        <5>1. lost = Gapped(b, [st EXCEPT !.next = 0], Queued(b, c)) /\ dropped[c] = Queued(b, c)
          BY <4>2
        <5>2. Queued(b, c) \in SUBSET Seqs
          BY QueuedIs
        <5>3. LosingAll(st, Mine(b, c), nextSeq[b], length[b], b, Queued(b, c),
                        Mine(b, c) \ Queued(b, c), 0)
          BY <4>2, <3>2, ActiveLoses
        <5>4. {s \in Seqs : c \in pending'[b][s]} = Mine(b, c) \ Queued(b, c)
          BY <5>1, <3>3
        <5> HIDE DEF st, lost, dropped
        <5>5. /\ lost = Lost(st, 0, Queued(b, c), length[b], b)
              /\ lost \in ConsumerStates
              /\ SameHand(lost, st)
              /\ SameStanding(lost, st)
          BY <5>1, <5>2, <3>2, GappedIsLost
        <5>6. InLine(lost, Mine(b, c) \ Queued(b, c), nextSeq[b], length[b], b)
          BY <5>3, <5>5, LoseQueue
        <5>7. QED
          BY <5>4, <5>5, <5>6 DEF SameStanding
      <4>3. QED
        BY <4>1, <4>2
    <3>5. ASSUME Enabled(b, c), ~st.failed PROVE st.active
      BY <3>5, <1>2 DEF StreamInv, PhaseOK, Phase
    <3> HIDE DEF lost
    <3>6. /\ SameHand(cons'[b][c], lost)
          /\ cons'[b][c].failed = lost.failed
          /\ cons'[b][c].active = FALSE
          /\ cons'[b][c].gapBytes = lost.gapBytes
          /\ cons'[b][c].gapSeq = lost.gapSeq
          /\ cons'[b][c].next = lost.next
      BY <3>1, <3>4 DEF ConsumerStates, SameHand
    <3>7. SameHand(cons'[b][c], st)
      BY <3>4, <3>6 DEF SameHand
    <3>8. ASSUME Enabled(b, c), ~st.failed
          PROVE  InLine(cons'[b][c], {s \in Seqs : c \in pending'[b][s]}, nextSeq'[b],
                        length'[b], b)
      <4>1. InLine(lost, {s \in Seqs : c \in pending'[b][s]}, nextSeq'[b], length'[b], b)
        BY <3>4, <3>5, <3>8, <2>1
      <4>2. QED
        BY <4>1, <3>6, SameLine
    <3>9. QED
      BY <3>4, <3>6, <3>7, <3>8
  <2>5. \A x \in Buffers : x # b =>
          /\ cons'[x] = cons[x]
          /\ pending'[x] = pending[x]
          /\ nextSeq'[x] = nextSeq[x]
          /\ length'[x] = length[x]
          /\ closed'[x] = closed[x]
    BY <2>1 DEF TypeOK
  <2>6. closed'[b] = TRUE
    BY <2>1 DEF TypeOK
  <2>7. LineOK'
    BY <2>4, <2>5, LineOnBuffer DEF StreamInv
  <2>8. PhaseOK'
    <3> SUFFICES ASSUME NEW x \in Buffers, NEW c \in Consumers
                 PROVE  /\ pc'[x][c] = "ingest" <=> cons'[x][c].first # 0
                        /\ pc'[x][c] = "gap" <=> cons'[x][c].flyGapSeq # 0
                        /\ cons'[x][c].failed => pc'[x][c] \in Failing \cup {"exited"}
                        /\ pc'[x][c] \in Failing => cons'[x][c].failed
                        /\ ~Enabled(x, c) => pc'[x][c] = "exited" /\ ~cons'[x][c].failed
                        /\ cons'[x][c].active <=>
                              Enabled(x, c) /\ ~cons'[x][c].failed /\ ~closed'[x]
      BY DEF PhaseOK, Phase, Enabled, Failing
    <3>1. CASE x = b
      <4>1. /\ pc[b][c] = "ingest" <=> cons[b][c].first # 0
            /\ pc[b][c] = "gap" <=> cons[b][c].flyGapSeq # 0
            /\ cons[b][c].failed => pc[b][c] \in Failing \cup {"exited"}
            /\ pc[b][c] \in Failing => cons[b][c].failed
            /\ ~Enabled(b, c) => pc[b][c] = "exited" /\ ~cons[b][c].failed
        BY DEF StreamInv, PhaseOK, Phase
      <4>2. /\ cons'[b][c].first = cons[b][c].first
            /\ cons'[b][c].flyGapSeq = cons[b][c].flyGapSeq
            /\ cons'[b][c].failed = cons[b][c].failed
            /\ ~cons'[b][c].active
            /\ pc'[b][c] = pc[b][c]
            /\ closed'[b]
        BY <2>2, <2>4, <2>6 DEF SameHand
      <4>3. QED
        BY <4>1, <4>2, <3>1, Zenon
    <3>2. CASE x # b
      BY <3>2, <2>2, <2>5 DEF StreamInv, PhaseOK, Phase
    <3>3. QED
      BY <3>1, <3>2
  <2>9. HandsKept
    <3> SUFFICES ASSUME NEW x \in Buffers, NEW c \in Consumers
                 PROVE  /\ SameHand(cons'[x][c], cons[x][c])
                        /\ cons'[x][c].failed = cons[x][c].failed
                        /\ pc'[x][c] = pc[x][c]
      BY DEF HandsKept
    <3>1. pc'[x][c] = pc[x][c]
      BY <2>2
    <3>2. CASE x = b
      BY <2>4, <3>1, <3>2
    <3>3. CASE x # b
      <4>1. cons'[x][c] = cons[x][c]
        BY <2>5, <3>3
      <4>2. QED
        BY <3>1, <4>1 DEF SameHand
    <3>4. QED
      BY <3>2, <3>3
  <2>10. QED
    BY <2>3, <2>7, <2>8, <2>9 DEF StreamInv
<1>3. QED
  BY <1>1, <1>2

-----------------------------------------------------------------------------
(* Steps of a consumer.                                                    *)

\* A step of one consumer leaves the others as they are.
LEMMA OneConsumer ==
    ASSUME StreamInv, NEW b \in Buffers, NEW c \in Consumers,
           UNCHANGED <<length, nextSeq, closed>>,
           \A x \in Buffers, d \in Consumers : x # b \/ d # c =>
              /\ pc'[x][d] = pc[x][d]
              /\ cons'[x][d] = cons[x][d]
              /\ {s \in Seqs : d \in pending'[x][s]} = Mine(x, d),
           Phase(pc'[b][c], cons'[b][c], Enabled(b, c), closed[b]),
           Enabled(b, c) /\ ~cons'[b][c].failed =>
              InLine(cons'[b][c], {s \in Seqs : c \in pending'[b][s]}, nextSeq[b], length[b], b)
    PROVE  StreamInv'
<1>1. LengthsOK'
  BY DEF StreamInv, LengthsOK
<1>2. PhaseOK'
  <2> SUFFICES ASSUME NEW x \in Buffers, NEW d \in Consumers
               PROVE  Phase(pc'[x][d], cons'[x][d], Enabled(x, d), closed'[x])
    BY DEF PhaseOK, Enabled, Phase, Failing
  <2>1. CASE x = b /\ d = c
    BY <2>1
  <2>2. CASE x # b \/ d # c
    BY <2>2 DEF StreamInv, PhaseOK
  <2>3. QED
    BY <2>1, <2>2
<1>3. LineOK'
  <2> SUFFICES ASSUME NEW x \in Buffers, NEW d \in Consumers,
                      Enabled(x, d), ~cons'[x][d].failed
               PROVE  InLine(cons'[x][d], {s \in Seqs : d \in pending'[x][s]},
                             nextSeq'[x], length'[x], x)
    BY DEF LineOK, Mine, Enabled
  <2>1. CASE x = b /\ d = c
    BY <2>1
  <2>2. CASE x # b \/ d # c
    BY <2>2 DEF StreamInv, LineOK
  <2>3. QED
    BY <2>1, <2>2
<1>4. QED
  BY <1>1, <1>2, <1>3 DEF StreamInv

\* What a step of consumer c of buffer b may change.
LEMMA ConsumerMoves ==
    ASSUME TypeOK, NEW b \in Buffers, NEW c \in Consumers, NEW label, NEW st,
           Goto(b, c, label), cons' = [cons EXCEPT ![b][c] = st]
    PROVE  /\ pc'[b][c] = label
           /\ cons'[b][c] = st
           /\ \A x \in Buffers, d \in Consumers : x # b \/ d # c =>
                 pc'[x][d] = pc[x][d] /\ cons'[x][d] = cons[x][d]
BY DEF TypeOK, PcOK, Goto, Roles

\* The consumer's own view of the invariant.
LEMMA PhaseHere ==
    ASSUME TypeOK, StreamInv, NEW b \in Buffers, NEW c \in Consumers
    PROVE  /\ Phase(pc[b][c], cons[b][c], Enabled(b, c), closed[b])
           /\ cons[b][c] \in ConsumerStates
BY DEF StreamInv, PhaseOK, TypeOK

\* A step of consumer c that moves it to st, standing at label, with the queue mine.
LEMMA ConsumerStream ==
    ASSUME TypeOK, StreamInv, NEW b \in Buffers, NEW c \in Consumers,
           NEW label, NEW st, NEW mine,
           Goto(b, c, label), cons' = [cons EXCEPT ![b][c] = st],
           UNCHANGED <<length, nextSeq, closed>>,
           {s \in Seqs : c \in pending'[b][s]} = mine,
           \A x \in Buffers, d \in Consumers : x # b \/ d # c =>
              {s \in Seqs : d \in pending'[x][s]} = Mine(x, d),
           Phase(label, st, Enabled(b, c), closed[b]),
           Enabled(b, c) /\ ~st.failed => InLine(st, mine, nextSeq[b], length[b], b)
    PROVE  StreamInv'
<1>1. /\ pc'[b][c] = label
      /\ cons'[b][c] = st
      /\ \A x \in Buffers, d \in Consumers : x # b \/ d # c =>
            pc'[x][d] = pc[x][d] /\ cons'[x][d] = cons[x][d]
  BY ConsumerMoves
<1>2. Phase(pc'[b][c], cons'[b][c], Enabled(b, c), closed[b])
  BY <1>1
<1>3. Enabled(b, c) /\ ~cons'[b][c].failed =>
         InLine(cons'[b][c], {s \in Seqs : c \in pending'[b][s]}, nextSeq[b], length[b], b)
  BY <1>1
<1>4. \A x \in Buffers, d \in Consumers : x # b \/ d # c =>
              /\ pc'[x][d] = pc[x][d]
              /\ cons'[x][d] = cons[x][d]
              /\ {s \in Seqs : d \in pending'[x][s]} = Mine(x, d)
  BY <1>1
<1>5. QED
  BY <1>2, <1>3, <1>4, OneConsumer

\* run keeps the invariant.
LEMMA RunStream ==
    ASSUME TypeOK, StreamInv, NEW b \in Buffers, NEW c \in Consumers, Run(b, c)
    PROVE  StreamInv'
<1>1. /\ pc[b][c] = "new"
      /\ UNCHANGED <<pending, length, nextSeq, closed>>
  BY DEF Run
<1>2. \A x \in Buffers, d \in Consumers : {s \in Seqs : d \in pending'[x][s]} = Mine(x, d)
  BY <1>1 DEF Mine
<1>3. PICK label \in {"next", "exited"}, done \in BOOLEAN :
         /\ Goto(b, c, label)
         /\ cons' = [cons EXCEPT ![b][c] = [cons[b][c] EXCEPT !.done = done]]
  <2>1. CASE Goto(b, c, "next") /\ cons' = cons
    <3>1. cons[b][c].done \in BOOLEAN
      BY DEF TypeOK, ConsumerStates
    <3>2. cons = [cons EXCEPT ![b][c] = [cons[b][c] EXCEPT !.done = cons[b][c].done]]
      BY DEF TypeOK, ConsumerStates
    <3>3. QED
      BY <2>1, <3>1, <3>2
  <2>2. CASE Goto(b, c, "exited") /\ cons' = [cons EXCEPT ![b][c].done = TRUE]
    <3>1. cons' = [cons EXCEPT ![b][c] = [cons[b][c] EXCEPT !.done = TRUE]]
      BY <2>2
    <3>2. QED
      BY <2>2, <3>1
  <2>3. QED
    BY <2>1, <2>2 DEF Run
<1> DEFINE st == cons[b][c]
           st2 == [st EXCEPT !.done = done]
<1>4. /\ pc'[b][c] = label
      /\ cons'[b][c] = st2
      /\ \A x \in Buffers, d \in Consumers : x # b \/ d # c =>
            pc'[x][d] = pc[x][d] /\ cons'[x][d] = cons[x][d]
  BY <1>3, ConsumerMoves
<1>5. st \in ConsumerStates /\ Phase("new", st, Enabled(b, c), closed[b])
  BY <1>1, PhaseHere
<1>6. /\ SameHand(st2, st)
      /\ st2.failed = st.failed
      /\ st2.active = st.active
      /\ st2.gapBytes = st.gapBytes
      /\ st2.gapSeq = st.gapSeq
      /\ st2.next = st.next
  BY <1>5 DEF ConsumerStates, SameHand
<1> HIDE DEF st2
<1>7. Phase(label, st2, Enabled(b, c), closed[b])
  <2>1. /\ st.first = 0
        /\ st.flyGapSeq = 0
        /\ ~st.failed
        /\ Enabled(b, c)
        /\ st.active <=> ~closed[b]
    BY <1>5 DEF Phase, Failing
  <2>2. /\ st2.first = 0
        /\ st2.flyGapSeq = 0
        /\ ~st2.failed
        /\ st2.active <=> ~closed[b]
    BY <2>1, <1>6 DEF SameHand
  <2>3. QED
    BY <2>1, <2>2 DEF Phase, Failing
<1>8. ASSUME Enabled(b, c), ~st2.failed
      PROVE  InLine(st2, {s \in Seqs : c \in pending'[b][s]}, nextSeq[b], length[b], b)
  <2>1. InLine(st, Mine(b, c), nextSeq[b], length[b], b)
    BY <1>6, <1>8, LineOf DEF StreamInv
  <2>2. InLine(st2, Mine(b, c), nextSeq[b], length[b], b)
    BY <2>1, <1>6, SameLine
  <2>3. QED
    BY <2>2, <1>2
<1>9. cons' = [cons EXCEPT ![b][c] = st2]
  BY <1>3 DEF st2
<1>10. QED
  BY <1>1, <1>2, <1>3, <1>7, <1>8, <1>9, ConsumerStream

\* The batch next makes of the queue starts at the cursor and ends in the queue.
LEMMA BatchInQueue ==
    ASSUME TypeOK, StreamInv, NEW b \in Buffers, NEW c \in Consumers,
           Enabled(b, c), ~cons[b][c].failed, cons[b][c].first = 0, cons[b][c].next # 0
    PROVE  /\ Greatest(Batch(b, c)) \in Mine(b, c)
           /\ cons[b][c].next <= Greatest(Batch(b, c))
<1> DEFINE st == cons[b][c]
           next == st.next
           mine == {s \in Seqs : c \in pending[b][s] /\ s >= next}
           upTo == {t \in mine : t <= next}
<1>1. /\ st \in ConsumerStates
      /\ nextSeq[b] \in 0 .. MaxSeq
      /\ InLine(st, Mine(b, c), nextSeq[b], length[b], b)
  BY LineOf DEF StreamInv
<1>2. /\ Frontier(st) \in Nat
      /\ Frontier(st) <= nextSeq[b]
      /\ MaxSeq \in Nat
      /\ nextSeq[b] \in Nat
  BY <1>1, StateNumbers, ConstantsAssumption DEF InLine, QueueOK
<1>3. next = Frontier(st) + 1 /\ Frontier(st) # nextSeq[b]
  BY <1>1 DEF InLine, QueueOK
<1>4. next \in Nat /\ next <= nextSeq[b] /\ next \in Seqs
  BY <1>1, <1>2, <1>3 DEF Seqs
<1>5. next \in Mine(b, c)
  BY <1>1, <1>2, <1>3, <1>4 DEF InLine, QueueOK
<1>6. upTo = {next}
  <2>1. \A t \in upTo : t = next
    BY <1>4 DEF Seqs
  <2>2. next \in upTo
    BY <1>4, <1>5 DEF Mine
  <2> HIDE DEF upTo
  <2>3. QED
    BY <2>1, <2>2
<1>7. Cardinality(BytesOf(b, {next})) <= ChunkBytes
  <2>1. PICK k \in Nat : k = Frontier(st) /\ next = k + 1
    BY <1>2, <1>3
  <2>2. length[b][next] \in 1 .. ChunkBytes
    BY <1>4 DEF StreamInv, LengthsOK
  <2>3. BytesOf(b, {next}) = RowBytes(length[b], b, (k + 1) .. (k + 1))
    <3>1. {next} = (k + 1) .. (k + 1)
      BY <2>1
    <3>2. QED
      BY <3>1 DEF BytesOf, RowBytes
  <2>4. Weight(length[b], b, k, k + 1) = length[b][k + 1]
    BY <2>1, <2>2, WeightOne
  <2>5. QED
    BY <2>1, <2>2, <2>3, <2>4, ConstantsAssumption DEF Weight
<1>8. Batch(b, c) = {s \in mine : Cardinality(BytesOf(b, {t \in mine : t <= s})) <= ChunkBytes}
  BY DEF Batch
<1>9. next \in mine
  BY <1>4, <1>5 DEF Mine
<1>10. next \in Batch(b, c)
  BY <1>6, <1>7, <1>8, <1>9
<1>11. Batch(b, c) \in SUBSET Seqs /\ Batch(b, c) \in SUBSET Mine(b, c)
  BY <1>8 DEF Mine
<1>12. Greatest(Batch(b, c)) \in Batch(b, c) /\ next <= Greatest(Batch(b, c))
  BY <1>10, <1>11, GreatestIn
<1>13. QED
  BY <1>11, <1>12

\* next keeps the consumer in line, whatever it hands over.
LEMMA NextBatchStream ==
    ASSUME TypeOK, StreamInv, NEW b \in Buffers, NEW c \in Consumers, NextBatch(b, c)
    PROVE  StreamInv'
<1> DEFINE st == cons[b][c]
<1>1. /\ pc[b][c] = "next"
      /\ UNCHANGED <<pending, length, nextSeq, closed>>
  BY DEF NextBatch, At
<1>2. \A x \in Buffers, d \in Consumers : {s \in Seqs : d \in pending'[x][s]} = Mine(x, d)
  BY <1>1 DEF Mine
<1>3. st \in ConsumerStates /\ Phase("next", st, Enabled(b, c), closed[b])
  BY <1>1, PhaseHere
<1>4. /\ st.first = 0
      /\ st.flyGapSeq = 0
      /\ ~st.failed
      /\ Enabled(b, c)
      /\ st.active <=> ~closed[b]
  BY <1>3 DEF Phase, Failing
<1>5. /\ Mine(b, c) \in SUBSET Seqs
      /\ nextSeq[b] \in 0 .. MaxSeq
      /\ InLine(st, Mine(b, c), nextSeq[b], length[b], b)
  BY <1>4, LineOf DEF StreamInv
<1>6. CASE UNCHANGED <<cons, pc>>
  BY <1>1, <1>6, QuietStream
<1>7. CASE Goto(b, c, "exited") /\ cons' = [cons EXCEPT ![b][c].done = TRUE]
  <2> DEFINE st2 == [st EXCEPT !.done = TRUE]
  <2>1. cons' = [cons EXCEPT ![b][c] = st2]
    BY <1>7
  <2>2. /\ SameHand(st2, st)
        /\ st2.failed = st.failed
        /\ st2.active = st.active
        /\ st2.gapBytes = st.gapBytes
        /\ st2.gapSeq = st.gapSeq
        /\ st2.next = st.next
    BY <1>3 DEF ConsumerStates, SameHand
  <2> HIDE DEF st2
  <2>3. Phase("exited", st2, Enabled(b, c), closed[b])
    BY <2>2, <1>4 DEF Phase, Failing, SameHand
  <2>4. InLine(st2, Mine(b, c), nextSeq[b], length[b], b)
    BY <2>2, <1>5, SameLine
  <2> HIDE DEF st
  <2>5. QED
    BY <2>1, <2>3, <2>4, <1>1, <1>2, <1>7, ConsumerStream
<1>8. CASE /\ st.active /\ ~closed[b] /\ st.gapBytes > 0
           /\ cons' = [cons EXCEPT ![b][c] =
                  [@ EXCEPT !.flyGapSeq = st.gapSeq, !.flyGapBytes = st.gapBytes,
                            !.gapSeq = 0, !.gapBytes = 0]]
           /\ Goto(b, c, "gap")
  <2> DEFINE st2 == [st EXCEPT !.flyGapSeq = st.gapSeq, !.flyGapBytes = st.gapBytes,
                               !.gapSeq = 0, !.gapBytes = 0]
  <2>1. cons' = [cons EXCEPT ![b][c] = st2]
    BY <1>8
  <2>2. /\ InLine(st2, Mine(b, c), nextSeq[b], length[b], b)
        /\ st.completed < st.gapSeq
    BY <1>3, <1>4, <1>5, <1>8, HandGap
  <2>3. /\ st2.first = 0
        /\ st2.flyGapSeq = st.gapSeq
        /\ st2.failed = st.failed
        /\ st2.active = st.active
    BY <1>3, <1>4 DEF ConsumerStates
  <2> HIDE DEF st2
  <2>4. st2.flyGapSeq # 0
    BY <2>2, <2>3, <1>3, StateNumbers
  <2>5. Phase("gap", st2, Enabled(b, c), closed[b])
    BY <2>3, <2>4, <1>4 DEF Phase, Failing
  <2> HIDE DEF st
  <2>6. QED
    BY <2>1, <2>2, <2>5, <1>1, <1>2, <1>8, ConsumerStream
<1>9. CASE /\ st.active /\ ~closed[b] /\ st.gapBytes = 0 /\ st.next # 0
           /\ cons' = [cons EXCEPT ![b][c] =
                  [@ EXCEPT !.first = st.next, !.last = Greatest(Batch(b, c))]]
           /\ Goto(b, c, "ingest")
  <2>1. PICK last : last = Greatest(Batch(b, c))
    OBVIOUS
  <2>2. last \in Mine(b, c) /\ st.next <= last
    BY <2>1, <1>4, <1>9, BatchInQueue
  <2> DEFINE st2 == [st EXCEPT !.first = st.next, !.last = last]
  <2>3. cons' = [cons EXCEPT ![b][c] = st2]
    BY <2>1, <1>9
  <2>4. InLine(st2, Mine(b, c), nextSeq[b], length[b], b)
    BY <2>2, <1>3, <1>4, <1>5, <1>9, HandPayload
  <2>5. /\ st2.first = st.next
        /\ st2.flyGapSeq = 0
        /\ st2.failed = st.failed
        /\ st2.active = st.active
    BY <1>3, <1>4 DEF ConsumerStates
  <2> HIDE DEF st2
  <2>6. Phase("ingest", st2, Enabled(b, c), closed[b])
    BY <2>5, <1>4, <1>9 DEF Phase, Failing
  <2> HIDE DEF st
  <2>7. QED
    BY <2>3, <2>4, <2>6, <1>1, <1>2, <1>9, ConsumerStream
<1>10. QED
  BY <1>6, <1>7, <1>8, <1>9 DEF NextBatch

\* What GiveUp does to the masks: consumer c gives up nodes and nobody else any.
LEMMA GiveUpMoves ==
    ASSUME TypeOK, NEW b \in Buffers, NEW c \in Consumers, NEW nodes, NEW label,
           GiveUp(b, c, nodes, label)
    PROVE  /\ UNCHANGED <<length, nextSeq, closed>>
           /\ Goto(b, c, label) \/ Goto(b, c, AfterRelease[label])
           /\ {s \in Seqs : c \in pending'[b][s]} = {s \in Mine(b, c) : s \notin nodes}
           /\ \A x \in Buffers, d \in Consumers : x # b \/ d # c =>
                 {s \in Seqs : d \in pending'[x][s]} = Mine(x, d)
<1> DEFINE dropped == [d \in Consumers |-> IF d = c THEN nodes ELSE {}]
           left == Without(b, dropped)
<1>1. pending' = [pending EXCEPT ![b] = left]
  BY DEF GiveUp, Reclaim
<1>2. /\ UNCHANGED <<length, nextSeq, closed>>
      /\ Goto(b, c, label) \/ Goto(b, c, AfterRelease[label])
  BY DEF GiveUp, GotoRelease
<1>3. dropped[c] = nodes /\ \A d \in Consumers : d # c => dropped[d] = {}
  OBVIOUS
<1>4. pending'[b] = left /\ \A x \in Buffers : x # b => pending'[x] = pending[x]
  BY <1>1 DEF TypeOK
<1> HIDE DEF dropped
<1>5. {s \in Seqs : c \in pending'[b][s]} = {s \in Mine(b, c) : s \notin nodes}
  BY <1>3, <1>4 DEF Without, Mine
<1>6. ASSUME NEW x \in Buffers, NEW d \in Consumers, x # b \/ d # c
      PROVE  {s \in Seqs : d \in pending'[x][s]} = Mine(x, d)
  <2>1. CASE x # b
    BY <2>1, <1>4 DEF Mine
  <2>2. CASE x = b
    BY <2>2, <1>3, <1>4, <1>6 DEF Without, Mine
  <2>3. QED
    BY <2>1, <2>2
<1>7. QED
  BY <1>2, <1>5, <1>6

\* A consumer that fails keeps nothing in hand and leaves the line.
LEMMA FailStream ==
    ASSUME TypeOK, StreamInv, NEW b \in Buffers, NEW c \in Consumers, Enabled(b, c),
           NEW base \in ConsumerStates, base.first = 0, base.flyGapSeq = 0,
           NEW nodes, GiveUp(b, c, nodes, "rel_wake"),
           cons' = [cons EXCEPT ![b][c] = Unavailable(base)]
    PROVE  StreamInv'
<1>1. /\ UNCHANGED <<length, nextSeq, closed>>
      /\ Goto(b, c, "rel_wake") \/ Goto(b, c, "wake")
      /\ \A x \in Buffers, d \in Consumers : x # b \/ d # c =>
            {s \in Seqs : d \in pending'[x][s]} = Mine(x, d)
  BY GiveUpMoves DEF AfterRelease
<1>2. PICK st : st = Unavailable(base)
  OBVIOUS
<1>3. st.first = 0 /\ st.flyGapSeq = 0 /\ st.failed /\ ~st.active
  BY <1>2 DEF Unavailable, ConsumerStates
<1>4. \A label \in {"rel_wake", "wake"} : Phase(label, st, Enabled(b, c), closed[b])
  BY <1>3 DEF Phase, Failing
<1>5. PICK mine : mine = {s \in Seqs : c \in pending'[b][s]}
  OBVIOUS
<1>6. cons' = [cons EXCEPT ![b][c] = st]
  BY <1>2
<1>7. QED
  BY <1>1, <1>3, <1>4, <1>5, <1>6, ConsumerStream

\* completeBatch keeps the invariant, whether or not the ingestion failed.
LEMMA CompleteBatchStream ==
    ASSUME TypeOK, StreamInv, NEW b \in Buffers, NEW c \in Consumers, CompleteBatch(b, c)
    PROVE  StreamInv'
<1> DEFINE st == cons[b][c]
           mine == {s \in Seqs : c \in pending[b][s]}
           base == [st EXCEPT !.first = 0, !.last = 0, !.completed = Larger(@, st.last),
                              !.next = NextPending(mine, st.last)]
<1>1. /\ pc[b][c] = "ingest"
      /\ mine = Mine(b, c)
  BY DEF CompleteBatch, At, Mine
<1>2. st \in ConsumerStates /\ Phase("ingest", st, Enabled(b, c), closed[b])
  BY <1>1, PhaseHere
<1>3. /\ st.first # 0
      /\ st.flyGapSeq = 0
      /\ ~st.failed
      /\ Enabled(b, c)
      /\ st.active <=> ~closed[b]
  BY <1>2 DEF Phase, Failing
<1>4. /\ Mine(b, c) \in SUBSET Seqs
      /\ nextSeq[b] \in 0 .. MaxSeq
      /\ InLine(st, Mine(b, c), nextSeq[b], length[b], b)
  BY <1>3, LineOf DEF StreamInv
<1>5. base \in ConsumerStates
  <2>1. 0 \in 0 .. MaxSeq /\ st.last \in 0 .. MaxSeq /\ Larger(st.completed, st.last) \in 0 .. MaxSeq
    BY <1>2, ConstantsAssumption DEF ConsumerStates, Larger
  <2>2. NextPending(mine, st.last) \in 0 .. MaxSeq
    BY <2>1, NextPendingIn
  <2>3. QED
    BY <1>2, <2>1, <2>2 DEF ConsumerStates
<1>6. /\ base.first = 0
      /\ base.flyGapSeq = 0
      /\ base.failed = st.failed
      /\ base.active = st.active
  BY <1>2, <1>3 DEF ConsumerStates
<1>7. CASE /\ GiveUp(b, c, {s \in mine : st.first <= s /\ s <= st.last}, "rel_next")
           /\ cons' = [cons EXCEPT ![b][c] = base]
  <2>1. PICK given : given = {s \in mine : st.first <= s /\ s <= st.last}
    OBVIOUS
  <2>2. PICK rest : rest = {s \in Mine(b, c) : ~(st.first <= s /\ s <= st.last)}
    OBVIOUS
  <2>3. {s \in Mine(b, c) : s \notin given} = rest
    BY <2>1, <2>2, <1>1
  <2>4. InLine(base, rest, nextSeq[b], length[b], b)
    BY <2>2, <1>1, <1>2, <1>3, <1>4, BatchDone
  <2>5. GiveUp(b, c, given, "rel_next")
    BY <1>7, <2>1
  <2> HIDE DEF base, st, mine
  <2>6. /\ UNCHANGED <<length, nextSeq, closed>>
        /\ Goto(b, c, "rel_next") \/ Goto(b, c, "next")
        /\ {s \in Seqs : c \in pending'[b][s]} = rest
        /\ \A x \in Buffers, d \in Consumers : x # b \/ d # c =>
              {s \in Seqs : d \in pending'[x][s]} = Mine(x, d)
    BY <2>3, <2>5, GiveUpMoves DEF AfterRelease
  <2>7. \A label \in {"rel_next", "next"} : Phase(label, base, Enabled(b, c), closed[b])
    BY <1>3, <1>6 DEF Phase, Failing
  <2>8. QED
    BY <2>4, <2>6, <2>7, <1>7, ConsumerStream
<1>8. CASE /\ GiveUp(b, c, {s \in mine : st.first <= s}, "rel_wake")
           /\ cons' = [cons EXCEPT ![b][c] = Unavailable(base)]
  <2>1. PICK given : given = {s \in mine : st.first <= s}
    OBVIOUS
  <2>2. GiveUp(b, c, given, "rel_wake")
    BY <1>8, <2>1
  <2> HIDE DEF base, st, mine
  <2>3. QED
    BY <2>2, <1>3, <1>5, <1>6, <1>8, FailStream
<1>9. QED
  BY <1>7, <1>8 DEF CompleteBatch

\* completeGap keeps the invariant, whether or not the consumer survives the gap.
LEMMA CompleteGapStream ==
    ASSUME TypeOK, StreamInv, NEW b \in Buffers, NEW c \in Consumers, CompleteGap(b, c)
    PROVE  StreamInv'
<1> DEFINE st == cons[b][c]
           queue == {s \in Seqs : c \in pending[b][s] /\ st.next # 0 /\ s >= st.next}
           base == [st EXCEPT !.flyGapSeq = 0, !.flyGapBytes = 0]
           done == [base EXCEPT !.completed = Larger(@, st.flyGapSeq)]
<1>1. pc[b][c] = "gap"
  BY DEF CompleteGap, At
<1>2. st \in ConsumerStates /\ Phase("gap", st, Enabled(b, c), closed[b])
  BY <1>1, PhaseHere
<1>3. /\ st.first = 0
      /\ st.flyGapSeq # 0
      /\ ~st.failed
      /\ Enabled(b, c)
      /\ st.active <=> ~closed[b]
  BY <1>2 DEF Phase, Failing
<1>4. /\ Mine(b, c) \in SUBSET Seqs
      /\ nextSeq[b] \in 0 .. MaxSeq
      /\ InLine(st, Mine(b, c), nextSeq[b], length[b], b)
  BY <1>3, LineOf DEF StreamInv
<1>5. base \in ConsumerStates /\ base.first = 0 /\ base.flyGapSeq = 0
  BY <1>2, <1>3, ConstantsAssumption DEF ConsumerStates
<1>6. CASE /\ GiveUp(b, c, {}, "rel_next")
           /\ cons' = [cons EXCEPT ![b][c] = done]
  <2>1. done = [st EXCEPT !.flyGapSeq = 0, !.flyGapBytes = 0,
                          !.completed = Larger(@, st.flyGapSeq)]
    BY <1>2 DEF ConsumerStates
  <2>2. InLine(done, Mine(b, c), nextSeq[b], length[b], b)
    BY <2>1, <1>2, <1>3, <1>4, GapDone
  <2>3. /\ done.first = 0
        /\ done.flyGapSeq = 0
        /\ done.failed = st.failed
        /\ done.active = st.active
    BY <1>2, <1>3 DEF ConsumerStates
  <2> HIDE DEF done, base, st
  <2>4. /\ UNCHANGED <<length, nextSeq, closed>>
        /\ Goto(b, c, "rel_next") \/ Goto(b, c, "next")
        /\ {s \in Seqs : c \in pending'[b][s]} = Mine(b, c)
        /\ \A x \in Buffers, d \in Consumers : x # b \/ d # c =>
              {s \in Seqs : d \in pending'[x][s]} = Mine(x, d)
    BY <1>6, GiveUpMoves DEF AfterRelease
  <2>5. \A label \in {"rel_next", "next"} : Phase(label, done, Enabled(b, c), closed[b])
    BY <1>3, <2>3 DEF Phase, Failing
  <2>6. QED
    BY <2>2, <2>4, <2>5, <1>6, ConsumerStream
<1>7. CASE /\ GiveUp(b, c, queue, "rel_wake")
           /\ cons' = [cons EXCEPT ![b][c] = Unavailable(base)]
  <2> HIDE DEF base, st, queue
  <2>1. QED
    BY <1>3, <1>5, <1>7, FailStream
<1>8. QED
  BY <1>6, <1>7 DEF CompleteGap

\* What follows a failure leaves the consumer as failed as it was.
LEMMA FailureStream ==
    ASSUME TypeOK, StreamInv, NEW b \in Buffers, NEW c \in Consumers,
           FailureWake(b, c) \/ FailureHandled(b, c)
    PROVE  StreamInv'
<1> DEFINE st == cons[b][c]
<1>1. /\ pc[b][c] \in {"wake", "failed"}
      /\ UNCHANGED <<pending, length, nextSeq, closed>>
  BY DEF FailureWake, FailureHandled, At, nodeVars
<1>2. \A x \in Buffers, d \in Consumers : {s \in Seqs : d \in pending'[x][s]} = Mine(x, d)
  BY <1>1 DEF Mine
<1>3. st \in ConsumerStates /\ Phase(pc[b][c], st, Enabled(b, c), closed[b])
  BY PhaseHere
<1>4. /\ st.first = 0
      /\ st.flyGapSeq = 0
      /\ st.failed
      /\ Enabled(b, c)
      /\ ~st.active
  BY <1>1, <1>3 DEF Phase, Failing
<1>5. PICK label \in {"failed", "exited"} : \E st2 :
         /\ Goto(b, c, label)
         /\ cons' = [cons EXCEPT ![b][c] = st2]
         /\ st2.first = 0
         /\ st2.flyGapSeq = 0
         /\ st2.failed
         /\ ~st2.active
  <2>1. CASE FailureWake(b, c)
    <3>1. cons' = [cons EXCEPT ![b][c] = st] /\ Goto(b, c, "failed")
      BY <2>1 DEF FailureWake, nodeVars, TypeOK
    <3>2. QED
      BY <3>1, <1>4
  <2>2. CASE FailureHandled(b, c)
    <3> DEFINE st2 == [st EXCEPT !.failurePending = FALSE, !.done = TRUE]
    <3>1. cons' = [cons EXCEPT ![b][c] = st2] /\ Goto(b, c, "exited")
      BY <2>2 DEF FailureHandled
    <3>2. st2.first = 0 /\ st2.flyGapSeq = 0 /\ st2.failed /\ ~st2.active
      BY <1>3, <1>4 DEF ConsumerStates
    <3>3. QED
      BY <3>1, <3>2
  <2>3. QED
    BY <2>1, <2>2
<1>6. PICK st2 :
         /\ Goto(b, c, label)
         /\ cons' = [cons EXCEPT ![b][c] = st2]
         /\ st2.first = 0
         /\ st2.flyGapSeq = 0
         /\ st2.failed
         /\ ~st2.active
  BY <1>5
<1>7. Phase(label, st2, Enabled(b, c), closed[b])
  BY <1>4, <1>6 DEF Phase, Failing
<1>8. QED
  BY <1>1, <1>2, <1>6, <1>7, ConsumerStream

-----------------------------------------------------------------------------
(* The other threads, and the invariant.                                   *)

\* Paying the budget moves a consumer on without a change of its state.
LEMMA ReleaseStream ==
    ASSUME TypeOK, StreamInv, NEW b \in Buffers, NEW r \in Roles, Release(b, r)
    PROVE  StreamInv'
<1>1. /\ UNCHANGED <<pending, length, nextSeq, cons, closed>>
      /\ Goto(b, r, AfterRelease[pc[b][r]])
      /\ pc[b][r] \in DOMAIN AfterRelease
  BY DEF Release, nodeVars
<1>2. CASE r \notin Consumers
  BY <1>1, <1>2, GotoOther, QuietStream
<1>3. CASE r \in Consumers
  <2>1. \A x \in Buffers, d \in Consumers : {s \in Seqs : d \in pending'[x][s]} = Mine(x, d)
    BY <1>1 DEF Mine
  <2>2. PICK label : label = AfterRelease[pc[b][r]]
    OBVIOUS
  <2>3. Phase(label, cons[b][r], Enabled(b, r), closed[b])
    <3>1. Phase(pc[b][r], cons[b][r], Enabled(b, r), closed[b])
      BY <1>3, PhaseHere
    <3>2. pc[b][r] \in ConsumerLabels
      BY <1>3, LabelsIn DEF TypeOK, PcOK, Consumers, Labels, Roles
    <3>3. pc[b][r] \in {"rel_next", "rel_wake"}
      BY <1>1, <3>2 DEF AfterRelease, ConsumerLabels
    <3>4. \/ pc[b][r] = "rel_next" /\ label = "next"
          \/ pc[b][r] = "rel_wake" /\ label = "wake"
      <4>1. AfterRelease["rel_next"] = "next" /\ AfterRelease["rel_wake"] = "wake"
        BY DEF AfterRelease
      <4>2. QED
        BY <2>2, <3>3, <4>1
    <3>5. QED
      BY <3>1, <3>4 DEF Phase, Failing
  <2>4. Enabled(b, r) /\ ~cons[b][r].failed =>
           InLine(cons[b][r], Mine(b, r), nextSeq[b], length[b], b)
    BY <1>3, LineOf DEF StreamInv
  <2>5. cons' = [cons EXCEPT ![b][r] = cons[b][r]]
    BY <1>1, <1>3 DEF TypeOK
  <2>6. QED
    BY <1>1, <1>3, <2>1, <2>2, <2>3, <2>4, <2>5, ConsumerStream
<1>4. QED
  BY <1>2, <1>3

\* dropOldestLocked in a step of a pump keeps the invariant.
LEMMA DropStream ==
    ASSUME TypeOK, StreamInv, NEW b \in Buffers, NEW owner \in Buffers, NEW required \in Int,
           DropOldest(b, required, owner), UNCHANGED <<length, nextSeq, closed>>,
           \A x \in Buffers, c \in Consumers : pc'[x][c] = pc[x][c]
    PROVE  StreamInv' /\ HandsKept
<1>1. /\ LineOK'
      /\ \A x \in Buffers, c \in Consumers :
            /\ SameHand(cons'[x][c], cons[x][c])
            /\ SameStanding(cons'[x][c], cons[x][c])
  BY DropOldestStream
<1>2. LengthsOK'
  BY DEF StreamInv, LengthsOK
<1>3. PhaseOK'
  BY <1>1, PhaseKept DEF StreamInv
<1>4. HandsKept
  BY <1>1 DEF HandsKept, SameStanding
<1>5. QED
  BY <1>1, <1>2, <1>3, <1>4 DEF StreamInv

\* The first critical section of writeChunk keeps the invariant.
LEMMA WriteLocalStream ==
    ASSUME TypeOK, WriterOK, StreamInv, NEW b \in Buffers, WriteLocal(b)
    PROVE  StreamInv' /\ HandsKept
<1>1. /\ pc[b]["pump"] \in Writing
      /\ closed' = closed
      /\ "pump" \in Roles \ Consumers
  BY DEF WriteLocal, At, Writing, Roles, Consumers
<1>2. CASE UNCHANGED <<nodeVars, pc, owed>>
  BY <1>1, <1>2, QuietStream DEF nodeVars
<1>3. CASE /\ DropOldest(b, pump[b].size, b) /\ Goto(b, "pump", "rel_local")
           /\ UNCHANGED <<length, nextSeq, asleep>>
  <2>1. pump[b].size \in Int
    BY PumpNumbers
  <2>2. QED
    BY <1>1, <1>3, <2>1, GotoOther, DropStream
<1>4. CASE DropIncoming(b) /\ AcceptingOutput(b)
  BY <1>1, <1>4, DropIncomingStream DEF AcceptingOutput
<1>5. CASE /\ Goto(b, "pump", "accept") \/ Goto(b, "pump", "seal") \/ Goto(b, "pump", "read")
           /\ UNCHANGED <<nodeVars, owed, asleep>>
  BY <1>1, <1>5, GotoOther, QuietStream DEF nodeVars
<1>6. QED
  BY <1>2, <1>3, <1>4, <1>5 DEF WriteLocal

\* dropForAggregate keeps the invariant, of its own buffer and of others.
LEMMA EvictStream ==
    ASSUME TypeOK, StreamInv, NEW b \in Buffers, Evict(b)
    PROVE  StreamInv' /\ HandsKept
<1>1. PICK d \in pump[b].candidates :
          /\ DropOldest(d, pump[b].remaining, b)
          /\ GotoRelease(b, "pump", Freed(d, Without(d, DropOldestSets(d, pump[b].remaining))),
                         "rel_evict")
  BY DEF Evict
<1>2. d \in Buffers /\ pump[b].remaining \in Int
  <2>1. pump[b].candidates \in SUBSET DropBuffers /\ pump[b].remaining \in Int
    BY PumpNumbers DEF PumpStates
  <2>2. QED
    BY <2>1, ConstantsAssumption
<1>3. UNCHANGED <<length, nextSeq, closed>>
  BY DEF Evict
<1>4. "pump" \in Roles \ Consumers
  BY DEF Roles, Consumers
<1>5. QED
  BY <1>1, <1>2, <1>3, <1>4, GotoReleaseOther, DropStream

\* The rest of the pump's steps keep the invariant.
LEMMA PumpStream ==
    ASSUME TypeOK, WriterOK, StreamInv, NEW b \in Buffers, PumpStep(b) \/ Environment(b)
    PROVE  StreamInv' /\ HandsKept
<1>0. {"pump", "abort", "flush"} \subseteq Roles \ Consumers
  BY DEF Roles, Consumers
<1>1. CASE \/ ReserveCheck(b) \/ Reserve(b) \/ ReserveRetry(b) \/ Seal(b) \/ SealWake(b)
           \/ PumpEOF(b) \/ PumpRead(b) \/ AbortStart(b) \/ FlushStart(b) \/ FlushCancel(b)
  <2>1. UNCHANGED <<pending, length, nextSeq, cons, closed>>
    BY <1>1 DEF ReserveCheck, Reserve, ReserveRetry, Seal, SealWake, PumpEOF, PumpRead,
                AbortStart, FlushStart, FlushCancel, nodeVars
  <2>2. \E r \in {"pump", "abort", "flush"} : \E label : Goto(b, r, label)
    BY <1>1 DEF ReserveCheck, Reserve, ReserveRetry, Seal, SealWake, PumpEOF, PumpRead,
                AbortStart, FlushStart, FlushPass, FlushCancel
  <2>3. QED
    BY <1>0, <2>1, <2>2, GotoOther, QuietStream
<1>2. CASE WriteRefused(b)
  <2>1. CASE Goto(b, "pump", "seal") /\ UNCHANGED <<nodeVars, closed>>
    BY <1>0, <2>1, GotoOther, QuietStream DEF nodeVars
  <2>2. CASE ~closed[b] /\ DropIncoming(b)
    <3>1. pc[b]["pump"] \in Writing /\ closed' = closed
      BY <1>2 DEF WriteRefused, At, Writing
    <3>2. QED
      BY <2>2, <3>1, DropIncomingStream
  <2>3. QED
    BY <1>2, <2>1, <2>2 DEF WriteRefused
<1>3. QED
  BY <1>1, <1>2, WriteLocalStream, EvictStream, AppendStream
     DEF PumpStep, PumpClosed, Environment

\* Every step keeps the invariant.
LEMMA StreamStep ==
    TypeOK /\ WriterOK /\ StreamInv /\ [Next]_vars => StreamInv'
<1> SUFFICES ASSUME TypeOK, WriterOK, StreamInv, [Next]_vars PROVE StreamInv'
  OBVIOUS
<1>1. ASSUME NEW b \in Buffers, NEW r \in Closers, CloserStep(b, r) PROVE StreamInv'
  <2>1. CASE Unregister(b, r) \/ Wait(b, r)
    <3>1. UNCHANGED <<pending, length, nextSeq, cons, closed>>
      BY <2>1 DEF Unregister, Wait, nodeVars
    <3>2. r \in Roles \ Consumers /\ \E label : Goto(b, r, label)
      BY <2>1 DEF Unregister, Wait, Closers, Roles, Consumers
    <3>3. QED
      BY <3>1, <3>2, GotoOther, QuietStream
  <2>2. QED
    BY <1>1, <2>1, CloseStream DEF CloserStep
<1>2. ASSUME NEW b \in Buffers, NEW c \in Consumers, ConsumerStep(b, c) PROVE StreamInv'
  BY <1>2, RunStream, NextBatchStream, CompleteBatchStream, CompleteGapStream, FailureStream
     DEF ConsumerStep
<1>3. CASE UNCHANGED vars \/ BudgetClose
  BY <1>3, QuietStream DEF vars, BudgetClose, nodeVars
<1>4. ASSUME NEW b \in Buffers, FlushWoken(b) PROVE StreamInv'
  <2>1. /\ UNCHANGED <<pending, length, nextSeq, cons, closed>>
        /\ \E label : Goto(b, "flush", label)
    BY <1>4 DEF FlushWoken, FlushPass, nodeVars
  <2>2. "flush" \in Roles \ Consumers
    BY DEF Roles, Consumers
  <2>3. QED
    BY <2>1, <2>2, GotoOther, QuietStream
<1>5. QED
  BY <1>1, <1>2, <1>3, <1>4, PumpStream, ReleaseStream DEF Next

\* A new buffer has nothing queued and nobody in hand.
LEMMA InitStream == Init => StreamInv
<1> SUFFICES ASSUME Init PROVE StreamInv
  OBVIOUS
<1>1. LengthsOK
  BY ConstantsAssumption DEF Init, LengthsOK, Seqs
<1>2. ASSUME NEW b \in Buffers, NEW c \in Consumers
      PROVE  /\ pc[b][c] = IF Enabled(b, c) THEN "new" ELSE "exited"
             /\ cons[b][c] = NewConsumer(Enabled(b, c))
             /\ Mine(b, c) = {}
             /\ nextSeq[b] = 0
             /\ closed[b] = FALSE
  <2>1. c \in Roles
    BY DEF Roles
  <2>2. Mine(b, c) = {}
    BY DEF Init, Mine
  <2>3. pc[b][c] = IF Enabled(b, c) THEN "new" ELSE "exited"
    <3> DEFINE start == IF Enabled(b, c) THEN "new" ELSE "exited"
    <3>1. pc[b][c] = CASE c \in Consumers -> start [] c = "pump" -> "read" [] OTHER -> "idle"
      BY <2>1, Zenon DEF Init
    <3> HIDE DEF start
    <3>2. c # "pump"
      BY DEF Consumers
    <3>3. pc[b][c] = start
      BY <3>1, <3>2
    <3>4. QED
      BY <3>3 DEF start
  <2>4. cons[b][c] = NewConsumer(Enabled(b, c))
    BY Zenon DEF Init
  <2>5. nextSeq[b] = 0 /\ closed[b] = FALSE
    BY DEF Init
  <2>6. QED
    BY <2>2, <2>3, <2>4, <2>5
<1> DEFINE New(st, on) ==
        /\ st.first = 0
        /\ st.completed = 0
        /\ st.next = 0
        /\ st.flyGapSeq = 0
        /\ st.flyGapBytes = 0
        /\ st.gapBytes = 0
        /\ st.gapSeq = 0
        /\ st.active = on
        /\ st.failed = FALSE
<1>3. \A on : New(NewConsumer(on), on)
  BY DEF NewConsumer
<1>4. \A b \in Buffers, c \in Consumers : New(cons[b][c], Enabled(b, c))
  <2> HIDE DEF New
  <2>1. QED
    BY <1>2, <1>3
<1>5. PhaseOK
  <2> SUFFICES ASSUME NEW b \in Buffers, NEW c \in Consumers
               PROVE  Phase(pc[b][c], cons[b][c], Enabled(b, c), closed[b])
    BY DEF PhaseOK
  <2>1. PICK st : st = cons[b][c]
    OBVIOUS
  <2>2. /\ st.first = 0
        /\ st.flyGapSeq = 0
        /\ st.active = Enabled(b, c)
        /\ st.failed = FALSE
    BY <2>1, <1>4
  <2>3. CASE Enabled(b, c)
    <3>1. pc[b][c] = "new"
      BY <1>2, <2>3
    <3>2. QED
      BY <2>1, <2>2, <2>3, <3>1, <1>2 DEF Phase, Failing
  <2>4. CASE ~Enabled(b, c)
    <3>1. pc[b][c] = "exited"
      BY <1>2, <2>4
    <3>2. QED
      BY <2>1, <2>2, <2>4, <3>1, <1>2 DEF Phase, Failing
  <2>5. QED
    BY <2>3, <2>4
<1>6. LineOK
  <2> SUFFICES ASSUME NEW b \in Buffers, NEW c \in Consumers
               PROVE  InLine(cons[b][c], {}, 0, length[b], b)
    BY <1>2 DEF LineOK
  <2>1. PICK st : st = cons[b][c]
    OBVIOUS
  <2>2. /\ st.first = 0
        /\ st.completed = 0
        /\ st.next = 0
        /\ st.flyGapSeq = 0
        /\ st.flyGapBytes = 0
        /\ st.gapBytes = 0
        /\ st.gapSeq = 0
    BY <2>1, <1>4
  <2>3. Handed(st) = 0 /\ Frontier(st) = 0
    BY <2>2 DEF Handed, Frontier
  <2>4. Weight(length[b], b, 0, 0) = 0
    BY WeightType
  <2>5. HandOK(st, length[b], b) /\ GapOK(st, length[b], b)
    BY <2>2, <2>3, <2>4 DEF HandOK, GapOK
  <2>6. QueueOK(st, {}, 0)
    BY <2>2, <2>3 DEF QueueOK, InFlight, Seqs
  <2>7. QED
    BY <2>1, <2>5, <2>6 DEF InLine
<1>7. QED
  BY <1>1, <1>5, <1>6 DEF StreamInv

\* What is proved of the buffer elsewhere and the line of its consumers hold together.
LEMMA StreamInvariant == Spec => [](TypeOK /\ WriterOK /\ StreamInv)
<1>1. Init => TypeOK /\ CapacityInv /\ StreamInv
  BY InitType, InitCapacity, InitStream
<1>2. TypeOK /\ CapacityInv /\ StreamInv /\ [Next]_vars => TypeOK' /\ CapacityInv' /\ StreamInv'
  BY TypeStep, CapacityStep, StreamStep DEF CapacityInv
<1>3. TypeOK /\ CapacityInv /\ StreamInv => TypeOK /\ WriterOK /\ StreamInv
  BY DEF CapacityInv
<1>4. QED
  BY <1>1, <1>2, <1>3, PTL DEF Spec

-----------------------------------------------------------------------------
(* The stream has no hole, and its gaps are exact.                         *)

\* Of a consumer in line, what StreamContiguous says of its queue.
LEMMA LineContiguous ==
    ASSUME NEW st \in ConsumerStates, NEW mine \in SUBSET Seqs, NEW n \in 0 .. MaxSeq,
           QueueOK(st, mine, n)
    PROVE  /\ mine = {s \in Seqs : InFlight(st, s)} \cup (Frontier(st) + 1) .. n
           /\ st.first = 0 => st.next = IF mine = {} THEN 0 ELSE Frontier(st) + 1
<1>1. /\ Frontier(st) \in Nat
      /\ n \in Nat
      /\ MaxSeq \in Nat
      /\ n <= MaxSeq
  BY StateNumbers, ConstantsAssumption
<1>2. \A s : s \in (Frontier(st) + 1) .. n <=> s \in Seqs /\ Frontier(st) < s /\ s <= n
  BY <1>1 DEF Seqs
<1>3. \A s \in Seqs : s \in mine <=> InFlight(st, s) \/ (Frontier(st) < s /\ s <= n)
  BY DEF QueueOK
<1>4. mine = {s \in Seqs : InFlight(st, s)} \cup (Frontier(st) + 1) .. n
  BY <1>2, <1>3
<1>5. ASSUME st.first = 0
      PROVE  st.next = IF mine = {} THEN 0 ELSE Frontier(st) + 1
  <2>1. \A s : ~InFlight(st, s)
    BY <1>5 DEF InFlight
  <2>2. Frontier(st) <= n /\ st.next = IF Frontier(st) = n THEN 0 ELSE Frontier(st) + 1
    BY <1>5 DEF QueueOK
  <2>3. CASE Frontier(st) = n
    <3>1. mine = {}
      <4>1. \A s \in Seqs : ~(n < s /\ s <= n)
        BY <1>1 DEF Seqs
      <4>2. QED
        BY <4>1, <1>3, <2>1, <2>3
    <3>2. QED
      BY <2>2, <2>3, <3>1
  <2>4. CASE Frontier(st) # n
    <3>1. n \in Seqs
      BY <1>1, <2>2, <2>4 DEF Seqs
    <3>2. n \in mine
      BY <1>1, <1>3, <2>2, <2>4, <3>1
    <3>3. QED
      BY <2>2, <2>4, <3>2
  <2>5. QED
    BY <2>3, <2>4
<1>6. QED
  BY <1>4, <1>5

\* No payload is lost silently, duplicated or reordered, in any interleaving of
\* overflow, eviction by another terminal, ingestion, failure and close: what a
\* consumer has completed, holds, will be told of and has queued follow one
\* another up to the last sequence number.
THEOREM StreamCorrect == Spec => []StreamContiguous
<1>1. TypeOK /\ WriterOK /\ StreamInv => StreamContiguous
  <2> SUFFICES ASSUME TypeOK, StreamInv, NEW b \in Buffers, NEW c \in Consumers,
                      Enabled(b, c), ~cons[b][c].failed
               PROVE  LET st == cons[b][c]
                          mine == {s \in Seqs : c \in pending[b][s]}
                          inFlight == {s \in Seqs : InFlight(st, s)}
                      IN  /\ st.first # 0 => st.first = st.completed + 1 /\ st.first <= st.last
                          /\ st.flyGapSeq # 0 => st.first = 0 /\ st.completed < st.flyGapSeq
                          /\ st.gapBytes > 0 => Handed(st) < st.gapSeq
                          /\ mine = inFlight \cup (Frontier(st) + 1) .. nextSeq[b]
                          /\ IF st.first # 0
                             THEN st.next \in {0, st.first}
                             ELSE st.next = IF mine = {} THEN 0 ELSE Frontier(st) + 1
    BY DEF StreamContiguous
  <2>1. PICK st : st = cons[b][c]
    OBVIOUS
  <2>2. PICK mine : mine = {s \in Seqs : c \in pending[b][s]}
    OBVIOUS
  <2>3. /\ st \in ConsumerStates
        /\ mine \in SUBSET Seqs
        /\ nextSeq[b] \in 0 .. MaxSeq
        /\ InLine(st, mine, nextSeq[b], length[b], b)
    BY <2>1, <2>2, LineOf DEF StreamInv, Mine
  <2>4. /\ st.first # 0 => st.first = st.completed + 1 /\ st.first <= st.last
        /\ st.flyGapSeq # 0 => st.first = 0 /\ st.completed < st.flyGapSeq
    BY <2>3 DEF InLine, HandOK
  <2>5. st.gapBytes > 0 => Handed(st) < st.gapSeq
    BY <2>3 DEF InLine, GapOK
  <2>6. /\ mine = {s \in Seqs : InFlight(st, s)} \cup (Frontier(st) + 1) .. nextSeq[b]
        /\ st.first = 0 => st.next = IF mine = {} THEN 0 ELSE Frontier(st) + 1
    BY <2>3, LineContiguous DEF InLine
  <2>7. st.first # 0 => st.next \in {0, st.first}
    BY <2>3 DEF InLine, QueueOK
  <2>8. QED
    BY <2>1, <2>2, <2>4, <2>5, <2>6, <2>7
<1>2. QED
  BY <1>1, StreamInvariant, PTL

\* A gap says exactly how many bytes are missing, however often it has grown and
\* whatever dropped them.
THEOREM GapBytesCorrect == Spec => []GapBytesExact
<1>1. TypeOK /\ WriterOK /\ StreamInv => GapBytesExact
  <2> SUFFICES ASSUME TypeOK, StreamInv, NEW b \in Buffers, NEW c \in Consumers,
                      Enabled(b, c), ~cons[b][c].failed
               PROVE  LET st == cons[b][c]
                      IN  /\ st.flyGapBytes =
                                IF st.flyGapSeq = 0 THEN 0
                                ELSE Cardinality(BytesOf(b, (st.completed + 1) .. st.flyGapSeq))
                          /\ st.gapBytes =
                                IF st.gapSeq = 0 THEN 0
                                ELSE Cardinality(BytesOf(b, (Handed(st) + 1) .. st.gapSeq))
    BY DEF GapBytesExact
  <2>1. PICK st : st = cons[b][c]
    OBVIOUS
  <2>2. /\ st \in ConsumerStates
        /\ InLine(st, Mine(b, c), nextSeq[b], length[b], b)
    BY <2>1, LineOf DEF StreamInv
  <2>3. /\ st.completed \in Nat
        /\ st.flyGapSeq \in Nat
        /\ st.gapSeq \in Nat
        /\ st.gapBytes \in Nat
        /\ Handed(st) \in Nat
    BY <2>2, StateNumbers
  <2>4. \A lo, hi : Cardinality(BytesOf(b, (lo + 1) .. hi)) = Weight(length[b], b, lo, hi)
    BY DEF BytesOf, Weight, RowBytes
  <2>5. st.flyGapBytes = IF st.flyGapSeq = 0 THEN 0
                         ELSE Weight(length[b], b, st.completed, st.flyGapSeq)
    <3>1. st.flyGapBytes = Weight(length[b], b, st.completed, st.flyGapSeq)
      BY <2>2 DEF InLine, HandOK
    <3>2. Weight(length[b], b, st.completed, 0) = 0
      BY <2>3, WeightType
    <3>3. QED
      BY <3>1, <3>2
  <2>6. st.gapBytes = IF st.gapSeq = 0 THEN 0
                      ELSE Weight(length[b], b, Handed(st), st.gapSeq)
    <3>1. /\ st.gapBytes > 0 => Handed(st) < st.gapSeq
          /\ st.gapBytes = 0 => st.gapSeq = 0
          /\ st.gapBytes = Weight(length[b], b, Handed(st), Frontier(st))
      BY <2>2 DEF InLine, GapOK
    <3>2. CASE st.gapBytes = 0
      BY <3>1, <3>2
    <3>3. CASE st.gapBytes > 0
      <4>1. Frontier(st) = st.gapSeq /\ st.gapSeq # 0
        BY <3>1, <3>3, <2>3 DEF Frontier
      <4>2. QED
        BY <4>1, <3>1
    <3>4. QED
      BY <2>3, <3>2, <3>3
  <2>7. QED
    BY <2>1, <2>4, <2>5, <2>6
<1>2. QED
  BY <1>1, StreamInvariant, PTL

-----------------------------------------------------------------------------
(* The block policy.                                                       *)

\* A step that leaves every consumer, or every consumer of a buffer that
\* blocks, as it is.
LEMMA BlockKept ==
    ASSUME BlockLosesNothing,
           \A x \in Buffers \ DropBuffers : cons'[x] = cons[x] \/ closed'[x],
           \A x \in Buffers : closed[x] => closed'[x]
    PROVE  BlockLosesNothing'
BY DEF BlockLosesNothing

\* A step of consumer c that leaves it without a gap.
LEMMA BlockConsumer ==
    ASSUME TypeOK, BlockLosesNothing, closed' = closed,
           NEW b \in Buffers, NEW c \in Consumers, NEW st,
           cons' = [cons EXCEPT ![b][c] = st],
           b \notin DropBuffers /\ ~closed[b] => st.gapBytes = 0 /\ st.flyGapSeq = 0
    PROVE  BlockLosesNothing'
<1> SUFFICES ASSUME NEW x \in Buffers \ DropBuffers, NEW d \in Consumers, ~closed[x]
             PROVE  cons'[x][d].gapBytes = 0 /\ cons'[x][d].flyGapSeq = 0
  BY DEF BlockLosesNothing
<1>1. CASE x = b /\ d = c
  <2>1. cons'[x][d] = st
    BY <1>1 DEF TypeOK
  <2>2. QED
    BY <1>1, <2>1
<1>2. CASE x # b \/ d # c
  <2>1. cons'[x][d] = cons[x][d]
    BY <1>2 DEF TypeOK
  <2>2. QED
    BY <2>1 DEF BlockLosesNothing
<1>3. QED
  BY <1>1, <1>2

\* What a consumer of an open buffer that blocks does makes no gap.
LEMMA BlockConsumerStep ==
    ASSUME TypeOK, StreamInv, BlockLosesNothing, NEW b \in Buffers, NEW c \in Consumers,
           ConsumerStep(b, c)
    PROVE  BlockLosesNothing'
<1> DEFINE st == cons[b][c]
<1>1. /\ st \in ConsumerStates
      /\ Phase(pc[b][c], st, Enabled(b, c), closed[b])
      /\ b \notin DropBuffers /\ ~closed[b] => st.gapBytes = 0 /\ st.flyGapSeq = 0
  BY PhaseHere DEF BlockLosesNothing
<1>2. closed' = closed
  BY DEF ConsumerStep, Run, NextBatch, CompleteBatch, CompleteGap, GiveUp, FailureWake,
         FailureHandled
<1>3. CASE UNCHANGED cons
  BY <1>2, <1>3, BlockKept
<1>4. CASE cons' = [cons EXCEPT ![b][c].done = TRUE]
  <2>1. cons' = [cons EXCEPT ![b][c] = [st EXCEPT !.done = TRUE]]
    BY <1>4
  <2>2. PICK st2 : st2 = [st EXCEPT !.done = TRUE]
    OBVIOUS
  <2>3. st2.gapBytes = st.gapBytes /\ st2.flyGapSeq = st.flyGapSeq
    BY <1>1, <2>2 DEF ConsumerStates
  <2>4. cons' = [cons EXCEPT ![b][c] = st2]
    BY <2>1, <2>2
  <2>5. QED
    BY <1>1, <1>2, <2>3, <2>4, BlockConsumer
<1>5. CASE NextBatch(b, c)
  <2>1. CASE /\ st.active /\ ~closed[b] /\ st.gapBytes > 0
             /\ cons' = [cons EXCEPT ![b][c] =
                    [@ EXCEPT !.flyGapSeq = st.gapSeq, !.flyGapBytes = st.gapBytes,
                              !.gapSeq = 0, !.gapBytes = 0]]
    <3>1. PICK st2 : st2 = [st EXCEPT !.flyGapSeq = st.gapSeq, !.flyGapBytes = st.gapBytes,
                                      !.gapSeq = 0, !.gapBytes = 0]
      OBVIOUS
    <3>2. cons' = [cons EXCEPT ![b][c] = st2]
      BY <2>1, <3>1
    <3>3. b \in DropBuffers
      BY <1>1, <2>1
    <3>4. QED
      BY <1>2, <3>2, <3>3, BlockConsumer
  <2>2. CASE cons' = [cons EXCEPT ![b][c] =
                         [@ EXCEPT !.first = st.next, !.last = Greatest(Batch(b, c))]]
    <3>1. PICK st2 : st2 = [st EXCEPT !.first = st.next, !.last = Greatest(Batch(b, c))]
      OBVIOUS
    <3>2. cons' = [cons EXCEPT ![b][c] = st2]
      BY <2>2, <3>1
    <3>3. st2.gapBytes = st.gapBytes /\ st2.flyGapSeq = st.flyGapSeq
      BY <1>1, <3>1 DEF ConsumerStates
    <3>4. QED
      BY <1>1, <1>2, <3>2, <3>3, BlockConsumer
  <2>3. QED
    BY <1>3, <1>4, <1>5, <2>1, <2>2 DEF NextBatch
<1>6. CASE CompleteBatch(b, c)
  <2> DEFINE mine == {s \in Seqs : c \in pending[b][s]}
             base == [st EXCEPT !.first = 0, !.last = 0, !.completed = Larger(@, st.last),
                                !.next = NextPending(mine, st.last)]
  <2>1. PICK st2 \in {base, Unavailable(base)} : cons' = [cons EXCEPT ![b][c] = st2]
    BY <1>6 DEF CompleteBatch
  <2>2. st2.flyGapSeq = st.flyGapSeq /\ st2.gapBytes \in {0, st.gapBytes}
    BY <1>1, <2>1 DEF ConsumerStates, Unavailable
  <2>3. QED
    BY <1>1, <1>2, <2>1, <2>2, BlockConsumer
<1>7. CASE CompleteGap(b, c)
  <2> DEFINE base == [st EXCEPT !.flyGapSeq = 0, !.flyGapBytes = 0]
  <2>1. PICK st2 \in {[base EXCEPT !.completed = Larger(@, st.flyGapSeq)], Unavailable(base)} :
           cons' = [cons EXCEPT ![b][c] = st2]
    BY <1>7 DEF CompleteGap
  <2>2. st2.flyGapSeq = 0 /\ st2.gapBytes \in {0, st.gapBytes}
    BY <1>1, <2>1 DEF ConsumerStates, Unavailable
  <2>3. QED
    BY <1>1, <1>2, <2>1, <2>2, BlockConsumer
<1>8. CASE FailureHandled(b, c)
  <2>1. PICK st2 : st2 = [st EXCEPT !.failurePending = FALSE, !.done = TRUE]
    OBVIOUS
  <2>2. cons' = [cons EXCEPT ![b][c] = st2]
    BY <1>8, <2>1 DEF FailureHandled
  <2>3. st2.gapBytes = st.gapBytes /\ st2.flyGapSeq = st.flyGapSeq
    BY <1>1, <2>1 DEF ConsumerStates
  <2>4. QED
    BY <1>1, <1>2, <2>2, <2>3, BlockConsumer
<1>9. QED
  BY <1>3, <1>4, <1>5, <1>6, <1>7, <1>8 DEF ConsumerStep, Run, FailureWake, nodeVars

\* A chunk appended to an open buffer that blocks makes no gap: nobody is behind one.
LEMMA BlockAppend ==
    ASSUME TypeOK, BlockLosesNothing, NEW b \in Buffers, AppendChunk(b)
    PROVE  BlockLosesNothing'
<1>1. closed' = closed
  BY DEF AppendChunk
<1>2. CASE closed[b] \/ sealed[b]
  BY <1>1, <1>2, BlockKept DEF AppendChunk, nodeVars
<1>3. CASE ~closed[b] /\ ~sealed[b]
  <2> DEFINE seq == nextSeq[b] + 1
             mask == {c \in Consumers : cons[b][c].active /\ ~BehindGap(cons[b][c])}
             dropped == [c \in Consumers |->
                            IF cons[b][c].active /\ c \notin mask THEN Queued(b, c) ELSE {}]
             Take(c, st) ==
                 CASE c \in mask ->
                        IF st.next = 0 /\ st.first = 0 THEN [st EXCEPT !.next = seq] ELSE st
                   [] st.active /\ c \notin mask ->
                        AddGap(Gapped(b, [st EXCEPT !.next = IF st.first = 0 THEN 0 ELSE @],
                                      dropped[c]), seq, pump[b].size)
                   [] OTHER -> st
  <2>1. cons' = [cons EXCEPT ![b] = [c \in Consumers |-> Take(c, cons[b][c])]]
    BY <1>3 DEF AppendChunk
  <2> SUFFICES ASSUME NEW x \in Buffers \ DropBuffers, NEW c \in Consumers, ~closed[x]
               PROVE  cons'[x][c].gapBytes = 0 /\ cons'[x][c].flyGapSeq = 0
    BY <1>1 DEF BlockLosesNothing
  <2>2. /\ cons[x][c].gapBytes = 0
        /\ cons[x][c].flyGapSeq = 0
        /\ cons[x][c] \in ConsumerStates
    BY DEF BlockLosesNothing, TypeOK
  <2>3. CASE x # b
    <3>1. cons'[x] = cons[x]
      BY <2>1, <2>3 DEF TypeOK
    <3>2. QED
      BY <2>2, <3>1
  <2>4. CASE x = b
    <3> DEFINE st == cons[b][c]
    <3>1. ~BehindGap(st)
      BY <2>2, <2>4 DEF BehindGap
    <3>2. c \in mask <=> st.active
      BY <3>1
    <3>3. cons'[b][c] = Take(c, st)
      BY <2>1 DEF TypeOK
    <3>4. Take(c, st) = IF st.active /\ st.next = 0 /\ st.first = 0
                        THEN [st EXCEPT !.next = seq] ELSE st
      <4> HIDE DEF mask, dropped
      <4>1. CASE c \in mask
        BY <4>1, <3>2
      <4>2. CASE c \notin mask
        BY <4>2, <3>2
      <4>3. QED
        BY <4>1, <4>2
    <3> HIDE DEF Take
    <3>5. Take(c, st).gapBytes = st.gapBytes /\ Take(c, st).flyGapSeq = st.flyGapSeq
      BY <2>2, <2>4, <3>4 DEF ConsumerStates
    <3>6. QED
      BY <2>2, <2>4, <3>3, <3>5
  <2>5. QED
    BY <2>3, <2>4
<1>4. QED
  BY <1>2, <1>3

\* Nothing else makes a gap in an open buffer that blocks: overflow drops from
\* buffers with the drop policy only, whoever runs it.
LEMMA BlockStep ==
    TypeOK /\ StreamInv /\ BlockLosesNothing /\ [Next]_vars => BlockLosesNothing'
<1> SUFFICES ASSUME TypeOK, StreamInv, BlockLosesNothing, [Next]_vars
             PROVE  BlockLosesNothing'
  OBVIOUS
<1>1. CASE UNCHANGED <<cons, closed>>
  BY <1>1, BlockKept
<1>2. ASSUME NEW b \in Buffers, NEW d \in DropBuffers, NEW required,
             DropOldest(d, required, b), closed' = closed
      PROVE  BlockLosesNothing'
  <2>1. \A x \in Buffers : x # d => cons'[x] = cons[x]
    BY <1>2, ConstantsAssumption DEF DropOldest, TypeOK
  <2>2. QED
    BY <1>2, <2>1, BlockKept
<1>3. ASSUME NEW b \in DropBuffers, DropIncoming(b), closed' = closed
      PROVE  BlockLosesNothing'
  <2>1. \A x \in Buffers : x # b => cons'[x] = cons[x]
    BY <1>3, ConstantsAssumption DEF DropIncoming, TypeOK
  <2>2. QED
    BY <1>3, <2>1, BlockKept
<1>4. ASSUME NEW b \in Buffers, WriteLocal(b) PROVE BlockLosesNothing'
  <2>1. closed' = closed
    BY <1>4 DEF WriteLocal
  <2>2. \/ UNCHANGED cons
        \/ b \in DropBuffers /\ DropOldest(b, pump[b].size, b)
        \/ b \in DropBuffers /\ DropIncoming(b)
    BY <1>4 DEF WriteLocal, Blocks, nodeVars
  <2>3. QED
    BY <1>1, <1>2, <1>3, <2>1, <2>2
<1>5. ASSUME NEW b \in Buffers, WriteRefused(b) PROVE BlockLosesNothing'
  <2>1. closed' = closed
    BY <1>5 DEF WriteRefused
  <2>2. UNCHANGED cons \/ (b \in DropBuffers /\ DropIncoming(b))
    BY <1>5 DEF WriteRefused, Blocks, nodeVars
  <2>3. QED
    BY <1>1, <1>3, <2>1, <2>2
<1>6. ASSUME NEW b \in Buffers, Evict(b) PROVE BlockLosesNothing'
  <2>1. PICK d \in pump[b].candidates : DropOldest(d, pump[b].remaining, b)
    BY <1>6 DEF Evict
  <2>2. d \in DropBuffers
    BY <2>1, PumpNumbers DEF PumpStates
  <2>3. closed' = closed
    BY <1>6 DEF Evict
  <2>4. QED
    BY <1>2, <2>1, <2>2, <2>3
<1>7. ASSUME NEW b \in Buffers, NEW r \in Closers, Close(b, r) PROVE BlockLosesNothing'
  <2>1. CASE closed[b]
    BY <1>1, <1>7, <2>1 DEF Close, nodeVars
  <2>2. CASE ~closed[b]
    <3>1. /\ closed' = [closed EXCEPT ![b] = TRUE]
          /\ \A x \in Buffers : x # b => cons'[x] = cons[x]
      BY <1>7, <2>2 DEF Close, TypeOK
    <3>2. closed'[b] /\ \A x \in Buffers : closed[x] => closed'[x]
      BY <3>1 DEF TypeOK
    <3>3. QED
      BY <3>1, <3>2, BlockKept
  <2>3. QED
    BY <2>1, <2>2
<1>8. ASSUME NEW b \in Buffers,
             \/ ReserveCheck(b) \/ Reserve(b) \/ ReserveRetry(b) \/ Seal(b) \/ SealWake(b)
             \/ PumpEOF(b) \/ PumpRead(b) \/ AbortStart(b) \/ FlushStart(b) \/ FlushCancel(b)
             \/ FlushWoken(b)
      PROVE  BlockLosesNothing'
  BY <1>1, <1>8 DEF ReserveCheck, Reserve, ReserveRetry, Seal, SealWake, PumpEOF, PumpRead,
                    AbortStart, FlushStart, FlushCancel, FlushWoken, nodeVars
<1>9. CASE \/ UNCHANGED vars \/ BudgetClose
           \/ \E b \in Buffers, r \in Roles : Release(b, r)
           \/ \E b \in Buffers, r \in Closers : Unregister(b, r) \/ Wait(b, r)
  BY <1>1, <1>9 DEF vars, BudgetClose, Release, Unregister, Wait, nodeVars
<1>10. QED
  BY <1>4, <1>5, <1>6, <1>7, <1>8, <1>9, BlockAppend, BlockConsumerStep
     DEF Next, PumpStep, PumpClosed, Environment, CloserStep

\* Under the block policy no byte becomes a gap while the buffer is open,
\* whatever the budget refuses and whichever terminals overflow around it.
THEOREM BlockCorrect == Spec => []BlockLosesNothing
<1>1. Init => BlockLosesNothing
  BY DEF Init, BlockLosesNothing, NewConsumer
<1>2. TypeOK /\ WriterOK /\ StreamInv /\ BlockLosesNothing /\ [Next]_vars => BlockLosesNothing'
  BY BlockStep
<1>3. QED
  BY <1>1, <1>2, StreamInvariant, PTL DEF Spec

-----------------------------------------------------------------------------
(* Wake-ups.                                                               *)

\* Where a thread waits on buffer.cond, and the condition of its wait loop.
PumpReason(b) ==
    /\ pc[b]["pump"] = "local"
    /\ AcceptingOutput(b)
    /\ OverCapacity(b)

ConsumerReason(b, c) ==
    /\ pc[b][c] = "next"
    /\ cons[b][c].active
    /\ cons[b][c].gapBytes = 0
    /\ cons[b][c].next = 0
    /\ ~sealed[b]
    /\ ~closed[b]

Unflushed(st, target) ==
    IF st.failed THEN st.failurePending ELSE st.active /\ st.completed < target

FlushReason(b) ==
    /\ pc[b]["flush"] = "check"
    /\ Unflushed(cons[b][flush[b].consumer], flush[b].target)

Reasons(b) ==
    /\ <<b, "pump">> \in asleep => PumpReason(b)
    /\ \A c \in Consumers : <<b, c>> \in asleep => ConsumerReason(b, c)
    /\ <<b, "flush">> \in asleep => FlushReason(b)
    /\ <<b, "abort">> \notin asleep

SleepInv == \A b \in Buffers : Reasons(b)

\* What the pump and Flush look at in the state of a consumer.
SameWait(st2, st) ==
    /\ st2.active = st.active
    /\ st2.failed = st.failed
    /\ st2.failurePending = st.failurePending
    /\ st2.completed = st.completed

\* A thread that stands elsewhere is awake.
LEMMA StandsAwake ==
    ASSUME SleepInv, NEW b \in Buffers, NEW r \in Roles, <<b, r>> \in asleep
    PROVE  pc[b][r] \in {"local", "next", "check"}
BY DEF SleepInv, Reasons, PumpReason, ConsumerReason, FlushReason, Roles

\* After a Broadcast nobody sleeps on the condition of b.
LEMMA Woken ==
    ASSUME NEW b \in Buffers, Broadcast(b)
    PROVE  /\ Reasons(b)'
           /\ \A x \in Buffers, r \in Roles : x # b => (<<x, r>> \in asleep' <=> <<x, r>> \in asleep)
<1>1. \A r \in Roles : <<b, r>> \notin asleep'
  BY DEF Broadcast
<1>2. \A x \in Buffers, r \in Roles : x # b => (<<x, r>> \in asleep' <=> <<x, r>> \in asleep)
  BY DEF Broadcast
<1>3. Reasons(b)'
  BY <1>1 DEF Reasons, Roles
<1>4. QED
  BY <1>2, <1>3

\* A buffer whose nodes, consumers and sleepers a step leaves alone, and whose
\* sleepers stay where they are, keeps its reasons.
Untouched(x) ==
    /\ cons'[x] = cons[x]
    /\ resident'[x] = resident[x]
    /\ closed'[x] = closed[x]
    /\ sealed'[x] = sealed[x]
    /\ flush'[x] = flush[x]
    /\ \A r \in Roles : <<x, r>> \in asleep' =>
          <<x, r>> \in asleep /\ pc'[x][r] = pc[x][r]
    /\ <<x, "pump">> \in asleep' => pump'[x] = pump[x]

LEMMA UntouchedReasons ==
    ASSUME NEW x \in Buffers, Reasons(x), Untouched(x)
    PROVE  Reasons(x)'
<1>1. {"pump", "flush", "abort"} \subseteq Roles /\ Consumers \subseteq Roles
  BY DEF Roles
<1>2. ASSUME <<x, "pump">> \in asleep' PROVE PumpReason(x)'
  BY <1>1, <1>2 DEF Reasons, Untouched, PumpReason, AcceptingOutput, HasActiveConsumer, OverCapacity
<1>3. ASSUME NEW c \in Consumers, <<x, c>> \in asleep' PROVE ConsumerReason(x, c)'
  BY <1>1, <1>3 DEF Reasons, Untouched, ConsumerReason
<1>4. ASSUME <<x, "flush">> \in asleep' PROVE FlushReason(x)'
  BY <1>1, <1>4 DEF Reasons, Untouched, FlushReason, Unflushed
<1>5. <<x, "abort">> \notin asleep'
  BY <1>1 DEF Reasons, Untouched
<1>6. QED
  BY <1>2, <1>3, <1>4, <1>5 DEF Reasons

\* A step of one thread that is awake and wakes everybody on the buffer it works on.
LEMMA WakingStep ==
    ASSUME SleepInv, NEW b \in Buffers, Broadcast(b),
           \A x \in Buffers : x # b =>
              /\ cons'[x] = cons[x]
              /\ resident'[x] = resident[x]
              /\ closed'[x] = closed[x]
              /\ sealed'[x] = sealed[x]
              /\ flush'[x] = flush[x]
              /\ \A r \in Roles : <<x, r>> \in asleep => pc'[x][r] = pc[x][r]
              /\ <<x, "pump">> \in asleep => pump'[x] = pump[x]
    PROVE  SleepInv'
<1> SUFFICES ASSUME NEW x \in Buffers PROVE Reasons(x)'
  BY DEF SleepInv
<1>1. CASE x = b
  BY <1>1, Woken
<1>2. CASE x # b
  <2>1. "pump" \in Roles
    BY DEF Roles
  <2>2. Untouched(x)
    BY <1>2, <2>1, Woken DEF Untouched
  <2>3. QED
    BY <2>2, UntouchedReasons DEF SleepInv
<1>3. QED
  BY <1>1, <1>2

\* A step of one thread that is awake and leaves the nodes and consumers alone.
LEMMA QuietSleep ==
    ASSUME TypeOK, SleepInv, NEW b \in Buffers, NEW r \in Roles, <<b, r>> \notin asleep,
           UNCHANGED <<cons, resident, closed, sealed, flush, asleep>>,
           NEW label, Goto(b, r, label),
           \A x \in Buffers : x # b \/ r # "pump" => pump'[x] = pump[x]
    PROVE  SleepInv'
<1> SUFFICES ASSUME NEW x \in Buffers PROVE Reasons(x)'
  BY DEF SleepInv
<1>1. \A q \in Roles : x # b \/ q # r => pc'[x][q] = pc[x][q]
  BY DEF Goto, TypeOK, PcOK
<1>2. Untouched(x)
  BY <1>1 DEF Untouched
<1>3. QED
  BY <1>2, UntouchedReasons DEF SleepInv

\* The moves of one thread, for the other buffers.
LEMMA OtherPlaces ==
    ASSUME TypeOK, NEW b \in Buffers, NEW r \in Roles,
           \E label : Goto(b, r, label)
    PROVE  \A x \in Buffers, q \in Roles : x # b \/ q # r => pc'[x][q] = pc[x][q]
BY DEF Goto, TypeOK, PcOK

\* A consumer that is awake takes a batch or a gap, or leaves: nobody else waits
\* for that.
LEMMA MovedSleep ==
    ASSUME TypeOK, SleepInv, NEW b \in Buffers, NEW c \in Consumers, <<b, c>> \notin asleep,
           NEW label, NEW st, Goto(b, c, label), cons' = [cons EXCEPT ![b][c] = st],
           SameWait(st, cons[b][c]),
           UNCHANGED <<resident, closed, sealed, flush, pump, asleep>>
    PROVE  SleepInv'
<1> SUFFICES ASSUME NEW x \in Buffers PROVE Reasons(x)'
  BY DEF SleepInv
<1>1. c \in Roles /\ Consumers \subseteq Roles /\ {"pump", "flush", "abort"} \subseteq Roles
  BY DEF Roles
<1>2. \A q \in Roles : x # b \/ q # c => pc'[x][q] = pc[x][q]
  BY <1>1, OtherPlaces
<1>3. Reasons(x)
  BY DEF SleepInv
<1>4. CASE x # b
  <2>1. cons'[x] = cons[x]
    BY <1>4 DEF TypeOK
  <2>2. Untouched(x)
    BY <1>2, <1>4, <2>1 DEF Untouched
  <2>3. QED
    BY <1>3, <2>2, UntouchedReasons
<1>5. CASE x = b
  <2>1. \A d \in Consumers : SameWait(cons'[b][d], cons[b][d]) /\ (d # c => cons'[b][d] = cons[b][d])
    BY DEF TypeOK, SameWait
  <2>2. ASSUME <<b, "pump">> \in asleep PROVE PumpReason(b)'
    <3>1. PumpReason(b) /\ "pump" # c
      BY <1>3, <1>5, <2>2 DEF Reasons, Consumers
    <3>2. QED
      BY <3>1, <1>1, <1>2, <1>5, <2>1
         DEF PumpReason, AcceptingOutput, HasActiveConsumer, OverCapacity, SameWait
  <2>3. ASSUME NEW d \in Consumers, <<b, d>> \in asleep PROVE ConsumerReason(b, d)'
    BY <1>1, <1>2, <1>3, <1>5, <2>1, <2>3 DEF Reasons, ConsumerReason
  <2>4. ASSUME <<b, "flush">> \in asleep PROVE FlushReason(b)'
    <3>1. FlushReason(b) /\ "flush" # c
      BY <1>3, <1>5, <2>4 DEF Reasons, Consumers
    <3>2. flush[b].consumer \in Consumers
      BY DEF TypeOK
    <3>3. QED
      BY <3>1, <3>2, <1>1, <1>2, <1>5, <2>1 DEF FlushReason, Unflushed, SameWait
  <2>5. QED
    BY <1>3, <1>5, <2>2, <2>3, <2>4 DEF Reasons
<1>6. QED
  BY <1>4, <1>5

\* dropOldestLocked in writeChunk wakes nobody, and need not: a consumer that
\* sleeps has no node to lose.
LEMMA DropSleep ==
    ASSUME TypeOK, StreamInv, SleepInv, NEW b \in Buffers, <<b, "pump">> \notin asleep,
           NEW required \in Int, DropOldest(b, required, b), NEW label, Goto(b, "pump", label),
           UNCHANGED <<length, nextSeq, closed, sealed, flush, pump, asleep>>
    PROVE  SleepInv'
<1> SUFFICES ASSUME NEW x \in Buffers PROVE Reasons(x)'
  BY DEF SleepInv
<1>1. Consumers \subseteq Roles /\ {"pump", "flush", "abort"} \subseteq Roles
  BY DEF Roles
<1>2. \A q \in Roles : x # b \/ q # "pump" => pc'[x][q] = pc[x][q]
  BY <1>1, OtherPlaces
<1>3. Reasons(x)
  BY DEF SleepInv
<1>4. CASE x # b
  <2>1. cons'[x] = cons[x] /\ resident'[x] = resident[x]
    BY <1>4 DEF DropOldest, Reclaim, TypeOK
  <2>2. Untouched(x)
    BY <1>2, <1>4, <2>1 DEF Untouched
  <2>3. QED
    BY <1>3, <2>2, UntouchedReasons
<1>5. CASE x = b
  <2>1. /\ LineOK'
        /\ \A c \in Consumers :
              /\ SameHand(cons'[b][c], cons[b][c])
              /\ SameStanding(cons'[b][c], cons[b][c])
        /\ \A c \in Consumers : Enabled(b, c) /\ ~cons[b][c].failed =>
              Frontier(cons[b][c]) <= Frontier(cons'[b][c])
    BY DropOldestStream
  <2>2. ASSUME NEW c \in Consumers, <<b, c>> \in asleep PROVE ConsumerReason(b, c)'
    <3>1. PICK st : st = cons[b][c]
      OBVIOUS
    <3>2. PICK st2 : st2 = cons'[b][c]
      OBVIOUS
    <3>3. c \in Roles /\ c # "pump"
      BY DEF Roles, Consumers
    <3>4. ConsumerReason(b, c)
      BY <1>3, <1>5, <2>2 DEF Reasons
    <3>5. /\ pc'[b][c] = "next"
          /\ st2.active
          /\ ~sealed'[b]
          /\ ~closed'[b]
      BY <1>2, <1>5, <2>1, <3>1, <3>2, <3>3, <3>4 DEF ConsumerReason, SameStanding
    <3>6. /\ st.first = 0
          /\ st.flyGapSeq = 0
          /\ ~st.failed
          /\ Enabled(b, c)
      BY <3>1, <3>4, PhaseHere DEF Phase, ConsumerReason, Failing
    <3>7. /\ st \in ConsumerStates
          /\ InLine(st, Mine(b, c), nextSeq[b], length[b], b)
          /\ nextSeq[b] \in Nat
          /\ Frontier(st) \in Nat
      BY <3>1, <3>6, LineOf, StateNumbers DEF StreamInv
    <3>8. Frontier(st) = nextSeq[b]
      <4>1. st.next = 0 /\ st.next = IF Frontier(st) = nextSeq[b] THEN 0 ELSE Frontier(st) + 1
        BY <3>1, <3>4, <3>6, <3>7 DEF InLine, QueueOK, ConsumerReason
      <4>2. QED
        BY <4>1, <3>7
    <3>9. Frontier(st) = Handed(st)
      BY <3>1, <3>4 DEF ConsumerReason, Frontier
    <3>10. /\ SameHand(st2, st)
           /\ st2.first = 0
           /\ Handed(st2) = Handed(st)
           /\ ~st2.failed
      BY <2>1, <3>1, <3>2, <3>6, SameHanded DEF SameHand, SameStanding
    <3>11. GapOK(st2, length[b], b) /\ QueueOK(st2, {s \in Seqs : c \in pending'[b][s]}, nextSeq[b])
      BY <2>1, <3>2, <3>6, <3>10 DEF LineOK, Mine, InLine, Enabled
    <3>12. Frontier(st) <= Frontier(st2)
      BY <2>1, <3>1, <3>2, <3>6
    <3>13. Frontier(st2) \in Nat
      BY <3>2, DropOldestType, StateNumbers
    <3>14. Frontier(st2) = nextSeq[b]
      BY <3>7, <3>8, <3>11, <3>12, <3>13 DEF QueueOK
    <3>15. st2.next = 0
      BY <3>10, <3>11, <3>14 DEF QueueOK
    <3>16. st2.gapBytes = 0
      <4>1. st2.gapBytes = Weight(length[b], b, nextSeq[b], nextSeq[b])
        BY <3>8, <3>9, <3>10, <3>11, <3>14 DEF GapOK
      <4>2. QED
        BY <4>1, <3>7, WeightType
    <3>17. QED
      BY <3>2, <3>5, <3>15, <3>16 DEF ConsumerReason
  <2>3. ASSUME <<b, "flush">> \in asleep PROVE FlushReason(b)'
    <3>1. FlushReason(b)
      BY <1>3, <1>5, <2>3 DEF Reasons
    <3>2. flush[b].consumer \in Consumers
      BY DEF TypeOK
    <3>3. QED
      BY <3>1, <3>2, <1>1, <1>2, <1>5, <2>1
         DEF FlushReason, Unflushed, SameHand, SameStanding
  <2>4. QED
    BY <1>3, <1>5, <2>2, <2>3 DEF Reasons
<1>6. QED
  BY <1>4, <1>5

\* Flush goes to sleep only for what it waits for.
LEMMA FlushSleep ==
    ASSUME TypeOK, SleepInv, NEW b \in Buffers, <<b, "flush">> \notin asleep,
           NEW c \in Consumers, NEW target, FlushPass(b, c, target),
           flush'[b].consumer = c, flush'[b].target = target,
           \A x \in Buffers : x # b => flush'[x] = flush[x],
           UNCHANGED <<cons, resident, closed, sealed, pump>>
    PROVE  SleepInv'
<1> SUFFICES ASSUME NEW x \in Buffers PROVE Reasons(x)'
  BY DEF SleepInv
<1>1. Consumers \subseteq Roles /\ {"pump", "flush", "abort"} \subseteq Roles
  BY DEF Roles
<1>2. \A q \in Roles : x # b \/ q # "flush" => pc'[x][q] = pc[x][q]
  <2>1. \E label : Goto(b, "flush", label)
    BY DEF FlushPass
  <2>2. QED
    BY <1>1, <2>1, OtherPlaces
<1>3. Reasons(x)
  BY DEF SleepInv
<1>4. \A q \in Roles : x # b \/ q # "flush" => (<<x, q>> \in asleep' <=> <<x, q>> \in asleep)
  BY DEF FlushPass
<1>5. CASE x # b
  <2>1. Untouched(x)
    BY <1>2, <1>4, <1>5 DEF Untouched
  <2>2. QED
    BY <1>3, <2>1, UntouchedReasons
<1>6. CASE x = b
  <2>1. ASSUME <<b, "pump">> \in asleep' PROVE PumpReason(b)'
    BY <1>1, <1>2, <1>3, <1>4, <1>6, <2>1
       DEF Reasons, PumpReason, AcceptingOutput, HasActiveConsumer, OverCapacity
  <2>2. ASSUME NEW d \in Consumers, <<b, d>> \in asleep' PROVE ConsumerReason(b, d)'
    <3>1. d # "flush" /\ d \in Roles
      BY DEF Consumers, Roles
    <3>2. QED
      BY <3>1, <1>2, <1>3, <1>4, <1>6, <2>2 DEF Reasons, ConsumerReason
  <2>3. ASSUME <<b, "flush">> \in asleep' PROVE FlushReason(b)'
    <3>1. /\ Goto(b, "flush", "check")
          /\ Unflushed(cons[b][c], target)
      BY <2>3 DEF FlushPass, Unflushed
    <3>2. pc'[b]["flush"] = "check"
      BY <3>1, <1>1 DEF Goto, TypeOK, PcOK
    <3>3. QED
      BY <3>1, <3>2 DEF FlushReason, Unflushed
  <2>4. <<b, "abort">> \notin asleep'
    BY <1>1, <1>3, <1>4, <1>6 DEF Reasons
  <2>5. QED
    BY <1>6, <2>1, <2>2, <2>3, <2>4 DEF Reasons
<1>7. QED
  BY <1>5, <1>6

\* The steps of the pump and of the environment keep every sleeper's reason.
LEMMA PumpSleep ==
    ASSUME TypeOK, StreamInv, SleepInv, NEW b \in Buffers, PumpStep(b) \/ Environment(b)
    PROVE  SleepInv'
<1>1. {"pump", "abort", "flush"} \subseteq Roles
  BY DEF Roles
<1>2. \A r \in Roles, x \in Buffers : <<x, r>> \in asleep => pc[x][r] \in {"local", "next", "check"}
  BY StandsAwake
<1>3. ASSUME <<b, "pump">> \notin asleep, \E label : Goto(b, "pump", label),
             UNCHANGED <<cons, resident, closed, sealed, flush, asleep>>,
             \A x \in Buffers : x # b => pump'[x] = pump[x]
      PROVE  SleepInv'
  BY <1>1, <1>3, QuietSleep
<1>4. ASSUME <<b, "pump">> \notin asleep, DropIncoming(b), UNCHANGED <<closed, sealed, flush, pump>>
      PROVE  SleepInv'
  <2>1. /\ Broadcast(b)
        /\ \E label : Goto(b, "pump", label)
        /\ \A x \in Buffers : x # b => cons'[x] = cons[x] /\ resident'[x] = resident[x]
    BY <1>4 DEF DropIncoming, GotoRelease, Reclaim, TypeOK
  <2>2. \A x \in Buffers, r \in Roles : x # b => pc'[x][r] = pc[x][r]
    BY <1>1, <2>1, OtherPlaces
  <2>3. QED
    BY <1>4, <2>1, <2>2, WakingStep
<1>5. CASE PumpRead(b)
  BY <1>3, <1>5 DEF PumpRead, At, nodeVars, TypeOK
<1>6. CASE PumpEOF(b) \/ PumpClosed(b) \/ ReserveCheck(b) \/ SealWake(b)
  BY <1>3, <1>6 DEF PumpEOF, PumpClosed, ReserveCheck, SealWake, At, nodeVars
<1>7. CASE Reserve(b)
  BY <1>3, <1>7 DEF Reserve, At, nodeVars, TypeOK
<1>8. CASE ReserveRetry(b)
  BY <1>3, <1>8 DEF ReserveRetry, At, nodeVars, TypeOK
<1>9. CASE WriteRefused(b)
  <2>1. CASE DropIncoming(b)
    BY <1>4, <1>9, <2>1 DEF WriteRefused, At
  <2>2. CASE Goto(b, "pump", "seal") /\ UNCHANGED <<nodeVars, owed, asleep>>
    BY <1>3, <1>9, <2>2 DEF WriteRefused, At, nodeVars
  <2>3. QED
    BY <1>9, <2>1, <2>2 DEF WriteRefused
<1>10. CASE AppendChunk(b)
  <2>1. CASE closed[b] \/ sealed[b]
    BY <1>3, <1>10, <2>1 DEF AppendChunk, At, nodeVars
  <2>2. CASE ~closed[b] /\ ~sealed[b]
    <3>1. /\ Broadcast(b)
          /\ \E label : Goto(b, "pump", label)
          /\ \A x \in Buffers : x # b => cons'[x] = cons[x] /\ resident'[x] = resident[x]
          /\ UNCHANGED <<closed, sealed, flush, pump>>
      BY <1>10, <2>2 DEF AppendChunk, GotoRelease, TypeOK
    <3>2. \A x \in Buffers, r \in Roles : x # b => pc'[x][r] = pc[x][r]
      BY <1>1, <3>1, OtherPlaces
    <3>3. QED
      BY <3>1, <3>2, WakingStep
  <2>3. QED
    BY <2>1, <2>2
<1>11. CASE Seal(b)
  <2>1. /\ Broadcast(b)
        /\ Goto(b, "pump", "wake_sealed")
        /\ UNCHANGED <<cons, resident, closed, flush, pump>>
        /\ \A x \in Buffers : x # b => sealed'[x] = sealed[x]
    BY <1>11 DEF Seal, nodeVars, TypeOK
  <2>2. \A x \in Buffers, r \in Roles : x # b => pc'[x][r] = pc[x][r]
    BY <1>1, <2>1, OtherPlaces
  <2>3. QED
    BY <2>1, <2>2, WakingStep
<1>12. CASE WriteLocal(b)
  <2>1. /\ <<b, "pump">> \notin asleep
        /\ pc[b]["pump"] = "local"
        /\ UNCHANGED <<closed, sealed, pump, flush>>
    BY <1>12 DEF WriteLocal, At
  <2>2. CASE /\ AcceptingOutput(b) /\ OverCapacity(b)
             /\ asleep' = asleep \cup {<<b, "pump">>}
             /\ UNCHANGED <<nodeVars, pc, owed>>
    <3> SUFFICES ASSUME NEW x \in Buffers PROVE Reasons(x)'
      BY DEF SleepInv
    <3>1. Reasons(x)
      BY DEF SleepInv
    <3>2. UNCHANGED <<cons, resident, pc>>
      BY <2>2 DEF nodeVars
    <3>3. \A r \in Roles : x # b \/ r # "pump" => (<<x, r>> \in asleep' <=> <<x, r>> \in asleep)
      BY <2>2
    <3>4. CASE x # b
      <4>1. Untouched(x)
        BY <2>1, <3>2, <3>3, <3>4 DEF Untouched
      <4>2. QED
        BY <3>1, <4>1, UntouchedReasons
    <3>5. CASE x = b
      <4>1. PumpReason(b)'
        BY <2>1, <2>2, <3>2
           DEF PumpReason, AcceptingOutput, HasActiveConsumer, OverCapacity
      <4>2. ASSUME NEW d \in Consumers, <<b, d>> \in asleep' PROVE ConsumerReason(b, d)'
        <5>1. d # "pump" /\ d \in Roles
          BY DEF Consumers, Roles
        <5>2. QED
          BY <5>1, <2>1, <3>1, <3>2, <3>3, <3>5, <4>2 DEF Reasons, ConsumerReason
      <4>3. ASSUME <<b, "flush">> \in asleep' PROVE FlushReason(b)'
        BY <1>1, <2>1, <3>1, <3>2, <3>3, <3>5, <4>3 DEF Reasons, FlushReason, Unflushed
      <4>4. <<b, "abort">> \notin asleep'
        BY <1>1, <3>1, <3>3, <3>5 DEF Reasons
      <4>5. QED
        BY <3>5, <4>1, <4>2, <4>3, <4>4 DEF Reasons
    <3>6. QED
      BY <3>4, <3>5
  <2>3. CASE /\ DropOldest(b, pump[b].size, b) /\ Goto(b, "pump", "rel_local")
             /\ UNCHANGED <<length, nextSeq, asleep>>
    <3>1. pump[b].size \in Int
      BY PumpNumbers
    <3>2. QED
      BY <2>1, <2>3, <3>1, DropSleep
  <2>4. CASE DropIncoming(b)
    BY <1>4, <2>1, <2>4
  <2>5. CASE /\ Goto(b, "pump", "accept") \/ Goto(b, "pump", "seal") \/ Goto(b, "pump", "read")
             /\ UNCHANGED <<nodeVars, owed, asleep>>
    BY <1>3, <2>1, <2>5 DEF nodeVars
  <2>6. QED
    BY <1>12, <2>2, <2>3, <2>4, <2>5 DEF WriteLocal
<1>13. CASE Evict(b)
  <2>1. PICK d \in pump[b].candidates :
          /\ DropOldest(d, pump[b].remaining, b)
          /\ Broadcast(d)
          /\ \E bytes : GotoRelease(b, "pump", bytes, "rel_evict")
    BY <1>13 DEF Evict
  <2>2. d \in Buffers
    BY <2>1, PumpNumbers, ConstantsAssumption DEF PumpStates
  <2>3. /\ <<b, "pump">> \notin asleep
        /\ UNCHANGED <<closed, sealed, flush>>
        /\ \A x \in Buffers : x # b => pump'[x] = pump[x]
    BY <1>13 DEF Evict, At, TypeOK
  <2>4. \A x \in Buffers : x # d => cons'[x] = cons[x] /\ resident'[x] = resident[x]
    BY <2>1 DEF DropOldest, Reclaim, TypeOK
  <2>5. \A x \in Buffers, r \in Roles : <<x, r>> \in asleep => pc'[x][r] = pc[x][r]
    <3>1. \E label : Goto(b, "pump", label)
      BY <2>1 DEF GotoRelease
    <3>2. QED
      BY <1>1, <2>3, <3>1, OtherPlaces
  <2>6. QED
    BY <2>1, <2>2, <2>3, <2>4, <2>5, WakingStep
<1>14. CASE AbortStart(b)
  <2>1. /\ <<b, "abort">> \notin asleep
        /\ Goto(b, "abort", "close")
        /\ UNCHANGED <<cons, resident, closed, sealed, flush, asleep, pump>>
    BY <1>1, <1>2, <1>14 DEF AbortStart, nodeVars
  <2>2. QED
    BY <1>1, <2>1, QuietSleep
<1>15. CASE FlushStart(b)
  <2>1. PICK c \in Consumers :
          /\ flush' = [flush EXCEPT ![b] = [consumer |-> c, target |-> nextSeq[b]]]
          /\ FlushPass(b, c, nextSeq[b])
    BY <1>15 DEF FlushStart
  <2>2. /\ flush'[b].consumer = c
        /\ flush'[b].target = nextSeq[b]
        /\ \A x \in Buffers : x # b => flush'[x] = flush[x]
    BY <2>1 DEF TypeOK
  <2>3. /\ <<b, "flush">> \notin asleep
        /\ UNCHANGED <<cons, resident, closed, sealed, pump>>
    BY <1>1, <1>2, <1>15 DEF FlushStart, nodeVars
  <2>4. QED
    BY <2>1, <2>2, <2>3, FlushSleep
<1>16. CASE FlushCancel(b)
  <2>1. /\ Broadcast(b)
        /\ Goto(b, "flush", "flush_cancelled")
        /\ UNCHANGED <<cons, resident, closed, sealed, flush, pump>>
    BY <1>16 DEF FlushCancel, nodeVars
  <2>2. \A x \in Buffers, r \in Roles : x # b => pc'[x][r] = pc[x][r]
    BY <1>1, <2>1, OtherPlaces
  <2>3. QED
    BY <2>1, <2>2, WakingStep
<1>17. QED
  BY <1>5, <1>6, <1>7, <1>8, <1>9, <1>10, <1>11, <1>12, <1>13, <1>14, <1>15, <1>16
     DEF PumpStep, Environment

\* The steps of a consumer keep every sleeper's reason.
LEMMA ConsumerSleep ==
    ASSUME TypeOK, SleepInv, NEW b \in Buffers, NEW c \in Consumers, ConsumerStep(b, c)
    PROVE  SleepInv'
<1> DEFINE st == cons[b][c]
<1>1. c \in Roles /\ c # "pump" /\ c # "flush" /\ c # "abort" /\ st \in ConsumerStates
  BY DEF Roles, Consumers, TypeOK
<1>2. \A r \in Roles, x \in Buffers : <<x, r>> \in asleep => pc[x][r] \in {"local", "next", "check"}
  BY StandsAwake
<1>3. CASE CompleteBatch(b, c) \/ CompleteGap(b, c) \/ FailureHandled(b, c)
  <2>1. /\ Broadcast(b)
        /\ \E label : Goto(b, c, label)
        /\ \A x \in Buffers : x # b => cons'[x] = cons[x] /\ resident'[x] = resident[x]
        /\ UNCHANGED <<closed, sealed, flush, pump>>
    <3>1. CASE CompleteBatch(b, c)
      BY <3>1 DEF CompleteBatch, GiveUp, GotoRelease, Reclaim, TypeOK
    <3>2. CASE CompleteGap(b, c)
      BY <3>2 DEF CompleteGap, GiveUp, GotoRelease, Reclaim, TypeOK
    <3>3. CASE FailureHandled(b, c)
      BY <3>3 DEF FailureHandled, TypeOK
    <3>4. QED
      BY <1>3, <3>1, <3>2, <3>3
  <2>2. \A x \in Buffers, r \in Roles : x # b => pc'[x][r] = pc[x][r]
    BY <1>1, <2>1, OtherPlaces
  <2>3. QED
    BY <2>1, <2>2, WakingStep
<1>4. CASE FailureWake(b, c)
  <2>1. /\ <<b, c>> \notin asleep
        /\ Goto(b, c, "failed")
        /\ UNCHANGED <<cons, resident, closed, sealed, flush, asleep, pump>>
    BY <1>4 DEF FailureWake, At, nodeVars
  <2>2. QED
    BY <1>1, <2>1, QuietSleep
<1>5. ASSUME <<b, c>> \notin asleep, \E label : Goto(b, c, label),
             cons' = [cons EXCEPT ![b][c].done = TRUE],
             UNCHANGED <<resident, closed, sealed, flush, pump, asleep>>
      PROVE  SleepInv'
  <2>1. PICK st2 : st2 = [st EXCEPT !.done = TRUE]
    OBVIOUS
  <2>2. cons' = [cons EXCEPT ![b][c] = st2]
    BY <1>5, <2>1
  <2>3. SameWait(st2, st)
    BY <1>1, <2>1 DEF SameWait, ConsumerStates
  <2>4. QED
    BY <1>5, <2>2, <2>3, MovedSleep
<1>6. CASE Run(b, c)
  <2>1. /\ <<b, c>> \notin asleep
        /\ UNCHANGED <<resident, closed, sealed, flush, asleep, pump>>
    BY <1>1, <1>2, <1>6 DEF Run
  <2>2. CASE Goto(b, c, "next") /\ UNCHANGED cons
    BY <1>1, <2>1, <2>2, QuietSleep
  <2>3. CASE cons' = [cons EXCEPT ![b][c].done = TRUE] /\ Goto(b, c, "exited")
    BY <1>5, <2>1, <2>3
  <2>4. QED
    BY <1>6, <2>2, <2>3 DEF Run
<1>7. CASE NextBatch(b, c)
  <2>1. /\ <<b, c>> \notin asleep
        /\ pc[b][c] = "next"
        /\ UNCHANGED <<resident, closed, sealed, flush, pump>>
    BY <1>7 DEF NextBatch, At
  <2>2. CASE /\ st.active /\ Drained(st) /\ ~sealed[b] /\ ~closed[b]
             /\ asleep' = asleep \cup {<<b, c>>}
             /\ UNCHANGED <<cons, pc>>
    <3> SUFFICES ASSUME NEW x \in Buffers PROVE Reasons(x)'
      BY DEF SleepInv
    <3>1. Reasons(x)
      BY DEF SleepInv
    <3>2. \A r \in Roles : x # b \/ r # c => (<<x, r>> \in asleep' <=> <<x, r>> \in asleep)
      BY <2>2
    <3>3. CASE x # b
      <4>1. Untouched(x)
        BY <2>1, <2>2, <3>2, <3>3 DEF Untouched
      <4>2. QED
        BY <3>1, <4>1, UntouchedReasons
    <3>4. CASE x = b
      <4>1. {"pump", "flush", "abort"} \subseteq Roles /\ Consumers \subseteq Roles
        BY DEF Roles
      <4>2. ASSUME <<b, "pump">> \in asleep' PROVE PumpReason(b)'
        BY <1>1, <2>1, <2>2, <3>1, <3>2, <3>4, <4>1, <4>2
           DEF Reasons, PumpReason, AcceptingOutput, HasActiveConsumer, OverCapacity
      <4>3. ASSUME NEW d \in Consumers, <<b, d>> \in asleep' PROVE ConsumerReason(b, d)'
        <5>1. CASE d = c
          BY <2>1, <2>2, <5>1 DEF ConsumerReason, Drained
        <5>2. CASE d # c
          BY <2>1, <2>2, <3>1, <3>2, <3>4, <4>1, <4>3, <5>2 DEF Reasons, ConsumerReason
        <5>3. QED
          BY <5>1, <5>2
      <4>4. ASSUME <<b, "flush">> \in asleep' PROVE FlushReason(b)'
        BY <1>1, <2>1, <2>2, <3>1, <3>2, <3>4, <4>1, <4>4 DEF Reasons, FlushReason, Unflushed
      <4>5. <<b, "abort">> \notin asleep'
        BY <1>1, <3>1, <3>2, <3>4, <4>1 DEF Reasons
      <4>6. QED
        BY <3>4, <4>2, <4>3, <4>4, <4>5 DEF Reasons
    <3>5. QED
      BY <3>3, <3>4
  <2>3. CASE /\ cons' = [cons EXCEPT ![b][c].done = TRUE]
             /\ Goto(b, c, "exited")
             /\ UNCHANGED asleep
    BY <1>5, <2>1, <2>3
  <2>4. CASE /\ cons' = [cons EXCEPT ![b][c] =
                    [@ EXCEPT !.flyGapSeq = st.gapSeq, !.flyGapBytes = st.gapBytes,
                              !.gapSeq = 0, !.gapBytes = 0]]
             /\ Goto(b, c, "gap")
             /\ UNCHANGED asleep
    <3>1. PICK st2 : st2 = [st EXCEPT !.flyGapSeq = st.gapSeq, !.flyGapBytes = st.gapBytes,
                                      !.gapSeq = 0, !.gapBytes = 0]
      OBVIOUS
    <3>2. cons' = [cons EXCEPT ![b][c] = st2]
      BY <2>4, <3>1
    <3>3. SameWait(st2, st)
      BY <1>1, <3>1 DEF SameWait, ConsumerStates
    <3>4. QED
      BY <2>1, <2>4, <3>2, <3>3, MovedSleep
  <2>5. CASE /\ cons' = [cons EXCEPT ![b][c] =
                    [@ EXCEPT !.first = st.next, !.last = Greatest(Batch(b, c))]]
             /\ Goto(b, c, "ingest")
             /\ UNCHANGED asleep
    <3>1. PICK st2 : st2 = [st EXCEPT !.first = st.next, !.last = Greatest(Batch(b, c))]
      OBVIOUS
    <3>2. cons' = [cons EXCEPT ![b][c] = st2]
      BY <2>5, <3>1
    <3>3. SameWait(st2, st)
      BY <1>1, <3>1 DEF SameWait, ConsumerStates
    <3>4. QED
      BY <2>1, <2>5, <3>2, <3>3, MovedSleep
  <2>6. QED
    BY <1>7, <2>2, <2>3, <2>4, <2>5 DEF NextBatch
<1>8. QED
  BY <1>3, <1>4, <1>6, <1>7 DEF ConsumerStep

\* Every step keeps every sleeper's reason.
LEMMA SleepStep ==
    TypeOK /\ StreamInv /\ SleepInv /\ [Next]_vars => SleepInv'
<1> SUFFICES ASSUME TypeOK, StreamInv, SleepInv, [Next]_vars PROVE SleepInv'
  OBVIOUS
<1>1. \A r \in Roles, x \in Buffers : <<x, r>> \in asleep => pc[x][r] \in {"local", "next", "check"}
  BY StandsAwake
<1>2. ASSUME NEW b \in Buffers, NEW r \in Roles, Release(b, r) PROVE SleepInv'
  <2>1. <<b, r>> \notin asleep
    BY <1>1, <1>2 DEF Release, AfterRelease
  <2>2. /\ UNCHANGED <<cons, resident, closed, sealed, flush, asleep, pump>>
        /\ \E label : Goto(b, r, label)
    BY <1>2 DEF Release, nodeVars
  <2>3. QED
    BY <2>1, <2>2, QuietSleep
<1>3. ASSUME NEW b \in Buffers, NEW r \in Closers, CloserStep(b, r) PROVE SleepInv'
  <2>1. r \in Roles
    BY DEF Closers, Roles
  <2>2. CASE /\ pc[b][r] \in {"close", "unregister", "wait"}
             /\ \E label : Goto(b, r, label)
             /\ UNCHANGED <<cons, resident, closed, sealed, flush, asleep, pump>>
    BY <1>1, <2>1, <2>2, QuietSleep
  <2>3. CASE Unregister(b, r) \/ Wait(b, r)
    BY <2>2, <2>3 DEF Unregister, Wait, nodeVars
  <2>4. CASE Close(b, r)
    <3>1. CASE closed[b]
      BY <2>2, <2>4, <3>1 DEF Close, nodeVars
    <3>2. CASE ~closed[b]
      <4>1. /\ Broadcast(b)
            /\ \E label : Goto(b, r, label)
            /\ \A x \in Buffers : x # b =>
                  cons'[x] = cons[x] /\ resident'[x] = resident[x] /\ closed'[x] = closed[x]
            /\ UNCHANGED <<sealed, flush, pump>>
        BY <2>4, <3>2 DEF Close, GotoRelease, Reclaim, TypeOK
      <4>2. \A x \in Buffers, q \in Roles : x # b => pc'[x][q] = pc[x][q]
        BY <2>1, <4>1, OtherPlaces
      <4>3. QED
        BY <4>1, <4>2, WakingStep
    <3>3. QED
      BY <3>1, <3>2
  <2>5. QED
    BY <1>3, <2>3, <2>4 DEF CloserStep
<1>4. CASE UNCHANGED vars \/ BudgetClose
  <2>1. UNCHANGED <<cons, resident, closed, sealed, flush, pump, asleep, pc>>
    BY <1>4 DEF vars, BudgetClose, nodeVars
  <2>2. QED
    BY <2>1, UntouchedReasons DEF SleepInv, Untouched
<1>5. ASSUME NEW b \in Buffers, FlushWoken(b) PROVE SleepInv'
  <2>1. /\ <<b, "flush">> \notin asleep
        /\ FlushPass(b, flush[b].consumer, flush[b].target)
        /\ UNCHANGED <<cons, resident, closed, sealed, pump, flush>>
    BY <1>5 DEF FlushWoken, At, nodeVars
  <2>2. flush[b].consumer \in Consumers
    BY DEF TypeOK
  <2>3. QED
    BY <2>1, <2>2, FlushSleep
<1>6. QED
  BY <1>2, <1>3, <1>4, <1>5, PumpSleep, ConsumerSleep DEF Next

\* No wake-up of buffer.cond is lost: whoever sleeps there would go back to sleep
\* if it were woken, so every section that makes a wait loop's condition false
\* broadcasts.
THEOREM WakeUpCorrect == Spec => []SleepersHaveReason
<1>1. Init => SleepInv
  BY DEF Init, SleepInv, Reasons
<1>2. TypeOK /\ WriterOK /\ StreamInv /\ SleepInv /\ [Next]_vars => SleepInv'
  BY SleepStep
<1>3. SleepInv => SleepersHaveReason
  BY DEF SleepInv, Reasons, PumpReason, ConsumerReason, FlushReason, Unflushed,
         SleepersHaveReason
<1>4. QED
  BY <1>1, <1>2, <1>3, StreamInvariant, PTL DEF Spec

-----------------------------------------------------------------------------
(* The buffer implements OutputStream.                                     *)

\* The view that OutputStream has of the consumers.
Views == [b \in Buffers |-> [c \in Consumers |-> ConsumerView(b, c)]]

\* The view of a consumer in line: the nodes in flight are a run.
ViewIn(st, at) ==
    CASE st.failed -> Stream!View("failed", 0, {}, 0)
      [] ~st.failed /\ st.first # 0 ->
            Stream!View("payload", st.completed, (st.completed + 1) .. st.last, 0)
      [] ~st.failed /\ st.first = 0 /\ st.flyGapSeq # 0 ->
            Stream!View("gap", st.completed, (st.completed + 1) .. st.flyGapSeq, st.flyGapBytes)
      [] OTHER -> Stream!View(IF at = "exited" THEN "ended" ELSE "idle", st.completed, {}, 0)

\* The nodes of a batch in flight are pending, all of them.
LEMMA RunInFlight ==
    ASSUME NEW st \in ConsumerStates, NEW mine \in SUBSET Seqs, NEW n, NEW row, NEW b,
           st.first # 0, InLine(st, mine, n, row, b)
    PROVE  {s \in Seqs : InFlight(st, s) /\ s \in mine} = (st.completed + 1) .. st.last
<1>1. st.first = st.completed + 1 /\ \A s \in Seqs : InFlight(st, s) => s \in mine
  BY DEF InLine, HandOK, QueueOK
<1>2. /\ st.completed \in Nat
      /\ st.last \in Nat
      /\ st.last <= MaxSeq
      /\ MaxSeq \in Nat
  BY StateNumbers, ConstantsAssumption
<1>3. \A s : s \in (st.completed + 1) .. st.last <=> s \in Seqs /\ InFlight(st, s)
  BY <1>1, <1>2 DEF Seqs, InFlight
<1>4. QED
  BY <1>1, <1>3

\* The view of a consumer, in a state ...
LEMMA ViewNow ==
    ASSUME TypeOK, StreamInv, NEW b \in Buffers, NEW c \in Consumers
    PROVE  ConsumerView(b, c) = ViewIn(cons[b][c], pc[b][c])
<1> DEFINE st == cons[b][c]
           run == {s \in Seqs : InFlight(st, s) /\ c \in pending[b][s]}
<1>1. CASE ~st.failed /\ st.first # 0
  <2>1. Enabled(b, c)
    BY <1>1, PhaseHere DEF Phase
  <2>2. /\ st \in ConsumerStates
        /\ Mine(b, c) \in SUBSET Seqs
        /\ InLine(st, Mine(b, c), nextSeq[b], length[b], b)
    BY <1>1, <2>1, LineOf DEF StreamInv
  <2>3. run = {s \in Seqs : InFlight(st, s) /\ s \in Mine(b, c)}
    BY DEF Mine
  <2>4. run = (st.completed + 1) .. st.last
    BY <1>1, <2>2, <2>3, RunInFlight
  <2>5. ConsumerView(b, c) = [kind |-> "payload", pos |-> st.completed, run |-> run, bytes |-> 0]
    BY <1>1 DEF ConsumerView
  <2>6. QED
    BY <1>1, <2>4, <2>5 DEF ViewIn, Stream!View
<1>2. CASE st.failed \/ st.first = 0
  BY <1>2 DEF ConsumerView, ViewIn, Stream!View
<1>3. QED
  BY <1>1, <1>2

\* ... and in the next one.
LEMMA ViewThen ==
    ASSUME TypeOK', StreamInv', NEW b \in Buffers, NEW c \in Consumers
    PROVE  ConsumerView(b, c)' = ViewIn(cons'[b][c], pc'[b][c])
<1> DEFINE st == cons'[b][c]
           mine == {s \in Seqs : c \in pending'[b][s]}
           run == {s \in Seqs : InFlight(st, s) /\ c \in pending'[b][s]}
<1>1. CASE ~st.failed /\ st.first # 0
  <2>1. st \in ConsumerStates
    BY DEF TypeOK
  <2>2. Phase(pc'[b][c], st, Enabled(b, c), closed'[b])
    BY DEF StreamInv, PhaseOK, Enabled, Phase, Failing
  <2>3. Enabled(b, c)
    BY <1>1, <2>2 DEF Phase
  <2>4. InLine(st, mine, nextSeq'[b], length'[b], b)
    BY <1>1, <2>3 DEF StreamInv, LineOK, Mine, Enabled
  <2>5. run = {s \in Seqs : InFlight(st, s) /\ s \in mine}
    OBVIOUS
  <2>6. run = (st.completed + 1) .. st.last
    BY <1>1, <2>1, <2>4, <2>5, RunInFlight
  <2>7. ConsumerView(b, c)' = [kind |-> "payload", pos |-> st.completed, run |-> run, bytes |-> 0]
    BY <1>1 DEF ConsumerView, InFlight
  <2>8. QED
    BY <1>1, <2>6, <2>7 DEF ViewIn, Stream!View
<1>2. CASE st.failed \/ st.first = 0
  BY <1>2 DEF ConsumerView, ViewIn, Stream!View
<1>3. QED
  BY <1>1, <1>2

\* The view depends on the hand of a consumer, on whether it has failed and left.
LEMMA ViewSame ==
    ASSUME NEW st, NEW st2, NEW at, SameHand(st2, st), st2.failed = st.failed
    PROVE  ViewIn(st2, at) = ViewIn(st, at)
BY DEF ViewIn, SameHand

\* A step that leaves the hands alone leaves the views alone ...
LEMMA ViewsKept ==
    ASSUME TypeOK, StreamInv, TypeOK', StreamInv', HandsKept
    PROVE  Views' = Views
<1>1. ASSUME NEW x \in Buffers, NEW c \in Consumers
      PROVE  ConsumerView(x, c)' = ConsumerView(x, c)
  <2>1. /\ SameHand(cons'[x][c], cons[x][c])
        /\ cons'[x][c].failed = cons[x][c].failed
        /\ pc'[x][c] = pc[x][c]
    BY DEF HandsKept
  <2>2. ViewIn(cons'[x][c], pc'[x][c]) = ViewIn(cons[x][c], pc[x][c])
    BY <2>1, ViewSame
  <2>3. QED
    BY <2>2, ViewNow, ViewThen
<1>2. QED
  BY <1>1 DEF Views

\* The view of one consumer.
LEMMA ViewHere ==
    ASSUME TypeOK, StreamInv, NEW b \in Buffers, NEW c \in Consumers
    PROVE  Views[b][c] = ViewIn(cons[b][c], pc[b][c])
BY ViewNow DEF Views

\* ... and a step of one consumer changes its own view.
LEMMA ViewMoves ==
    ASSUME TypeOK, StreamInv, TypeOK', StreamInv', NEW b \in Buffers, NEW c \in Consumers,
           NEW label, NEW st, Goto(b, c, label), cons' = [cons EXCEPT ![b][c] = st]
    PROVE  Views' = [Views EXCEPT ![b][c] = ViewIn(st, label)]
<1>1. /\ pc'[b][c] = label
      /\ cons'[b][c] = st
      /\ \A x \in Buffers, d \in Consumers : x # b \/ d # c =>
            pc'[x][d] = pc[x][d] /\ cons'[x][d] = cons[x][d]
  BY ConsumerMoves
<1>2. ConsumerView(b, c)' = ViewIn(st, label)
  BY <1>1, ViewThen
<1>3. ASSUME NEW x \in Buffers, NEW d \in Consumers, x # b \/ d # c
      PROVE  ConsumerView(x, d)' = ConsumerView(x, d)
  BY <1>1, <1>3, ViewNow, ViewThen
<1>4. \A x \in Buffers, d \in Consumers :
         ConsumerView(x, d)' = IF x = b /\ d = c THEN ViewIn(st, label) ELSE ConsumerView(x, d)
  BY <1>2, <1>3
<1>5. PICK v : v = ViewIn(st, label)
  OBVIOUS
<1>6. Views' = [x \in Buffers |-> [d \in Consumers |-> ConsumerView(x, d)']]
  BY DEF Views
<1>7. [Views EXCEPT ![b][c] = v] =
         [x \in Buffers |-> [d \in Consumers |-> IF x = b /\ d = c THEN v ELSE ConsumerView(x, d)]]
  BY DEF Views
<1>8. QED
  BY <1>4, <1>5, <1>6, <1>7

\* The instance of OutputStream counts as the buffer does.
LEMMA SameCardinality ==
    ASSUME NEW S
    PROVE  Stream!Cardinality(S) = Cardinality(S)
BY DEF Stream!Cardinality, Cardinality

\* A byte of OutputStream is a byte of the buffer without the name of the buffer.
LEMMA ByteCountIs ==
    ASSUME NEW b, NEW lo \in Nat, NEW hi \in Nat
    PROVE  Stream!ByteCount(b, (lo + 1) .. hi) = Weight(length[b], b, lo, hi)
<1> DEFINE S == (lo + 1) .. hi
           A == RowBytes(length[b], b, S)
           B == {x \in S \X (1 .. ChunkBytes) : x[2] <= length[b][x[1]]}
           f == [x \in A |-> <<x[1][2], x[2]>>]
<1>1. ASSUME NEW x \in A
      PROVE  /\ f[x] \in B
             /\ x = <<<<b, f[x][1]>>, f[x][2]>>
  <2>1. PICK s \in S, i \in 1 .. ChunkBytes : x = <<<<b, s>>, i>> /\ i <= length[b][s]
    BY <1>1, RowByte
  <2>2. f[x] = <<s, i>>
    BY <2>1
  <2>3. QED
    BY <2>1, <2>2
<1>2. ASSUME NEW y \in B PROVE \E x \in A : f[x] = y
  <2>1. PICK s \in S, i \in 1 .. ChunkBytes : y = <<s, i>> /\ i <= length[b][s]
    BY <1>2
  <2>2. <<<<b, s>>, i>> \in A
    BY <2>1, RowByte
  <2>3. f[<<<<b, s>>, i>>] = y
    BY <2>1, <2>2
  <2>4. QED
    BY <2>2, <2>3
<1>3. f \in Bijection(A, B)
  <2> HIDE DEF A, B
  <2>1. f \in [A -> B]
    <3>1. \A x \in A : <<x[1][2], x[2]>> \in B
      BY <1>1
    <3>2. QED
      BY <3>1
  <2> HIDE DEF f
  <2>2. \A x, z \in A : f[x] = f[z] => x = z
    BY <1>1
  <2>3. \A y \in B : \E x \in A : f[x] = y
    BY <1>2
  <2>4. QED
    BY <2>1, <2>2, <2>3 DEF Bijection, Injection, Surjection, IsInjective
<1>4. IsFiniteSet(A)
  BY WeightType
<1>5. Cardinality(B) = Cardinality(A)
  <2> HIDE DEF A, B, f
  <2>1. ExistsBijection(A, B)
    BY <1>3 DEF ExistsBijection
  <2>2. QED
    BY <1>4, <2>1, FS_Bijection
<1>6. Stream!ByteCount(b, S) = Cardinality(B)
  BY SameCardinality DEF Stream!ByteCount
<1>7. QED
  BY <1>5, <1>6 DEF Weight

\* The steps of OutputStream, by what they do to the views and to the log.
LEMMA StreamStutters ==
    ASSUME Views' = Views, UNCHANGED <<length, nextSeq, sealed, closed>>
    PROVE  UNCHANGED Stream!streamVars
BY DEF Views, Stream!streamVars

\* A chunk gets a number.
LEMMA StreamWrites ==
    ASSUME NEW b \in Buffers, Views' = Views, ~sealed[b], ~closed[b], nextSeq[b] < MaxSeq,
           NEW n \in 1 .. ChunkBytes, UNCHANGED <<sealed, closed>>,
           nextSeq' = [nextSeq EXCEPT ![b] = nextSeq[b] + 1],
           length' = [length EXCEPT ![b][nextSeq[b] + 1] = n]
    PROVE  Stream!Write(b)
BY DEF Views, Stream!Write

\* A reader is given a run of payload.
LEMMA StreamHandsPayload ==
    ASSUME NEW b \in Buffers, NEW c \in Consumers, NEW pos, NEW through,
           Views[b][c] = Stream!View("idle", pos, {}, 0), ~closed[b],
           through \in (pos + 1) .. nextSeq[b],
           Views' = [Views EXCEPT ![b][c] = Stream!View("payload", pos, (pos + 1) .. through, 0)],
           UNCHANGED <<length, nextSeq, sealed, closed>>
    PROVE  Stream!Hand(b, c)
<1>1. Views[b][c].kind = "idle" /\ Views[b][c].pos = pos
  BY DEF Stream!View
<1>2. QED
  BY <1>1 DEF Views, Stream!Hand

\* A reader is told of a run that is missing.
LEMMA StreamHandsGap ==
    ASSUME NEW b \in Buffers, NEW c \in Consumers, NEW pos \in Nat, NEW through \in Nat,
           Views[b][c] = Stream!View("idle", pos, {}, 0), ~closed[b],
           through \in (pos + 1) .. nextSeq[b],
           Views' = [Views EXCEPT ![b][c] =
                        Stream!View("gap", pos, (pos + 1) .. through,
                                    Weight(length[b], b, pos, through))],
           UNCHANGED <<length, nextSeq, sealed, closed>>
    PROVE  Stream!Hand(b, c)
<1>1. Views[b][c].kind = "idle" /\ Views[b][c].pos = pos
  BY DEF Stream!View
<1>2. Weight(length[b], b, pos, through) = Stream!ByteCount(b, (pos + 1) .. through)
  BY ByteCountIs
<1>3. Views' = [Views EXCEPT ![b][c] =
                   Stream!View("gap", Views[b][c].pos, (pos + 1) .. through,
                               Stream!ByteCount(b, (pos + 1) .. through))]
  BY <1>1, <1>2
<1>4. QED
  BY <1>1, <1>3 DEF Views, Stream!Hand

\* A reader has dealt with its run.
LEMMA StreamAccounts ==
    ASSUME NEW b \in Buffers, NEW c \in Consumers, NEW pos \in Nat, NEW through \in Nat,
           pos <= through, NEW kind \in {"payload", "gap"}, NEW bytes,
           Views[b][c] = Stream!View(kind, pos, (pos + 1) .. through, bytes),
           Views' = [Views EXCEPT ![b][c] = Stream!View("idle", through, {}, 0)],
           UNCHANGED <<length, nextSeq, sealed, closed>>
    PROVE  Stream!Account(b, c)
<1>1. /\ Views[b][c].kind = kind
      /\ Views[b][c].pos = pos
      /\ Views[b][c].run = (pos + 1) .. through
  BY DEF Stream!View
<1>2. pos + Cardinality((pos + 1) .. through) = through
  <2>1. pos + 1 \in Int /\ through \in Int
    OBVIOUS
  <2>2. Cardinality((pos + 1) .. through) =
           IF pos + 1 > through THEN 0 ELSE through - (pos + 1) + 1
    BY <2>1, FS_Interval
  <2>3. QED
    BY <2>2
<1>3. Views' = [Views EXCEPT ![b][c] =
                   Stream!View("idle", Views[b][c].pos + Stream!Cardinality(Views[b][c].run), {}, 0)]
  BY <1>1, <1>2, SameCardinality
<1>4. QED
  BY <1>1, <1>3 DEF Views, Stream!Account

\* A reader has failed on its run.
LEMMA StreamFails ==
    ASSUME NEW b \in Buffers, NEW c \in Consumers, Views[b][c].kind \in {"payload", "gap"},
           Views' = [Views EXCEPT ![b][c] = Stream!View("failed", 0, {}, 0)],
           UNCHANGED <<length, nextSeq, sealed, closed>>
    PROVE  Stream!Fail(b, c)
BY DEF Views, Stream!Fail

\* A reader leaves.
LEMMA StreamLeaves ==
    ASSUME NEW b \in Buffers, NEW c \in Consumers, NEW pos,
           Views[b][c] = Stream!View("idle", pos, {}, 0),
           closed[b] \/ (sealed[b] /\ pos = nextSeq[b]),
           Views' = [Views EXCEPT ![b][c] = Stream!View("ended", pos, {}, 0)],
           UNCHANGED <<length, nextSeq, sealed, closed>>
    PROVE  Stream!Leave(b, c)
<1>1. Views[b][c].kind = "idle" /\ Views[b][c].pos = pos
  BY DEF Stream!View
<1>2. QED
  BY <1>1 DEF Views, Stream!Leave

\* The four things a reader can be, by the state of the consumer.
LEMMA ViewIdle ==
    ASSUME NEW st, NEW at, ~st.failed, st.first = 0, st.flyGapSeq = 0
    PROVE  /\ at # "exited" => ViewIn(st, at) = Stream!View("idle", st.completed, {}, 0)
           /\ at = "exited" => ViewIn(st, at) = Stream!View("ended", st.completed, {}, 0)
BY DEF ViewIn

LEMMA ViewPayload ==
    ASSUME NEW st, NEW at, ~st.failed, st.first # 0
    PROVE  ViewIn(st, at) = Stream!View("payload", st.completed, (st.completed + 1) .. st.last, 0)
BY DEF ViewIn

LEMMA ViewGap ==
    ASSUME NEW st, NEW at, ~st.failed, st.first = 0, st.flyGapSeq # 0
    PROVE  ViewIn(st, at) =
             Stream!View("gap", st.completed, (st.completed + 1) .. st.flyGapSeq, st.flyGapBytes)
BY DEF ViewIn

LEMMA ViewFailed ==
    ASSUME NEW st, NEW at, st.failed
    PROVE  ViewIn(st, at) = Stream!View("failed", 0, {}, 0)
BY DEF ViewIn

\* A step of a consumer that its reader does not notice.
LEMMA ViewStays ==
    ASSUME TypeOK, StreamInv, TypeOK', StreamInv', NEW b \in Buffers, NEW c \in Consumers,
           NEW label, NEW st, Goto(b, c, label), cons' = [cons EXCEPT ![b][c] = st],
           ViewIn(st, label) = ViewIn(cons[b][c], pc[b][c]),
           UNCHANGED <<length, nextSeq, sealed, closed>>
    PROVE  UNCHANGED Stream!streamVars
<1>1. Views' = [Views EXCEPT ![b][c] = ViewIn(st, label)]
  BY ViewMoves
<1>2. Views' = [Views EXCEPT ![b][c] = Views[b][c]]
  BY <1>1, ViewHere
<1>3. Views = [Views EXCEPT ![b][c] = Views[b][c]]
  BY DEF Views
<1>4. QED
  BY <1>2, <1>3, StreamStutters

\* A consumer that finishes leaves the stream: it was closed, or has been read to its end.
LEMMA FinishRefines ==
    ASSUME TypeOK, StreamInv, TypeOK', StreamInv', NEW b \in Buffers, NEW c \in Consumers,
           pc[b][c] \in {"new", "next"},
           ~cons[b][c].active \/ closed[b] \/ (sealed[b] /\ Drained(cons[b][c])),
           cons' = [cons EXCEPT ![b][c].done = TRUE], Goto(b, c, "exited"),
           UNCHANGED <<length, nextSeq, sealed, closed>>
    PROVE  Stream!Leave(b, c)
<1> DEFINE st == cons[b][c]
<1>1. st \in ConsumerStates /\ Phase(pc[b][c], st, Enabled(b, c), closed[b])
  BY PhaseHere
<1>2. /\ st.first = 0
      /\ st.flyGapSeq = 0
      /\ ~st.failed
      /\ Enabled(b, c)
      /\ st.active <=> ~closed[b]
  BY <1>1 DEF Phase, Failing
<1>3. InLine(st, Mine(b, c), nextSeq[b], length[b], b)
  BY <1>2, LineOf DEF StreamInv
<1>4. closed[b] \/ (sealed[b] /\ st.completed = nextSeq[b])
  <2>1. CASE Drained(st)
    <3>1. st.gapBytes = 0 /\ st.gapSeq = 0 /\ st.next = 0
      BY <2>1, <1>3 DEF Drained, InLine, GapOK
    <3>2. Frontier(st) = st.completed
      BY <3>1, <1>2, <1>1, StateNumbers DEF Frontier, Handed
    <3>3. Frontier(st) = nextSeq[b]
      BY <3>1, <1>1, <1>2, <1>3, StateNumbers DEF InLine, QueueOK
    <3>4. QED
      BY <3>2, <3>3, <1>2
  <2>2. QED
    BY <2>1, <1>2
<1>5. PICK st2 : st2 = [st EXCEPT !.done = TRUE]
  OBVIOUS
<1>6. /\ st2.failed = st.failed
      /\ st2.first = 0
      /\ st2.flyGapSeq = 0
      /\ st2.completed = st.completed
      /\ cons' = [cons EXCEPT ![b][c] = st2]
  BY <1>1, <1>2, <1>5 DEF ConsumerStates
<1>7. Views' = [Views EXCEPT ![b][c] = ViewIn(st2, "exited")]
  BY <1>6, ViewMoves
<1>8. PICK pos : pos = st.completed
  OBVIOUS
<1>9. Views[b][c] = Stream!View("idle", pos, {}, 0)
  BY <1>2, <1>8, ViewHere, ViewIdle
<1>10. ViewIn(st2, "exited") = Stream!View("ended", pos, {}, 0)
  BY <1>2, <1>6, <1>8, ViewIdle
<1>11. QED
  BY <1>4, <1>7, <1>8, <1>9, <1>10, StreamLeaves

\* run either starts to read, which the stream does not see, or leaves.
LEMMA RunRefines ==
    ASSUME TypeOK, StreamInv, TypeOK', StreamInv', NEW b \in Buffers, NEW c \in Consumers,
           Run(b, c)
    PROVE  UNCHANGED Stream!streamVars \/ Stream!Leave(b, c)
<1>1. pc[b][c] = "new" /\ UNCHANGED <<length, nextSeq, sealed, closed>>
  BY DEF Run
<1>2. CASE Goto(b, c, "next") /\ cons' = cons
  <2>1. PICK st : st = cons[b][c]
    OBVIOUS
  <2>2. cons' = [cons EXCEPT ![b][c] = st]
    BY <1>2, <2>1 DEF TypeOK
  <2>3. Phase("new", st, Enabled(b, c), closed[b])
    BY <1>1, <2>1, PhaseHere
  <2>4. st.first = 0 /\ st.flyGapSeq = 0 /\ ~st.failed
    BY <2>3 DEF Phase, Failing
  <2>5. ViewIn(st, "next") = ViewIn(cons[b][c], pc[b][c])
    BY <1>1, <2>1, <2>4, ViewIdle
  <2>6. QED
    BY <1>1, <1>2, <2>2, <2>5, ViewStays
<1>3. CASE /\ ~cons[b][c].active \/ closed[b]
           /\ cons' = [cons EXCEPT ![b][c].done = TRUE]
           /\ Goto(b, c, "exited")
  BY <1>1, <1>3, FinishRefines
<1>4. QED
  BY <1>2, <1>3 DEF Run

\* next hands over a gap or a batch, or leaves, or goes to sleep.
LEMMA NextBatchRefines ==
    ASSUME TypeOK, StreamInv, TypeOK', StreamInv', NEW b \in Buffers, NEW c \in Consumers,
           NextBatch(b, c)
    PROVE  UNCHANGED Stream!streamVars \/ Stream!Hand(b, c) \/ Stream!Leave(b, c)
<1>1. pc[b][c] = "next" /\ UNCHANGED <<length, nextSeq, sealed, closed>>
  BY DEF NextBatch, At
<1>2. PICK st : st = cons[b][c]
  OBVIOUS
<1>3. st \in ConsumerStates /\ Phase("next", st, Enabled(b, c), closed[b])
  BY <1>1, <1>2, PhaseHere
<1>4. /\ st.first = 0
      /\ st.flyGapSeq = 0
      /\ ~st.failed
      /\ Enabled(b, c)
  BY <1>3 DEF Phase, Failing
<1>5. /\ Mine(b, c) \in SUBSET Seqs
      /\ nextSeq[b] \in 0 .. MaxSeq
      /\ InLine(st, Mine(b, c), nextSeq[b], length[b], b)
  BY <1>2, <1>4, LineOf DEF StreamInv
<1>6. PICK pos : pos = st.completed
  OBVIOUS
<1>7. Views[b][c] = Stream!View("idle", pos, {}, 0)
  BY <1>1, <1>2, <1>4, <1>6, ViewHere, ViewIdle
<1>8. pos \in Nat /\ nextSeq[b] \in Nat /\ MaxSeq \in Nat
  BY <1>3, <1>5, <1>6, StateNumbers, ConstantsAssumption
<1>9. CASE UNCHANGED <<cons, pc>>
  <2>1. Views' = Views
    BY <1>9, ViewsKept DEF HandsKept, SameHand
  <2>2. QED
    BY <1>1, <2>1, StreamStutters
<1>10. CASE /\ ~st.active \/ closed[b] \/ (sealed[b] /\ Drained(st))
            /\ cons' = [cons EXCEPT ![b][c].done = TRUE]
            /\ Goto(b, c, "exited")
  BY <1>1, <1>2, <1>10, FinishRefines
<1>11. CASE /\ ~closed[b] /\ st.gapBytes > 0
            /\ cons' = [cons EXCEPT ![b][c] =
                   [@ EXCEPT !.flyGapSeq = st.gapSeq, !.flyGapBytes = st.gapBytes,
                             !.gapSeq = 0, !.gapBytes = 0]]
            /\ Goto(b, c, "gap")
  <2>1. PICK st2 : st2 = [st EXCEPT !.flyGapSeq = st.gapSeq, !.flyGapBytes = st.gapBytes,
                                    !.gapSeq = 0, !.gapBytes = 0]
    OBVIOUS
  <2>2. PICK through : through = st.gapSeq
    OBVIOUS
  <2>3. /\ pos < through
        /\ through <= nextSeq[b]
        /\ st.gapBytes = Weight(length[b], b, pos, through)
    <3>1. st.gapBytes > 0
      BY <1>11
    <3>2. PICK mine, n, row : mine = Mine(b, c) /\ n = nextSeq[b] /\ row = length[b]
      OBVIOUS
    <3>3. /\ mine \in SUBSET Seqs
          /\ n \in 0 .. MaxSeq
          /\ InLine(st, mine, n, row, b)
      BY <1>5, <3>2
    <3>4. /\ st.completed < st.gapSeq
          /\ st.gapSeq <= n
          /\ st.gapBytes = Weight(row, b, st.completed, st.gapSeq)
      BY <1>3, <1>4, <3>1, <3>3, HandGap
    <3>5. QED
      BY <1>6, <2>2, <3>2, <3>4
  <2>4. through \in Nat
    BY <1>3, <2>2, StateNumbers
  <2>5. /\ st2.failed = st.failed
        /\ st2.first = 0
        /\ st2.flyGapSeq = through
        /\ st2.flyGapBytes = st.gapBytes
        /\ st2.completed = pos
    BY <1>3, <1>4, <1>6, <2>1, <2>2 DEF ConsumerStates
  <2>6. cons' = [cons EXCEPT ![b][c] = st2]
    BY <1>2, <1>11, <2>1
  <2>7. Views' = [Views EXCEPT ![b][c] = ViewIn(st2, "gap")]
    <3>1. Goto(b, c, "gap")
      BY <1>11
    <3>2. QED
      BY <2>6, <3>1, ViewMoves
  <2>8. through # 0
    BY <1>8, <2>3, <2>4
  <2>9. ViewIn(st2, "gap") = Stream!View("gap", st2.completed, (st2.completed + 1) .. st2.flyGapSeq,
                                         st2.flyGapBytes)
    BY <1>4, <2>5, <2>8, ViewGap
  <2>10. Views' = [Views EXCEPT ![b][c] =
                      Stream!View("gap", pos, (pos + 1) .. through,
                                  Weight(length[b], b, pos, through))]
    BY <2>3, <2>5, <2>7, <2>9
  <2>11. through \in (pos + 1) .. nextSeq[b]
    BY <1>8, <2>3, <2>4
  <2>12. Stream!Hand(b, c)
    BY <1>1, <1>7, <1>8, <1>11, <2>4, <2>10, <2>11, StreamHandsGap
  <2>13. QED
    BY <2>12
<1>12. CASE /\ ~closed[b] /\ st.gapBytes = 0 /\ st.next # 0
            /\ cons' = [cons EXCEPT ![b][c] =
                   [@ EXCEPT !.first = st.next, !.last = Greatest(Batch(b, c))]]
            /\ Goto(b, c, "ingest")
  <2>1. PICK through : through = Greatest(Batch(b, c))
    OBVIOUS
  <2>2. PICK st2 : st2 = [st EXCEPT !.first = st.next, !.last = through]
    OBVIOUS
  <2>3. through \in Mine(b, c) /\ st.next <= through
    BY <1>2, <1>4, <1>12, <2>1, BatchInQueue
  <2>4. st2.first = pos + 1
    BY <1>3, <1>4, <1>5, <1>6, <1>12, <2>2, <2>3, HandPayload
  <2>5. /\ st2.failed = st.failed
        /\ st2.first = st.next
        /\ st2.last = through
        /\ st2.completed = pos
    BY <1>3, <1>6, <2>2 DEF ConsumerStates
  <2>6. cons' = [cons EXCEPT ![b][c] = st2]
    BY <1>2, <1>12, <2>1, <2>2
  <2>7. Views' = [Views EXCEPT ![b][c] = ViewIn(st2, "ingest")]
    <3>1. Goto(b, c, "ingest")
      BY <1>12
    <3>2. QED
      BY <2>6, <3>1, ViewMoves
  <2>8. ViewIn(st2, "ingest") =
           Stream!View("payload", st2.completed, (st2.completed + 1) .. st2.last, 0)
    BY <1>4, <1>12, <2>5, ViewPayload
  <2>9. Views' = [Views EXCEPT ![b][c] = Stream!View("payload", pos, (pos + 1) .. through, 0)]
    BY <2>5, <2>7, <2>8
  <2>10. through \in (pos + 1) .. nextSeq[b]
    <3>1. through \in Seqs /\ pos + 1 <= through
      BY <1>5, <2>3, <2>4, <2>5
    <3>2. ~InFlight(st, through)
      BY <1>4 DEF InFlight
    <3>3. through <= nextSeq[b]
      BY <1>5, <2>3, <3>1, <3>2 DEF InLine, QueueOK
    <3>4. QED
      BY <1>8, <3>1, <3>3 DEF Seqs
  <2>11. Stream!Hand(b, c)
    BY <1>1, <1>7, <1>12, <2>9, <2>10, StreamHandsPayload
  <2>12. QED
    BY <2>11
<1>13. QED
  BY <1>2, <1>9, <1>10, <1>11, <1>12 DEF NextBatch

\* A consumer that has finished with its run accounts for it, whichever label it
\* goes on from ...
LEMMA AccountRefines ==
    ASSUME TypeOK, StreamInv, TypeOK', StreamInv', NEW b \in Buffers, NEW c \in Consumers,
           NEW pos \in Nat, NEW through \in Nat, pos <= through, NEW kind \in {"payload", "gap"},
           NEW bytes, Views[b][c] = Stream!View(kind, pos, (pos + 1) .. through, bytes),
           NEW st, cons' = [cons EXCEPT ![b][c] = st],
           ~st.failed, st.first = 0, st.flyGapSeq = 0, st.completed = through,
           Goto(b, c, "rel_next") \/ Goto(b, c, "next"),
           UNCHANGED <<length, nextSeq, sealed, closed>>
    PROVE  Stream!Account(b, c)
<1>1. PICK label \in {"rel_next", "next"} : Goto(b, c, label)
  OBVIOUS
<1>2. Views' = [Views EXCEPT ![b][c] = ViewIn(st, label)]
  BY <1>1, ViewMoves
<1>3. ViewIn(st, label) = Stream!View("idle", through, {}, 0)
  BY <1>1, ViewIdle
<1>4. Views' = [Views EXCEPT ![b][c] = Stream!View("idle", through, {}, 0)]
  BY <1>2, <1>3
<1>5. QED
  BY <1>4, StreamAccounts

\* ... and one that cannot go on has failed.
LEMMA FailRefines ==
    ASSUME TypeOK, StreamInv, TypeOK', StreamInv', NEW b \in Buffers, NEW c \in Consumers,
           Views[b][c].kind \in {"payload", "gap"},
           NEW base \in ConsumerStates, cons' = [cons EXCEPT ![b][c] = Unavailable(base)],
           Goto(b, c, "rel_wake") \/ Goto(b, c, "wake"),
           UNCHANGED <<length, nextSeq, sealed, closed>>
    PROVE  Stream!Fail(b, c)
<1>1. PICK label : Goto(b, c, label)
  OBVIOUS
<1>2. PICK st : st = Unavailable(base)
  OBVIOUS
<1>3. st.failed
  BY <1>2 DEF Unavailable, ConsumerStates
<1>4. cons' = [cons EXCEPT ![b][c] = st]
  BY <1>2
<1>5. Views' = [Views EXCEPT ![b][c] = ViewIn(st, label)]
  BY <1>1, <1>4, ViewMoves
<1>6. ViewIn(st, label) = Stream!View("failed", 0, {}, 0)
  BY <1>3, ViewFailed
<1>7. Views' = [Views EXCEPT ![b][c] = Stream!View("failed", 0, {}, 0)]
  BY <1>5, <1>6
<1>8. QED
  BY <1>7, StreamFails

\* What the reader sees of GiveUp: where the consumer goes, and nothing of the log.
LEMMA GiveUpSeen ==
    ASSUME NEW b, NEW c, NEW nodes, NEW label, GiveUp(b, c, nodes, label)
    PROVE  /\ UNCHANGED <<length, nextSeq, sealed, closed>>
           /\ Goto(b, c, label) \/ Goto(b, c, AfterRelease[label])
BY DEF GiveUp, GotoRelease

\* completeBatch accounts for the batch or fails on it.
LEMMA CompleteBatchRefines ==
    ASSUME TypeOK, StreamInv, TypeOK', StreamInv', NEW b \in Buffers, NEW c \in Consumers,
           CompleteBatch(b, c)
    PROVE  Stream!Account(b, c) \/ Stream!Fail(b, c)
<1>1. pc[b][c] = "ingest"
  BY DEF CompleteBatch, At
<1>2. PICK st : st = cons[b][c]
  OBVIOUS
<1>3. st \in ConsumerStates /\ Phase("ingest", st, Enabled(b, c), closed[b])
  BY <1>1, <1>2, PhaseHere
<1>4. /\ st.first # 0
      /\ st.flyGapSeq = 0
      /\ ~st.failed
      /\ Enabled(b, c)
  BY <1>3 DEF Phase, Failing
<1>5. /\ Mine(b, c) \in SUBSET Seqs
      /\ nextSeq[b] \in 0 .. MaxSeq
      /\ InLine(st, Mine(b, c), nextSeq[b], length[b], b)
  BY <1>2, <1>4, LineOf DEF StreamInv
<1>6. PICK pos, through : pos = st.completed /\ through = st.last
  OBVIOUS
<1>7. pos \in Nat /\ through \in Nat /\ pos <= through
  <2>1. pos \in Nat /\ through \in Nat
    BY <1>3, <1>6, StateNumbers
  <2>2. st.first = pos + 1 /\ st.first <= through
    BY <1>4, <1>5, <1>6 DEF InLine, HandOK
  <2>3. QED
    BY <2>1, <2>2
<1>8. Views[b][c] = Stream!View("payload", pos, (pos + 1) .. through, 0)
  BY <1>2, <1>4, <1>6, ViewHere, ViewPayload
<1>9. Views[b][c].kind = "payload"
  BY <1>8 DEF Stream!View
<1>10. PICK mine : mine = Mine(b, c)
  OBVIOUS
<1>11. PICK base : base = [st EXCEPT !.first = 0, !.last = 0, !.completed = Larger(@, st.last),
                                     !.next = NextPending(mine, st.last)]
  OBVIOUS
<1>12. /\ base.failed = st.failed
       /\ base.first = 0
       /\ base.flyGapSeq = 0
  BY <1>3, <1>4, <1>11 DEF ConsumerStates
<1>13. base.completed = through
  BY <1>3, <1>4, <1>5, <1>6, <1>10, <1>11, BatchDone
<1>14. base \in ConsumerStates
  <2>1. 0 \in 0 .. MaxSeq /\ st.last \in 0 .. MaxSeq /\ Larger(st.completed, st.last) \in 0 .. MaxSeq
    BY <1>3, ConstantsAssumption DEF ConsumerStates, Larger
  <2>2. NextPending(mine, st.last) \in 0 .. MaxSeq
    BY <1>5, <1>10, <2>1, NextPendingIn
  <2>3. QED
    BY <1>3, <1>11, <2>1, <2>2 DEF ConsumerStates
<1>15. \/ /\ \E nodes : GiveUp(b, c, nodes, "rel_next")
          /\ cons' = [cons EXCEPT ![b][c] = base]
       \/ /\ \E nodes : GiveUp(b, c, nodes, "rel_wake")
          /\ cons' = [cons EXCEPT ![b][c] = Unavailable(base)]
  BY <1>2, <1>10, <1>11 DEF CompleteBatch, Mine
<1>16. CASE /\ \E nodes : GiveUp(b, c, nodes, "rel_next")
            /\ cons' = [cons EXCEPT ![b][c] = base]
  <2>1. /\ UNCHANGED <<length, nextSeq, sealed, closed>>
        /\ Goto(b, c, "rel_next") \/ Goto(b, c, "next")
    BY <1>16, GiveUpSeen DEF AfterRelease
  <2>2. QED
    BY <1>4, <1>7, <1>8, <1>12, <1>13, <1>16, <2>1, AccountRefines
<1>17. CASE /\ \E nodes : GiveUp(b, c, nodes, "rel_wake")
            /\ cons' = [cons EXCEPT ![b][c] = Unavailable(base)]
  <2>1. /\ UNCHANGED <<length, nextSeq, sealed, closed>>
        /\ Goto(b, c, "rel_wake") \/ Goto(b, c, "wake")
    BY <1>17, GiveUpSeen DEF AfterRelease
  <2>2. QED
    BY <1>9, <1>14, <1>17, <2>1, FailRefines
<1>18. QED
  BY <1>15, <1>16, <1>17

\* completeGap accounts for the gap or fails on it.
LEMMA CompleteGapRefines ==
    ASSUME TypeOK, StreamInv, TypeOK', StreamInv', NEW b \in Buffers, NEW c \in Consumers,
           CompleteGap(b, c)
    PROVE  Stream!Account(b, c) \/ Stream!Fail(b, c)
<1>1. pc[b][c] = "gap"
  BY DEF CompleteGap, At
<1>2. PICK st : st = cons[b][c]
  OBVIOUS
<1>3. st \in ConsumerStates /\ Phase("gap", st, Enabled(b, c), closed[b])
  BY <1>1, <1>2, PhaseHere
<1>4. /\ st.first = 0
      /\ st.flyGapSeq # 0
      /\ ~st.failed
      /\ Enabled(b, c)
  BY <1>3 DEF Phase, Failing
<1>5. /\ Mine(b, c) \in SUBSET Seqs
      /\ nextSeq[b] \in 0 .. MaxSeq
      /\ InLine(st, Mine(b, c), nextSeq[b], length[b], b)
  BY <1>2, <1>4, LineOf DEF StreamInv
<1>6. PICK pos, through : pos = st.completed /\ through = st.flyGapSeq
  OBVIOUS
<1>7. pos \in Nat /\ through \in Nat /\ pos <= through
  <2>1. pos \in Nat /\ through \in Nat
    BY <1>3, <1>6, StateNumbers
  <2>2. pos < through
    BY <1>4, <1>5, <1>6 DEF InLine, HandOK
  <2>3. QED
    BY <2>1, <2>2
<1>8. Views[b][c] = Stream!View("gap", pos, (pos + 1) .. through, st.flyGapBytes)
  BY <1>2, <1>4, <1>6, ViewHere, ViewGap
<1>9. Views[b][c].kind = "gap"
  BY <1>8 DEF Stream!View
<1>10. PICK base : base = [st EXCEPT !.flyGapSeq = 0, !.flyGapBytes = 0]
  OBVIOUS
<1>11. base \in ConsumerStates
  <2>1. 0 \in 0 .. MaxSeq /\ 0 \in Nat
    BY ConstantsAssumption
  <2>2. QED
    BY <1>3, <1>10, <2>1 DEF ConsumerStates
<1>12. \/ /\ GiveUp(b, c, {}, "rel_next")
          /\ cons' = [cons EXCEPT ![b][c] = [base EXCEPT !.completed = Larger(@, st.flyGapSeq)]]
       \/ /\ \E nodes : GiveUp(b, c, nodes, "rel_wake")
          /\ cons' = [cons EXCEPT ![b][c] = Unavailable(base)]
  BY <1>2, <1>10 DEF CompleteGap
<1>13. CASE /\ GiveUp(b, c, {}, "rel_next")
            /\ cons' = [cons EXCEPT ![b][c] = [base EXCEPT !.completed = Larger(@, st.flyGapSeq)]]
  <2>1. /\ UNCHANGED <<length, nextSeq, sealed, closed>>
        /\ Goto(b, c, "rel_next") \/ Goto(b, c, "next")
    BY <1>13, GiveUpSeen DEF AfterRelease
  <2>2. PICK st2 : st2 = [st EXCEPT !.flyGapSeq = 0, !.flyGapBytes = 0,
                                    !.completed = Larger(@, st.flyGapSeq)]
    OBVIOUS
  <2>3. st2 = [base EXCEPT !.completed = Larger(@, st.flyGapSeq)]
    BY <1>3, <1>10, <2>2 DEF ConsumerStates
  <2>4. st2.completed = through
    BY <1>3, <1>4, <1>5, <1>6, <2>2, GapDone
  <2>5. /\ st2.failed = st.failed
        /\ st2.first = 0
        /\ st2.flyGapSeq = 0
    BY <1>3, <1>4, <2>2 DEF ConsumerStates
  <2>6. cons' = [cons EXCEPT ![b][c] = st2]
    BY <1>13, <2>3
  <2>7. QED
    BY <1>4, <1>7, <1>8, <2>1, <2>4, <2>5, <2>6, AccountRefines
<1>14. CASE /\ \E nodes : GiveUp(b, c, nodes, "rel_wake")
            /\ cons' = [cons EXCEPT ![b][c] = Unavailable(base)]
  <2>1. /\ UNCHANGED <<length, nextSeq, sealed, closed>>
        /\ Goto(b, c, "rel_wake") \/ Goto(b, c, "wake")
    BY <1>14, GiveUpSeen DEF AfterRelease
  <2>2. QED
    BY <1>9, <1>11, <1>14, <2>1, FailRefines
<1>15. QED
  BY <1>12, <1>13, <1>14

\* A reader that has failed does not notice what its consumer still does ...
LEMMA FailureRefines ==
    ASSUME TypeOK, StreamInv, TypeOK', StreamInv', NEW b \in Buffers, NEW c \in Consumers,
           FailureWake(b, c) \/ FailureHandled(b, c)
    PROVE  UNCHANGED Stream!streamVars
<1>1. /\ pc[b][c] \in {"wake", "failed"}
      /\ UNCHANGED <<length, nextSeq, sealed, closed>>
  BY DEF FailureWake, FailureHandled, At, nodeVars
<1>2. cons[b][c] \in ConsumerStates /\ cons[b][c].failed
  <2>1. cons[b][c] \in ConsumerStates /\ Phase(pc[b][c], cons[b][c], Enabled(b, c), closed[b])
    BY PhaseHere
  <2>2. QED
    BY <1>1, <2>1 DEF Phase, Failing
<1>3. \E label, st : /\ Goto(b, c, label)
                     /\ cons' = [cons EXCEPT ![b][c] = st]
                     /\ st.failed
  <2>1. CASE FailureWake(b, c)
    <3>1. cons' = [cons EXCEPT ![b][c] = cons[b][c]] /\ Goto(b, c, "failed")
      BY <2>1 DEF FailureWake, nodeVars, TypeOK
    <3>2. QED
      BY <3>1, <1>2
  <2>2. CASE FailureHandled(b, c)
    <3> DEFINE st2 == [cons[b][c] EXCEPT !.failurePending = FALSE, !.done = TRUE]
    <3>1. cons' = [cons EXCEPT ![b][c] = st2] /\ Goto(b, c, "exited")
      BY <2>2 DEF FailureHandled
    <3>2. st2.failed
      BY <1>2 DEF ConsumerStates
    <3>3. QED
      BY <3>1, <3>2
  <2>3. QED
    BY <2>1, <2>2
<1>4. PICK label, st : /\ Goto(b, c, label)
                       /\ cons' = [cons EXCEPT ![b][c] = st]
                       /\ st.failed
  BY <1>3
<1>5. ViewIn(st, label) = ViewIn(cons[b][c], pc[b][c])
  BY <1>2, <1>4, ViewFailed
<1>6. QED
  BY <1>1, <1>4, <1>5, ViewStays

\* ... and nobody notices that the budget is paid back.
LEMMA ReleaseRefines ==
    ASSUME TypeOK, StreamInv, TypeOK', StreamInv', NEW b \in Buffers, NEW r \in Roles,
           Release(b, r)
    PROVE  UNCHANGED Stream!streamVars
<1>1. /\ UNCHANGED <<pending, length, nextSeq, cons, closed, sealed>>
      /\ Goto(b, r, AfterRelease[pc[b][r]])
      /\ pc[b][r] \in DOMAIN AfterRelease
  BY DEF Release, nodeVars
<1>2. CASE r \notin Consumers
  <2>1. HandsKept
    BY <1>1, <1>2, GotoOther, QuietStream
  <2>2. QED
    BY <1>1, <2>1, ViewsKept, StreamStutters
<1>3. CASE r \in Consumers
  <2>1. PICK label, st : label = AfterRelease[pc[b][r]] /\ st = cons[b][r]
    OBVIOUS
  <2>2. pc[b][r] \in ConsumerLabels
    BY <1>3, LabelsIn DEF TypeOK, PcOK, Consumers, Labels, Roles
  <2>3. pc[b][r] \in {"rel_next", "rel_wake"}
    BY <1>1, <2>2 DEF AfterRelease, ConsumerLabels
  <2>4. pc[b][r] # "exited" /\ label # "exited"
    <3>1. AfterRelease["rel_next"] = "next" /\ AfterRelease["rel_wake"] = "wake"
      BY DEF AfterRelease
    <3>2. QED
      BY <2>1, <2>3, <3>1
  <2>5. ViewIn(st, label) = ViewIn(cons[b][r], pc[b][r])
    BY <2>1, <2>4 DEF ViewIn
  <2>6. cons' = [cons EXCEPT ![b][r] = st]
    BY <1>1, <1>3, <2>1 DEF TypeOK
  <2>7. QED
    BY <1>1, <1>3, <2>1, <2>5, <2>6, ViewStays
<1>4. QED
  BY <1>2, <1>3

\* A chunk that gets its number extends the log.
LEMMA NumberRefines ==
    ASSUME TypeOK, WriterOK, StreamInv, NEW b \in Buffers, pc[b]["pump"] \in Writing,
           ~sealed[b], ~closed[b], Views' = Views, UNCHANGED <<sealed, closed>>,
           nextSeq' = [nextSeq EXCEPT ![b] = nextSeq[b] + 1],
           length' = [length EXCEPT ![b][nextSeq[b] + 1] = pump[b].size]
    PROVE  Stream!Write(b)
<1>1. nextSeq[b] < MaxSeq /\ pump[b].size \in 1 .. ChunkBytes
  BY NumberAssigned DEF StreamInv
<1>2. PICK n \in 1 .. ChunkBytes : n = pump[b].size
  BY <1>1
<1>3. length' = [length EXCEPT ![b][nextSeq[b] + 1] = n]
  BY <1>2
<1>4. QED
  BY <1>1, <1>3, StreamWrites

\* The pump writes to the log, ends it, or does what no reader sees.
LEMMA PumpRefines ==
    ASSUME TypeOK, WriterOK, StreamInv, TypeOK', StreamInv', NEW b \in Buffers,
           PumpStep(b) \/ Environment(b)
    PROVE  UNCHANGED Stream!streamVars \/ Stream!Write(b) \/ Stream!Seal(b)
<1>1. Views' = Views
  <2>1. HandsKept
    BY PumpStream
  <2>2. QED
    BY <2>1, ViewsKept
<1>2. ASSUME UNCHANGED <<length, nextSeq, sealed, closed>>
      PROVE  UNCHANGED Stream!streamVars
  BY <1>1, <1>2, StreamStutters
<1>3. ASSUME pc[b]["pump"] \in Writing, ~sealed[b], ~closed[b], UNCHANGED <<sealed, closed>>,
             nextSeq' = [nextSeq EXCEPT ![b] = nextSeq[b] + 1],
             length' = [length EXCEPT ![b][nextSeq[b] + 1] = pump[b].size]
      PROVE  Stream!Write(b)
  BY <1>1, <1>3, NumberRefines
<1>4. ASSUME Seal(b) PROVE Stream!Seal(b)
  BY <1>1, <1>4 DEF Seal, nodeVars, Stream!Seal, Views
<1>5. ASSUME WriteLocal(b) PROVE UNCHANGED Stream!streamVars \/ Stream!Write(b)
  <2>1. pc[b]["pump"] \in Writing /\ UNCHANGED <<sealed, closed>>
    BY <1>5 DEF WriteLocal, At, Writing
  <2>2. CASE UNCHANGED <<length, nextSeq>>
    BY <1>2, <2>1, <2>2
  <2>3. CASE AcceptingOutput(b) /\ DropIncoming(b)
    BY <1>3, <2>1, <2>3 DEF AcceptingOutput, DropIncoming
  <2>4. QED
    BY <1>5, <2>2, <2>3 DEF WriteLocal, nodeVars
<1>6. ASSUME WriteRefused(b) PROVE UNCHANGED Stream!streamVars \/ Stream!Write(b)
  <2>1. pc[b]["pump"] \in Writing /\ UNCHANGED <<sealed, closed>>
    BY <1>6 DEF WriteRefused, At, Writing
  <2>2. CASE UNCHANGED <<length, nextSeq>>
    BY <1>2, <2>1, <2>2
  <2>3. CASE ~closed[b] /\ ~sealed[b] /\ DropIncoming(b)
    BY <1>3, <2>1, <2>3 DEF DropIncoming
  <2>4. QED
    BY <1>6, <2>2, <2>3 DEF WriteRefused, nodeVars
<1>7. ASSUME AppendChunk(b) PROVE UNCHANGED Stream!streamVars \/ Stream!Write(b)
  <2>1. pc[b]["pump"] \in Writing /\ UNCHANGED <<sealed, closed>>
    BY <1>7 DEF AppendChunk, At, Writing
  <2>2. CASE UNCHANGED <<length, nextSeq>>
    BY <1>2, <2>1, <2>2
  <2>3. CASE /\ ~closed[b] /\ ~sealed[b]
             /\ nextSeq' = [nextSeq EXCEPT ![b] = nextSeq[b] + 1]
             /\ length' = [length EXCEPT ![b][nextSeq[b] + 1] = pump[b].size]
    BY <1>3, <2>1, <2>3
  <2>4. QED
    BY <1>7, <2>2, <2>3 DEF AppendChunk, nodeVars
<1>8. ASSUME ReserveCheck(b) \/ Reserve(b) \/ Evict(b) \/ ReserveRetry(b) \/ SealWake(b)
             \/ PumpClosed(b) \/ Environment(b)
      PROVE  UNCHANGED <<length, nextSeq, sealed, closed>>
  BY <1>8 DEF ReserveCheck, Reserve, Evict, ReserveRetry, SealWake, PumpClosed, PumpEOF,
              PumpRead, AbortStart, FlushStart, FlushCancel, Environment, nodeVars
<1>9. QED
  BY <1>2, <1>4, <1>5, <1>6, <1>7, <1>8 DEF PumpStep

\* Close cuts the stream off, once.
LEMMA CloserRefines ==
    ASSUME TypeOK, StreamInv, TypeOK', StreamInv', NEW b \in Buffers, NEW r \in Closers,
           CloserStep(b, r)
    PROVE  UNCHANGED Stream!streamVars \/ Stream!CutOff(b)
<1>1. CASE Close(b, r)
  <2>1. Views' = Views
    <3>1. HandsKept
      BY <1>1, CloseStream
    <3>2. QED
      BY <3>1, ViewsKept
  <2>2. CASE UNCHANGED <<length, nextSeq, sealed, closed>>
    BY <2>1, <2>2, StreamStutters
  <2>3. CASE closed' = [closed EXCEPT ![b] = TRUE] /\ UNCHANGED <<length, nextSeq, sealed>>
    BY <2>1, <2>3 DEF Views, Stream!CutOff
  <2>4. QED
    BY <1>1, <2>2, <2>3 DEF Close, nodeVars
<1>2. CASE Unregister(b, r) \/ Wait(b, r)
  <2>1. UNCHANGED <<pending, length, nextSeq, cons, closed, sealed>>
    BY <1>2 DEF Unregister, Wait, nodeVars
  <2>2. r \in Roles \ Consumers /\ \E label : Goto(b, r, label)
    BY <1>2 DEF Unregister, Wait, Closers, Roles, Consumers
  <2>3. HandsKept
    BY <2>1, <2>2, GotoOther, QuietStream
  <2>4. QED
    BY <2>1, <2>3, ViewsKept, StreamStutters
<1>3. QED
  BY <1>1, <1>2 DEF CloserStep

\* A new buffer is a new stream: a consumer that is not enabled has left it.
LEMMA InitRefines == Init => Stream!Init
<1> SUFFICES ASSUME Init PROVE Stream!Init
  OBVIOUS
<1>1. TypeOK /\ StreamInv
  BY InitType, InitStream
<1>2. ASSUME NEW b \in Buffers, NEW c \in Consumers
      PROVE  ConsumerView(b, c) \in {Stream!View("idle", 0, {}, 0), Stream!View("ended", 0, {}, 0)}
  <2>1. cons[b][c] = NewConsumer(Enabled(b, c))
    BY Zenon DEF Init
  <2>2. PICK st : st = cons[b][c]
    OBVIOUS
  <2>3. /\ st.first = 0
        /\ st.flyGapSeq = 0
        /\ st.completed = 0
        /\ ~st.failed
    BY <2>1, <2>2 DEF NewConsumer
  <2>4. ConsumerView(b, c) = ViewIn(st, pc[b][c])
    BY <1>1, <2>2, ViewNow
  <2>5. QED
    BY <2>3, <2>4, ViewIdle
<1>3. Views \in [Buffers -> [Consumers -> {Stream!View("idle", 0, {}, 0),
                                           Stream!View("ended", 0, {}, 0)}]]
  BY <1>2 DEF Views
<1>4. /\ length = [b \in Buffers |-> [s \in 1 .. MaxSeq |-> 0]]
      /\ nextSeq = [b \in Buffers |-> 0]
      /\ sealed = [b \in Buffers |-> FALSE]
      /\ closed = [b \in Buffers |-> FALSE]
  BY DEF Init, Seqs
<1>5. QED
  BY <1>3, <1>4 DEF Stream!Init, Views

\* Every step of the buffer is a step of the stream or changes nothing in it.
LEMMA StepRefines ==
    TypeOK /\ WriterOK /\ StreamInv /\ TypeOK' /\ StreamInv' /\ [Next]_vars
        => [Stream!Next]_(Stream!streamVars)
<1> SUFFICES ASSUME TypeOK, WriterOK, StreamInv, TypeOK', StreamInv', [Next]_vars
             PROVE  Stream!Next \/ UNCHANGED Stream!streamVars
  BY DEF Stream!streamVars
<1>1. ASSUME NEW b \in Buffers, PumpStep(b) \/ Environment(b)
      PROVE  Stream!Next \/ UNCHANGED Stream!streamVars
  <2>1. UNCHANGED Stream!streamVars \/ Stream!Write(b) \/ Stream!Seal(b)
    BY <1>1, PumpRefines
  <2>2. QED
    BY <2>1, Zenon DEF Stream!Next
<1>2. ASSUME NEW b \in Buffers, NEW r \in Closers, CloserStep(b, r)
      PROVE  Stream!Next \/ UNCHANGED Stream!streamVars
  <2>1. UNCHANGED Stream!streamVars \/ Stream!CutOff(b)
    BY <1>2, CloserRefines
  <2>2. QED
    BY <2>1, Zenon DEF Stream!Next
<1>3. ASSUME NEW b \in Buffers, NEW c \in Consumers, ConsumerStep(b, c)
      PROVE  Stream!Next \/ UNCHANGED Stream!streamVars
  <2>1. \/ UNCHANGED Stream!streamVars
        \/ Stream!Hand(b, c) \/ Stream!Account(b, c) \/ Stream!Fail(b, c) \/ Stream!Leave(b, c)
    BY <1>3, RunRefines, NextBatchRefines, CompleteBatchRefines, CompleteGapRefines,
       FailureRefines DEF ConsumerStep
  <2>2. QED
    BY <2>1, Zenon DEF Stream!Next
<1>4. ASSUME NEW b \in Buffers, FlushWoken(b) PROVE UNCHANGED Stream!streamVars
  <2>1. /\ UNCHANGED <<pending, length, nextSeq, cons, closed, sealed>>
        /\ \E label : Goto(b, "flush", label)
    BY <1>4 DEF FlushWoken, FlushPass, nodeVars
  <2>2. "flush" \in Roles \ Consumers
    BY DEF Roles, Consumers
  <2>3. HandsKept
    BY <2>1, <2>2, GotoOther, QuietStream
  <2>4. QED
    BY <2>1, <2>3, ViewsKept, StreamStutters
<1>5. ASSUME UNCHANGED vars \/ BudgetClose PROVE UNCHANGED Stream!streamVars
  <2>1. UNCHANGED <<pending, length, nextSeq, cons, closed, sealed, pc>>
    BY <1>5 DEF vars, BudgetClose, nodeVars
  <2>2. HandsKept
    BY <2>1, QuietStream
  <2>3. QED
    BY <2>1, <2>2, ViewsKept, StreamStutters
<1>6. QED
  BY <1>1, <1>2, <1>3, <1>4, <1>5, ReleaseRefines DEF Next

\* The buffer implements OutputStream: whatever it drops, evicts or closes, each
\* consumer reads the log of its terminal once, from the start, in contiguous runs
\* that are payload or a gap naming exactly the bytes it stands for, and one that is
\* neither failed nor cut off ends only when it has accounted for every chunk.
THEOREM StreamImplemented == Spec => ImplementsStream
<1>1. Init => Stream!Init
  BY InitRefines
<1>2. TypeOK /\ WriterOK /\ StreamInv /\ TypeOK' /\ WriterOK' /\ StreamInv' /\ [Next]_vars
        => [Stream!Next]_(Stream!streamVars)
  BY StepRefines
<1>3. Spec => [](TypeOK /\ WriterOK /\ StreamInv)
  BY StreamInvariant
<1>4. QED
  BY <1>1, <1>2, <1>3, PTL DEF Spec, ImplementsStream, Stream!Spec

=============================================================================
