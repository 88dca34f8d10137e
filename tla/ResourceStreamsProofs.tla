----------------------- MODULE ResourceStreamsProofs -------------------------
(***************************************************************************)
(* Theorems about a resource channel.  The window of a download holds for  *)
(* any number of acknowledgements in transit, and the places and losses of *)
(* a client stream are counted exactly, for every length of its queue.     *)
(***************************************************************************)
EXTENDS ResourceStreams, SequenceTheorems, FunctionTheorems, FiniteSetTheorems, TLAPS

-----------------------------------------------------------------------------
(* Types.                                                                  *)

\* What the daemon sends, and what the client makes itself.
WireFrames == [type: {"data", "finish", "error", "ready", "output", "synclost", "closed"},
               n: Nat]
Frames == [type: {"data", "finish", "error", "ready", "output", "synclost", "closed",
                  "none", "exhausted", "overrun"},
           n: Nat]
Messages == [type: {"ack", "cancel", "start", "stop"}, offset: Nat, credit: Nat]
Downloads == [pc: {"run", "release", "done"}, registered: BOOLEAN, offset: Nat,
              credit: Nat, acks: Seq(Messages)]
Streams == [open: BOOLEAN, queue: Seq(Frames), hand: Frames, given: BOOLEAN,
            retained: Int, closed: BOOLEAN, overflow: BOOLEAN, lostSent: BOOLEAN,
            lost: Nat, terminal: BOOLEAN, over: BOOLEAN, offered: Nat, taken: Nat]
Users == [pc: {"bind", "bound", "await", "receive", "close", "stop", "idle", "over"},
          opens: Nat, offset: Nat, acked: Nat,
          failed: {"no", "order", "refused", "complete"}]

StreamTypes ==
    /\ download \in Downloads
    /\ toDaemon \in Seq(Messages)
    /\ toClient \in Seq(WireFrames)
    /\ early \in Seq(WireFrames)
    /\ opener \in Seq(WireFrames)
    /\ stream \in [Openings -> Streams]
    /\ user \in Users

-----------------------------------------------------------------------------
(* Counting the frames of a queue.                                         *)

\* The places of a queue that hold a frame of a kind.
Places(T, q) == {i \in DOMAIN q : q[i] \in T}

\* They are finitely many.
LEMMA PlacesFinite ==
    ASSUME NEW S, NEW T, NEW q \in Seq(S)
    PROVE  IsFiniteSet(Places(T, q)) /\ Cardinality(Places(T, q)) \in Nat
<1>1. Len(q) \in Nat /\ DOMAIN q = 1..Len(q)
  BY LenProperties
<1>2. IsFiniteSet(1..Len(q))
  BY <1>1, FS_Interval
<1>3. Places(T, q) \in SUBSET (1..Len(q))
  BY <1>1 DEF Places
<1>. QED
  BY <1>2, <1>3, FS_Subset, FS_CardinalityType

\* An empty queue has none.
LEMMA NoPlaces ==
    ASSUME NEW T
    PROVE  Cardinality(Places(T, << >>)) = 0
<1>1. Places(T, << >>) = {}
  BY DEF Places
<1>. QED
  BY <1>1, FS_EmptySet

\* A frame that is appended adds its own place.
LEMMA PlacesAppend ==
    ASSUME NEW S, NEW T, NEW q \in Seq(S), NEW e \in S
    PROVE  Cardinality(Places(T, Append(q, e))) =
             Cardinality(Places(T, q)) + (IF e \in T THEN 1 ELSE 0)
<1>1. Len(q) \in Nat /\ DOMAIN q = 1..Len(q)
  BY LenProperties
<1>2. /\ Append(q, e) \in Seq(S) /\ Len(Append(q, e)) = Len(q) + 1
      /\ \A i \in 1..Len(q) : Append(q, e)[i] = q[i]
      /\ Append(q, e)[Len(q) + 1] = e
  BY AppendProperties
<1>3. DOMAIN Append(q, e) = 1..(Len(q) + 1)
  BY <1>2, LenProperties
<1>4. CASE e \in T
  <2>1. Places(T, Append(q, e)) = Places(T, q) \cup {Len(q) + 1}
    BY <1>1, <1>2, <1>3, <1>4 DEF Places
  <2>2. Len(q) + 1 \notin Places(T, q)
    BY <1>1 DEF Places
  <2>. QED
    BY <1>4, <2>1, <2>2, PlacesFinite, FS_AddElement
<1>5. CASE e \notin T
  <2>1. Places(T, Append(q, e)) = Places(T, q)
    BY <1>1, <1>2, <1>3, <1>5 DEF Places
  <2>2. Cardinality(Places(T, q)) \in Nat
    BY PlacesFinite
  <2>. QED
    BY <1>5, <2>1, <2>2
<1>. QED
  BY <1>4, <1>5

\* The frame that is taken from the front gives its own place back.
LEMMA PlacesTail ==
    ASSUME NEW S, NEW T, NEW q \in Seq(S), q # << >>
    PROVE  Cardinality(Places(T, q)) =
             Cardinality(Places(T, Tail(q))) + (IF Head(q) \in T THEN 1 ELSE 0)
<1>1. /\ Len(q) \in Nat /\ DOMAIN q = 1..Len(q)
      /\ Tail(q) \in Seq(S) /\ Len(Tail(q)) = Len(q) - 1
      /\ \A i \in 1..Len(Tail(q)) : Tail(q)[i] = q[i + 1]
      /\ Head(q) = q[1] /\ Len(q) # 0
  BY LenProperties, HeadTailProperties, EmptySeq
<1>2. DOMAIN Tail(q) = 1..(Len(q) - 1)
  BY <1>1, LenProperties
<1>. DEFINE P == Places(T, q)
            R == Places(T, Tail(q))
            f == [i \in R |-> i + 1]
<1>3. f \in Bijection(R, P \ {1})
  <2>1. R \subseteq 1..(Len(q) - 1) /\ P \subseteq 1..Len(q)
    BY <1>1, <1>2 DEF Places
  <2>2. \A i \in R : i + 1 \in P \ {1}
    BY <1>1, <1>2 DEF Places
  <2>3. \A k \in P \ {1} : k - 1 \in R /\ (k - 1) + 1 = k
    <3>. SUFFICES ASSUME NEW k \in P \ {1} PROVE k - 1 \in R /\ (k - 1) + 1 = k
      OBVIOUS
    <3>1. k \in 2..Len(q) /\ q[k] \in T
      BY <1>1 DEF Places
    <3>2. k - 1 \in 1..(Len(q) - 1) /\ (k - 1) + 1 = k
      BY <1>1, <3>1
    <3>3. Tail(q)[k - 1] = q[k]
      BY <1>1, <3>2
    <3>. QED
      BY <1>2, <3>1, <3>2, <3>3 DEF Places
  <2>4. f \in [R -> P \ {1}]
    BY <2>2
  <2>5. \A a, b \in R : f[a] = f[b] => a = b
    BY <2>1
  <2>6. \A k \in P \ {1} : \E i \in R : f[i] = k
    BY <2>3
  <2>. HIDE DEF f, P, R
  <2>. QED
    BY <2>4, <2>5, <2>6, Fun_IsBij
<1>4. IsFiniteSet(R) /\ IsFiniteSet(P) /\ Cardinality(R) \in Nat /\ Cardinality(P) \in Nat
  BY <1>1, PlacesFinite
<1>5. ExistsBijection(R, P \ {1})
  BY <1>3 DEF ExistsBijection
<1>. HIDE DEF f
<1>6. Cardinality(P \ {1}) = Cardinality(R)
  BY <1>4, <1>5, FS_Bijection
<1>7. Cardinality(P \ {1}) = IF 1 \in P THEN Cardinality(P) - 1 ELSE Cardinality(P)
  BY <1>4, FS_RemoveElement
<1>8. 1 \in P <=> Head(q) \in T
  BY <1>1 DEF Places
<1>. HIDE DEF P, R
<1>9. Cardinality(P) = Cardinality(R) + (IF Head(q) \in T THEN 1 ELSE 0)
  BY <1>4, <1>6, <1>7, <1>8
<1>. QED
  BY <1>9 DEF P, R

\* The count of the module, in these terms.
Counting == {f \in Frames : Counts(f)}
Outputs == {f \in Frames : IsOutput(f)}

LEMMA CountPlaces ==
    ASSUME NEW q \in Seq(Frames)
    PROVE  /\ Count(Counts, q) = Cardinality(Places(Counting, q))
           /\ Count(IsOutput, q) = Cardinality(Places(Outputs, q))
<1>1. \A i \in DOMAIN q : q[i] \in Frames
  BY LenProperties
<1>2. {i \in DOMAIN q : Counts(q[i])} = Places(Counting, q)
  BY <1>1 DEF Places, Counting
<1>3. {i \in DOMAIN q : IsOutput(q[i])} = Places(Outputs, q)
  BY <1>1 DEF Places, Outputs
<1>. QED
  BY <1>2, <1>3 DEF Count

\* The counts of a queue are numbers, and zero when it is empty.
LEMMA CountTypes ==
    /\ \A q \in Seq(Frames) : Count(Counts, q) \in Nat /\ Count(IsOutput, q) \in Nat
    /\ << >> \in Seq(Frames)
    /\ Count(Counts, << >>) = 0 /\ Count(IsOutput, << >>) = 0
<1>1. << >> \in Seq(Frames)
  BY EmptySeq
<1>2. \A q \in Seq(Frames) : Count(Counts, q) \in Nat /\ Count(IsOutput, q) \in Nat
  BY CountPlaces, PlacesFinite
<1>. QED
  BY <1>1, <1>2, CountPlaces, NoPlaces

\* A frame joins the queue.
LEMMA CountAppend ==
    ASSUME NEW q \in Seq(Frames), NEW e \in Frames
    PROVE  /\ Append(q, e) \in Seq(Frames)
           /\ Count(Counts, Append(q, e)) =
                Count(Counts, q) + (IF Counts(e) THEN 1 ELSE 0)
           /\ Count(IsOutput, Append(q, e)) =
                Count(IsOutput, q) + (IF IsOutput(e) THEN 1 ELSE 0)
<1>1. Append(q, e) \in Seq(Frames)
  BY AppendProperties
<1>2. (e \in Counting <=> Counts(e)) /\ (e \in Outputs <=> IsOutput(e))
  BY DEF Counting, Outputs
<1>3. /\ Cardinality(Places(Counting, Append(q, e))) =
           Cardinality(Places(Counting, q)) + (IF e \in Counting THEN 1 ELSE 0)
      /\ Cardinality(Places(Outputs, Append(q, e))) =
           Cardinality(Places(Outputs, q)) + (IF e \in Outputs THEN 1 ELSE 0)
  BY PlacesAppend
<1>. QED
  BY <1>1, <1>2, <1>3, CountPlaces

\* A frame leaves the queue.
LEMMA CountTail ==
    ASSUME NEW q \in Seq(Frames), q # << >>
    PROVE  /\ Tail(q) \in Seq(Frames) /\ Head(q) \in Frames
           /\ Count(Counts, q) =
                Count(Counts, Tail(q)) + (IF Counts(Head(q)) THEN 1 ELSE 0)
           /\ Count(IsOutput, q) =
                Count(IsOutput, Tail(q)) + (IF IsOutput(Head(q)) THEN 1 ELSE 0)
<1>1. Tail(q) \in Seq(Frames) /\ Head(q) \in Frames
  BY HeadTailProperties
<1>2. /\ (Head(q) \in Counting <=> Counts(Head(q)))
      /\ (Head(q) \in Outputs <=> IsOutput(Head(q)))
  BY <1>1 DEF Counting, Outputs
<1>3. /\ Cardinality(Places(Counting, q)) =
           Cardinality(Places(Counting, Tail(q))) + (IF Head(q) \in Counting THEN 1 ELSE 0)
      /\ Cardinality(Places(Outputs, q)) =
           Cardinality(Places(Outputs, Tail(q))) + (IF Head(q) \in Outputs THEN 1 ELSE 0)
  BY PlacesTail
<1>. QED
  BY <1>1, <1>2, <1>3, CountPlaces

-----------------------------------------------------------------------------
(* One stream of the client.                                               *)

\* The frame in hand, as a place and as output that nobody has taken yet.
InHand(s) == IF Counts(s.hand) THEN 1 ELSE 0
Untaken(s) == IF IsOutput(s.hand) /\ ~s.given THEN 1 ELSE 0

RetainedKept(s) == s.retained = Count(Counts, s.queue) + InHand(s)
LostKept(s) ==
    ~s.closed /\ ~s.terminal =>
        s.offered = s.taken + s.lost + Count(IsOutput, s.queue) + Untaken(s)

\* A closed stream has no queue; a frame is given only while it is in hand.
Tidy(s) == (s.closed => s.queue = << >>) /\ (s.hand = NoFrame => ~s.given)

StreamKept(s) == s \in Streams /\ RetainedKept(s) /\ LostKept(s) /\ Tidy(s)

\* The frames of the wire are frames, and take places.
LEMMA WireFrame ==
    ASSUME NEW frame \in WireFrames
    PROVE  frame \in Frames /\ Counts(frame)
BY DEF WireFrames, Frames, Counts

\* The numbers of a stream.
LEMMA StreamNumbers ==
    ASSUME NEW s, StreamKept(s)
    PROVE  /\ s.queue \in Seq(Frames) /\ s.hand \in Frames
           /\ s.retained \in Int /\ s.lost \in Nat /\ s.offered \in Nat /\ s.taken \in Nat
           /\ Count(Counts, s.queue) \in Nat /\ Count(IsOutput, s.queue) \in Nat
           /\ InHand(s) \in 0..1 /\ Untaken(s) \in 0..1
           /\ s.retained = Count(Counts, s.queue) + InHand(s)
<1>1. /\ s.queue \in Seq(Frames) /\ s.hand \in Frames
      /\ s.retained \in Int /\ s.lost \in Nat /\ s.offered \in Nat /\ s.taken \in Nat
  BY DEF StreamKept, Streams
<1>2. InHand(s) \in 0..1 /\ Untaken(s) \in 0..1
  BY DEF InHand, Untaken
<1>. QED
  BY <1>1, <1>2, CountTypes DEF StreamKept, RetainedKept

\* resetQueueLocked gives back the places of the frames it discards.
LEMMA ResetKept ==
    ASSUME NEW s, StreamKept(s)
    PROVE  ResetQueue(s) = [s EXCEPT !.retained = InHand(s), !.queue = << >>]
<1>1. s.retained - Count(Counts, s.queue) = InHand(s)
  BY StreamNumbers
<1>. QED
  BY <1>1 DEF ResetQueue

\* clientStream.send counts each frame once: as queued, as lost, or as the end of
\* the stream.
LEMMA SentKept ==
    ASSUME NEW s, StreamKept(s), NEW frame \in WireFrames
    PROVE  StreamKept(Sent(s, frame))
<1>0. s \in Streams /\ frame \in Frames /\ Counts(frame)
  BY WireFrame DEF StreamKept
<1>n. /\ s.queue \in Seq(Frames) /\ s.retained \in Int /\ s.lost \in Nat
      /\ s.offered \in Nat /\ s.taken \in Nat
      /\ Count(Counts, s.queue) \in Nat /\ Count(IsOutput, s.queue) \in Nat
      /\ InHand(s) \in Int /\ Untaken(s) \in Int
      /\ s.retained = Count(Counts, s.queue) + InHand(s)
  BY StreamNumbers
<1>. DEFINE t == Sent(s, frame)
            new == IF IsOutput(frame) THEN 1 ELSE 0
<1>m. /\ new \in Nat
      /\ (IF IsOutput(frame) THEN s.offered + 1 ELSE s.offered) = s.offered + new
      /\ (IF IsOutput(frame) THEN s.lost + 1 ELSE s.lost) = s.lost + new
  BY <1>n
<1>1. CASE s.closed \/ s.lostSent \/ s.terminal
  BY <1>1 DEF Sent
<1>2. CASE ~(s.closed \/ s.lostSent \/ s.terminal) /\ s.overflow
  <2>1. t = [s EXCEPT !.offered = s.offered + new, !.lost = s.lost + new]
    <3>1. t = [[s EXCEPT !.offered = IF IsOutput(frame) THEN @ + 1 ELSE @]
                 EXCEPT !.lost = IF IsOutput(frame) THEN @ + 1 ELSE @]
      BY <1>2 DEF Sent
    <3>. HIDE DEF t, new
    <3>. QED
      BY <1>0, <1>m, <3>1 DEF Streams
  <2>2. s.offered + new \in Nat /\ s.lost + new \in Nat
    BY <1>m, <1>n
  <2>. HIDE DEF t, new
  <2>3. /\ t \in Streams /\ t.offered = s.offered + new /\ t.lost = s.lost + new
        /\ t.queue = s.queue /\ t.hand = s.hand /\ t.given = s.given
        /\ t.retained = s.retained /\ t.closed = s.closed /\ t.terminal = s.terminal
        /\ t.taken = s.taken
    BY <1>0, <2>1, <2>2 DEF Streams
  <2>4. InHand(t) = InHand(s) /\ Untaken(t) = Untaken(s)
    BY <2>3 DEF InHand, Untaken
  <2>5. RetainedKept(t) /\ Tidy(t)
    BY <2>3, <2>4 DEF StreamKept, RetainedKept, Tidy
  <2>6. LostKept(t)
    <3>1. s.offered = s.taken + s.lost + Count(IsOutput, s.queue) + Untaken(s)
      BY <1>2 DEF StreamKept, LostKept
    <3>. QED
      BY SMTT(30), <1>m, <1>n, <2>3, <2>4, <3>1 DEF LostKept
  <2>. QED
    BY <2>3, <2>5, <2>6 DEF StreamKept, t
<1>3. CASE ~(s.closed \/ s.lostSent \/ s.terminal) /\ ~s.overflow
           /\ s.retained >= StreamQueue /\ IsOutput(frame)
  <2>1. t = [s EXCEPT !.offered = s.offered + 1, !.overflow = TRUE, !.lost = s.lost + 1]
    BY <1>0, <1>3 DEF Sent, Overflow, Streams
  <2>2. s.offered + 1 \in Nat /\ s.lost + 1 \in Nat
    BY StreamNumbers
  <2>. HIDE DEF t, new
  <2>3. /\ t \in Streams /\ t.offered = s.offered + 1 /\ t.lost = s.lost + 1
        /\ t.queue = s.queue /\ t.hand = s.hand /\ t.given = s.given
        /\ t.retained = s.retained /\ t.closed = s.closed /\ t.terminal = s.terminal
        /\ t.taken = s.taken
    BY <1>0, <2>1, <2>2 DEF Streams
  <2>4. InHand(t) = InHand(s) /\ Untaken(t) = Untaken(s)
    BY <2>3 DEF InHand, Untaken
  <2>5. RetainedKept(t) /\ Tidy(t)
    BY <2>3, <2>4 DEF StreamKept, RetainedKept, Tidy
  <2>6. LostKept(t)
    <3>1. s.offered = s.taken + s.lost + Count(IsOutput, s.queue) + Untaken(s)
      BY <1>3 DEF StreamKept, LostKept
    <3>. QED
      BY SMTT(30), <1>n, <2>3, <2>4, <3>1 DEF LostKept
  <2>. QED
    BY <2>3, <2>5, <2>6 DEF StreamKept, t
<1>4. CASE ~(s.closed \/ s.lostSent \/ s.terminal) /\ ~s.overflow
           /\ s.retained >= StreamQueue /\ ~IsOutput(frame)
  <2>1. t = [s EXCEPT !.retained = InHand(s), !.queue = <<Frame("exhausted", 0)>>,
                      !.terminal = TRUE]
    <3>1. Sent(s, frame) = Overflow(s, frame)
      BY <1>0, <1>4 DEF Sent, Streams
    <3>2. Overflow(s, frame) = [ResetQueue(s) EXCEPT !.queue = <<Frame("exhausted", 0)>>,
                                                     !.terminal = TRUE]
      BY <1>4 DEF Overflow
    <3>. QED
      BY <1>0, <3>1, <3>2, ResetKept DEF Streams
  <2>2. Frame("exhausted", 0) \in Frames /\ ~Counts(Frame("exhausted", 0))
    BY DEF Frame, Frames, Counts
  <2>3. <<Frame("exhausted", 0)>> \in Seq(Frames) /\ Count(Counts, <<Frame("exhausted", 0)>>) = 0
    <3>1. <<Frame("exhausted", 0)>> = Append(<< >>, Frame("exhausted", 0))
      OBVIOUS
    <3>2. << >> \in Seq(Frames) /\ Count(Counts, << >>) = 0
      BY CountTypes
    <3>3. /\ Append(<< >>, Frame("exhausted", 0)) \in Seq(Frames)
          /\ Count(Counts, Append(<< >>, Frame("exhausted", 0))) = Count(Counts, << >>) + 0
      BY <2>2, <3>2, CountAppend
    <3>. QED
      BY <3>1, <3>2, <3>3
  <2>4. InHand(s) \in Int
    BY StreamNumbers
  <2>. HIDE DEF t, new
  <2>5. /\ t \in Streams /\ t.queue = <<Frame("exhausted", 0)>> /\ t.hand = s.hand
        /\ t.given = s.given /\ t.retained = InHand(s) /\ t.closed = s.closed /\ t.terminal
    BY <1>0, <2>1, <2>3, <2>4 DEF Streams
  <2>6. RetainedKept(t)
    BY <2>3, <2>4, <2>5 DEF RetainedKept, InHand
  <2>7. Tidy(t) /\ LostKept(t)
    BY <1>4, <2>5 DEF StreamKept, Tidy, LostKept
  <2>. QED
    BY <2>5, <2>6, <2>7 DEF StreamKept, t
<1>5. CASE ~(s.closed \/ s.lostSent \/ s.terminal) /\ ~s.overflow
           /\ ~(s.retained >= StreamQueue)
  <2>1. t = [s EXCEPT !.offered = s.offered + new, !.queue = Append(s.queue, frame),
                      !.retained = s.retained + 1]
    <3>1. t = [[s EXCEPT !.offered = IF IsOutput(frame) THEN @ + 1 ELSE @]
                 EXCEPT !.queue = Append(@, frame), !.retained = @ + 1]
      BY <1>5 DEF Sent
    <3>. HIDE DEF t, new
    <3>. QED
      BY <1>0, <1>m, <3>1 DEF Streams
  <2>2. /\ s.offered + new \in Nat /\ s.retained + 1 \in Int
        /\ Append(s.queue, frame) \in Seq(Frames)
        /\ Count(Counts, Append(s.queue, frame)) = Count(Counts, s.queue) + 1
        /\ Count(IsOutput, Append(s.queue, frame)) = Count(IsOutput, s.queue) + new
    <3>1. /\ Append(s.queue, frame) \in Seq(Frames)
          /\ Count(Counts, Append(s.queue, frame)) =
               Count(Counts, s.queue) + (IF Counts(frame) THEN 1 ELSE 0)
          /\ Count(IsOutput, Append(s.queue, frame)) =
               Count(IsOutput, s.queue) + (IF IsOutput(frame) THEN 1 ELSE 0)
      BY <1>0, <1>n, CountAppend
    <3>2. s.offered + new \in Nat /\ s.retained + 1 \in Int
      BY <1>m, <1>n
    <3>. QED
      BY <1>0, <3>1, <3>2
  <2>. HIDE DEF t, new
  <2>3. /\ t \in Streams /\ t.offered = s.offered + new /\ t.lost = s.lost
        /\ t.queue = Append(s.queue, frame) /\ t.hand = s.hand /\ t.given = s.given
        /\ t.retained = s.retained + 1 /\ t.closed = s.closed /\ t.terminal = s.terminal
        /\ t.taken = s.taken
    BY <1>0, <2>1, <2>2 DEF Streams
  <2>4. InHand(t) = InHand(s) /\ Untaken(t) = Untaken(s)
    BY <2>3 DEF InHand, Untaken
  <2>5. RetainedKept(t)
    BY <1>n, <2>2, <2>3, <2>4 DEF RetainedKept
  <2>6. Tidy(t)
    BY <1>5, <2>3 DEF StreamKept, Tidy
  <2>7. LostKept(t)
    <3>1. s.offered = s.taken + s.lost + Count(IsOutput, s.queue) + Untaken(s)
      BY <1>5 DEF StreamKept, LostKept
    <3>2. Count(IsOutput, t.queue) = Count(IsOutput, s.queue) + new
      BY <2>2, <2>3
    <3>3. \A a, b, c, d, e, f \in Int :
            a = b + c + d + e => a + f = b + c + (d + f) + e
      OBVIOUS
    <3>4. /\ s.offered \in Int /\ s.taken \in Int /\ s.lost \in Int /\ new \in Int
          /\ Count(IsOutput, s.queue) \in Int /\ Untaken(s) \in Int
      BY <1>m, <1>n
    <3>5. s.offered + new = s.taken + s.lost + (Count(IsOutput, s.queue) + new) + Untaken(s)
      BY <3>1, <3>3, <3>4
    <3>. QED
      BY <2>3, <2>4, <3>2, <3>5 DEF LostKept
  <2>. QED
    BY <2>3, <2>5, <2>6, <2>7 DEF StreamKept, t
<1>. QED
  BY <1>1, <1>2, <1>3, <1>4, <1>5

\* A stream that is registered has changed nothing else.
LEMMA OpenKept ==
    ASSUME NEW s, StreamKept(s)
    PROVE  StreamKept([s EXCEPT !.open = TRUE])
<1>. DEFINE t == [s EXCEPT !.open = TRUE]
<1>1. s \in Streams
  BY DEF StreamKept
<1>2. /\ t \in Streams /\ t.queue = s.queue /\ t.hand = s.hand /\ t.given = s.given
      /\ t.retained = s.retained /\ t.closed = s.closed /\ t.terminal = s.terminal
      /\ t.taken = s.taken /\ t.offered = s.offered /\ t.lost = s.lost
  BY <1>1 DEF Streams
<1>. HIDE DEF t
<1>3. InHand(t) = InHand(s) /\ Untaken(t) = Untaken(s)
  BY <1>2 DEF InHand, Untaken
<1>4. StreamKept(t)
  BY <1>2, <1>3 DEF StreamKept, RetainedKept, LostKept, Tidy
<1>. QED
  BY <1>4 DEF t

\* clientStream.close discards the queue and keeps the place of the frame in hand.
LEMMA ShutKept ==
    ASSUME NEW s, StreamKept(s)
    PROVE  StreamKept(ShutStream(s))
<1>. DEFINE t == ShutStream(s)
<1>1. s \in Streams /\ InHand(s) \in Int /\ << >> \in Seq(Frames)
  BY StreamNumbers, CountTypes DEF StreamKept
<1>2. t = [[s EXCEPT !.retained = InHand(s), !.queue = << >>]
             EXCEPT !.closed = TRUE, !.offered = 0, !.taken = 0, !.lost = 0]
  BY ResetKept DEF ShutStream
<1>. HIDE DEF t
<1>3. /\ t \in Streams /\ t.queue = << >> /\ t.hand = s.hand /\ t.given = s.given
      /\ t.retained = InHand(s) /\ t.closed
  BY <1>1, <1>2 DEF Streams
<1>4. RetainedKept(t)
  <2>1. InHand(t) = InHand(s)
    BY <1>3 DEF InHand
  <2>2. Count(Counts, t.queue) = 0
    BY <1>3, CountTypes
  <2>. QED
    BY <1>1, <1>3, <2>1, <2>2 DEF RetainedKept
<1>5. LostKept(t) /\ Tidy(t)
  BY <1>3 DEF StreamKept, LostKept, Tidy
<1>. QED
  BY <1>3, <1>4, <1>5 DEF StreamKept, t

\* A stream whose goroutine returns has nothing queued and nothing in hand, so all
\* its places are free.
LEMMA EndedKept ==
    ASSUME NEW s, s.retained = 0
    PROVE  StreamKept(Ended(s))
<1>. DEFINE t == Ended(s)
<1>1. NoFrame \in Frames /\ ~Counts(NoFrame)
  BY DEF NoFrame, Frame, Frames, Counts
<1>2. /\ t.queue = << >> /\ t.hand = NoFrame /\ t.given = FALSE /\ t.retained = 0
      /\ t.closed = TRUE
  BY DEF Ended, NoStream
<1>3. t \in Streams
  <2>1. << >> \in Seq(Frames) /\ 0 \in Nat /\ 0 \in Int
    BY CountTypes
  <2>2. NoStream \in Streams
    BY <1>1, <2>1 DEF NoStream, Streams
  <2>3. t = [NoStream EXCEPT !.open = TRUE, !.closed = TRUE, !.over = TRUE, !.retained = 0]
    BY DEF Ended
  <2>. HIDE DEF t
  <2>. QED
    BY <2>1, <2>2, <2>3 DEF Streams
<1>. HIDE DEF t
<1>4. RetainedKept(t) /\ LostKept(t) /\ Tidy(t)
  BY <1>1, <1>2, CountTypes DEF RetainedKept, LostKept, Tidy, InHand
<1>. QED
  BY <1>3, <1>4 DEF StreamKept, t

\* nextFrame takes the frame at the front.
LEMMA NextKept ==
    ASSUME NEW s, StreamKept(s), s.hand = NoFrame, s.queue # << >>
    PROVE  StreamKept([s EXCEPT !.hand = Head(s.queue), !.queue = Tail(s.queue)])
<1>. DEFINE t == [s EXCEPT !.hand = Head(s.queue), !.queue = Tail(s.queue)]
<1>1. /\ s \in Streams /\ s.queue \in Seq(Frames)
      /\ s.retained \in Int /\ s.lost \in Int /\ s.offered \in Int /\ s.taken \in Int
      /\ s.retained = Count(Counts, s.queue) + InHand(s)
  BY StreamNumbers DEF StreamKept
<1>2. /\ Tail(s.queue) \in Seq(Frames) /\ Head(s.queue) \in Frames
      /\ Count(Counts, s.queue) =
           Count(Counts, Tail(s.queue)) + (IF Counts(Head(s.queue)) THEN 1 ELSE 0)
      /\ Count(IsOutput, s.queue) =
           Count(IsOutput, Tail(s.queue)) + (IF IsOutput(Head(s.queue)) THEN 1 ELSE 0)
  BY <1>1, CountTail
<1>3. Count(Counts, Tail(s.queue)) \in Nat /\ Count(IsOutput, Tail(s.queue)) \in Nat
  BY <1>2, CountTypes, Zenon
<1>4. ~s.given /\ InHand(s) = 0 /\ Untaken(s) = 0
  BY DEF StreamKept, Tidy, InHand, Untaken, NoFrame, Frame, Counts, IsOutput
<1>5. /\ t \in Streams /\ t.queue = Tail(s.queue) /\ t.hand = Head(s.queue)
      /\ t.given = s.given /\ t.retained = s.retained /\ t.closed = s.closed
      /\ t.terminal = s.terminal /\ t.taken = s.taken /\ t.offered = s.offered
      /\ t.lost = s.lost
  BY <1>1, <1>2 DEF Streams
<1>. HIDE DEF t
<1>6. /\ InHand(t) = (IF Counts(Head(s.queue)) THEN 1 ELSE 0)
      /\ Untaken(t) = (IF IsOutput(Head(s.queue)) THEN 1 ELSE 0)
  BY <1>4, <1>5 DEF InHand, Untaken
<1>7. RetainedKept(t)
  <2>1. Count(Counts, s.queue) = Count(Counts, Tail(s.queue)) + InHand(t)
        /\ InHand(t) \in Int
    BY <1>2, <1>6
  <2>. QED
    BY <1>1, <1>3, <1>4, <1>5, <2>1 DEF RetainedKept
<1>8. LostKept(t)
  <2>. SUFFICES ASSUME ~t.closed, ~t.terminal
                PROVE  t.offered = t.taken + t.lost + Count(IsOutput, t.queue) + Untaken(t)
    BY DEF LostKept
  <2>1. s.offered = s.taken + s.lost + Count(IsOutput, s.queue) + Untaken(s)
    BY <1>5 DEF StreamKept, LostKept
  <2>2. Count(IsOutput, s.queue) = Count(IsOutput, Tail(s.queue)) + Untaken(t)
        /\ Untaken(t) \in Int
    BY <1>2, <1>6
  <2>. QED
    BY <1>1, <1>3, <1>4, <1>5, <2>1, <2>2
<1>9. Tidy(t)
  BY <1>4, <1>5 DEF StreamKept, Tidy
<1>. QED
  BY <1>5, <1>7, <1>8, <1>9 DEF StreamKept, t

\* nextFrame reports the loss: the frame holds no place.
LEMMA OverrunKept ==
    ASSUME NEW s, StreamKept(s), s.hand = NoFrame
    PROVE  StreamKept([s EXCEPT !.lostSent = TRUE, !.hand = Frame("overrun", s.lost)])
<1>. DEFINE t == [s EXCEPT !.lostSent = TRUE, !.hand = Frame("overrun", s.lost)]
<1>1. s \in Streams /\ s.lost \in Nat
  BY StreamNumbers DEF StreamKept
<1>2. Frame("overrun", s.lost) \in Frames
  BY <1>1 DEF Frame, Frames
<1>3. /\ t \in Streams /\ t.queue = s.queue /\ t.hand = Frame("overrun", s.lost)
      /\ t.given = s.given /\ t.retained = s.retained /\ t.closed = s.closed
      /\ t.terminal = s.terminal /\ t.taken = s.taken /\ t.offered = s.offered
      /\ t.lost = s.lost
  BY <1>1, <1>2 DEF Streams
<1>. HIDE DEF t
<1>4. /\ InHand(s) = 0 /\ Untaken(s) = 0 /\ InHand(t) = 0 /\ Untaken(t) = 0
      /\ ~s.given
  BY <1>3 DEF StreamKept, Tidy, InHand, Untaken, NoFrame, Frame, Counts, IsOutput
<1>5. RetainedKept(t) /\ LostKept(t) /\ Tidy(t)
  BY <1>3, <1>4 DEF StreamKept, RetainedKept, LostKept, Tidy
<1>. QED
  BY <1>3, <1>5 DEF StreamKept, t

\* The user takes the frame in hand.
LEMMA TakenKept ==
    ASSUME NEW s, StreamKept(s), s.hand # NoFrame, ~s.given
    PROVE  StreamKept([s EXCEPT !.given = TRUE,
                                !.taken = IF IsOutput(s.hand) THEN @ + 1 ELSE @])
<1>. DEFINE t == [s EXCEPT !.given = TRUE,
                           !.taken = IF IsOutput(s.hand) THEN @ + 1 ELSE @]
            more == IF IsOutput(s.hand) THEN s.taken + 1 ELSE s.taken
<1>1. /\ s \in Streams /\ s.taken \in Nat /\ s.lost \in Nat /\ s.offered \in Nat
      /\ Count(IsOutput, s.queue) \in Nat
  BY StreamNumbers DEF StreamKept
<1>2. more \in Nat
  BY <1>1
<1>3. t = [s EXCEPT !.given = TRUE, !.taken = more]
  OBVIOUS
<1>4. more = s.taken + Untaken(s) /\ Untaken(s) \in Int
  BY <1>1 DEF Untaken
<1>. HIDE DEF t, more
<1>5. /\ t \in Streams /\ t.queue = s.queue /\ t.hand = s.hand /\ t.given
      /\ t.retained = s.retained /\ t.closed = s.closed /\ t.terminal = s.terminal
      /\ t.taken = more /\ t.offered = s.offered /\ t.lost = s.lost
  BY <1>1, <1>2, <1>3 DEF Streams
<1>6. InHand(t) = InHand(s) /\ Untaken(t) = 0
  BY <1>5 DEF InHand, Untaken
<1>7. RetainedKept(t) /\ Tidy(t)
  BY <1>5, <1>6 DEF StreamKept, RetainedKept, Tidy
<1>8. LostKept(t)
  <2>. SUFFICES ASSUME ~t.closed, ~t.terminal
                PROVE  t.offered = t.taken + t.lost + Count(IsOutput, t.queue) + Untaken(t)
    BY DEF LostKept
  <2>1. s.offered = s.taken + s.lost + Count(IsOutput, s.queue) + Untaken(s)
    BY <1>5 DEF StreamKept, LostKept
  <2>. QED
    BY <1>1, <1>4, <1>5, <1>6, <2>1
<1>. QED
  BY <1>5, <1>7, <1>8 DEF StreamKept, t

\* releaseFrame gives the place of the frame back.
Released(s) ==
    [s EXCEPT !.hand = NoFrame, !.given = FALSE,
              !.retained = IF Counts(s.hand) THEN @ - 1 ELSE @]

LEMMA ReleasedKept ==
    ASSUME NEW s, StreamKept(s), s.hand # NoFrame, s.given \/ s.closed
    PROVE  StreamKept(IF s.given THEN Released(s) ELSE Ended(Released(s)))
<1>. DEFINE t == Released(s)
            less == IF Counts(s.hand) THEN s.retained - 1 ELSE s.retained
<1>1. /\ s \in Streams /\ s.retained \in Int /\ Count(Counts, s.queue) \in Nat
      /\ s.retained = Count(Counts, s.queue) + InHand(s)
  BY StreamNumbers DEF StreamKept
<1>2. less \in Int /\ less = Count(Counts, s.queue)
  <2>1. CASE Counts(s.hand)
    <3>1. InHand(s) = 1 /\ less = s.retained - 1
      BY <2>1 DEF InHand
    <3>. HIDE DEF less
    <3>. QED
      BY <1>1, <3>1
  <2>2. CASE ~Counts(s.hand)
    <3>1. InHand(s) = 0 /\ less = s.retained
      BY <2>2 DEF InHand
    <3>. HIDE DEF less
    <3>. QED
      BY <1>1, <3>1
  <2>. QED
    BY <2>1, <2>2
<1>3. t = [s EXCEPT !.hand = NoFrame, !.given = FALSE, !.retained = less]
  BY DEF Released
<1>4. NoFrame \in Frames /\ ~Counts(NoFrame) /\ ~IsOutput(NoFrame)
  BY DEF NoFrame, Frame, Frames, Counts, IsOutput
<1>. HIDE DEF t, less
<1>5. /\ t \in Streams /\ t.queue = s.queue /\ t.hand = NoFrame /\ ~t.given
      /\ t.retained = less /\ t.closed = s.closed /\ t.terminal = s.terminal
      /\ t.taken = s.taken /\ t.offered = s.offered /\ t.lost = s.lost
  BY <1>1, <1>2, <1>3, <1>4 DEF Streams
<1>6. InHand(t) = 0 /\ Untaken(t) = 0
  BY <1>4, <1>5 DEF InHand, Untaken
<1>7. CASE s.given
  <2>1. Untaken(s) = 0
    BY <1>7 DEF Untaken
  <2>2. RetainedKept(t)
    BY <1>1, <1>2, <1>5, <1>6 DEF RetainedKept
  <2>3. LostKept(t) /\ Tidy(t)
    BY <1>5, <1>6, <2>1 DEF StreamKept, LostKept, Tidy
  <2>. QED
    BY <1>5, <1>7, <2>2, <2>3 DEF StreamKept, t
<1>8. CASE ~s.given
  <2>1. s.queue = << >>
    BY <1>8 DEF StreamKept, Tidy
  <2>2. t.retained = 0
    BY <1>2, <1>5, <2>1, CountTypes
  <2>3. StreamKept(Ended(t))
    BY <2>2, EndedKept
  <2>. QED
    BY <1>8, <2>3 DEF t
<1>. QED
  BY <1>7, <1>8

-----------------------------------------------------------------------------
(* The invariant.                                                          *)

\* Each stream of the client counts its places and its losses exactly.
StreamsKept == \A j \in Openings : StreamKept(stream[j])

\* How far the daemon may send with the credit it has.
Granted == download.offset + download.credit

\* An ack reports what has been written since the one before it: the credit of an
\* ack that is on its way begins where the credit of all earlier ones ends, those
\* already used by the daemon included, and the last one ends at user.acked.
AcksInOrder ==
    /\ user.acked =< user.offset
    /\ Granted =< user.acked + Window
    /\ \A i \in DOMAIN toDaemon : toDaemon[i].type = "ack" =>
        /\ toDaemon[i].offset =< user.acked
        /\ Granted + toDaemon[i].credit =< toDaemon[i].offset + Window
        /\ download.acks # << >> =>
              Head(download.acks).offset + toDaemon[i].credit =< toDaemon[i].offset
        /\ \A k \in DOMAIN toDaemon : i < k /\ toDaemon[k].type = "ack" =>
              toDaemon[i].offset + toDaemon[k].credit =< toDaemon[k].offset
    /\ download.acks # << >> =>
        /\ Head(download.acks).offset =< user.acked
        /\ Granted + Head(download.acks).credit =< Head(download.acks).offset + Window

StreamInv == StreamTypes /\ StreamsKept /\ AcksInOrder

-----------------------------------------------------------------------------
(* Frames, messages and streams.                                           *)

\* A frame is put on the wire.
LEMMA FrameSent ==
    ASSUME toClient \in Seq(WireFrames), NEW frame \in WireFrames, SendFrame(frame)
    PROVE  toClient' \in Seq(WireFrames)
BY AppendProperties DEF SendFrame

\* One stream changes, and stays exact.
LEMMA OneStream ==
    ASSUME stream \in [Openings -> Streams], StreamsKept,
           NEW j, NEW t, StreamKept(t), stream' = [stream EXCEPT ![j] = t]
    PROVE  stream' \in [Openings -> Streams] /\ StreamsKept'
<1>1. t \in Streams
  BY DEF StreamKept
<1>2. \A i \in Openings : stream'[i] = IF i = j THEN t ELSE stream[i]
  OBVIOUS
<1>3. stream' \in [Openings -> Streams]
  BY <1>1
<1>4. \A i \in Openings : StreamKept(stream'[i])
  BY <1>2 DEF StreamsKept
<1>. QED
  BY <1>3, <1>4 DEF StreamsKept

\* A message is appended.
LEMMA Appended ==
    ASSUME NEW S, NEW q \in Seq(S), NEW e \in S
    PROVE  /\ Append(q, e) \in Seq(S) /\ Len(q) \in Nat
           /\ DOMAIN q = 1..Len(q) /\ DOMAIN Append(q, e) = 1..(Len(q) + 1)
           /\ \A i \in 1..Len(q) : Append(q, e)[i] = q[i]
           /\ Append(q, e)[Len(q) + 1] = e
<1>1. /\ Append(q, e) \in Seq(S) /\ Len(Append(q, e)) = Len(q) + 1
      /\ \A i \in 1..Len(q) : Append(q, e)[i] = q[i]
      /\ Append(q, e)[Len(q) + 1] = e
  BY AppendProperties
<1>2. Len(q) \in Nat /\ DOMAIN q = 1..Len(q) /\ DOMAIN Append(q, e) = 1..(Len(q) + 1)
  BY <1>1, LenProperties
<1>. QED
  BY <1>1, <1>2

\* A message is taken from the front.
LEMMA Dequeued ==
    ASSUME NEW S, NEW q \in Seq(S), q # << >>
    PROVE  /\ Tail(q) \in Seq(S) /\ Head(q) \in S
           /\ 1 \in DOMAIN q /\ q[1] = Head(q)
           /\ \A i \in DOMAIN Tail(q) :
                i \in Nat /\ i >= 1 /\ i + 1 \in DOMAIN q /\ Tail(q)[i] = q[i + 1]
<1>1. /\ Len(q) \in Nat /\ DOMAIN q = 1..Len(q) /\ Len(q) # 0
      /\ Tail(q) \in Seq(S) /\ Head(q) \in S /\ Len(Tail(q)) = Len(q) - 1
      /\ \A i \in 1..Len(Tail(q)) : Tail(q)[i] = q[i + 1]
      /\ Head(q) = q[1]
  BY LenProperties, HeadTailProperties, EmptySeq
<1>2. DOMAIN Tail(q) = 1..(Len(q) - 1)
  BY <1>1, LenProperties
<1>. QED
  BY <1>1, <1>2

-----------------------------------------------------------------------------
(* The window.                                                             *)

\* The numbers of the acknowledgements.
LEMMA AckNumbers ==
    ASSUME StreamTypes
    PROVE  /\ user.acked \in Nat /\ user.offset \in Nat /\ Window \in Nat
           /\ download.offset \in Nat /\ download.credit \in Nat /\ Granted \in Nat
           /\ \A i \in DOMAIN toDaemon :
                toDaemon[i] \in Messages
                /\ toDaemon[i].offset \in Nat /\ toDaemon[i].credit \in Nat
           /\ download.acks \in Seq(Messages)
           /\ download.acks # << >> => Head(download.acks) \in Messages
                /\ Head(download.acks).offset \in Nat /\ Head(download.acks).credit \in Nat
<1>1. user.acked \in Nat /\ user.offset \in Nat
  BY DEF StreamTypes, Users
<1>2. download.offset \in Nat /\ download.credit \in Nat /\ download.acks \in Seq(Messages)
  BY DEF StreamTypes, Downloads
<1>3. \A i \in DOMAIN toDaemon : toDaemon[i] \in Messages
  BY LenProperties DEF StreamTypes
<1>4. download.acks # << >> => Head(download.acks) \in Messages
  BY <1>2, HeadTailProperties
<1>5. \A m \in Messages : m.offset \in Nat /\ m.credit \in Nat
  BY DEF Messages
<1>. QED
  BY <1>1, <1>2, <1>3, <1>4, <1>5, StreamAssumption DEF Granted

\* No credit is granted, and nothing is acknowledged.
LEMMA AcksQuiet ==
    ASSUME AcksInOrder, Granted' = Granted, download'.acks \in {download.acks, << >>},
           toDaemon' = toDaemon, user'.acked = user.acked, user'.offset = user.offset
    PROVE  AcksInOrder'
BY DEF AcksInOrder

\* The user sends another message than an ack.
LEMMA AcksSignal ==
    ASSUME StreamTypes, AcksInOrder, download' = download,
           user'.acked = user.acked, user'.offset = user.offset,
           NEW m \in Messages, m.type # "ack", toDaemon' = Append(toDaemon, m)
    PROVE  AcksInOrder'
<1>1. toDaemon \in Seq(Messages)
  BY DEF StreamTypes
<1>2. /\ Len(toDaemon) \in Nat /\ DOMAIN toDaemon = 1..Len(toDaemon)
      /\ DOMAIN toDaemon' = 1..(Len(toDaemon) + 1)
      /\ \A i \in 1..Len(toDaemon) : toDaemon'[i] = toDaemon[i]
      /\ toDaemon'[Len(toDaemon) + 1] = m
  BY <1>1, Appended
<1>3. \A i \in DOMAIN toDaemon' : toDaemon'[i].type = "ack" =>
        i \in DOMAIN toDaemon /\ toDaemon'[i] = toDaemon[i]
  BY <1>2
<1>4. Granted' = Granted
  BY DEF Granted
<1>. QED
  BY <1>3, <1>4 DEF AcksInOrder

\* The user acknowledges what it has written since its last ack.
LEMMA AcksAppend ==
    ASSUME StreamTypes, AcksInOrder, download' = download, NEW next \in Nat,
           user.offset =< next, user'.offset = next, user'.acked = next,
           toDaemon' = Append(toDaemon, Ack(next, next - user.acked))
    PROVE  AcksInOrder' /\ Ack(next, next - user.acked) \in Messages
<1>0. user.acked =< user.offset
  BY DEF AcksInOrder
<1>1. user.acked \in Nat /\ user.offset \in Nat /\ Window \in Nat /\ Granted \in Nat
  BY AckNumbers
<1>2. next - user.acked \in Nat /\ user.acked =< next
  BY <1>0, <1>1
<1>. DEFINE m == Ack(next, next - user.acked)
<1>3. m \in Messages /\ m.offset = next /\ m.credit = next - user.acked
  BY <1>2 DEF Ack, Messages
<1>. HIDE DEF m
<1>4. toDaemon \in Seq(Messages) /\ toDaemon' = Append(toDaemon, m)
  BY DEF StreamTypes, m
<1>5. /\ Len(toDaemon) \in Nat /\ DOMAIN toDaemon = 1..Len(toDaemon)
      /\ DOMAIN toDaemon' = 1..(Len(toDaemon) + 1)
      /\ \A i \in 1..Len(toDaemon) : toDaemon'[i] = toDaemon[i]
      /\ toDaemon'[Len(toDaemon) + 1] = m
  BY <1>3, <1>4, Appended
<1>6. \A i \in DOMAIN toDaemon' :
        (i \in DOMAIN toDaemon /\ toDaemon'[i] = toDaemon[i]) \/ toDaemon'[i] = m
  BY <1>5
<1>7. Granted' = Granted /\ Granted =< user.acked + Window
  BY DEF Granted, AcksInOrder
<1>8. Granted' =< user'.acked + Window
  BY <1>1, <1>2, <1>7
<1>9. \A i \in DOMAIN toDaemon' : toDaemon'[i].type = "ack" =>
        /\ toDaemon'[i].offset =< user'.acked
        /\ Granted' + toDaemon'[i].credit =< toDaemon'[i].offset + Window
        /\ download'.acks # << >> =>
              Head(download'.acks).offset + toDaemon'[i].credit =< toDaemon'[i].offset
        /\ \A k \in DOMAIN toDaemon' : i < k /\ toDaemon'[k].type = "ack" =>
              toDaemon'[i].offset + toDaemon'[k].credit =< toDaemon'[k].offset
  <2>. SUFFICES ASSUME NEW i \in DOMAIN toDaemon', toDaemon'[i].type = "ack"
                PROVE  /\ toDaemon'[i].offset =< user'.acked
                       /\ Granted' + toDaemon'[i].credit =< toDaemon'[i].offset + Window
                       /\ download'.acks # << >> =>
                            Head(download'.acks).offset + toDaemon'[i].credit
                               =< toDaemon'[i].offset
                       /\ \A k \in DOMAIN toDaemon' : i < k /\ toDaemon'[k].type = "ack" =>
                            toDaemon'[i].offset + toDaemon'[k].credit =< toDaemon'[k].offset
    OBVIOUS
  <2>1. CASE i \in DOMAIN toDaemon /\ toDaemon'[i] = toDaemon[i]
    <3>1. /\ toDaemon[i].offset \in Nat /\ toDaemon[i].credit \in Nat
          /\ toDaemon[i].offset =< user.acked
          /\ Granted + toDaemon[i].credit =< toDaemon[i].offset + Window
          /\ download.acks # << >> =>
               Head(download.acks).offset + toDaemon[i].credit =< toDaemon[i].offset
      BY <2>1, AckNumbers DEF AcksInOrder
    <3>2. toDaemon'[i].offset =< user'.acked
      BY <1>1, <1>2, <2>1, <3>1
    <3>3. ASSUME NEW k \in DOMAIN toDaemon', i < k, toDaemon'[k].type = "ack"
          PROVE  toDaemon'[i].offset + toDaemon'[k].credit =< toDaemon'[k].offset
      <4>1. CASE k \in DOMAIN toDaemon /\ toDaemon'[k] = toDaemon[k]
        BY <2>1, <3>3, <4>1 DEF AcksInOrder
      <4>2. CASE toDaemon'[k] = m
        <5>1. toDaemon[i].offset + (next - user.acked) =< next
          BY <1>1, <3>1
        <5>. QED
          BY <1>3, <2>1, <4>2, <5>1
      <4>. QED
        BY <1>6, <4>1, <4>2
    <3>. QED
      BY <1>7, <2>1, <3>1, <3>2, <3>3
  <2>2. CASE toDaemon'[i] = m /\ ~(i \in DOMAIN toDaemon)
    <3>1. i = Len(toDaemon) + 1 /\ \A k \in DOMAIN toDaemon' : ~(i < k)
      BY <1>5, <2>2
    <3>2. next =< next /\ Granted + (next - user.acked) =< next + Window
      BY <1>1, <1>7
    <3>3. download.acks # << >> =>
            Head(download.acks).offset + (next - user.acked) =< next
      <4>1. download.acks # << >> =>
              Head(download.acks).offset \in Nat /\ Head(download.acks).offset =< user.acked
        BY AckNumbers DEF AcksInOrder
      <4>. QED
        BY <1>1, <4>1
    <3>. QED
      BY <1>3, <1>7, <2>2, <3>1, <3>2, <3>3
  <2>. QED
    BY <1>5, <1>6, <2>1, <2>2
<1>10. download'.acks # << >> =>
        /\ Head(download'.acks).offset =< user'.acked
        /\ Granted' + Head(download'.acks).credit =< Head(download'.acks).offset + Window
  <2>1. download.acks # << >> =>
          /\ Head(download.acks).offset \in Nat /\ Head(download.acks).offset =< user.acked
          /\ Granted + Head(download.acks).credit =< Head(download.acks).offset + Window
    BY AckNumbers DEF AcksInOrder
  <2>2. download.acks # << >> => Head(download.acks).offset =< next
    BY <1>1, <1>2, <2>1
  <2>. QED
    BY <1>7, <2>1, <2>2
<1>11. AcksInOrder'
  BY <1>8, <1>9, <1>10 DEF AcksInOrder
<1>. QED
  BY <1>3, <1>11 DEF m

\* The daemon uses the ack it holds: its credit now ends where the ack's does.
LEMMA AcksTaken ==
    ASSUME StreamTypes, AcksInOrder, download.acks # << >>, download'.acks = << >>,
           Granted' = Granted + Head(download.acks).credit,
           toDaemon' = toDaemon, user' = user
    PROVE  AcksInOrder'
<1>. DEFINE a == Head(download.acks)
<1>1. /\ user.acked \in Nat /\ Window \in Nat /\ Granted \in Nat
      /\ a.offset \in Nat /\ a.credit \in Nat
  BY AckNumbers
<1>2. a.offset =< user.acked /\ Granted + a.credit =< a.offset + Window
  BY DEF AcksInOrder
<1>3. Granted' = Granted + a.credit
  OBVIOUS
<1>4. ASSUME NEW i \in DOMAIN toDaemon, toDaemon[i].type = "ack"
      PROVE  Granted' + toDaemon[i].credit =< toDaemon[i].offset + Window
  <2>1. /\ toDaemon[i].offset \in Nat /\ toDaemon[i].credit \in Nat
        /\ a.offset + toDaemon[i].credit =< toDaemon[i].offset
    BY <1>4, AckNumbers DEF AcksInOrder
  <2>. HIDE DEF a
  <2>2. PICK g \in Nat : g = Granted
    BY <1>1
  <2>3. PICK ao \in Nat : ao = a.offset
    BY <1>1
  <2>4. PICK ac \in Nat : ac = a.credit
    BY <1>1
  <2>5. PICK c \in Nat : c = toDaemon[i].credit
    BY <2>1
  <2>6. PICK o \in Nat : o = toDaemon[i].offset
    BY <2>1
  <2>7. g + ac =< ao + Window /\ ao + c =< o
    BY <1>2, <2>1, <2>2, <2>3, <2>4, <2>5, <2>6
  <2>8. (g + ac) + c =< o + Window
    BY <1>1, <2>7
  <2>. QED
    BY <1>3, <2>2, <2>4, <2>5, <2>6, <2>8
<1>5. Granted' =< user'.acked + Window
  <2>. HIDE DEF a
  <2>. QED
    BY <1>1, <1>2, <1>3
<1>. HIDE DEF a
<1>. QED
  BY <1>4, <1>5 DEF AcksInOrder

\* The read loop takes a message that is not an ack, or an ack that it refuses.
LEMMA AcksDropped ==
    ASSUME StreamTypes, AcksInOrder, toDaemon # << >>, toDaemon' = Tail(toDaemon),
           Granted' = Granted, download'.acks = download.acks, user' = user
    PROVE  AcksInOrder'
<1>1. \A i \in DOMAIN toDaemon' :
        i \in Nat /\ i + 1 \in DOMAIN toDaemon /\ toDaemon'[i] = toDaemon[i + 1]
  BY Dequeued DEF StreamTypes
<1>2. \A i, k \in Nat : i < k => i + 1 < k + 1
  OBVIOUS
<1>. QED
  BY <1>1, <1>2 DEF AcksInOrder

\* The read loop leaves an ack for the download.
LEMMA AcksReceived ==
    ASSUME StreamTypes, AcksInOrder, toDaemon # << >>, toDaemon' = Tail(toDaemon),
           Head(toDaemon).type = "ack", download'.acks = <<Head(toDaemon)>>,
           Granted' = Granted, user' = user
    PROVE  AcksInOrder'
<1>1. \A i \in DOMAIN toDaemon' :
        i \in Nat /\ i >= 1 /\ i + 1 \in DOMAIN toDaemon /\ toDaemon'[i] = toDaemon[i + 1]
  BY Dequeued DEF StreamTypes
<1>2. 1 \in DOMAIN toDaemon /\ toDaemon[1] = Head(toDaemon)
  BY Dequeued DEF StreamTypes
<1>3. \A i, k \in Nat : i < k => i + 1 < k + 1
  OBVIOUS
<1>4. \A i \in Nat : i >= 1 => 1 < i + 1
  OBVIOUS
<1>5. download'.acks # << >> /\ Head(download'.acks) = toDaemon[1]
  BY <1>2
<1>6. \A i \in DOMAIN toDaemon' : toDaemon'[i].type = "ack" =>
        /\ toDaemon'[i].offset =< user'.acked
        /\ Granted' + toDaemon'[i].credit =< toDaemon'[i].offset + Window
        /\ \A k \in DOMAIN toDaemon' : i < k /\ toDaemon'[k].type = "ack" =>
              toDaemon'[i].offset + toDaemon'[k].credit =< toDaemon'[k].offset
  BY <1>1, <1>3 DEF AcksInOrder
<1>7. \A i \in DOMAIN toDaemon' : toDaemon'[i].type = "ack" =>
        toDaemon[1].offset + toDaemon'[i].credit =< toDaemon'[i].offset
  BY <1>1, <1>2, <1>4 DEF AcksInOrder
<1>8. /\ toDaemon[1].offset =< user'.acked
      /\ Granted' + toDaemon[1].credit =< toDaemon[1].offset + Window
  BY <1>2 DEF AcksInOrder
<1>9. user'.acked =< user'.offset /\ Granted' =< user'.acked + Window
  BY DEF AcksInOrder
<1>. QED
  BY <1>5, <1>6, <1>7, <1>8, <1>9 DEF AcksInOrder

-----------------------------------------------------------------------------
(* The daemon.                                                             *)

\* The steps of runFileDownload.
LEMMA DownloadSteps ==
    ASSUME StreamInv, SendData \/ TakeAck \/ SendFinish \/ ReleaseFileTransfer
    PROVE  StreamInv'
<1>0. /\ StreamTypes /\ StreamsKept /\ AcksInOrder /\ download \in Downloads
      /\ toClient \in Seq(WireFrames)
  BY DEF StreamInv, StreamTypes
<1>1. UNCHANGED <<toDaemon, early, opener, stream, user>>
  BY DEF SendData, TakeAck, SendFinish, ReleaseFileTransfer, clientVars
<1>2. /\ download.offset \in Nat /\ download.credit \in Nat
      /\ download.acks \in Seq(Messages) /\ << >> \in Seq(Messages)
      /\ download.registered \in BOOLEAN
      /\ download.acks # << >> => Head(download.acks).credit \in Nat
  BY <1>0, AckNumbers, EmptySeq DEF Downloads
<1>3. Frame("error", 0) \in WireFrames
  BY DEF Frame, WireFrames
<1>4. StreamsKept'
  BY <1>0, <1>1 DEF StreamsKept
<1>5. CASE download' \in Downloads /\ toClient' \in Seq(WireFrames)
           /\ Granted' = Granted /\ download'.acks \in {download.acks, << >>}
  <2>1. StreamTypes'
    BY <1>0, <1>1, <1>5 DEF StreamTypes
  <2>2. AcksInOrder'
    BY <1>0, <1>1, <1>5, AcksQuiet
  <2>. QED
    BY <1>4, <2>1, <2>2 DEF StreamInv
<1>6. CASE SendData
  <2>1. CASE /\ SendFrame(Frame("data", download.offset))
             /\ download' = [download EXCEPT !.offset = @ + 1, !.credit = @ - 1]
    <3>2. Frame("data", download.offset) \in WireFrames
      BY <1>2 DEF Frame, WireFrames
    <3>3. download.credit - 1 \in Nat /\ download.offset + 1 \in Nat
      BY <1>2, <1>6 DEF SendData, MaySend
    <3>4. /\ download' \in Downloads /\ download'.offset = download.offset + 1
          /\ download'.credit = download.credit - 1 /\ download'.acks = download.acks
      BY <1>0, <2>1, <3>3 DEF Downloads
    <3>5. Granted' = Granted
      BY <1>2, <3>4 DEF Granted
    <3>6. toClient' \in Seq(WireFrames)
      BY <1>0, <2>1, <3>2, FrameSent
    <3>. QED
      BY <1>5, <3>4, <3>5, <3>6
  <2>2. CASE SendFrame(Frame("error", 0)) /\ download' = [download EXCEPT !.pc = "done"]
    <3>2. /\ download' \in Downloads /\ download'.offset = download.offset
          /\ download'.credit = download.credit /\ download'.acks = download.acks
      BY <1>0, <2>2 DEF Downloads
    <3>3. toClient' \in Seq(WireFrames)
      BY <1>0, <1>3, <2>2, FrameSent
    <3>4. Granted' = Granted
      BY <3>2 DEF Granted
    <3>. QED
      BY <1>5, <3>2, <3>3, <3>4
  <2>. QED
    BY <1>6, <2>1, <2>2 DEF SendData
<1>7. CASE TakeAck
  <2>1. CASE /\ download.acks # << >> /\ toClient' = toClient
             /\ download' = [download EXCEPT !.acks = << >>,
                                             !.credit = @ + Head(download.acks).credit]
    <3>1. download.credit + Head(download.acks).credit \in Nat
      BY <1>2, <2>1
    <3>2. /\ download' \in Downloads /\ download'.offset = download.offset
          /\ download'.credit = download.credit + Head(download.acks).credit
          /\ download'.acks = << >>
      BY <1>0, <1>2, <2>1, <3>1 DEF Downloads
    <3>3. Granted' = Granted + Head(download.acks).credit
      BY <1>2, <2>1, <3>2 DEF Granted
    <3>4. StreamTypes'
      BY <1>0, <1>1, <2>1, <3>2 DEF StreamTypes
    <3>5. AcksInOrder'
      BY <1>0, <1>1, <2>1, <3>2, <3>3, AcksTaken
    <3>. QED
      BY <1>4, <3>4, <3>5 DEF StreamInv
  <2>2. CASE /\ SendFrame(Frame("error", 0))
             /\ download' = [download EXCEPT !.acks = << >>, !.pc = "release"]
    <3>1. /\ download' \in Downloads /\ download'.offset = download.offset
          /\ download'.credit = download.credit /\ download'.acks = << >>
      BY <1>0, <1>2, <2>2 DEF Downloads
    <3>2. toClient' \in Seq(WireFrames)
      BY <1>0, <1>3, <2>2, FrameSent
    <3>3. Granted' = Granted
      BY <3>1 DEF Granted
    <3>. QED
      BY <1>5, <3>1, <3>2, <3>3
  <2>3. CASE toClient' = toClient /\ download' = [download EXCEPT !.pc = "done"]
    <3>1. /\ download' \in Downloads /\ download'.offset = download.offset
          /\ download'.credit = download.credit /\ download'.acks = download.acks
      BY <1>0, <2>3 DEF Downloads
    <3>2. Granted' = Granted
      BY <3>1 DEF Granted
    <3>. QED
      BY <1>0, <1>5, <2>3, <3>1, <3>2
  <2>. QED
    BY <1>7, <2>1, <2>2, <2>3 DEF TakeAck
<1>8. CASE SendFinish \/ ReleaseFileTransfer
  <2>1. /\ download' \in Downloads /\ download'.offset = download.offset
        /\ download'.credit = download.credit /\ download'.acks = download.acks
    BY <1>0, <1>8 DEF SendFinish, ReleaseFileTransfer, Downloads
  <2>2. Granted' = Granted
    BY <2>1 DEF Granted
  <2>3. toClient' \in Seq(WireFrames)
    <3>1. Frame("finish", FileChunks) \in WireFrames
      BY StreamAssumption DEF Frame, WireFrames
    <3>. QED
      BY <1>0, <1>8, <3>1, FrameSent DEF SendFinish, ReleaseFileTransfer
  <2>. QED
    BY <1>5, <2>1, <2>2, <2>3
<1>. QED
  BY <1>6, <1>7, <1>8

\* The raw output of the daemon touches only what is on the wire.
LEMMA RawSteps ==
    ASSUME StreamInv,
           \/ PublishRaw \/ CloseRaw
           \/ \E i \in Openings : ReceiveRaw(i) \/ SendRaw(i) \/ ClearRaw(i)
    PROVE  StreamInv'
<1>0. /\ StreamTypes /\ StreamsKept /\ AcksInOrder /\ toClient \in Seq(WireFrames)
  BY DEF StreamInv, StreamTypes
<1>1. UNCHANGED <<download, toDaemon, early, opener, stream, user>>
  BY DEF PublishRaw, CloseRaw, ReceiveRaw, SendRaw, ClearRaw, Forward, clientVars
<1>2. toClient' \in Seq(WireFrames)
  <2>1. /\ Frame("output", 1) \in WireFrames /\ Frame("synclost", 1) \in WireFrames
        /\ Frame("closed", 0) \in WireFrames
    BY DEF Frame, WireFrames
  <2>2. ASSUME NEW i, NEW f, NEW frame, Forward(i, f, frame),
               frame \in WireFrames \/ frame = NoFrame
        PROVE  toClient' \in Seq(WireFrames)
    BY <1>0, <2>2, FrameSent DEF Forward
  <2>3. CASE PublishRaw \/ CloseRaw
    BY <1>0, <2>3 DEF PublishRaw, CloseRaw
  <2>4. CASE \E i \in Openings : ReceiveRaw(i) \/ SendRaw(i) \/ ClearRaw(i)
    BY <2>1, <2>2, <2>4 DEF ReceiveRaw, SendRaw, ClearRaw
  <2>. QED
    BY <2>3, <2>4
<1>3. StreamTypes' /\ StreamsKept'
  BY <1>0, <1>1, <1>2 DEF StreamTypes, StreamsKept
<1>4. AcksInOrder'
  BY <1>0, <1>1, AcksQuiet DEF Granted
<1>. QED
  BY <1>3, <1>4 DEF StreamInv

\* The read loop of the session.
LEMMA DaemonSteps ==
    ASSUME StreamInv, DaemonReads
    PROVE  StreamInv'
<1>0. /\ StreamTypes /\ StreamsKept /\ AcksInOrder /\ download \in Downloads
      /\ toClient \in Seq(WireFrames) /\ toDaemon \in Seq(Messages)
  BY DEF StreamInv, StreamTypes
<1>1. /\ UNCHANGED <<early, opener, stream, user>>
      /\ toDaemon # << >> /\ toDaemon' = Tail(toDaemon)
  BY DEF DaemonReads, clientVars
<1>2. toDaemon' \in Seq(Messages) /\ Head(toDaemon) \in Messages
  BY <1>0, <1>1, Dequeued
<1>3. StreamsKept'
  BY <1>0, <1>1 DEF StreamsKept
<1>4. Frame("error", 0) \in WireFrames /\ Frame("ready", 0) \in WireFrames
  BY DEF Frame, WireFrames
<1>5. CASE /\ download' \in Downloads /\ download'.offset = download.offset
           /\ download'.credit = download.credit /\ download'.acks = download.acks
           /\ toClient' \in Seq(WireFrames)
  <2>1. Granted' = Granted
    BY <1>5 DEF Granted
  <2>2. AcksInOrder'
    BY <1>0, <1>1, <1>5, <2>1, AcksDropped
  <2>3. StreamTypes'
    BY <1>0, <1>1, <1>2, <1>5 DEF StreamTypes
  <2>. QED
    BY <1>3, <2>2, <2>3 DEF StreamInv
<1>6. CASE Head(toDaemon).type = "ack" /\ ReceiveAck(Head(toDaemon))
  <2>1. CASE download.registered /\ download.acks = << >>
    <3>1. download' = [download EXCEPT !.acks = <<Head(toDaemon)>>] /\ toClient' = toClient
      BY <1>6, <2>1 DEF ReceiveAck
    <3>2. <<Head(toDaemon)>> \in Seq(Messages)
      BY <1>2
    <3>3. /\ download' \in Downloads /\ download'.offset = download.offset
          /\ download'.credit = download.credit /\ download'.acks = <<Head(toDaemon)>>
      BY <1>0, <3>1, <3>2 DEF Downloads
    <3>4. Granted' = Granted
      BY <3>3 DEF Granted
    <3>5. AcksInOrder'
      BY <1>0, <1>1, <1>6, <3>3, <3>4, AcksReceived
    <3>6. StreamTypes'
      BY <1>0, <1>1, <1>2, <3>1, <3>3 DEF StreamTypes
    <3>. QED
      BY <1>3, <3>5, <3>6 DEF StreamInv
  <2>2. CASE ~(download.registered /\ download.acks = << >>)
    <3>1. SendFrame(Frame("error", 0)) /\ download' = download
      BY <1>6, <2>2 DEF ReceiveAck
    <3>2. toClient' \in Seq(WireFrames)
      BY <1>0, <1>4, <3>1, FrameSent
    <3>. QED
      BY <1>0, <1>5, <3>1, <3>2
  <2>. QED
    BY <2>1, <2>2
<1>7. CASE ReceiveCancel
  <2>1. /\ download' \in Downloads /\ download'.offset = download.offset
        /\ download'.credit = download.credit /\ download'.acks = download.acks
    BY <1>0, <1>7 DEF ReceiveCancel, Downloads
  <2>. QED
    BY <1>0, <1>5, <1>7, <2>1 DEF ReceiveCancel
<1>8. CASE StartRaw
  <2>1. download' = download
    BY <1>8 DEF StartRaw
  <2>2. toClient' \in Seq(WireFrames)
    BY <1>0, <1>4, <1>8, FrameSent DEF StartRaw
  <2>. QED
    BY <1>0, <1>5, <2>1, <2>2
<1>9. CASE StopRaw
  BY <1>0, <1>5, <1>9 DEF StopRaw
<1>. QED
  BY <1>6, <1>7, <1>8, <1>9 DEF DaemonReads

-----------------------------------------------------------------------------
(* The client and its user.                                                *)

\* The client has nothing to do with the acks.
LEMMA ClientOnly ==
    ASSUME StreamInv, UNCHANGED <<download, toDaemon>>,
           user' \in Users, user'.acked = user.acked, user'.offset = user.offset,
           toClient' \in Seq(WireFrames), early' \in Seq(WireFrames),
           opener' \in Seq(WireFrames),
           stream' \in [Openings -> Streams], StreamsKept'
    PROVE  StreamInv'
<1>1. StreamTypes'
  BY DEF StreamInv, StreamTypes
<1>2. AcksInOrder'
  BY AcksQuiet DEF StreamInv, Granted
<1>. QED
  BY <1>1, <1>2 DEF StreamInv

\* The types that a step of the client reads.
LEMMA ClientTypes ==
    ASSUME StreamInv
    PROVE  /\ toClient \in Seq(WireFrames) /\ early \in Seq(WireFrames)
           /\ opener \in Seq(WireFrames) /\ << >> \in Seq(WireFrames)
           /\ toDaemon \in Seq(Messages) /\ user \in Users
           /\ stream \in [Openings -> Streams] /\ StreamsKept
           /\ \A j \in Openings : StreamKept(stream[j])
BY EmptySeq DEF StreamInv, StreamTypes, StreamsKept

\* A frame is sent to the stream of an opening.
LEMMA SentToStream ==
    ASSUME StreamInv, NEW j, NEW frame \in WireFrames,
           stream' = [stream EXCEPT ![j] = Sent(@, frame)]
    PROVE  stream' \in [Openings -> Streams] /\ StreamsKept'
<1>1. CASE j \in Openings
  <2>1. StreamKept(Sent(stream[j], frame))
    BY <1>1, ClientTypes, SentKept
  <2>2. stream' = [stream EXCEPT ![j] = Sent(stream[j], frame)]
    OBVIOUS
  <2>. QED
    BY <2>1, <2>2, ClientTypes, OneStream
<1>2. CASE j \notin Openings
  <2>1. stream' = stream
    BY <1>2, ClientTypes
  <2>. QED
    BY <2>1, ClientTypes DEF StreamsKept
<1>. QED
  BY <1>1, <1>2

\* The read loop of the client, and the binding that passes early frames on.
LEMMA ReadSteps ==
    ASSUME StreamInv, ClientReads \/ SendEarly
    PROVE  StreamInv'
<1>0. /\ toClient \in Seq(WireFrames) /\ early \in Seq(WireFrames)
      /\ opener \in Seq(WireFrames) /\ user \in Users
      /\ stream \in [Openings -> Streams] /\ StreamsKept
  BY ClientTypes
<1>1. CASE ClientReads
  <2>1. /\ UNCHANGED <<download, toDaemon, user, opener>>
        /\ toClient # << >> /\ toClient' = Tail(toClient)
    BY <1>1 DEF ClientReads, daemonVars
  <2>2. Head(toClient) \in WireFrames /\ toClient' \in Seq(WireFrames)
    BY <1>0, <2>1, Dequeued
  <2>3. CASE current = 0
    <3>1. stream' = stream /\ (early' = early \/ early' = Append(early, Head(toClient)))
      BY <1>1, <2>3 DEF ClientReads
    <3>2. early' \in Seq(WireFrames)
      <4>1. Append(early, Head(toClient)) \in Seq(WireFrames)
        BY <1>0, <2>2, AppendProperties
      <4>. QED
        BY <1>0, <3>1, <4>1
    <3>3. StreamsKept'
      BY <1>0, <3>1 DEF StreamsKept
    <3>. QED
      BY <1>0, <2>1, <2>2, <3>1, <3>2, <3>3, ClientOnly
  <2>4. CASE current # 0
    <3>1. /\ stream' = [stream EXCEPT ![current] = Sent(@, Head(toClient))]
          /\ early' = early
      BY <1>1, <2>4 DEF ClientReads
    <3>2. stream' \in [Openings -> Streams] /\ StreamsKept'
      BY <2>2, <3>1, SentToStream
    <3>. QED
      BY <1>0, <2>1, <2>2, <3>1, <3>2, ClientOnly
  <2>. QED
    BY <2>3, <2>4
<1>2. CASE SendEarly
  <2>1. /\ UNCHANGED <<download, toDaemon, toClient, user, early>>
        /\ opener # << >> /\ opener' = Tail(opener)
        /\ stream' = [stream EXCEPT ![user.opens] = Sent(@, Head(opener))]
    BY <1>2 DEF SendEarly, daemonVars
  <2>2. Head(opener) \in WireFrames /\ opener' \in Seq(WireFrames)
    BY <1>0, <2>1, Dequeued
  <2>3. stream' \in [Openings -> Streams] /\ StreamsKept'
    BY <2>1, <2>2, SentToStream
  <2>. QED
    BY <1>0, <2>1, <2>2, <2>3, ClientOnly
<1>. QED
  BY <1>1, <1>2

\* The goroutine of a stream.
LEMMA StreamSteps ==
    ASSUME StreamInv, NEW j \in Openings, NextFrame(j) \/ ReleaseFrame(j)
    PROVE  StreamInv'
<1>0. /\ toClient \in Seq(WireFrames) /\ early \in Seq(WireFrames)
      /\ opener \in Seq(WireFrames) /\ user \in Users
      /\ stream \in [Openings -> Streams] /\ StreamsKept /\ StreamKept(stream[j])
  BY ClientTypes
<1>1. ASSUME NEW t, RunStream(j, t), StreamKept(t)
      PROVE  StreamInv'
  <2>1. /\ UNCHANGED <<download, toDaemon, toClient, user, early, opener>>
        /\ stream' = [stream EXCEPT ![j] = t]
    BY <1>1 DEF RunStream, daemonVars, clientVars
  <2>2. stream' \in [Openings -> Streams] /\ StreamsKept'
    BY <1>0, <1>1, <2>1, OneStream
  <2>. QED
    BY <1>0, <2>1, <2>2, ClientOnly
<1>. DEFINE s == stream[j]
<1>2. CASE NextFrame(j)
  <2>1. s.hand = NoFrame
    BY <1>2 DEF NextFrame
  <2>2. CASE s.queue # << >>
             /\ RunStream(j, [s EXCEPT !.hand = Head(s.queue), !.queue = Tail(s.queue)])
    <3>1. StreamKept([s EXCEPT !.hand = Head(s.queue), !.queue = Tail(s.queue)])
      BY <1>0, <2>1, <2>2, NextKept
    <3>. QED
      BY <1>1, <2>2, <3>1
  <2>3. CASE RunStream(j, [s EXCEPT !.lostSent = TRUE, !.hand = Frame("overrun", s.lost)])
    <3>1. StreamKept([s EXCEPT !.lostSent = TRUE, !.hand = Frame("overrun", s.lost)])
      BY <1>0, <2>1, OverrunKept
    <3>. QED
      BY <1>1, <2>3, <3>1
  <2>4. CASE s.queue = << >> /\ RunStream(j, Ended(s))
    <3>1. s.retained = Count(Counts, s.queue) + InHand(s)
      BY <1>0, StreamNumbers
    <3>2. InHand(s) = 0
      BY <2>1 DEF InHand, NoFrame, Frame, Counts
    <3>3. s.retained = 0
      BY <2>4, <3>1, <3>2, CountTypes
    <3>4. StreamKept(Ended(s))
      BY <3>3, EndedKept
    <3>. QED
      BY <1>1, <2>4, <3>4
  <2>. QED
    BY <1>2, <2>2, <2>3, <2>4 DEF NextFrame
<1>3. CASE ReleaseFrame(j)
  <2>1. s.hand # NoFrame /\ (s.given \/ s.closed)
    BY <1>3 DEF ReleaseFrame
  <2>2. RunStream(j, IF s.given THEN Released(s) ELSE Ended(Released(s)))
    BY <1>3 DEF ReleaseFrame, Released
  <2>3. StreamKept(IF s.given THEN Released(s) ELSE Ended(Released(s)))
    BY <1>0, <2>1, ReleasedKept
  <2>. QED
    BY <1>1, <2>2, <2>3
<1>. QED
  BY <1>2, <1>3

\* The user opens and starts a stream.
LEMMA OpenSteps ==
    ASSUME StreamInv, OpenStream \/ StartStream
    PROVE  StreamInv'
<1>0. /\ toClient \in Seq(WireFrames) /\ early \in Seq(WireFrames)
      /\ opener \in Seq(WireFrames) /\ << >> \in Seq(WireFrames) /\ user \in Users
      /\ stream \in [Openings -> Streams] /\ StreamsKept
      /\ toDaemon \in Seq(Messages)
  BY ClientTypes
<1>1. CASE OpenStream
  <2>1. /\ UNCHANGED <<download, toDaemon, toClient>>
        /\ opener' = early /\ early' = << >>
        /\ user' = [user EXCEPT !.pc = "bound", !.opens = @ + 1]
        /\ stream' = [stream EXCEPT ![user.opens + 1].open = TRUE]
    BY <1>1 DEF OpenStream, daemonVars
  <2>2. user.opens + 1 \in Nat
    BY <1>0 DEF Users
  <2>3. user' \in Users /\ user'.acked = user.acked /\ user'.offset = user.offset
    BY <1>0, <2>1, <2>2 DEF Users
  <2>4. stream' \in [Openings -> Streams] /\ StreamsKept'
    <3>1. CASE user.opens + 1 \in Openings
      <4>1. StreamKept([stream[user.opens + 1] EXCEPT !.open = TRUE])
        BY <3>1, ClientTypes, OpenKept
      <4>2. stream' = [stream EXCEPT ![user.opens + 1] =
                          [stream[user.opens + 1] EXCEPT !.open = TRUE]]
        BY <2>1
      <4>. QED
        BY <1>0, <4>1, <4>2, OneStream
    <3>2. CASE user.opens + 1 \notin Openings
      <4>1. stream' = stream
        BY <1>0, <2>1, <3>2
      <4>. QED
        BY <1>0, <4>1 DEF StreamsKept
    <3>. QED
      BY <3>1, <3>2
  <2>. QED
    BY <1>0, <2>1, <2>3, <2>4, ClientOnly
<1>2. CASE StartStream
  <2>1. UNCHANGED <<download, toClient, early, opener, stream>>
    BY <1>2 DEF StartStream, daemonVars, clientVars
  <2>2. user' \in Users /\ user'.acked = user.acked /\ user'.offset = user.offset
    BY <1>0, <1>2 DEF StartStream, Users
  <2>3. StreamsKept'
    BY <1>0, <2>1 DEF StreamsKept
  <2>4. CASE toDaemon' = toDaemon
    BY <1>0, <2>1, <2>2, <2>3, <2>4, ClientOnly
  <2>5. CASE toDaemon' = Append(toDaemon, Signal("start"))
    <3>1. Signal("start") \in Messages /\ Signal("start").type # "ack"
      BY DEF Signal, Messages
    <3>2. toDaemon' \in Seq(Messages)
      BY <1>0, <2>5, <3>1, Appended
    <3>3. StreamTypes'
      BY <1>0, <2>1, <2>2, <3>2 DEF StreamInv, StreamTypes
    <3>4. AcksInOrder'
      BY <2>1, <2>2, <2>5, <3>1, AcksSignal DEF StreamInv
    <3>. QED
      BY <2>3, <3>3, <3>4 DEF StreamInv
  <2>. QED
    BY <1>2, <2>4, <2>5 DEF StartStream
<1>. QED
  BY <1>1, <1>2

\* The user takes a frame: the rest of the state is left alone.
LEMMA TakeKept ==
    ASSUME StreamInv, NEW frame, NEW u, Take(frame, u)
    PROVE  /\ UNCHANGED <<download, toClient, early, opener>> /\ user' = u
           /\ stream' \in [Openings -> Streams] /\ StreamsKept'
<1>0. stream \in [Openings -> Streams] /\ StreamsKept
  BY ClientTypes
<1>1. UNCHANGED <<download, toClient, early, opener>> /\ user' = u
  BY DEF Take, daemonVars, clientVars
<1>. DEFINE j == user.opens
<1>2. /\ stream[j].hand = frame /\ frame # NoFrame /\ ~stream[j].given
      /\ stream' = [stream EXCEPT ![j].given = TRUE,
                                  ![j].taken = IF IsOutput(frame) THEN @ + 1 ELSE @]
  BY DEF Take
<1>. HIDE DEF j
<1>3. CASE j \in Openings
  <2>. DEFINE t == [stream[j] EXCEPT !.given = TRUE,
                        !.taken = IF IsOutput(stream[j].hand) THEN @ + 1 ELSE @]
  <2>1. StreamKept(t)
    BY <1>2, <1>3, ClientTypes, TakenKept
  <2>2. stream' = [stream EXCEPT ![j] = t]
    BY <1>0, <1>2, <1>3 DEF Streams
  <2>. HIDE DEF t
  <2>. QED
    BY <1>0, <1>1, <2>1, <2>2, OneStream
<1>4. CASE j \notin Openings
  <2>1. stream' = stream
    BY <1>0, <1>2, <1>4
  <2>. QED
    BY <1>0, <1>1, <2>1 DEF StreamsKept
<1>. QED
  BY <1>3, <1>4

\* The user takes a frame and acknowledges nothing.
LEMMA TakeSteps ==
    ASSUME StreamInv, NEW frame, NEW u, Take(frame, u), toDaemon' = toDaemon,
           u \in Users, u.acked = user.acked, u.offset = user.offset
    PROVE  StreamInv'
<1>1. /\ UNCHANGED <<download, toClient, early, opener>> /\ user' = u
      /\ stream' \in [Openings -> Streams] /\ StreamsKept'
  BY TakeKept
<1>2. /\ toClient \in Seq(WireFrames) /\ early \in Seq(WireFrames)
      /\ opener \in Seq(WireFrames)
  BY ClientTypes
<1>. QED
  BY <1>1, <1>2, ClientOnly

\* The user reads its stream.
LEMMA UserSteps ==
    ASSUME StreamInv, AwaitReady \/ ReceiveOutput \/ ReceiveEnd \/ ReceiveData
    PROVE  StreamInv'
<1>0. user \in Users /\ user.offset \in Nat /\ user.acked \in Nat
      /\ toDaemon \in Seq(Messages) /\ StreamTypes /\ AcksInOrder
  BY ClientTypes DEF StreamInv, Users
<1>. DEFINE frame == stream[user.opens].hand
<1>1. CASE AwaitReady
  <2>. DEFINE u == [user EXCEPT !.pc = IF frame.type = "ready" THEN "receive" ELSE "close"]
  <2>1. Take(frame, u) /\ toDaemon' = toDaemon
    BY <1>1 DEF AwaitReady
  <2>2. u \in Users /\ u.acked = user.acked /\ u.offset = user.offset
    BY <1>0 DEF Users
  <2>. QED
    BY <2>1, <2>2, TakeSteps
<1>2. CASE ReceiveOutput
  <2>. DEFINE u == [user EXCEPT !.pc =
                      IF frame.type \in {"closed", "synclost", "overrun"} THEN "close" ELSE @]
  <2>1. Take(frame, u) /\ toDaemon' = toDaemon
    BY <1>2 DEF ReceiveOutput
  <2>2. u \in Users /\ u.acked = user.acked /\ u.offset = user.offset
    BY <1>0 DEF Users
  <2>. QED
    BY <2>1, <2>2, TakeSteps
<1>3. CASE ReceiveEnd
  <2>. DEFINE u == [user EXCEPT !.pc = "close", !.failed =
                      IF frame.type # "finish" THEN "refused"
                      ELSE IF frame.n # user.offset THEN "order" ELSE "complete"]
  <2>1. Take(frame, u) /\ toDaemon' = toDaemon
    BY <1>3 DEF ReceiveEnd
  <2>2. u \in Users /\ u.acked = user.acked /\ u.offset = user.offset
    BY <1>0 DEF Users
  <2>. QED
    BY <2>1, <2>2, TakeSteps
<1>4. CASE ReceiveData
  <2>. DEFINE next == user.offset + 1
              acks == AckWhen = "chunk" \/ next - user.acked >= Window
  <2>1. CASE frame.n # user.offset
    <3>. DEFINE u == [user EXCEPT !.pc = "close", !.failed = "order"]
    <3>1. Take(frame, u) /\ toDaemon' = toDaemon
      BY <1>4, <2>1 DEF ReceiveData
    <3>2. u \in Users /\ u.acked = user.acked /\ u.offset = user.offset
      BY <1>0 DEF Users
    <3>. QED
      BY <3>1, <3>2, TakeSteps
  <2>2. CASE ~(frame.n # user.offset)
    <3>. DEFINE u == [user EXCEPT !.offset = next, !.acked = IF acks THEN next ELSE @]
    <3>1. /\ Take(frame, u)
          /\ toDaemon' = IF acks THEN Append(toDaemon, Ack(next, next - user.acked))
                         ELSE toDaemon
      BY <1>4, <2>2 DEF ReceiveData
    <3>2. next \in Nat /\ user.offset =< next
      BY <1>0
    <3>. HIDE DEF next, acks
    <3>3. /\ u \in Users /\ u.offset = next
          /\ u.acked = IF acks THEN next ELSE user.acked
      BY <1>0, <3>2 DEF Users
    <3>. HIDE DEF u, frame
    <3>4. /\ UNCHANGED <<download, toClient, early, opener>> /\ user' = u
          /\ stream' \in [Openings -> Streams] /\ StreamsKept'
      BY <3>1, TakeKept
    <3>5. toDaemon' \in Seq(Messages) /\ AcksInOrder'
      <4>1. CASE acks
        <5>1. /\ toDaemon' = Append(toDaemon, Ack(next, next - user.acked))
              /\ user'.offset = next /\ user'.acked = next /\ download' = download
          BY <3>1, <3>3, <3>4, <4>1
        <5>2. AcksInOrder' /\ Ack(next, next - user.acked) \in Messages
          BY <1>0, <3>2, <5>1, AcksAppend
        <5>. QED
          BY <1>0, <5>1, <5>2, AppendProperties
      <4>2. CASE ~acks
        <5>1. /\ toDaemon' = toDaemon /\ download' = download
              /\ user'.offset = next /\ user'.acked = user.acked
          BY <3>1, <3>3, <3>4, <4>2
        <5>2. user'.acked =< user'.offset
          BY <1>0, <3>2, <5>1 DEF AcksInOrder
        <5>3. Granted' = Granted
          BY <5>1 DEF Granted
        <5>4. AcksInOrder'
          BY <1>0, <5>1, <5>2, <5>3 DEF AcksInOrder
        <5>. QED
          BY <1>0, <5>1, <5>4
      <4>. QED
        BY <4>1, <4>2
    <3>6. StreamTypes'
      BY <1>0, <3>3, <3>4, <3>5 DEF StreamTypes
    <3>. QED
      BY <3>4, <3>5, <3>6 DEF StreamInv
  <2>. QED
    BY <2>1, <2>2
<1>. QED
  BY <1>1, <1>2, <1>3, <1>4

\* The user leaves its stream.
LEMMA LeaveSteps ==
    ASSUME StreamInv, Leave \/ CloseStream \/ StopStream
    PROVE  StreamInv'
<1>0. /\ toClient \in Seq(WireFrames) /\ early \in Seq(WireFrames)
      /\ opener \in Seq(WireFrames) /\ << >> \in Seq(WireFrames) /\ user \in Users
      /\ stream \in [Openings -> Streams] /\ StreamsKept
      /\ toDaemon \in Seq(Messages) /\ StreamTypes /\ AcksInOrder
  BY ClientTypes DEF StreamInv
<1>1. /\ UNCHANGED <<download, toClient, opener>>
      /\ early' \in {early, << >>}
  BY DEF Leave, CloseStream, StopStream, daemonVars, clientVars
<1>2. user' \in Users /\ user'.acked = user.acked /\ user'.offset = user.offset
  BY <1>0 DEF Leave, CloseStream, StopStream, Users
<1>3. stream' \in [Openings -> Streams] /\ StreamsKept'
  <2>1. CASE stream' = stream
    BY <1>0, <2>1 DEF StreamsKept
  <2>2. CASE stream' = [stream EXCEPT ![user.opens] = ShutStream(@)]
    <3>1. CASE user.opens \in Openings
      <4>1. StreamKept(ShutStream(stream[user.opens]))
        BY <3>1, ClientTypes, ShutKept
      <4>2. stream' = [stream EXCEPT ![user.opens] = ShutStream(stream[user.opens])]
        BY <2>2
      <4>. QED
        BY <1>0, <4>1, <4>2, OneStream
    <3>2. CASE user.opens \notin Openings
      <4>1. stream' = stream
        BY <1>0, <2>2, <3>2
      <4>. QED
        BY <2>1, <4>1
    <3>. QED
      BY <3>1, <3>2
  <2>. QED
    BY <2>1, <2>2 DEF Leave, CloseStream, StopStream
<1>4. CASE toDaemon' = toDaemon
  <2>1. early' \in Seq(WireFrames)
    BY <1>0, <1>1
  <2>. QED
    BY <1>0, <1>1, <1>2, <1>3, <1>4, <2>1, ClientOnly
<1>5. ASSUME NEW type \in {"stop", "cancel"}, toDaemon' = Append(toDaemon, Signal(type))
      PROVE  StreamInv'
  <2>1. Signal(type) \in Messages /\ Signal(type).type # "ack"
    BY <1>5 DEF Signal, Messages
  <2>2. toDaemon' \in Seq(Messages)
    BY <1>0, <1>5, <2>1, AppendProperties
  <2>3. StreamTypes'
    BY <1>0, <1>1, <1>2, <1>3, <2>2 DEF StreamTypes
  <2>4. AcksInOrder'
    BY <1>0, <1>1, <1>2, <1>5, <2>1, AcksSignal
  <2>. QED
    BY <1>3, <2>3, <2>4 DEF StreamInv
<1>. QED
  BY <1>4, <1>5 DEF Leave, CloseStream, StopStream

-----------------------------------------------------------------------------
(* The theorems.                                                           *)

\* A resource that has just been opened satisfies the invariant.
LEMMA InitStreams == StreamInit => StreamInv
<1>. SUFFICES ASSUME StreamInit PROVE StreamInv
  OBVIOUS
<1>1. << >> \in Seq(Messages) /\ << >> \in Seq(WireFrames) /\ << >> \in Seq(Frames)
      /\ Window \in Nat /\ 0 \in Nat
  BY EmptySeq, StreamAssumption
<1>2. /\ download \in Downloads /\ download.offset = 0 /\ download.credit = Window
      /\ download.acks = << >>
  BY <1>1 DEF StreamInit, Downloads
<1>3. user \in Users /\ user.offset = 0 /\ user.acked = 0
  BY <1>1 DEF StreamInit, NoUser, Users
<1>4. StreamKept(NoStream)
  <2>1. NoFrame \in Frames /\ ~Counts(NoFrame) /\ ~IsOutput(NoFrame)
    BY DEF NoFrame, Frame, Frames, Counts, IsOutput
  <2>2. NoStream \in Streams
    BY <1>1, <2>1 DEF NoStream, Streams
  <2>3. /\ NoStream.queue = << >> /\ NoStream.hand = NoFrame /\ ~NoStream.given
        /\ NoStream.retained = 0 /\ NoStream.offered = 0 /\ NoStream.taken = 0
        /\ NoStream.lost = 0
    BY DEF NoStream
  <2>4. InHand(NoStream) = 0 /\ Untaken(NoStream) = 0
    BY <2>1, <2>3 DEF InHand, Untaken
  <2>5. RetainedKept(NoStream) /\ LostKept(NoStream) /\ Tidy(NoStream)
    BY <2>3, <2>4, CountTypes DEF RetainedKept, LostKept, Tidy
  <2>. QED
    BY <2>2, <2>5 DEF StreamKept
<1>5. StreamsKept /\ stream \in [Openings -> Streams]
  BY <1>4 DEF StreamInit, StreamsKept, StreamKept
<1>6. StreamTypes
  BY <1>1, <1>2, <1>3, <1>5 DEF StreamInit, StreamTypes
<1>7. AcksInOrder
  BY <1>1, <1>2, <1>3 DEF StreamInit, AcksInOrder, Granted
<1>. QED
  BY <1>5, <1>6, <1>7 DEF StreamInv

\* The types, the counts of the streams and the order of the acknowledgements hold
\* together in every reachable state of the channel.
THEOREM StreamInvariant == StreamSpec => []StreamInv
<1>1. StreamInv /\ [StreamNext]_streamVars => StreamInv'
  <2>. SUFFICES ASSUME StreamInv, [StreamNext]_streamVars PROVE StreamInv'
    OBVIOUS
  <2>1. CASE UNCHANGED streamVars
    <3>1. UNCHANGED <<download, toDaemon, toClient, early, opener, stream, user>>
      BY <2>1 DEF streamVars, daemonVars, clientVars
    <3>. QED
      BY <3>1 DEF StreamInv, StreamTypes, StreamsKept, AcksInOrder, Granted
  <2>2. CASE SendData \/ TakeAck \/ SendFinish \/ ReleaseFileTransfer
    BY <2>2, DownloadSteps
  <2>3. CASE \/ PublishRaw \/ CloseRaw
             \/ \E i \in Openings : ReceiveRaw(i) \/ SendRaw(i) \/ ClearRaw(i)
    BY <2>3, RawSteps
  <2>4. CASE DaemonReads
    BY <2>4, DaemonSteps
  <2>5. CASE ClientReads \/ SendEarly
    BY <2>5, ReadSteps
  <2>6. CASE \E j \in Openings : NextFrame(j) \/ ReleaseFrame(j)
    BY <2>6, StreamSteps
  <2>7. CASE OpenStream \/ StartStream
    BY <2>7, OpenSteps
  <2>8. CASE AwaitReady \/ ReceiveOutput \/ ReceiveData \/ ReceiveEnd
    BY <2>8, UserSteps
  <2>9. CASE Leave \/ CloseStream \/ StopStream
    BY <2>9, LeaveSteps
  <2>. QED
    BY <2>1, <2>2, <2>3, <2>4, <2>5, <2>6, <2>7, <2>8, <2>9 DEF StreamNext
<1>. QED
  BY <1>1, InitStreams, PTL DEF StreamSpec

\* The daemon is never further ahead of the acknowledgements than its window,
\* however many of them are on their way or refused (file_transfer.go 113-140,
\* 280-300).
THEOREM WindowIsHeld == StreamSpec => []WindowHeld
<1>1. StreamInv => WindowHeld
  <2>. SUFFICES ASSUME StreamInv PROVE WindowHeld
    OBVIOUS
  <2>1. /\ download.offset \in Nat /\ download.credit \in Nat /\ user.acked \in Nat
        /\ Window \in Nat
    BY AckNumbers DEF StreamInv
  <2>2. download.offset + download.credit =< user.acked + Window
    BY DEF StreamInv, AcksInOrder, Granted
  <2>. QED
    BY <2>1, <2>2 DEF WindowHeld
<1>. QED
  BY <1>1, StreamInvariant, PTL

\* The places of a stream are those of its queue and of the frame in hand, for
\* every queue length and through overflow, errors and closing (client.go 200-345).
THEOREM PlacesReturned == StreamSpec => []RetainedExact
<1>1. StreamInv => RetainedExact
  BY DEF StreamInv, StreamsKept, StreamKept, RetainedKept, RetainedExact, InHand
<1>. QED
  BY <1>1, StreamInvariant, PTL

\* Output that a living stream drops is counted as lost (client.go 214-260).
THEOREM LossesCounted == StreamSpec => []SyncLostExact
<1>1. StreamInv => SyncLostExact
  BY DEF StreamInv, StreamsKept, StreamKept, LostKept, SyncLostExact, Untaken
<1>. QED
  BY <1>1, StreamInvariant, PTL
=============================================================================
