------------------------- MODULE HistoryFileProofs -------------------------
(***************************************************************************)
(* Theorems about HistoryFile, for every set of line sizes, every block    *)
(* size and limit, and any number of calls and crashes: what recovery      *)
(* reads, what compaction leaves, and what a reader and a Sync may rely on.*)
(*                                                                         *)
(* The index is what a loop over the records of a file computes.  Facts    *)
(* about such a loop are proved by induction on the number of its turns,   *)
(* in the form of Induction below: over a set of numbers.                  *)
(***************************************************************************)
EXTENDS HistoryFile, FiniteSetTheorems, SequenceTheorems, WellFoundedInduction, TLAPS

Records == [kind : {"lines", "boundary", "gap"}, from : Nat, count : Nat, size : Nat]
Files == [base : Nat, records : Seq(Records)]
Blocks == [at : Nat, first : Nat, count : Nat, size : Nat]
Indexes == [base : Nat, blocks : Seq(Blocks), gaps : Seq(Nat), lines : Nat,
            records : Nat, end : Nat, ok : BOOLEAN]

-----------------------------------------------------------------------------
(* The inductive invariant.                                                *)

\* The bytes of the first n blocks, with their headers.
BlockBytes(blocks) ==
    LET bytes[n \in 0..Len(blocks)] ==
            IF n = 0 THEN 0 ELSE bytes[n - 1] + 1 + blocks[n].size
    IN bytes

\* The lines in front of block i, and in front of the end.
FirstOf(x, i) == IF i =< Len(x.blocks) THEN x.blocks[i].first ELSE x.lines

\* The blocks follow each other and none is empty, the gaps are in order and not
\* beyond the last line, and the file has room for them all.
Sound(x) ==
    /\ x \in Indexes
    /\ x.ok
    /\ FirstOf(x, 1) = 0
    /\ \A i \in 1..Len(x.blocks) :
          FirstOf(x, i + 1) = x.blocks[i].first + x.blocks[i].count
    /\ \A i \in 1..Len(x.blocks) : x.blocks[i].count > 0 /\ x.blocks[i].size > 0
    /\ \A i, j \in 1..Len(x.gaps) : i < j => x.gaps[i] < x.gaps[j]
    /\ \A i \in 1..Len(x.gaps) : x.gaps[i] =< x.lines
    /\ BlockBytes(x.blocks)[Len(x.blocks)] + Len(x.gaps) =< x.end

\* x indexes the first n records of the file, each at its place.
Describes(x, file, n) ==
    /\ Sound(x)
    /\ x.base = file.base
    /\ x.records = n
    /\ \A i \in 1..Len(x.blocks) :
          /\ x.blocks[i].at \in 1..n
          /\ file.records[x.blocks[i].at] =
                Record("lines", x.base + x.blocks[i].first, x.blocks[i].count,
                       x.blocks[i].size)
    /\ \A k \in 1..n : file.records[k].kind = "gap"
          => file.records[k].from = file.base + file.records[k].count

\* Recovery accepts the file, whole or cut off behind any of its records.
WholeFile(file) ==
    /\ file \in Files
    /\ \A n \in 0..Len(file.records) : Describes(Recovery(file)[n], file, n)

Names == {"none", "AppendLines", "AppendBoundary", "AppendGap", "PruneRetention",
          "Sync", "Close", "Open"}
Calm == {"idle", "append", "flush", "record", "fsync", "shut", "limit"}
Pcs == {"idle", "append", "flush", "record", "fsync", "shut", "limit", "temp",
        "close", "rename", "reopen", "syncdir"}
Calls == [name : Names, pc : Pcs, size : Nat, start : Nat,
          then : {"return", "append", "record", "limit", "fsync", "shut"}]

HistoryTypeOK ==
    /\ disk \in Files
    /\ durable \in 0..Len(disk.records)
    /\ older \in SUBSET Files
    /\ temp \in Files \cup {NoFile}
    /\ fileState \in {"open", "stale", "nil", "down"}
    /\ index \in Indexes
    /\ unflushed \in [count : Nat, bytes : Nat]
    /\ epoch \in Nat
    /\ call \in Calls
    /\ overdue \in BOOLEAN
    /\ secured \in Nat
    /\ frozen \in [epoch : Nat \cup {-1}, base : Nat, count : Nat]

FilesWhole ==
    /\ WholeFile(disk)
    /\ temp # NoFile => WholeFile(temp)
    /\ \A file \in older : WholeFile(file)

\* The index is of the file that is open; while a compaction is under way, the
\* new index is of the new file, and it fits.
IndexInStep ==
    /\ Sound(index)
    /\ fileState \in {"open", "stale"} \/ Doing("rename") => index = Recovered(disk)
    /\ call.pc \in {"temp", "close", "rename", "reopen"} =>
          /\ call.start \in 0..Len(index.blocks)
          /\ Reindexed(index, call.start).end =< FileLimit
    /\ call.pc \in {"close", "rename"} =>
          temp # NoFile /\ Recovered(temp) = Reindexed(index, call.start)
    /\ Doing("temp") => fileState # "nil"
    /\ Doing("close") => fileState = "open"
    /\ Doing("rename") => fileState = "nil"
    /\ Doing("reopen") => fileState = "nil" /\ Recovered(disk) = Reindexed(index, call.start)
    /\ Doing("syncdir") => fileState = "open" /\ index.end =< FileLimit
    /\ fileState = "down" => call.pc = "idle"

\* The limit is kept but by a call that is checking it.
LimitInStep ==
    ~overdue /\ fileState = "open" /\ call.pc \notin {"limit", "temp", "close"}
        => index.end =< FileLimit

HistoryInv == HistoryTypeOK /\ FilesWhole /\ IndexInStep /\ LimitInStep

\* A pending line has a byte at least, and so has the one that is being appended.
PendingInStep ==
    /\ unflushed.count =< unflushed.bytes
    /\ Doing("append") \/ call.then = "append" => call.size > 0

\* Only a failed rollback leaves bytes behind the records of a file that is open,
\* and only over such bytes is a record written that does not cover them.
TailInStep ==
    /\ tail \in [bytes : Nat, junk : BOOLEAN]
    /\ tail.junk => unrolled
    /\ fileState # "down" /\ tail.bytes > 0 => unrolled

\* A compaction that drops lines advances the epoch one step after the index,
\* unless it fails between the two.
FrozenInStep ==
    /\ frozen.epoch =< epoch
    /\ ~shifted /\ frozen.epoch = epoch /\ fileState # "down" =>
          \/ Doing("syncdir") /\ call.start > 0
          \/ frozen.base = index.base /\ frozen.count =< LineCount

\* What Sync has secured is in the part of the file that cannot be lost, and in
\* every file that an unsynced rename may bring back.
SyncedInStep ==
    /\ secured =< disk.base + Recovery(disk)[durable].lines
    /\ \A file \in older : secured =< LastLine(file)

-----------------------------------------------------------------------------
(* Induction.                                                              *)

\* A nonempty set of naturals has a least element.
LEMMA LeastExists ==
    ASSUME NEW S \in SUBSET Nat, S # {}
    PROVE  \E s \in S : \A t \in S : s <= t
<1> DEFINE R == OpToRel(<, Nat)
<1>1. IsWellFoundedOn(R, Nat)
  BY NatLessThanWellFounded
<1>2. PICK x \in S : \A y \in S : ~ (<<y, x>> \in R)
  BY <1>1, WFMin
<1>3. \A y \in S : <<y, x>> \in R <=> y < x
  BY DEF OpToRel
<1> HIDE DEF R
<1>4. \A y \in S : ~(y < x)
  BY <1>2, <1>3, Zenon
<1>5. QED
  BY <1>4

\* What holds of no turn of a loop, and of a turn when it holds of the turn
\* before, holds of all its turns.
LEMMA Induction ==
    ASSUME NEW L \in Nat, NEW T, 0 \in T,
           \A n \in 1..L : n - 1 \in T => n \in T
    PROVE  \A n \in 0..L : n \in T
<1> DEFINE F == {n \in 0..L : n \notin T}
<1>1. SUFFICES ASSUME F # {} PROVE FALSE
  OBVIOUS
<1>2. F \in SUBSET Nat
  OBVIOUS
<1>3. PICK s \in F : \A t \in F : s <= t
  BY <1>1, <1>2, LeastExists
<1>4. s \in 1..L /\ s \notin T
  BY <1>3
<1>5. s - 1 \in 0..L /\ s - 1 \notin F
  BY <1>3, <1>4
<1>6. s - 1 \in T
  BY <1>5
<1>7. QED
  BY <1>4, <1>6

\* f is a run of a loop of L turns: step[n] is what turn n does to the state.
IsRun(f, L, S, e, step) ==
    /\ f \in [0..L -> S]
    /\ f[0] = e
    /\ \A n \in 1..L : f[n] = step[n][f[n - 1]]

\* A loop has a run.
LEMMA LoopRuns ==
    ASSUME NEW L \in Nat, NEW S, NEW e \in S, NEW step \in [1..L -> [S -> S]]
    PROVE  \E f : IsRun(f, L, S, e, step)
<1> DEFINE Run(k, f) == f[0] = e /\ \A n \in 1..k : f[n] = step[n][f[n - 1]]
           T == {k \in 0..L : \E f \in [0..k -> S] : Run(k, f)}
<1>1. 0 \in T
  <2> DEFINE f0 == [n \in 0..0 |-> e]
  <2>1. f0 \in [0..0 -> S] /\ Run(0, f0)
    OBVIOUS
  <2> HIDE DEF f0, Run
  <2>2. \E f \in [0..0 -> S] : Run(0, f)
    BY <2>1
  <2>3. QED
    BY <2>2
<1>2. ASSUME NEW k \in 1..L, k - 1 \in T PROVE k \in T
  <2>1. PICK f \in [0..(k - 1) -> S] : Run(k - 1, f)
    BY <1>2
  <2> DEFINE g == [n \in 0..k |-> IF n < k THEN f[n] ELSE step[k][f[k - 1]]]
  <2>2. f[k - 1] \in S /\ step[k] \in [S -> S]
    BY <2>1
  <2>3. step[k][f[k - 1]] \in S
    BY <2>2
  <2>4. g \in [0..k -> S]
    BY <2>1, <2>3
  <2>5. g[0] = e
    BY <2>1
  <2>6. ASSUME NEW n \in 1..k PROVE g[n] = step[n][g[n - 1]]
    <3>1. g[n - 1] = f[n - 1]
      OBVIOUS
    <3>2. CASE n < k
      BY <3>1, <3>2, <2>1
    <3>3. CASE n = k
      BY <3>1, <3>3
    <3>4. QED
      BY <3>2, <3>3
  <2>7. Run(k, g)
    BY <2>5, <2>6
  <2> HIDE DEF g, Run
  <2>8. \E h \in [0..k -> S] : Run(k, h)
    BY <2>4, <2>7
  <2>9. QED
    BY <2>8
<1>3. \A k \in 0..L : k \in T
  <2> HIDE DEF T
  <2>1. QED
    BY <1>1, <1>2, Induction
<1>4. L \in T
  BY <1>3
<1>5. PICK f \in [0..L -> S] : Run(L, f)
  BY <1>4
<1>6. QED
  BY <1>5 DEF IsRun

-----------------------------------------------------------------------------
(* Recovery.                                                               *)

\* The fields of an index.
LEMMA IndexFields ==
    ASSUME NEW x \in Indexes
    PROVE  /\ x.base \in Nat /\ x.blocks \in Seq(Blocks) /\ x.gaps \in Seq(Nat)
           /\ x.lines \in Nat /\ x.records \in Nat /\ x.end \in Nat
BY DEF Indexes

\* The fields of a record.
LEMMA RecordFields ==
    ASSUME NEW r \in Records
    PROVE  /\ r.kind \in {"lines", "boundary", "gap"} /\ r.from \in Nat
           /\ r.count \in Nat /\ r.size \in Nat
BY DEF Records

\* No record, no line.
LEMMA EmptyIndexType ==
    ASSUME NEW base \in Nat
    PROVE  EmptyIndex(base) \in Indexes
BY DEF EmptyIndex, Indexes

\* A gap that has been noted is not noted again.
LEMMA AddGapOffsetType ==
    ASSUME NEW gaps \in Seq(Nat), NEW offset \in Nat
    PROVE  AddGapOffset(gaps, offset) \in Seq(Nat)
BY DEF AddGapOffset

\* The turn of recover for a block.
LEMMA IndexedLines ==
    ASSUME NEW x \in Indexes, NEW r \in Records, r.kind = "lines"
    PROVE  Indexed(x, r) =
            [base |-> x.base,
             blocks |-> Append(x.blocks, [at |-> x.records + 1, first |-> x.lines,
                                          count |-> r.count, size |-> r.size]),
             gaps |-> x.gaps, lines |-> x.lines + r.count, records |-> x.records + 1,
             end |-> x.end + 1 + r.size, ok |-> x.ok /\ Valid(x, r)]
BY DEF Indexed, Indexes, Records

\* The turn of recover for a boundary.
LEMMA IndexedBoundary ==
    ASSUME NEW x \in Indexes, NEW r \in Records, r.kind = "boundary"
    PROVE  Indexed(x, r) =
            [base |-> x.base, blocks |-> x.blocks, gaps |-> x.gaps,
             lines |-> x.lines, records |-> x.records + 1,
             end |-> x.end + 1 + r.size, ok |-> x.ok /\ Valid(x, r)]
BY DEF Indexed, Indexes, Records

\* The turn of recover for a gap.
LEMMA IndexedGap ==
    ASSUME NEW x \in Indexes, NEW r \in Records, r.kind = "gap"
    PROVE  Indexed(x, r) =
            [base |-> x.base, blocks |-> x.blocks,
             gaps |-> AddGapOffset(x.gaps, r.count),
             lines |-> x.lines, records |-> x.records + 1,
             end |-> x.end + 1 + r.size, ok |-> x.ok /\ Valid(x, r)]
BY DEF Indexed, Indexes, Records

\* A turn of recover leaves an index.
LEMMA IndexedType ==
    ASSUME NEW x \in Indexes, NEW r \in Records
    PROVE  Indexed(x, r) \in Indexes
<1>1. /\ x.base \in Nat /\ x.blocks \in Seq(Blocks) /\ x.gaps \in Seq(Nat)
      /\ x.lines \in Nat /\ x.records \in Nat /\ x.end \in Nat
  BY IndexFields
<1> DEFINE ok == x.ok /\ Valid(x, r)
<1>2. ok \in BOOLEAN
  OBVIOUS
<1>3. r.kind \in {"lines", "boundary", "gap"} /\ r.count \in Nat /\ r.size \in Nat
  BY RecordFields
<1>4. /\ x.lines + r.count \in Nat /\ x.records + 1 \in Nat
      /\ x.end + 1 + r.size \in Nat
  BY DEF Indexes, Records
<1>5. CASE r.kind = "lines"
  <2> DEFINE b == [at |-> x.records + 1, first |-> x.lines, count |-> r.count,
                   size |-> r.size]
  <2>1. b \in Blocks
    BY <1>1, <1>3, <1>4 DEF Blocks
  <2>2. Append(x.blocks, b) \in Seq(Blocks)
    BY <1>1, <2>1, AppendProperties
  <2> DEFINE bs == Append(x.blocks, b)
             y == [base |-> x.base, blocks |-> bs, gaps |-> x.gaps,
                   lines |-> x.lines + r.count, records |-> x.records + 1,
                   end |-> x.end + 1 + r.size, ok |-> ok]
  <2>3. Indexed(x, r) = y
    BY <1>5, IndexedLines, Zenon
  <2>4. bs \in Seq(Blocks)
    BY <2>2
  <2> HIDE DEF bs, ok
  <2>5. y \in Indexes
    BY <1>1, <1>2, <1>4, <2>4 DEF Indexes
  <2>6. QED
    BY <2>3, <2>5
<1>6. CASE r.kind = "boundary"
  <2> DEFINE y == [base |-> x.base, blocks |-> x.blocks, gaps |-> x.gaps,
                   lines |-> x.lines, records |-> x.records + 1,
                   end |-> x.end + 1 + r.size, ok |-> ok]
  <2>1. Indexed(x, r) = y
    BY <1>6, IndexedBoundary, Zenon
  <2> HIDE DEF ok
  <2>2. y \in Indexes
    BY <1>1, <1>2, <1>4 DEF Indexes
  <2>3. QED
    BY <2>1, <2>2
<1>7. CASE r.kind = "gap"
  <2>1. AddGapOffset(x.gaps, r.count) \in Seq(Nat)
    BY <1>1, <1>3, AddGapOffsetType
  <2> DEFINE gs == AddGapOffset(x.gaps, r.count)
             y == [base |-> x.base, blocks |-> x.blocks, gaps |-> gs,
                   lines |-> x.lines, records |-> x.records + 1,
                   end |-> x.end + 1 + r.size, ok |-> ok]
  <2>2. Indexed(x, r) = y
    BY <1>7, IndexedGap, Zenon
  <2>3. gs \in Seq(Nat)
    BY <2>1
  <2> HIDE DEF gs, ok
  <2>4. y \in Indexes
    BY <1>1, <1>2, <1>4, <2>3 DEF Indexes
  <2>5. QED
    BY <2>2, <2>4
<1>8. QED
  BY <1>3, <1>5, <1>6, <1>7

\* The loop of recover: its start, and its turns.
LEMMA RecoveryDef ==
    ASSUME NEW file \in Files
    PROVE  /\ Recovery(file) \in [0..Len(file.records) -> Indexes]
           /\ Recovery(file)[0] = EmptyIndex(file.base)
           /\ \A n \in 1..Len(file.records) :
                 Recovery(file)[n] = Indexed(Recovery(file)[n - 1], file.records[n])
<1> DEFINE L == Len(file.records)
           step == [n \in 1..L |-> [x \in Indexes |-> Indexed(x, file.records[n])]]
           Fixed(f) == f = [n \in 0..L |-> IF n = 0 THEN EmptyIndex(file.base)
                                           ELSE Indexed(f[n - 1], file.records[n])]
<1>1. /\ L \in Nat /\ EmptyIndex(file.base) \in Indexes
      /\ \A n \in 1..L : file.records[n] \in Records
  BY EmptyIndexType DEF Files
<1>2. step \in [1..L -> [Indexes -> Indexes]]
  BY <1>1, IndexedType
<1>3. PICK f \in [0..L -> Indexes] :
          f[0] = EmptyIndex(file.base) /\ \A n \in 1..L : f[n] = step[n][f[n - 1]]
  <2> DEFINE e == EmptyIndex(file.base)
  <2> HIDE DEF L, step, e
  <2>1. L \in Nat /\ e \in Indexes
    BY <1>1 DEF e
  <2>2. \E f : IsRun(f, L, Indexes, e, step)
    BY <2>1, <1>2, LoopRuns
  <2>3. QED
    BY <2>2 DEF e, IsRun
<1>4. \A n \in 1..L : f[n] = Indexed(f[n - 1], file.records[n])
  <2>1. \A n \in 1..L : f[n - 1] \in Indexes
    BY <1>1, <1>3
  <2>2. QED
    BY <1>3, <2>1
<1>5. Fixed(f)
  <2> HIDE DEF L, step
  <2>1. \A n \in 0..L : f[n] = IF n = 0 THEN EmptyIndex(file.base)
                               ELSE Indexed(f[n - 1], file.records[n])
    BY <1>1, <1>3, <1>4
  <2>2. QED
    BY <1>3, <2>1
<1>6. Recovery(file) = CHOOSE g : Fixed(g)
  BY DEF Recovery
<1>7. Fixed(Recovery(file))
  <2> HIDE DEF Fixed
  <2>1. QED
    BY <1>5, <1>6
<1> DEFINE R == Recovery(file)
<1> HIDE DEF R, step
<1>8. R = [n \in 0..L |-> IF n = 0 THEN EmptyIndex(file.base)
                          ELSE Indexed(R[n - 1], file.records[n])]
  BY <1>7 DEF R
<1>9. /\ DOMAIN R = 0..L
      /\ R[0] = EmptyIndex(file.base)
      /\ \A n \in 1..L : R[n] = Indexed(R[n - 1], file.records[n])
  <2> HIDE DEF L
  <2>1. DOMAIN R = 0..L
    BY <1>8
  <2>2. 0 \in 0..L /\ \A n \in 1..L : n \in 0..L /\ n # 0
    BY <1>1
  <2>3. QED
    BY <1>8, <2>1, <2>2
<1>10. \A n \in 0..L : R[n] \in Indexes
  <2> DEFINE T == {n \in 0..L : R[n] \in Indexes}
  <2>1. 0 \in T
    BY <1>1, <1>9
  <2>2. ASSUME NEW n \in 1..L, n - 1 \in T PROVE n \in T
    BY <1>1, <1>9, <2>2, IndexedType
  <2>3. QED
    <3> HIDE DEF T, L
    <3>1. \A n \in 0..L : n \in T
      BY <1>1, <2>1, <2>2, Induction
    <3>2. QED
      BY <3>1 DEF T
<1>11. R \in [0..L -> Indexes]
  <2> HIDE DEF L
  <2>1. R = [n \in 0..L |-> R[n]]
    BY <1>8, <1>9
  <2>2. QED
    BY <1>10, <2>1
<1>12. QED
  BY <1>9, <1>11 DEF R

\* Files that begin with the same records are recovered alike up to there.
LEMMA RecoveryPrefix ==
    ASSUME NEW f \in Files, NEW g \in Files, f.base = g.base, NEW n \in Nat,
           n =< Len(f.records), n =< Len(g.records),
           \A k \in 1..n : f.records[k] = g.records[k]
    PROVE  \A k \in 0..n : Recovery(f)[k] = Recovery(g)[k]
<1> DEFINE F == Recovery(f)
           G == Recovery(g)
           T == {k \in 0..n : F[k] = G[k]}
<1>1. /\ F[0] = EmptyIndex(f.base)
      /\ \A k \in 1..Len(f.records) : F[k] = Indexed(F[k - 1], f.records[k])
  BY RecoveryDef
<1>2. /\ G[0] = EmptyIndex(g.base)
      /\ \A k \in 1..Len(g.records) : G[k] = Indexed(G[k - 1], g.records[k])
  BY RecoveryDef
<1>3. Len(f.records) \in Nat /\ Len(g.records) \in Nat
  BY DEF Files
<1> HIDE DEF F, G
<1>4. 0 \in T
  BY <1>1, <1>2
<1>5. ASSUME NEW k \in 1..n, k - 1 \in T PROVE k \in T
  <2>1. k \in 1..Len(f.records) /\ k \in 1..Len(g.records)
    BY <1>3
  <2>2. F[k - 1] = G[k - 1]
    BY <1>5
  <2>3. QED
    BY <1>1, <1>2, <2>1, <2>2
<1>6. \A k \in 0..n : k \in T
  <2> HIDE DEF T
  <2>1. QED
    BY <1>4, <1>5, Induction
<1>7. QED
  BY <1>6 DEF F, G

\* The file with one record more.
Longer(file, r) == [file EXCEPT !.records = Append(@, r)]

\* A record at the end of a file.
LEMMA LongerFile ==
    ASSUME NEW file \in Files, NEW r \in Records
    PROVE  /\ Longer(file, r) \in Files
           /\ Longer(file, r).base = file.base
           /\ Len(Longer(file, r).records) = Len(file.records) + 1
           /\ Longer(file, r).records[Len(file.records) + 1] = r
           /\ \A k \in 1..Len(file.records) :
                 Longer(file, r).records[k] = file.records[k]
<1>1. file.base \in Nat /\ file.records \in Seq(Records)
  BY DEF Files
<1> DEFINE s == Append(file.records, r)
<1>2. /\ s \in Seq(Records) /\ Len(s) = Len(file.records) + 1
      /\ s[Len(file.records) + 1] = r
      /\ \A k \in 1..Len(file.records) : s[k] = file.records[k]
  BY <1>1, AppendProperties
<1> HIDE DEF s
<1>3. Longer(file, r) = [base |-> file.base, records |-> s]
  BY DEF Longer, Files, s
<1>4. QED
  BY <1>1, <1>2, <1>3 DEF Files

\* One record more is one turn more.
LEMMA RecoveryLonger ==
    ASSUME NEW file \in Files, NEW r \in Records
    PROVE  /\ \A k \in 0..Len(file.records) :
                 Recovery(Longer(file, r))[k] = Recovery(file)[k]
           /\ Recovered(Longer(file, r)) = Indexed(Recovered(file), r)
<1> DEFINE g == Longer(file, r)
           L == Len(file.records)
<1>1. /\ g \in Files /\ g.base = file.base /\ Len(g.records) = L + 1
      /\ g.records[L + 1] = r /\ \A k \in 1..L : g.records[k] = file.records[k]
  BY LongerFile
<1>2. L \in Nat
  BY DEF Files
<1> HIDE DEF g, L
<1>3. \A k \in 0..L : Recovery(g)[k] = Recovery(file)[k]
  <2>1. L =< Len(g.records) /\ L =< Len(file.records)
    BY <1>1, <1>2 DEF L
  <2>2. QED
    BY <1>1, <1>2, <2>1, RecoveryPrefix
<1>4. Recovery(g)[L + 1] = Indexed(Recovery(g)[L], r)
  <2>1. L + 1 \in 1..Len(g.records) /\ (L + 1) - 1 = L
    BY <1>1, <1>2
  <2>2. Recovery(g)[L + 1] = Indexed(Recovery(g)[(L + 1) - 1], g.records[L + 1])
    BY <1>1, <2>1, RecoveryDef
  <2>3. QED
    BY <1>1, <2>1, <2>2
<1>5. QED
  BY <1>1, <1>2, <1>3, <1>4 DEF Recovered, g, L

-----------------------------------------------------------------------------
(* The bytes of blocks.                                                    *)

\* The sum that BlockBytes computes, and its turns.
LEMMA BlockBytesDef ==
    ASSUME NEW bs \in Seq(Blocks)
    PROVE  /\ BlockBytes(bs) \in [0..Len(bs) -> Nat]
           /\ BlockBytes(bs)[0] = 0
           /\ \A n \in 1..Len(bs) :
                 BlockBytes(bs)[n] = BlockBytes(bs)[n - 1] + 1 + bs[n].size
<1> DEFINE L == Len(bs)
           step == [n \in 1..L |-> [x \in Nat |-> x + 1 + bs[n].size]]
           Fixed(f) == f = [n \in 0..L |-> IF n = 0 THEN 0
                                           ELSE f[n - 1] + 1 + bs[n].size]
<1>1. L \in Nat /\ \A n \in 1..L : bs[n] \in Blocks /\ bs[n].size \in Nat
  <2>1. L \in Nat /\ \A n \in 1..L : bs[n] \in Blocks
    OBVIOUS
  <2>2. QED
    BY <2>1 DEF Blocks
<1>2. step \in [1..L -> [Nat -> Nat]]
  BY <1>1
<1>3. PICK f : IsRun(f, L, Nat, 0, step)
  <2> HIDE DEF L, step
  <2>1. 0 \in Nat
    OBVIOUS
  <2>2. QED
    BY <1>1, <1>2, <2>1, LoopRuns
<1>4. /\ f \in [0..L -> Nat] /\ f[0] = 0
      /\ \A n \in 1..L : f[n] = f[n - 1] + 1 + bs[n].size
  <2>1. /\ f \in [0..L -> Nat] /\ f[0] = 0
        /\ \A n \in 1..L : f[n] = step[n][f[n - 1]]
    BY <1>3 DEF IsRun
  <2>2. \A n \in 1..L : f[n - 1] \in Nat
    <3> HIDE DEF L, step
    <3>1. \A n \in 1..L : n - 1 \in 0..L
      BY <1>1
    <3>2. QED
      BY <2>1, <3>1
  <2>3. QED
    BY <2>1, <2>2
<1>5. Fixed(f)
  <2> HIDE DEF L, step
  <2>1. \A n \in 0..L : f[n] = IF n = 0 THEN 0 ELSE f[n - 1] + 1 + bs[n].size
    BY <1>1, <1>4
  <2>2. QED
    BY <1>4, <2>1
<1>6. BlockBytes(bs) = CHOOSE g : Fixed(g)
  BY DEF BlockBytes
<1>7. Fixed(BlockBytes(bs))
  <2> HIDE DEF Fixed
  <2>1. QED
    BY <1>5, <1>6
<1> DEFINE R == BlockBytes(bs)
<1> HIDE DEF R, step
<1>8. R = [n \in 0..L |-> IF n = 0 THEN 0 ELSE R[n - 1] + 1 + bs[n].size]
  BY <1>7 DEF R
<1>9. /\ DOMAIN R = 0..L
      /\ R[0] = 0
      /\ \A n \in 1..L : R[n] = R[n - 1] + 1 + bs[n].size
  <2> HIDE DEF L
  <2>1. DOMAIN R = 0..L
    BY <1>8
  <2>2. 0 \in 0..L /\ \A n \in 1..L : n \in 0..L /\ n # 0
    BY <1>1
  <2>3. QED
    BY <1>8, <2>1, <2>2
<1>10. \A n \in 0..L : R[n] \in Nat
  <2> DEFINE T == {n \in 0..L : R[n] \in Nat}
  <2>1. 0 \in T
    BY <1>1, <1>9
  <2>2. ASSUME NEW n \in 1..L, n - 1 \in T PROVE n \in T
    <3>1. R[n - 1] \in Nat /\ bs[n].size \in Nat
      BY <1>1, <2>2
    <3>2. n \in 0..L /\ R[n] = R[n - 1] + 1 + bs[n].size
      BY <1>1, <1>9
    <3>3. R[n] \in Nat
      BY <3>1, <3>2
    <3>4. QED
      BY <3>2, <3>3
  <2>3. QED
    <3> HIDE DEF T, L
    <3>1. \A n \in 0..L : n \in T
      BY <1>1, <2>1, <2>2, Induction
    <3>2. QED
      BY <3>1 DEF T
<1>11. R \in [0..L -> Nat]
  <2> HIDE DEF L
  <2>1. R = [n \in 0..L |-> R[n]]
    BY <1>8, <1>9
  <2>2. QED
    BY <1>10, <2>1
<1>12. QED
  BY <1>9, <1>11 DEF R

\* Blocks of the same sizes have the same bytes.
LEMMA BlockBytesPrefix ==
    ASSUME NEW bs \in Seq(Blocks), NEW cs \in Seq(Blocks), NEW n \in Nat,
           n =< Len(bs), n =< Len(cs), \A k \in 1..n : bs[k].size = cs[k].size
    PROVE  \A k \in 0..n : BlockBytes(bs)[k] = BlockBytes(cs)[k]
<1> DEFINE F == BlockBytes(bs)
           G == BlockBytes(cs)
           T == {k \in 0..n : F[k] = G[k]}
<1>1. F[0] = 0 /\ \A k \in 1..Len(bs) : F[k] = F[k - 1] + 1 + bs[k].size
  BY BlockBytesDef
<1>2. G[0] = 0 /\ \A k \in 1..Len(cs) : G[k] = G[k - 1] + 1 + cs[k].size
  BY BlockBytesDef
<1> HIDE DEF F, G
<1>3. 0 \in T
  BY <1>1, <1>2
<1>4. ASSUME NEW k \in 1..n, k - 1 \in T PROVE k \in T
  <2>1. k \in 1..Len(bs) /\ k \in 1..Len(cs)
    OBVIOUS
  <2>2. F[k - 1] = G[k - 1]
    BY <1>4
  <2>3. QED
    BY <1>1, <1>2, <2>1, <2>2
<1>5. \A k \in 0..n : k \in T
  <2> HIDE DEF T
  <2>1. QED
    BY <1>3, <1>4, Induction
<1>6. QED
  BY <1>5 DEF F, G

\* A block more is its bytes more.
LEMMA BlockBytesAppend ==
    ASSUME NEW bs \in Seq(Blocks), NEW b \in Blocks
    PROVE  BlockBytes(Append(bs, b))[Len(bs) + 1]
              = BlockBytes(bs)[Len(bs)] + 1 + b.size
<1> DEFINE cs == Append(bs, b)
           L == Len(bs)
<1>1. /\ cs \in Seq(Blocks) /\ Len(cs) = L + 1 /\ cs[L + 1] = b
      /\ \A k \in 1..L : cs[k] = bs[k]
  BY AppendProperties
<1>2. L \in Nat /\ L =< Len(bs)
  OBVIOUS
<1> HIDE DEF cs, L
<1>3. BlockBytes(bs)[L] = BlockBytes(cs)[L]
  <2>1. L =< Len(cs) /\ \A k \in 1..L : bs[k].size = cs[k].size
    BY <1>1, <1>2
  <2>2. \A k \in 0..L : BlockBytes(bs)[k] = BlockBytes(cs)[k]
    BY <1>1, <1>2, <2>1, BlockBytesPrefix
  <2>3. QED
    BY <1>2, <2>2
<1>4. L + 1 \in 1..Len(cs) /\ (L + 1) - 1 = L
  BY <1>1, <1>2
<1>5. BlockBytes(cs)[L + 1] = BlockBytes(cs)[(L + 1) - 1] + 1 + cs[L + 1].size
  BY <1>1, <1>4, BlockBytesDef
<1>6. QED
  BY <1>1, <1>3, <1>4, <1>5 DEF cs, L

-----------------------------------------------------------------------------
(* A record that fits keeps the index sound.                               *)

\* Recovery accepts the record, and it comes where its ghost says: a block behind
\* the last line, a gap not before the last gap.
Fits(x, r) ==
    /\ r \in Records
    /\ Valid(x, r)
    /\ r.kind = "lines" => r.from = x.base + x.lines
    /\ r.kind = "gap" => /\ r.from = x.base + r.count
                         /\ \A i \in 1..Len(x.gaps) : x.gaps[i] =< r.count

\* The index after a block.
LEMMA SoundLines ==
    ASSUME NEW x, Sound(x), NEW r, Fits(x, r), r.kind = "lines"
    PROVE  Sound(Indexed(x, r))
<1> DEFINE b == [at |-> x.records + 1, first |-> x.lines, count |-> r.count,
                 size |-> r.size]
           bs == Append(x.blocks, b)
           y == Indexed(x, r)
           L == Len(x.blocks)
<1>1. x \in Indexes /\ r \in Records
  BY DEF Sound, Fits
<1>2. /\ x.lines \in Nat /\ x.end \in Nat /\ x.blocks \in Seq(Blocks)
      /\ r.count \in Nat /\ r.size \in Nat /\ x.records \in Nat /\ x.gaps \in Seq(Nat)
  BY <1>1, IndexFields, RecordFields
<1>3. /\ y.blocks = bs /\ y.gaps = x.gaps /\ y.lines = x.lines + r.count
      /\ y.end = x.end + 1 + r.size
  BY <1>1, IndexedLines
<1>4. y.ok
  <2> DEFINE ok == x.ok /\ Valid(x, r)
  <2>1. ok = TRUE
    BY DEF Sound, Fits
  <2>2. y = [base |-> x.base, blocks |-> bs, gaps |-> x.gaps,
             lines |-> x.lines + r.count, records |-> x.records + 1,
             end |-> x.end + 1 + r.size, ok |-> ok]
    BY <1>1, IndexedLines, Zenon
  <2> HIDE DEF y, bs, ok
  <2>3. y.ok = TRUE
    BY <2>1, <2>2
  <2>4. QED
    BY <2>3
<1>5. y \in Indexes
  BY <1>1, IndexedType
<1>6. b \in Blocks
  BY <1>2 DEF Blocks
<1>7. b.first = x.lines /\ b.count = r.count /\ b.size = r.size
  OBVIOUS
<1> HIDE DEF b, y
<1>8. Len(bs) = L + 1 /\ bs[L + 1] = b /\ \A i \in 1..L : bs[i] = x.blocks[i]
  BY <1>2, <1>6, AppendProperties
<1>9. BlockBytes(bs)[L + 1] = BlockBytes(x.blocks)[L] + 1 + r.size
  BY <1>2, <1>6, <1>7, BlockBytesAppend
<1>10. BlockBytes(x.blocks)[L] \in Nat
  <2>1. BlockBytes(x.blocks) \in [0..L -> Nat] /\ L \in Nat
    BY <1>2, BlockBytesDef
  <2>2. QED
    BY <2>1
<1>11. L \in Nat /\ Len(x.gaps) \in Nat
  BY <1>2
<1> HIDE DEF bs, L
<1>12. /\ FirstOf(x, 1) = 0
       /\ \A i \in 1..L : FirstOf(x, i + 1) = x.blocks[i].first + x.blocks[i].count
       /\ BlockBytes(x.blocks)[L] + Len(x.gaps) =< x.end
  BY DEF Sound, L
<1>13. \A i \in 1..(L + 1) : FirstOf(y, i) = FirstOf(x, i)
  <2>1. ASSUME NEW i \in 1..L PROVE FirstOf(y, i) = FirstOf(x, i)
    BY <1>3, <1>8, <1>11 DEF FirstOf, L
  <2>2. FirstOf(y, L + 1) = FirstOf(x, L + 1)
    BY <1>3, <1>7, <1>8, <1>11 DEF FirstOf, L
  <2>3. QED
    BY <1>11, <2>1, <2>2
<1>14. FirstOf(y, 1) = 0
  <2>1. 1 \in 1..(L + 1)
    BY <1>11
  <2>2. QED
    BY <1>12, <1>13, <2>1
<1>15. ASSUME NEW i \in 1..Len(y.blocks)
       PROVE  FirstOf(y, i + 1) = y.blocks[i].first + y.blocks[i].count
  <2>1. CASE i \in 1..L
    <3>1. i + 1 \in 1..(L + 1)
      BY <1>11, <2>1
    <3>2. FirstOf(y, i + 1) = FirstOf(x, i + 1)
      BY <1>13, <3>1
    <3>3. y.blocks[i] = x.blocks[i]
      BY <1>3, <1>8, <2>1
    <3>4. QED
      BY <1>12, <2>1, <3>2, <3>3
  <2>2. CASE i = L + 1
    BY <1>2, <1>3, <1>7, <1>8, <1>11, <2>2 DEF FirstOf
  <2>3. i \in 1..L \/ i = L + 1
    BY <1>3, <1>8, <1>11
  <2>4. QED
    BY <2>1, <2>2, <2>3
<1>16. /\ \A i, j \in 1..Len(y.gaps) : i < j => y.gaps[i] < y.gaps[j]
       /\ \A i \in 1..Len(y.gaps) : y.gaps[i] =< y.lines
  <2>1. /\ \A i, j \in 1..Len(x.gaps) : i < j => x.gaps[i] < x.gaps[j]
        /\ \A i \in 1..Len(x.gaps) : x.gaps[i] =< x.lines
    BY DEF Sound
  <2>2. \A i \in 1..Len(x.gaps) : x.gaps[i] \in Nat
    BY <1>2
  <2>3. ASSUME NEW i \in 1..Len(x.gaps) PROVE x.gaps[i] =< x.lines + r.count
    BY <1>2, <2>1, <2>2
  <2>4. QED
    BY <1>3, <2>1, <2>3
<1>17. BlockBytes(y.blocks)[Len(y.blocks)] + Len(y.gaps) =< y.end
  <2> DEFINE u == BlockBytes(x.blocks)[L]
             v == BlockBytes(bs)[L + 1]
             g == Len(x.gaps)
  <2>1. /\ u \in Nat /\ g \in Nat /\ v = u + 1 + r.size /\ u + g =< x.end
        /\ x.end \in Nat /\ r.size \in Nat
    BY <1>2, <1>9, <1>10, <1>11, <1>12
  <2>2. BlockBytes(y.blocks)[Len(y.blocks)] = v /\ Len(y.gaps) = g
    BY <1>3, <1>8
  <2> HIDE DEF u, v, g
  <2>3. v + g =< x.end + 1 + r.size
    BY <2>1
  <2>4. QED
    BY <1>3, <2>2, <2>3
<1>18. ASSUME NEW i \in 1..Len(y.blocks)
       PROVE  y.blocks[i].count > 0 /\ y.blocks[i].size > 0
  <2>1. r.count > 0 /\ r.size > 0
    BY DEF Fits, Valid
  <2>2. \A j \in 1..L : x.blocks[j].count > 0 /\ x.blocks[j].size > 0
    BY DEF Sound, L
  <2>3. i \in 1..L \/ i = L + 1
    BY <1>3, <1>8, <1>11
  <2>4. CASE i \in 1..L
    BY <1>3, <1>8, <2>2, <2>4
  <2>5. CASE i = L + 1
    BY <1>3, <1>7, <1>8, <2>1, <2>5
  <2>6. QED
    BY <2>3, <2>4, <2>5
<1>19. QED
  BY <1>4, <1>5, <1>14, <1>15, <1>16, <1>17, <1>18 DEF Sound, y

\* The index after a gap.
LEMMA SoundGap ==
    ASSUME NEW x, Sound(x), NEW r, Fits(x, r), r.kind = "gap"
    PROVE  Sound(Indexed(x, r))
<1> DEFINE y == Indexed(x, r)
           gs == AddGapOffset(x.gaps, r.count)
           G == Len(x.gaps)
<1>1. x \in Indexes /\ r \in Records
  BY DEF Sound, Fits
<1>2. /\ x.lines \in Nat /\ x.end \in Nat /\ x.blocks \in Seq(Blocks)
      /\ r.count \in Nat /\ r.size \in Nat /\ x.gaps \in Seq(Nat)
  BY <1>1, IndexFields, RecordFields
<1>3. /\ y.blocks = x.blocks /\ y.gaps = gs /\ y.lines = x.lines
      /\ y.end = x.end + 1 + r.size
  BY <1>1, IndexedGap
<1>4. y \in Indexes
  BY <1>1, IndexedType
<1>5. y.ok
  <2> DEFINE ok == x.ok /\ Valid(x, r)
  <2>1. ok = TRUE
    BY DEF Sound, Fits
  <2>2. y = [base |-> x.base, blocks |-> x.blocks, gaps |-> gs,
             lines |-> x.lines, records |-> x.records + 1,
             end |-> x.end + 1 + r.size, ok |-> ok]
    BY <1>1, IndexedGap, Zenon
  <2> HIDE DEF ok, y, gs
  <2>3. y.ok = TRUE
    BY <2>1, <2>2
  <2>4. QED
    BY <2>3
<1> HIDE DEF y
<1>6. /\ G \in Nat
      /\ \A i \in 1..G : x.gaps[i] \in Nat /\ x.gaps[i] =< x.lines /\ x.gaps[i] =< r.count
      /\ \A i, j \in 1..G : i < j => x.gaps[i] < x.gaps[j]
      /\ r.count =< x.lines
  BY <1>2 DEF Sound, Fits, Valid
<1>7. /\ Len(gs) \in Nat /\ Len(gs) =< G + 1
      /\ \A i, j \in 1..Len(gs) : i < j => gs[i] < gs[j]
      /\ \A i \in 1..Len(gs) : gs[i] =< x.lines
  <2>1. ASSUME x.gaps # << >>, x.gaps[G] = r.count PROVE gs = x.gaps
    BY <2>1 DEF AddGapOffset
  <2>2. ASSUME ~(x.gaps # << >> /\ x.gaps[G] = r.count)
        PROVE  /\ Len(gs) = G + 1 /\ gs[G + 1] = r.count
               /\ \A i \in 1..G : gs[i] = x.gaps[i] /\ x.gaps[i] < r.count
    <3>1. gs = Append(x.gaps, r.count)
      BY <2>2 DEF AddGapOffset
    <3>2. /\ Len(gs) = G + 1 /\ gs[G + 1] = r.count
          /\ \A i \in 1..G : gs[i] = x.gaps[i]
      BY <3>1, <1>2, AppendProperties
    <3>3. ASSUME NEW i \in 1..G PROVE x.gaps[i] < r.count
      <4>1. x.gaps # << >> /\ G \in 1..G
        BY <1>2, <1>6
      <4>2. x.gaps[G] < r.count
        <5> DEFINE u == x.gaps[G]
                   v == r.count
        <5>1. u \in Nat /\ v \in Nat /\ u =< v /\ u # v
          BY <1>2, <1>6, <2>2, <4>1
        <5> HIDE DEF u, v
        <5>2. u < v
          BY <5>1
        <5>3. QED
          BY <5>2 DEF u, v
      <4>3. i = G \/ x.gaps[i] < x.gaps[G]
        BY <1>6, <4>1
      <4>4. QED
        BY <1>2, <1>6, <4>1, <4>2, <4>3
    <3>4. QED
      BY <3>2, <3>3
  <2>3. CASE x.gaps # << >> /\ x.gaps[G] = r.count
    <3>1. gs = x.gaps
      BY <2>1, <2>3
    <3>2. QED
      BY <3>1, <1>6
  <2>4. CASE ~(x.gaps # << >> /\ x.gaps[G] = r.count)
    <3> HIDE DEF gs, G
    <3>1. /\ Len(gs) = G + 1 /\ gs[G + 1] = r.count
          /\ \A i \in 1..G : gs[i] = x.gaps[i] /\ x.gaps[i] < r.count
      BY <2>2, <2>4
    <3>2. ASSUME NEW i \in 1..(G + 1), NEW j \in 1..(G + 1), i < j PROVE gs[i] < gs[j]
      <4>1. i \in 1..G
        BY <1>6, <3>2
      <4>2. j \in 1..G \/ j = G + 1
        BY <1>6
      <4>3. QED
        BY <1>6, <3>1, <3>2, <4>1, <4>2
    <3>3. ASSUME NEW i \in 1..(G + 1) PROVE gs[i] =< x.lines
      <4>1. i \in 1..G \/ i = G + 1
        BY <1>6
      <4>2. QED
        BY <1>6, <3>1, <4>1
    <3>4. QED
      BY <1>6, <3>1, <3>2, <3>3
  <2>5. QED
    BY <2>3, <2>4
<1> HIDE DEF gs, G
<1>8. /\ FirstOf(x, 1) = 0
      /\ \A i \in 1..Len(x.blocks) :
            FirstOf(x, i + 1) = x.blocks[i].first + x.blocks[i].count
      /\ BlockBytes(x.blocks)[Len(x.blocks)] + G =< x.end
  BY DEF Sound, G
<1>9. \A i : FirstOf(y, i) = FirstOf(x, i)
  BY <1>3 DEF FirstOf
<1>10. BlockBytes(y.blocks)[Len(y.blocks)] + Len(y.gaps) =< y.end
  <2>1. BlockBytes(x.blocks)[Len(x.blocks)] \in Nat
    <3>1. BlockBytes(x.blocks) \in [0..Len(x.blocks) -> Nat] /\ Len(x.blocks) \in Nat
      BY <1>2, BlockBytesDef
    <3>2. QED
      BY <3>1
  <2> DEFINE u == BlockBytes(x.blocks)[Len(x.blocks)]
  <2>2. u \in Nat /\ G \in Nat /\ u + G =< x.end /\ Len(gs) \in Nat /\ Len(gs) =< G + 1
    BY <2>1, <1>6, <1>7, <1>8
  <2>3. BlockBytes(y.blocks)[Len(y.blocks)] = u /\ Len(y.gaps) = Len(gs)
    BY <1>3
  <2> HIDE DEF u
  <2>4. u + Len(gs) =< x.end + 1 + r.size
    BY <2>2, <1>2
  <2>5. QED
    BY <1>3, <2>3, <2>4
<1>11. QED
  BY <1>3, <1>4, <1>5, <1>7, <1>8, <1>9, <1>10 DEF Sound, y

\* The index after a boundary.
LEMMA SoundBoundary ==
    ASSUME NEW x, Sound(x), NEW r, Fits(x, r), r.kind = "boundary"
    PROVE  Sound(Indexed(x, r))
<1> DEFINE y == Indexed(x, r)
<1>1. x \in Indexes /\ r \in Records
  BY DEF Sound, Fits
<1>2. /\ x.end \in Nat /\ x.blocks \in Seq(Blocks) /\ r.size \in Nat
      /\ x.gaps \in Seq(Nat)
  BY <1>1, IndexFields, RecordFields
<1>3. /\ y.blocks = x.blocks /\ y.gaps = x.gaps /\ y.lines = x.lines
      /\ y.end = x.end + 1 + r.size
  BY <1>1, IndexedBoundary
<1>4. y.ok
  <2> DEFINE ok == x.ok /\ Valid(x, r)
  <2>1. ok = TRUE
    BY DEF Sound, Fits
  <2>2. y = [base |-> x.base, blocks |-> x.blocks, gaps |-> x.gaps,
             lines |-> x.lines, records |-> x.records + 1,
             end |-> x.end + 1 + r.size, ok |-> ok]
    BY <1>1, IndexedBoundary, Zenon
  <2> HIDE DEF y, ok
  <2>3. y.ok = TRUE
    BY <2>1, <2>2
  <2>4. QED
    BY <2>3
<1>5. y \in Indexes
  BY <1>1, IndexedType
<1> HIDE DEF y
<1>6. \A i : FirstOf(y, i) = FirstOf(x, i)
  BY <1>3 DEF FirstOf
<1>7. BlockBytes(y.blocks)[Len(y.blocks)] + Len(y.gaps) =< y.end
  <2>1. BlockBytes(x.blocks)[Len(x.blocks)] \in Nat
    <3>1. BlockBytes(x.blocks) \in [0..Len(x.blocks) -> Nat] /\ Len(x.blocks) \in Nat
      BY <1>2, BlockBytesDef
    <3>2. QED
      BY <3>1
  <2>2. BlockBytes(x.blocks)[Len(x.blocks)] + Len(x.gaps) =< x.end
    BY DEF Sound
  <2>3. Len(x.gaps) \in Nat
    BY <1>2
  <2>4. QED
    BY <1>2, <1>3, <2>1, <2>2, <2>3
<1>8. QED
  BY <1>3, <1>4, <1>5, <1>6, <1>7 DEF Sound, y

\* Every record that fits.
LEMMA SoundStep ==
    ASSUME NEW x, Sound(x), NEW r, Fits(x, r)
    PROVE  Sound(Indexed(x, r))
<1>1. r.kind \in {"lines", "boundary", "gap"}
  BY RecordFields DEF Fits
<1>2. QED
  BY <1>1, SoundLines, SoundGap, SoundBoundary

\* The index of a file that goes on with a record that fits.
LEMMA DescribesStep ==
    ASSUME NEW file \in Files, NEW n \in 1..Len(file.records), NEW x,
           Describes(x, file, n - 1), Fits(x, file.records[n])
    PROVE  Describes(Indexed(x, file.records[n]), file, n)
<1> DEFINE r == file.records[n]
           y == Indexed(x, r)
           L == Len(x.blocks)
           b == [at |-> x.records + 1, first |-> x.lines, count |-> r.count,
                 size |-> r.size]
<1>1. Sound(x) /\ x \in Indexes /\ r \in Records
  BY DEF Describes, Sound, Fits
<1>2. Sound(y)
  BY <1>1, SoundStep
<1>3. /\ x.lines \in Nat /\ x.records \in Nat /\ x.blocks \in Seq(Blocks)
      /\ x.base \in Nat /\ r.count \in Nat /\ r.size \in Nat /\ r.from \in Nat
      /\ r.kind \in {"lines", "boundary", "gap"}
  BY <1>1, IndexFields, RecordFields
<1>4. y.base = x.base /\ y.records = x.records + 1
  <2>1. CASE r.kind = "lines"
    <3> DEFINE bs == Append(x.blocks, b)
               ok == x.ok /\ Valid(x, r)
    <3>1. y = [base |-> x.base, blocks |-> bs, gaps |-> x.gaps,
               lines |-> x.lines + r.count, records |-> x.records + 1,
               end |-> x.end + 1 + r.size, ok |-> ok]
      BY <1>1, <2>1, IndexedLines, Zenon
    <3> HIDE DEF y, bs, ok
    <3>2. QED
      BY <3>1
  <2>2. CASE r.kind = "boundary"
    BY <1>1, <2>2, IndexedBoundary
  <2>3. CASE r.kind = "gap"
    BY <1>1, <2>3, IndexedGap
  <2>4. QED
    BY <1>3, <2>1, <2>2, <2>3
<1>5. r.kind # "lines" => y.blocks = x.blocks
  BY <1>1, <1>3, IndexedBoundary, IndexedGap
<1>6. r.kind = "lines" => y.blocks = Append(x.blocks, b)
  BY <1>1, IndexedLines
<1>7. b \in Blocks /\ b.at = x.records + 1 /\ b.first = x.lines /\ b.count = r.count
      /\ b.size = r.size
  BY <1>3 DEF Blocks
<1>8. /\ x.base = file.base /\ x.records = n - 1
      /\ \A i \in 1..L :
          /\ x.blocks[i].at \in 1..(n - 1)
          /\ file.records[x.blocks[i].at] =
                Record("lines", x.base + x.blocks[i].first, x.blocks[i].count,
                       x.blocks[i].size)
      /\ \A k \in 1..(n - 1) : file.records[k].kind = "gap"
          => file.records[k].from = file.base + file.records[k].count
  BY DEF Describes
<1>9. n \in Nat /\ L \in Nat
  BY <1>3 DEF Files
<1> HIDE DEF y, b, L
<1>10. ASSUME NEW i \in 1..Len(y.blocks)
       PROVE  /\ y.blocks[i].at \in 1..n
              /\ file.records[y.blocks[i].at] =
                    Record("lines", y.base + y.blocks[i].first, y.blocks[i].count,
                           y.blocks[i].size)
  <2>1. ASSUME i \in 1..L, y.blocks[i] = x.blocks[i]
        PROVE  /\ y.blocks[i].at \in 1..n
               /\ file.records[y.blocks[i].at] =
                    Record("lines", y.base + y.blocks[i].first, y.blocks[i].count,
                           y.blocks[i].size)
    <3>1. x.blocks[i].at \in 1..n
      BY <1>8, <1>9, <2>1
    <3>2. QED
      BY <1>4, <1>8, <2>1, <3>1
  <2>2. CASE r.kind # "lines"
    BY <1>5, <2>1, <2>2 DEF L
  <2>3. CASE r.kind = "lines"
    <3>1. /\ Len(y.blocks) = L + 1 /\ y.blocks[L + 1] = b
          /\ \A j \in 1..L : y.blocks[j] = x.blocks[j]
      <4> DEFINE bs == Append(x.blocks, b)
      <4>1. /\ Len(bs) = L + 1 /\ bs[L + 1] = b
            /\ \A j \in 1..L : bs[j] = x.blocks[j]
        BY <1>3, <1>7, AppendProperties DEF L
      <4>2. y.blocks = bs
        BY <1>6, <2>3
      <4> HIDE DEF bs
      <4>3. QED
        BY <4>1, <4>2
    <3>2. CASE i \in 1..L
      BY <2>1, <3>1, <3>2
    <3>3. CASE i = L + 1
      <4>1. b.at = n
        BY <1>7, <1>8, <1>9
      <4>2. r.from = x.base + x.lines
        BY <2>3 DEF Fits
      <4>3. r = Record("lines", x.base + x.lines, r.count, r.size)
        BY <1>1, <2>3, <4>2 DEF Records, Record
      <4>4. QED
        BY <1>4, <1>7, <1>9, <3>1, <3>3, <4>1, <4>3
    <3>4. i \in 1..L \/ i = L + 1
      BY <1>9, <3>1
    <3>5. QED
      BY <3>2, <3>3, <3>4
  <2>4. QED
    BY <2>2, <2>3
<1>11. ASSUME NEW k \in 1..n, file.records[k].kind = "gap"
       PROVE  file.records[k].from = file.base + file.records[k].count
  <2>1. k \in 1..(n - 1) \/ k = n
    BY <1>9
  <2>2. CASE k = n
    BY <1>8, <1>11, <2>2 DEF Fits
  <2>3. QED
    BY <1>8, <1>11, <2>1, <2>2
<1>12. y.base = file.base /\ y.records = n
  BY <1>4, <1>8, <1>9
<1>13. QED
  BY <1>2, <1>10, <1>11, <1>12 DEF Describes, y

-----------------------------------------------------------------------------
(* Files that recovery accepts wherever they are cut off.                  *)

\* Only the first n records matter.
LEMMA DescribesSame ==
    ASSUME NEW f \in Files, NEW g \in Files, f.base = g.base, NEW n \in Nat,
           \A k \in 1..n : f.records[k] = g.records[k], NEW x, Describes(x, f, n)
    PROVE  Describes(x, g, n)
<1>1. ASSUME NEW i \in 1..Len(x.blocks)
      PROVE  /\ x.blocks[i].at \in 1..n
             /\ g.records[x.blocks[i].at] =
                   Record("lines", x.base + x.blocks[i].first, x.blocks[i].count,
                          x.blocks[i].size)
  BY DEF Describes
<1>2. \A k \in 1..n : g.records[k].kind = "gap"
          => g.records[k].from = g.base + g.records[k].count
  BY DEF Describes
<1>3. QED
  BY <1>1, <1>2 DEF Describes

\* A new file.
LEMMA WholeEmpty ==
    ASSUME NEW base \in Nat
    PROVE  /\ WholeFile([base |-> base, records |-> << >>])
           /\ Recovered([base |-> base, records |-> << >>]) = EmptyIndex(base)
           /\ Sound(EmptyIndex(base))
<1> DEFINE f == [base |-> base, records |-> << >>]
           x == EmptyIndex(base)
<1>1. f \in Files /\ Len(f.records) = 0 /\ f.base = base
  BY DEF Files
<1>2. /\ x \in Indexes /\ x.base = base /\ x.blocks = << >> /\ x.gaps = << >>
      /\ x.lines = 0 /\ x.end = 0 /\ x.records = 0
  BY EmptyIndexType DEF EmptyIndex
<1>3. x.ok
  BY DEF EmptyIndex
<1> HIDE DEF f, x
<1>4. Recovery(f)[0] = x
  BY <1>1, RecoveryDef DEF x
<1>5. BlockBytes(x.blocks)[Len(x.blocks)] = 0
  <2>1. << >> \in Seq(Blocks) /\ Len(<< >>) = 0
    OBVIOUS
  <2>2. QED
    BY <1>2, <2>1, BlockBytesDef
<1>6. Len(x.blocks) = 0 /\ Len(x.gaps) = 0
  BY <1>2
<1>7. Sound(x)
  BY <1>2, <1>3, <1>5, <1>6 DEF Sound, FirstOf
<1>8. Describes(x, f, 0)
  BY <1>1, <1>2, <1>6, <1>7 DEF Describes
<1>9. QED
  BY <1>1, <1>4, <1>7, <1>8 DEF WholeFile, Recovered, f, x

\* What a whole file is recovered to.
LEMMA WholeRecovered ==
    ASSUME NEW file, WholeFile(file)
    PROVE  /\ file \in Files /\ Len(file.records) \in Nat
           /\ Describes(Recovered(file), file, Len(file.records))
           /\ Sound(Recovered(file)) /\ Recovered(file) \in Indexes
<1>1. file \in Files /\ Len(file.records) \in Nat
  BY DEF WholeFile, Files
<1>2. Describes(Recovered(file), file, Len(file.records))
  BY <1>1 DEF WholeFile, Recovered
<1>3. QED
  BY <1>1, <1>2 DEF Describes, Sound

\* A record that fits at the end of a whole file.
LEMMA WholeLonger ==
    ASSUME NEW file, WholeFile(file), NEW r, Fits(Recovered(file), r)
    PROVE  WholeFile(Longer(file, r))
<1> DEFINE g == Longer(file, r)
           L == Len(file.records)
<1>1. file \in Files /\ L \in Nat /\ r \in Records
  BY WholeRecovered DEF Fits
<1>2. /\ g \in Files /\ g.base = file.base /\ Len(g.records) = L + 1
      /\ g.records[L + 1] = r /\ \A k \in 1..L : g.records[k] = file.records[k]
  BY <1>1, LongerFile
<1>3. /\ \A k \in 0..L : Recovery(g)[k] = Recovery(file)[k]
      /\ Recovered(g) = Indexed(Recovered(file), r)
  BY <1>1, RecoveryLonger
<1> HIDE DEF g
<1>4. ASSUME NEW n \in 0..L PROVE Describes(Recovery(g)[n], g, n)
  <2>1. Describes(Recovery(file)[n], file, n)
    BY DEF WholeFile
  <2>2. n \in Nat /\ \A k \in 1..n : file.records[k] = g.records[k]
    BY <1>1, <1>2
  <2>3. Describes(Recovery(file)[n], g, n)
    BY <1>1, <1>2, <2>1, <2>2, DescribesSame
  <2>4. QED
    BY <1>3, <2>3
<1>5. Describes(Recovery(g)[L + 1], g, L + 1)
  <2>1. Describes(Recovery(file)[L], g, L)
    BY <1>1, <1>3, <1>4
  <2>2. L + 1 \in 1..Len(g.records) /\ (L + 1) - 1 = L
    BY <1>1, <1>2
  <2>3. Fits(Recovery(file)[L], g.records[L + 1])
    BY <1>2 DEF Recovered
  <2>4. Describes(Indexed(Recovery(file)[L], g.records[L + 1]), g, L + 1)
    BY <1>2, <2>1, <2>2, <2>3, DescribesStep
  <2>5. Recovery(g)[L + 1] = Indexed(Recovery(file)[L], g.records[L + 1])
    BY <1>2, <1>3 DEF Recovered
  <2>6. QED
    BY <2>4, <2>5
<1>6. \A n \in 0..Len(g.records) : n \in 0..L \/ n = L + 1
  BY <1>1, <1>2
<1>7. QED
  BY <1>2, <1>4, <1>5, <1>6 DEF WholeFile, g

\* The file without the records behind the first n.
Cut(file, n) == [base |-> file.base, records |-> SubSeq(file.records, 1, n)]

\* A whole file that is cut off is whole.
LEMMA WholeCut ==
    ASSUME NEW file, WholeFile(file), NEW n \in 0..Len(file.records)
    PROVE  /\ WholeFile(Cut(file, n))
           /\ Cut(file, n).base = file.base
           /\ Len(Cut(file, n).records) = n
           /\ \A k \in 0..n : Recovery(Cut(file, n))[k] = Recovery(file)[k]
           /\ Recovered(Cut(file, n)) = Recovery(file)[n]
<1> DEFINE g == Cut(file, n)
           s == SubSeq(file.records, 1, n)
<1>1. file \in Files /\ Len(file.records) \in Nat /\ n \in Nat
  BY WholeRecovered
<1>2. file.records \in Seq(Records) /\ file.base \in Nat
  BY <1>1 DEF Files
<1>3. /\ s \in Seq(Records) /\ Len(s) = n
      /\ \A k \in 1..n : s[k] = file.records[k]
  <2>1. \A k \in 1..n : file.records[k] \in Records
    BY <1>1, <1>2
  <2>2. QED
    BY <1>1, <1>2, <2>1, SubSeqProperties
<1> HIDE DEF s
<1>4. g = [base |-> file.base, records |-> s]
  BY DEF Cut, s
<1>5. /\ g \in Files /\ g.base = file.base /\ Len(g.records) = n
      /\ \A k \in 1..n : g.records[k] = file.records[k]
  BY <1>2, <1>3, <1>4 DEF Files
<1> HIDE DEF g
<1>6. \A k \in 0..n : Recovery(g)[k] = Recovery(file)[k]
  BY <1>1, <1>5, RecoveryPrefix
<1>7. ASSUME NEW k \in 0..n PROVE Describes(Recovery(g)[k], g, k)
  <2>1. k \in Nat /\ k \in 0..Len(file.records)
        /\ \A j \in 1..k : file.records[j] = g.records[j]
    BY <1>1, <1>5
  <2>2. Describes(Recovery(file)[k], file, k)
    BY <2>1 DEF WholeFile
  <2>3. Describes(Recovery(file)[k], g, k)
    BY <1>1, <1>5, <2>1, <2>2, DescribesSame
  <2>4. QED
    BY <1>6, <2>3
<1>8. QED
  BY <1>1, <1>5, <1>6, <1>7 DEF WholeFile, Recovered, g

\* More records, not fewer lines.
LEMMA LinesGrow ==
    ASSUME NEW file, WholeFile(file), NEW m \in 0..Len(file.records)
    PROVE  \A n \in m..Len(file.records) :
              Recovery(file)[m].lines =< Recovery(file)[n].lines
<1> DEFINE L == Len(file.records)
           R == Recovery(file)
           T == {n \in 0..L : m =< n => R[m].lines =< R[n].lines}
<1>1. file \in Files /\ L \in Nat
  BY WholeRecovered
<1>2. /\ \A n \in 0..L : R[n] \in Indexes /\ R[n].lines \in Nat
      /\ \A n \in 1..L : R[n] = Indexed(R[n - 1], file.records[n])
  <2>1. /\ R \in [0..L -> Indexes]
        /\ \A n \in 1..L : R[n] = Indexed(R[n - 1], file.records[n])
    BY <1>1, RecoveryDef
  <2>2. \A n \in 0..L : R[n] \in Indexes
    BY <2>1
  <2>3. QED
    BY <2>1, <2>2, IndexFields
<1>3. \A n \in 1..L : file.records[n] \in Records
  BY <1>1 DEF Files
<1> HIDE DEF R, L
<1>4. 0 \in T
  <2>1. m =< 0 => m = 0
    BY <1>1 DEF L
  <2>2. QED
    BY <1>1, <1>2, <2>1
<1>5. ASSUME NEW n \in 1..L, n - 1 \in T PROVE n \in T
  <2>1. n - 1 \in 0..L /\ n \in 0..L
    BY <1>1
  <2>2. R[n - 1].lines =< R[n].lines
    <3> DEFINE x == R[n - 1]
               r == file.records[n]
    <3>1. x \in Indexes /\ r \in Records /\ x.lines \in Nat /\ r.count \in Nat
      BY <1>2, <1>3, <2>1, RecordFields
    <3>2. R[n] = Indexed(x, r)
      BY <1>2
    <3> HIDE DEF x, r
    <3>3. Indexed(x, r).lines \in {x.lines, x.lines + r.count}
      <4>1. CASE r.kind = "lines"
        <5> DEFINE bs == Append(x.blocks, [at |-> x.records + 1, first |-> x.lines,
                                           count |-> r.count, size |-> r.size])
                   ok == x.ok /\ Valid(x, r)
        <5>1. Indexed(x, r) =
                [base |-> x.base, blocks |-> bs, gaps |-> x.gaps,
                 lines |-> x.lines + r.count, records |-> x.records + 1,
                 end |-> x.end + 1 + r.size, ok |-> ok]
          BY <3>1, <4>1, IndexedLines, Zenon
        <5> HIDE DEF bs, ok
        <5>2. QED
          BY <5>1
      <4>2. CASE r.kind = "boundary"
        BY <3>1, <4>2, IndexedBoundary
      <4>3. CASE r.kind = "gap"
        BY <3>1, <4>3, IndexedGap
      <4>4. QED
        BY <3>1, <4>1, <4>2, <4>3, RecordFields
    <3>4. x.lines =< Indexed(x, r).lines
      BY <3>1, <3>3
    <3>5. QED
      BY <3>2, <3>4 DEF x
  <2>3. CASE m =< n - 1
    <3>1. R[m].lines =< R[n - 1].lines
      BY <1>5, <2>3
    <3>2. m \in 0..L
      BY <1>1 DEF L
    <3>3. R[m].lines \in Nat /\ R[n - 1].lines \in Nat /\ R[n].lines \in Nat
      BY <1>2, <2>1, <3>2
    <3>4. R[m].lines =< R[n].lines
      BY <2>2, <3>1, <3>3
    <3>5. QED
      BY <2>1, <3>4
  <2>4. CASE m = n
    BY <1>2, <2>1, <2>4
  <2>5. CASE m > n
    BY <2>1, <2>5, <1>1 DEF L
  <2>6. QED
    BY <1>1, <2>3, <2>4, <2>5 DEF L
<1>6. \A n \in 0..L : n \in T
  <2> HIDE DEF T
  <2>1. QED
    BY <1>1, <1>4, <1>5, Induction
<1>7. \A n \in m..L : n \in 0..L /\ m =< n
  BY <1>1 DEF L
<1>8. QED
  BY <1>6, <1>7 DEF R, L

-----------------------------------------------------------------------------
(* The loops of compaction.                                                *)

\* The loop of GapsAfter, after n gaps.
GapLoop(gaps, dropped) ==
    CHOOSE kept : kept = [n \in 0..Len(gaps) |->
        IF n = 0 THEN << >>
        ELSE IF gaps[n] =< dropped THEN kept[n - 1]
        ELSE Append(kept[n - 1], gaps[n] - dropped)]

\* GapsAfter is the last state of its loop.
LEMMA GapsAfterIs ==
    ASSUME NEW gaps, NEW dropped
    PROVE  GapsAfter(gaps, dropped) = GapLoop(gaps, dropped)[Len(gaps)]
BY DEF GapsAfter, GapLoop

\* The turns of the loop of GapsAfter.
LEMMA GapLoopDef ==
    ASSUME NEW gaps \in Seq(Nat), NEW dropped \in Nat
    PROVE  /\ GapLoop(gaps, dropped) \in [0..Len(gaps) -> Seq(Nat)]
           /\ GapLoop(gaps, dropped)[0] = << >>
           /\ \A n \in 1..Len(gaps) :
                 GapLoop(gaps, dropped)[n] = (IF gaps[n] =< dropped
                 THEN GapLoop(gaps, dropped)[n - 1]
                 ELSE Append(GapLoop(gaps, dropped)[n - 1], gaps[n] - dropped))
<1> DEFINE L == Len(gaps)
           e == << >>
           step == [n \in 1..L |-> [y \in Seq(Nat) |-> (IF gaps[n] =< dropped THEN y
                 ELSE Append(y, gaps[n] - dropped))]]
           Fixed(f) == f = [n \in 0..L |-> IF n = 0 THEN e
                 ELSE (IF gaps[n] =< dropped THEN f[n - 1]
                 ELSE Append(f[n - 1], gaps[n] - dropped))]
<1>1. L \in Nat /\ e \in Seq(Nat)
  OBVIOUS
<1>2. \A n \in 1..L : \A y \in Seq(Nat) : (IF gaps[n] =< dropped THEN y
      ELSE Append(y, gaps[n] - dropped)) \in Seq(Nat)
  <2>1. ASSUME NEW n \in 1..L, NEW y \in Seq(Nat), ~(gaps[n] =< dropped)
        PROVE  Append(y, gaps[n] - dropped) \in Seq(Nat)
    <3>1. gaps[n] \in Nat
      OBVIOUS
    <3>2. gaps[n] - dropped \in Nat
      BY <3>1, <2>1
    <3> DEFINE v == gaps[n] - dropped
    <3> HIDE DEF v
    <3>3. v \in Nat
      BY <3>2 DEF v
    <3>4. Append(y, v) \in Seq(Nat)
      BY <3>3, AppendProperties
    <3>5. QED
      BY <3>4 DEF v
  <2>2. QED
    BY <2>1
<1>3. step \in [1..L -> [Seq(Nat) -> Seq(Nat)]]
  BY <1>2
<1>4. PICK f : IsRun(f, L, Seq(Nat), e, step)
  <2> HIDE DEF L, step, e
  <2>1. QED
    BY <1>1, <1>3, LoopRuns
<1>5. /\ f \in [0..L -> Seq(Nat)] /\ f[0] = e
      /\ \A n \in 1..L : f[n] = (IF gaps[n] =< dropped THEN f[n - 1]
            ELSE Append(f[n - 1], gaps[n] - dropped))
  <2>1. /\ f \in [0..L -> Seq(Nat)] /\ f[0] = e
        /\ \A n \in 1..L : f[n] = step[n][f[n - 1]]
    BY <1>4 DEF IsRun
  <2>2. \A n \in 1..L : f[n - 1] \in Seq(Nat)
    <3> HIDE DEF L, e, step
    <3>1. \A n \in 1..L : n - 1 \in 0..L
      BY <1>1
    <3>2. QED
      BY <2>1, <3>1
  <2>3. QED
    BY <2>1, <2>2
<1> HIDE DEF step
<1>6. Fixed(f)
  <2> HIDE DEF L, e
  <2>1. ASSUME NEW n \in 0..L
        PROVE  f[n] = IF n = 0 THEN e ELSE (IF gaps[n] =< dropped THEN f[n - 1]
              ELSE Append(f[n - 1], gaps[n] - dropped))
    <3>1. CASE n = 0
      BY <1>5, <3>1
    <3>2. CASE n # 0
      <4>1. n \in 1..L
        BY <1>1, <3>2
      <4>2. f[n] = (IF gaps[n] =< dropped THEN f[n - 1]
            ELSE Append(f[n - 1], gaps[n] - dropped))
        BY <1>5, <4>1
      <4>3. QED
        BY <3>2, <4>2
    <3>3. QED
      BY <3>1, <3>2
  <2>2. QED
    BY <1>5, <2>1
<1>7. GapLoop(gaps, dropped) = CHOOSE g : Fixed(g)
  BY DEF GapLoop
<1>8. Fixed(GapLoop(gaps, dropped))
  <2> HIDE DEF Fixed
  <2>1. QED
    BY <1>6, <1>7
<1> DEFINE R == GapLoop(gaps, dropped)
<1> HIDE DEF R, e
<1>9. R = [n \in 0..L |-> IF n = 0 THEN e ELSE (IF gaps[n] =< dropped THEN R[n - 1]
      ELSE Append(R[n - 1], gaps[n] - dropped))]
  BY <1>8 DEF R, e
<1> HIDE DEF L
<1>10. /\ R[0] = e
       /\ \A n \in 1..L : R[n] = (IF gaps[n] =< dropped THEN R[n - 1]
             ELSE Append(R[n - 1], gaps[n] - dropped))
  <2>1. 0 \in 0..L /\ \A n \in 1..L : n \in 0..L /\ n # 0
    BY <1>1
  <2>2. QED
    BY <1>9, <2>1
<1>11. \A n \in 0..L : R[n] \in Seq(Nat)
  <2> DEFINE T == {n \in 0..L : R[n] \in Seq(Nat)}
  <2>1. 0 \in T
    BY <1>1, <1>10
  <2>2. ASSUME NEW n \in 1..L, n - 1 \in T PROVE n \in T
    <3>1. n \in 0..L
      BY <1>1
    <3> DEFINE y == R[n - 1]
    <3>2. y \in Seq(Nat)
      BY <2>2
    <3>3. R[n] = (IF gaps[n] =< dropped THEN y ELSE Append(y, gaps[n] - dropped))
      BY <1>10
    <3> HIDE DEF y
    <3>4. (IF gaps[n] =< dropped THEN y ELSE Append(y, gaps[n] - dropped)) \in Seq(Nat)
      BY <1>2, <3>2
    <3>5. QED
      BY <3>1, <3>3, <3>4
  <2> HIDE DEF T
  <2>3. \A n \in 0..L : n \in T
    BY <1>1, <2>1, <2>2, Induction
  <2>4. QED
    BY <2>3 DEF T
<1>12. R \in [0..L -> Seq(Nat)]
  <2>1. DOMAIN R = 0..L /\ R = [n \in DOMAIN R |-> R[n]]
    BY <1>9
  <2>2. QED
    BY <1>11, <2>1
<1>13. QED
  BY <1>10, <1>12 DEF R, L, e

\* The index that a copied block joins.
LEMMA MovedIs ==
    ASSUME NEW y \in Indexes, NEW b \in Blocks
    PROVE  Moved(y, b) =
            [base |-> y.base,
             blocks |-> Append(y.blocks, [at |-> y.records + 1, first |-> y.lines,
                                          count |-> b.count, size |-> b.size]),
             gaps |-> y.gaps, lines |-> y.lines + b.count,
             records |-> y.records + 1, end |-> y.end + 1 + b.size, ok |-> y.ok]
<1>1. [b EXCEPT !.at = y.records + 1, !.first = y.lines]
        = [at |-> y.records + 1, first |-> y.lines, count |-> b.count, size |-> b.size]
  <2> DEFINE p == y.records + 1
             q == y.lines
             d == [b EXCEPT !.at = p, !.first = q]
             c == [at |-> p, first |-> q, count |-> b.count, size |-> b.size]
  <2>1. p \in Nat /\ q \in Nat
    BY IndexFields
  <2> HIDE DEF p, q
  <2>2. d.at = p /\ d.first = q /\ d.count = b.count /\ d.size = b.size /\ d \in Blocks
    BY <2>1 DEF Blocks
  <2>3. c.at = p /\ c.first = q /\ c.count = b.count /\ c.size = b.size /\ c \in Blocks
    BY <2>1 DEF Blocks
  <2> HIDE DEF c, d
  <2>4. d = c
    BY <2>2, <2>3 DEF Blocks
  <2>5. QED
    BY <2>4 DEF c, d, p, q
<1> DEFINE c == [at |-> y.records + 1, first |-> y.lines, count |-> b.count,
                 size |-> b.size]
<1> HIDE DEF c
<1>2. Moved(y, b) =
        [y EXCEPT !.blocks = Append(@, c), !.lines = @ + b.count,
                  !.records = @ + 1, !.end = @ + 1 + b.size]
  BY <1>1 DEF Moved, c
<1>3. QED
  BY <1>2 DEF Indexes, c

\* It is an index.
LEMMA MovedType ==
    ASSUME NEW y \in Indexes, NEW b \in Blocks
    PROVE  Moved(y, b) \in Indexes
<1> DEFINE c == [at |-> y.records + 1, first |-> y.lines, count |-> b.count,
                 size |-> b.size]
           cs == Append(y.blocks, c)
           z == [base |-> y.base, blocks |-> cs, gaps |-> y.gaps,
                 lines |-> y.lines + b.count, records |-> y.records + 1,
                 end |-> y.end + 1 + b.size, ok |-> y.ok]
<1>1. /\ y.base \in Nat /\ y.blocks \in Seq(Blocks) /\ y.gaps \in Seq(Nat)
      /\ y.lines \in Nat /\ y.records \in Nat /\ y.end \in Nat
  BY IndexFields
<1>2. y.ok \in BOOLEAN
  BY DEF Indexes
<1>3. b.count \in Nat /\ b.size \in Nat
  BY DEF Blocks
<1>4. /\ y.lines + b.count \in Nat /\ y.records + 1 \in Nat
      /\ y.end + 1 + b.size \in Nat
  <2>1. \A p, q \in Nat : p + q \in Nat /\ p + 1 \in Nat /\ p + 1 + q \in Nat
    OBVIOUS
  <2>2. QED
    BY <1>1, <1>3, <2>1
<1>5. c \in Blocks
  BY <1>1, <1>3, <1>4 DEF Blocks
<1>6. cs \in Seq(Blocks)
  BY <1>1, <1>5, AppendProperties
<1>7. Moved(y, b) = z
  BY MovedIs, Zenon
<1> HIDE DEF cs
<1>8. z \in Indexes
  BY <1>1, <1>2, <1>4, <1>6 DEF Indexes
<1>9. QED
  BY <1>7, <1>8

\* Copying a block is indexing its record, which recovery accepts.
LEMMA MovedIsIndexed ==
    ASSUME NEW y \in Indexes, NEW b \in Blocks, NEW from \in Nat,
           b.count > 0, b.size > 0
    PROVE  /\ Record("lines", from, b.count, b.size) \in Records
           /\ Valid(y, Record("lines", from, b.count, b.size))
           /\ Moved(y, b) = Indexed(y, Record("lines", from, b.count, b.size))
<1> DEFINE r == Record("lines", from, b.count, b.size)
<1>1. r \in Records /\ r.kind = "lines" /\ r.count = b.count /\ r.size = b.size
  BY DEF Record, Records, Blocks
<1> HIDE DEF r
<1> DEFINE With(count, size, ok) ==
              [base |-> y.base,
               blocks |-> Append(y.blocks, [at |-> y.records + 1, first |-> y.lines,
                                            count |-> count, size |-> size]),
               gaps |-> y.gaps, lines |-> y.lines + count,
               records |-> y.records + 1, end |-> y.end + 1 + size, ok |-> ok]
           ok == y.ok /\ Valid(y, r)
<1>2. Valid(y, r)
  BY <1>1 DEF Valid
<1>3. Moved(y, b) = With(b.count, b.size, y.ok)
  BY MovedIs, Zenon
<1>4. Indexed(y, r) = With(r.count, r.size, ok)
  BY <1>1, IndexedLines, Zenon
<1>5. ok = y.ok
  <2>1. y.ok \in BOOLEAN
    BY DEF Indexes
  <2>2. QED
    BY <1>2, <2>1
<1> HIDE DEF With, ok
<1>6. Moved(y, b) = Indexed(y, r)
  BY <1>1, <1>3, <1>4, <1>5
<1>7. QED
  BY <1>1, <1>2, <1>6 DEF r

\* The turns of the loop that copies blocks.
LEMMA MovedBlocksDef ==
    ASSUME NEW x \in Indexes, NEW start \in 0..Len(x.blocks), Dropped(x, start) \in Nat
    PROVE  /\ MovedBlocks(x, start) \in [0..(Len(x.blocks) - start) -> Indexes]
           /\ MovedBlocks(x, start)[0] = EmptyIndex(x.base + Dropped(x, start))
           /\ \A n \in 1..(Len(x.blocks) - start) :
                 MovedBlocks(x, start)[n] =
                 Moved(MovedBlocks(x, start)[n - 1], x.blocks[start + n])
<1> DEFINE L == (Len(x.blocks) - start)
           e == EmptyIndex(x.base + Dropped(x, start))
           step == [n \in 1..L |-> [y \in Indexes |-> Moved(y, x.blocks[start + n])]]
           Fixed(f) == f = [n \in 0..L |-> IF n = 0 THEN e
                 ELSE Moved(f[n - 1], x.blocks[start + n])]
<1>1. L \in Nat /\ e \in Indexes
  <2>1. x.base \in Nat /\ x.blocks \in Seq(Blocks)
    BY IndexFields
  <2>2. L \in Nat /\ x.base + Dropped(x, start) \in Nat
    BY <2>1
  <2>3. QED
    BY <2>2, EmptyIndexType
<1>2. \A n \in 1..L : \A y \in Indexes : Moved(y, x.blocks[start + n]) \in Indexes
  <2>1. x.blocks \in Seq(Blocks)
    BY IndexFields
  <2>2. ASSUME NEW n \in 1..L PROVE x.blocks[start + n] \in Blocks
    <3>1. start + n \in 1..Len(x.blocks)
      BY <2>1
    <3>2. QED
      BY <2>1, <3>1
  <2>3. QED
    BY <2>2, MovedType
<1>3. step \in [1..L -> [Indexes -> Indexes]]
  BY <1>2
<1>4. PICK f : IsRun(f, L, Indexes, e, step)
  <2> HIDE DEF L, step, e
  <2>1. QED
    BY <1>1, <1>3, LoopRuns
<1>5. /\ f \in [0..L -> Indexes] /\ f[0] = e
      /\ \A n \in 1..L : f[n] = Moved(f[n - 1], x.blocks[start + n])
  <2>1. /\ f \in [0..L -> Indexes] /\ f[0] = e
        /\ \A n \in 1..L : f[n] = step[n][f[n - 1]]
    BY <1>4 DEF IsRun
  <2>2. \A n \in 1..L : f[n - 1] \in Indexes
    <3> HIDE DEF L, e, step
    <3>1. \A n \in 1..L : n - 1 \in 0..L
      BY <1>1
    <3>2. QED
      BY <2>1, <3>1
  <2>3. QED
    BY <2>1, <2>2
<1> HIDE DEF step
<1>6. Fixed(f)
  <2> HIDE DEF L, e
  <2>1. ASSUME NEW n \in 0..L
        PROVE  f[n] = IF n = 0 THEN e ELSE Moved(f[n - 1], x.blocks[start + n])
    <3>1. CASE n = 0
      BY <1>5, <3>1
    <3>2. CASE n # 0
      <4>1. n \in 1..L
        BY <1>1, <3>2
      <4>2. f[n] = Moved(f[n - 1], x.blocks[start + n])
        BY <1>5, <4>1
      <4>3. QED
        BY <3>2, <4>2
    <3>3. QED
      BY <3>1, <3>2
  <2>2. QED
    BY <1>5, <2>1
<1>7. MovedBlocks(x, start) = CHOOSE g : Fixed(g)
  BY DEF MovedBlocks
<1>8. Fixed(MovedBlocks(x, start))
  <2> HIDE DEF Fixed
  <2>1. QED
    BY <1>6, <1>7
<1> DEFINE R == MovedBlocks(x, start)
<1> HIDE DEF R, e
<1>9. R = [n \in 0..L |-> IF n = 0 THEN e ELSE Moved(R[n - 1], x.blocks[start + n])]
  BY <1>8 DEF R, e
<1> HIDE DEF L
<1>10. /\ R[0] = e
       /\ \A n \in 1..L : R[n] = Moved(R[n - 1], x.blocks[start + n])
  <2>1. 0 \in 0..L /\ \A n \in 1..L : n \in 0..L /\ n # 0
    BY <1>1
  <2>2. QED
    BY <1>9, <2>1
<1>11. \A n \in 0..L : R[n] \in Indexes
  <2> DEFINE T == {n \in 0..L : R[n] \in Indexes}
  <2>1. 0 \in T
    BY <1>1, <1>10
  <2>2. ASSUME NEW n \in 1..L, n - 1 \in T PROVE n \in T
    <3>1. n \in 0..L
      BY <1>1
    <3> DEFINE y == R[n - 1]
    <3>2. y \in Indexes
      BY <2>2
    <3>3. R[n] = Moved(y, x.blocks[start + n])
      BY <1>10
    <3> HIDE DEF y
    <3>4. Moved(y, x.blocks[start + n]) \in Indexes
      BY <1>2, <3>2
    <3>5. QED
      BY <3>1, <3>3, <3>4
  <2> HIDE DEF T
  <2>3. \A n \in 0..L : n \in T
    BY <1>1, <2>1, <2>2, Induction
  <2>4. QED
    BY <2>3 DEF T
<1>12. R \in [0..L -> Indexes]
  <2>1. DOMAIN R = 0..L /\ R = [n \in DOMAIN R |-> R[n]]
    BY <1>9
  <2>2. QED
    BY <1>11, <2>1
<1>13. QED
  BY <1>10, <1>12 DEF R, L, e

\* A block costs at least its header and its bytes.
LEMMA CostType ==
    ASSUME NEW x \in Indexes, NEW i \in 1..Len(x.blocks)
    PROVE  Cost(x, i) \in Nat
<1> DEFINE S == {k \in DOMAIN x.gaps :
                    /\ x.gaps[k] > x.blocks[i].first
                    /\ i < Len(x.blocks) => x.gaps[k] =< x.blocks[i + 1].first}
<1>1. x.blocks \in Seq(Blocks) /\ x.gaps \in Seq(Nat)
  BY IndexFields
<1>2. x.blocks[i] \in Blocks
  BY <1>1
<1>3. x.blocks[i].size \in Nat
  BY <1>2 DEF Blocks
<1>4. IsFiniteSet(1..Len(x.gaps)) /\ S \subseteq 1..Len(x.gaps)
  <2>1. Len(x.gaps) \in Nat /\ DOMAIN x.gaps = 1..Len(x.gaps)
    BY <1>1
  <2>2. QED
    BY <2>1, FS_Interval
<1> HIDE DEF S
<1>5. Cardinality(S) \in Nat
  BY <1>4, FS_Subset, FS_CardinalityType
<1>6. Cost(x, i) = 1 + x.blocks[i].size + Cardinality(S)
  BY DEF Cost, S
<1>7. QED
  BY <1>3, <1>5, <1>6

\* The turns of the loop of enforceLimit.
LEMMA CostOfNewestDef ==
    ASSUME NEW x \in Indexes
    PROVE  /\ CostOfNewest(x) \in [0..Len(x.blocks) -> Nat]
           /\ CostOfNewest(x)[0] = 0
           /\ \A n \in 1..Len(x.blocks) :
                 CostOfNewest(x)[n] = CostOfNewest(x)[n - 1] + Cost(x, Len(x.blocks) + 1 - n)
<1> DEFINE L == Len(x.blocks)
           e == 0
           step == [n \in 1..L |-> [y \in Nat |-> y + Cost(x, Len(x.blocks) + 1 - n)]]
           Fixed(f) == f = [n \in 0..L |-> IF n = 0 THEN e
                 ELSE f[n - 1] + Cost(x, Len(x.blocks) + 1 - n)]
<1>1. L \in Nat /\ e \in Nat
  <2>1. x.blocks \in Seq(Blocks)
    BY IndexFields
  <2>2. QED
    BY <2>1
<1>2. \A n \in 1..L : \A y \in Nat : y + Cost(x, Len(x.blocks) + 1 - n) \in Nat
  <2>1. ASSUME NEW n \in 1..L PROVE Cost(x, Len(x.blocks) + 1 - n) \in Nat
    <3>1. x.blocks \in Seq(Blocks)
      BY IndexFields
    <3>2. Len(x.blocks) + 1 - n \in 1..Len(x.blocks)
      BY <3>1
    <3>3. QED
      BY <3>2, CostType
  <2>2. QED
    BY <2>1
<1>3. step \in [1..L -> [Nat -> Nat]]
  BY <1>2
<1>4. PICK f : IsRun(f, L, Nat, e, step)
  <2> HIDE DEF L, step, e
  <2>1. QED
    BY <1>1, <1>3, LoopRuns
<1>5. /\ f \in [0..L -> Nat] /\ f[0] = e
      /\ \A n \in 1..L : f[n] = f[n - 1] + Cost(x, Len(x.blocks) + 1 - n)
  <2>1. /\ f \in [0..L -> Nat] /\ f[0] = e
        /\ \A n \in 1..L : f[n] = step[n][f[n - 1]]
    BY <1>4 DEF IsRun
  <2>2. \A n \in 1..L : f[n - 1] \in Nat
    <3> HIDE DEF L, e, step
    <3>1. \A n \in 1..L : n - 1 \in 0..L
      BY <1>1
    <3>2. QED
      BY <2>1, <3>1
  <2>3. QED
    BY <2>1, <2>2
<1> HIDE DEF step
<1>6. Fixed(f)
  <2> HIDE DEF L, e
  <2>1. ASSUME NEW n \in 0..L
        PROVE  f[n] = IF n = 0 THEN e ELSE f[n - 1] + Cost(x, Len(x.blocks) + 1 - n)
    <3>1. CASE n = 0
      BY <1>5, <3>1
    <3>2. CASE n # 0
      <4>1. n \in 1..L
        BY <1>1, <3>2
      <4>2. f[n] = f[n - 1] + Cost(x, Len(x.blocks) + 1 - n)
        BY <1>5, <4>1
      <4>3. QED
        BY <3>2, <4>2
    <3>3. QED
      BY <3>1, <3>2
  <2>2. QED
    BY <1>5, <2>1
<1>7. CostOfNewest(x) = CHOOSE g : Fixed(g)
  BY DEF CostOfNewest
<1>8. Fixed(CostOfNewest(x))
  <2> HIDE DEF Fixed
  <2>1. QED
    BY <1>6, <1>7
<1> DEFINE R == CostOfNewest(x)
<1> HIDE DEF R, e
<1>9. R = [n \in 0..L |-> IF n = 0 THEN e ELSE R[n - 1] + Cost(x, Len(x.blocks) + 1 - n)]
  BY <1>8 DEF R, e
<1> HIDE DEF L
<1>10. /\ R[0] = e
       /\ \A n \in 1..L : R[n] = R[n - 1] + Cost(x, Len(x.blocks) + 1 - n)
  <2>1. 0 \in 0..L /\ \A n \in 1..L : n \in 0..L /\ n # 0
    BY <1>1
  <2>2. QED
    BY <1>9, <2>1
<1>11. \A n \in 0..L : R[n] \in Nat
  <2> DEFINE T == {n \in 0..L : R[n] \in Nat}
  <2>1. 0 \in T
    BY <1>1, <1>10
  <2>2. ASSUME NEW n \in 1..L, n - 1 \in T PROVE n \in T
    <3>1. n \in 0..L
      BY <1>1
    <3> DEFINE y == R[n - 1]
    <3>2. y \in Nat
      BY <2>2
    <3>3. R[n] = y + Cost(x, Len(x.blocks) + 1 - n)
      BY <1>10
    <3> HIDE DEF y
    <3>4. y + Cost(x, Len(x.blocks) + 1 - n) \in Nat
      BY <1>2, <3>2
    <3>5. QED
      BY <3>1, <3>3, <3>4
  <2> HIDE DEF T
  <2>3. \A n \in 0..L : n \in T
    BY <1>1, <2>1, <2>2, Induction
  <2>4. QED
    BY <2>3 DEF T
<1>12. R \in [0..L -> Nat]
  <2>1. DOMAIN R = 0..L /\ R = [n \in DOMAIN R |-> R[n]]
    BY <1>9
  <2>2. QED
    BY <1>11, <2>1
<1>13. QED
  BY <1>10, <1>12 DEF R, L, e

-----------------------------------------------------------------------------
(* What the loops compute.                                                 *)

\* The gaps of a sequence that are behind a line.
Behind(gaps, line) == {k \in 1..Len(gaps) : gaps[k] > line}

\* The gaps in order and up to the last line.
Ordered(gaps, lines) ==
    /\ gaps \in Seq(Nat)
    /\ \A i, j \in 1..Len(gaps) : i < j => gaps[i] < gaps[j]
    /\ \A i \in 1..Len(gaps) : gaps[i] =< lines

\* Not more gaps are behind a line than there are.
LEMMA BehindFinite ==
    ASSUME NEW gaps \in Seq(Nat), NEW line
    PROVE  /\ IsFiniteSet(Behind(gaps, line))
           /\ Cardinality(Behind(gaps, line)) \in Nat
           /\ Cardinality(Behind(gaps, line)) =< Len(gaps)
<1> DEFINE S == 1..Len(gaps)
           B == Behind(gaps, line)
<1>1. Len(gaps) \in Nat
  OBVIOUS
<1>2. IsFiniteSet(S) /\ Cardinality(S) = Len(gaps)
  <2>1. IsFiniteSet(S) /\ Cardinality(S) = IF 1 > Len(gaps) THEN 0 ELSE Len(gaps) - 1 + 1
    <3>1. 1 \in Int /\ Len(gaps) \in Int
      BY <1>1
    <3>2. QED
      BY <3>1, FS_Interval
  <2>2. QED
    BY <1>1, <2>1
<1>3. B \subseteq S
  BY DEF Behind
<1> HIDE DEF S, B
<1>4. IsFiniteSet(B) /\ Cardinality(B) =< Cardinality(S)
  BY <1>2, <1>3, FS_Subset
<1>5. Cardinality(B) \in Nat
  BY <1>4, FS_CardinalityType
<1>6. QED
  BY <1>2, <1>4, <1>5 DEF B

\* The first n gaps that are behind the dropped lines: those that the loop of
\* GapsAfter has counted.
LEMMA GapsAfterIsOrdered ==
    ASSUME NEW lines \in Nat, NEW gaps, Ordered(gaps, lines), NEW dropped \in Nat,
           dropped =< lines
    PROVE  /\ Ordered(GapsAfter(gaps, dropped), lines - dropped)
           /\ \A i \in 1..Len(GapsAfter(gaps, dropped)) :
                 GapsAfter(gaps, dropped)[i] > 0
           /\ Len(GapsAfter(gaps, dropped)) = Cardinality(Behind(gaps, dropped))
<1> DEFINE L == Len(gaps)
           K == GapLoop(gaps, dropped)
           First(n) == {k \in 1..n : gaps[k] > dropped}
           P(n) == /\ \A i, j \in 1..Len(K[n]) : i < j => K[n][i] < K[n][j]
                   /\ \A i \in 1..Len(K[n]) :
                         /\ K[n][i] > 0
                         /\ \E k \in 1..n : K[n][i] + dropped = gaps[k]
                   /\ IsFiniteSet(First(n))
                   /\ Len(K[n]) = Cardinality(First(n))
           T == {n \in 0..L : P(n)}
<1>1. /\ gaps \in Seq(Nat) /\ L \in Nat
      /\ \A i \in 1..L : gaps[i] \in Nat /\ gaps[i] =< lines
      /\ \A i, j \in 1..L : i < j => gaps[i] < gaps[j]
  BY DEF Ordered
<1>2. /\ K \in [0..L -> Seq(Nat)]
      /\ K[0] = << >>
      /\ \A n \in 1..L : K[n] = IF gaps[n] =< dropped THEN K[n - 1]
                                ELSE Append(K[n - 1], gaps[n] - dropped)
  BY <1>1, GapLoopDef
<1> HIDE DEF K, L
<1>3. 0 \in T
  <2>1. First(0) = {} /\ Len(K[0]) = 0
    BY <1>2
  <2>2. IsFiniteSet({}) /\ Cardinality({}) = 0
    BY FS_EmptySet
  <2>3. P(0)
    BY <2>1, <2>2
  <2>4. QED
    BY <1>1, <2>3
<1>4. ASSUME NEW n \in 1..L, n - 1 \in T PROVE n \in T
  <2> DEFINE s == K[n - 1]
             t == K[n]
             m == Len(s)
             g == gaps[n]
  <2>1. n \in Nat /\ n - 1 \in 0..L /\ n \in 0..L
    BY <1>1
  <2>2. s \in Seq(Nat) /\ t \in Seq(Nat) /\ m \in Nat /\ g \in Nat
    BY <1>1, <1>2, <2>1
  <2>3. /\ \A i, j \in 1..m : i < j => s[i] < s[j]
        /\ \A i \in 1..m : /\ s[i] > 0
                           /\ \E k \in 1..(n - 1) : s[i] + dropped = gaps[k]
        /\ IsFiniteSet(First(n - 1))
        /\ m = Cardinality(First(n - 1))
    BY <1>4
  <2>4. \A k \in 1..n : k \in 1..(n - 1) \/ k = n
    BY <2>1
  <2>5. \A k \in 1..(n - 1) : k \in 1..n /\ k < n /\ k \in 1..L
    BY <1>1, <2>1
  <2>6. CASE g =< dropped
    <3>1. t = s
      BY <1>2, <2>6
    <3>2. First(n) = First(n - 1)
      <4>1. ~(gaps[n] > dropped)
        BY <2>2, <2>6
      <4>2. QED
        BY <2>4, <2>5, <4>1
    <3>3. \A i \in 1..m : \E k \in 1..n : s[i] + dropped = gaps[k]
      BY <2>3, <2>5
    <3> HIDE DEF First
    <3>4. P(n)
      BY <2>3, <3>1, <3>2, <3>3
    <3>5. QED
      BY <2>1, <3>4
  <2>7. CASE ~(g =< dropped)
    <3> DEFINE v == g - dropped
    <3>1. t = Append(s, v)
      BY <1>2, <2>7
    <3>2. v \in Nat /\ v > 0 /\ v + dropped = g
      <4>1. g \in Nat /\ ~(g =< dropped) /\ dropped \in Nat
        BY <2>2, <2>7
      <4> HIDE DEF g
      <4>2. QED
        BY <4>1
    <3> HIDE DEF s, t, v, m
    <3>3. /\ Len(t) = m + 1 /\ t[m + 1] = v
          /\ \A i \in 1..m : t[i] = s[i]
      BY <2>2, <3>1, <3>2, AppendProperties DEF m
    <3>4. ASSUME NEW i \in 1..m PROVE s[i] < v
      <4>1. PICK k \in 1..(n - 1) : s[i] + dropped = gaps[k]
        BY <2>3
      <4>2. gaps[k] < g /\ gaps[k] \in Nat
        BY <1>1, <2>5
      <4>3. s[i] \in Nat
        BY <2>2 DEF m
      <4>4. QED
        BY <2>2, <3>2, <4>1, <4>2, <4>3
    <3>5. ASSUME NEW i \in 1..Len(t), NEW j \in 1..Len(t), i < j PROVE t[i] < t[j]
      <4>1. i \in 1..m /\ (j \in 1..m \/ j = m + 1)
        BY <2>2, <3>3, <3>5
      <4>2. QED
        BY <2>3, <3>3, <3>4, <3>5, <4>1
    <3>6. ASSUME NEW i \in 1..Len(t)
          PROVE  t[i] > 0 /\ \E k \in 1..n : t[i] + dropped = gaps[k]
      <4>1. i \in 1..m \/ i = m + 1
        BY <2>2, <3>3
      <4>2. CASE i \in 1..m
        <5>1. s[i] > 0 /\ t[i] = s[i]
          BY <2>3, <3>3, <4>2
        <5>2. PICK k \in 1..(n - 1) : s[i] + dropped = gaps[k]
          BY <2>3, <4>2
        <5>3. QED
          BY <2>5, <5>1, <5>2
      <4>3. CASE i = m + 1
        <5>1. n \in 1..n /\ t[i] = v /\ v + dropped = gaps[n]
          BY <2>1, <3>2, <3>3, <4>3
        <5>2. QED
          BY <3>2, <5>1
      <4>4. QED
        BY <4>1, <4>2, <4>3
    <3>7. First(n) = First(n - 1) \cup {n} /\ n \notin First(n - 1)
      <4>1. gaps[n] > dropped
        BY <2>2, <2>7
      <4>2. QED
        BY <2>1, <2>4, <2>5, <4>1
    <3> DEFINE A == First(n - 1)
    <3>8. IsFiniteSet(A) /\ Cardinality(A) = m /\ n \notin A /\ First(n) = A \cup {n}
      BY <2>3, <3>7
    <3> HIDE DEF A, First
    <3>9. IsFiniteSet(First(n)) /\ Cardinality(First(n)) = m + 1
      BY <3>8, FS_AddElement
    <3>10. P(n)
      BY <3>3, <3>5, <3>6, <3>9 DEF t
    <3>11. QED
      BY <2>1, <3>10
  <2>8. QED
    BY <2>6, <2>7
<1>5. P(L)
  <2>1. \A n \in 0..L : n \in T
    <3> HIDE DEF T
    <3>1. QED
      BY <1>1, <1>3, <1>4, Induction
  <2>2. L \in 0..L
    BY <1>1
  <2> HIDE DEF P
  <2>3. QED
    BY <2>1, <2>2
<1> DEFINE G == K[L]
<1>6. G \in Seq(Nat)
  BY <1>1, <1>2
<1>7. GapsAfter(gaps, dropped) = G
  BY GapsAfterIs DEF K, L
<1>8. First(L) = Behind(gaps, dropped)
  BY DEF Behind, L
<1>9. ASSUME NEW i \in 1..Len(G) PROVE G[i] > 0 /\ G[i] =< lines - dropped
  <2>1. G[i] > 0 /\ \E k \in 1..L : G[i] + dropped = gaps[k]
    BY <1>5
  <2>2. PICK k \in 1..L : G[i] + dropped = gaps[k]
    BY <2>1
  <2>3. G[i] \in Nat
    BY <1>6
  <2> DEFINE u == G[i]
             v == gaps[k]
  <2>4. /\ u \in Nat /\ u > 0 /\ v \in Nat /\ v =< lines /\ u + dropped = v
        /\ lines \in Nat /\ dropped \in Nat
    BY <1>1, <2>1, <2>2, <2>3
  <2> HIDE DEF u, v
  <2>5. u > 0 /\ u =< lines - dropped
    BY <2>4
  <2>6. QED
    BY <2>5 DEF u
<1>10. /\ \A i, j \in 1..Len(G) : i < j => G[i] < G[j]
       /\ Len(G) = Cardinality(Behind(gaps, dropped))
  BY <1>5, <1>8
<1> HIDE DEF G
<1>11. QED
  BY <1>6, <1>7, <1>9, <1>10 DEF Ordered

\* A sound index has its gaps in order.
LEMMA SoundOrdered ==
    ASSUME NEW x, Sound(x)
    PROVE  /\ x \in Indexes /\ Ordered(x.gaps, x.lines)
           /\ x.lines \in Nat /\ x.blocks \in Seq(Blocks) /\ x.gaps \in Seq(Nat)
           /\ Len(x.blocks) \in Nat
<1>1. x \in Indexes
  BY DEF Sound
<1>2. /\ x.lines \in Nat /\ x.blocks \in Seq(Blocks) /\ x.gaps \in Seq(Nat)
  BY <1>1, IndexFields
<1>3. QED
  BY <1>1, <1>2 DEF Sound, Ordered

\* The lines in front of a block.
LEMMA FirstOfType ==
    ASSUME NEW x, Sound(x), NEW i \in 1..(Len(x.blocks) + 1)
    PROVE  FirstOf(x, i) \in Nat
<1>1. x.lines \in Nat /\ x.blocks \in Seq(Blocks)
  BY SoundOrdered
<1>2. CASE i =< Len(x.blocks)
  <2>1. x.blocks[i] \in Blocks
    BY <1>1, <1>2
  <2>2. QED
    BY <1>2, <2>1 DEF FirstOf, Blocks
<1>3. CASE ~(i =< Len(x.blocks))
  BY <1>1, <1>3 DEF FirstOf
<1>4. QED
  BY <1>2, <1>3

\* droppedLines is the first line of what is kept.
LEMMA DroppedIs ==
    ASSUME NEW x, Sound(x), NEW start \in 0..Len(x.blocks)
    PROVE  Dropped(x, start) = FirstOf(x, start + 1) /\ Dropped(x, start) \in Nat
<1>1. Len(x.blocks) \in Nat
  BY SoundOrdered
<1>2. Dropped(x, start) = FirstOf(x, start + 1)
  BY <1>1 DEF Dropped, FirstOf
<1>3. start + 1 \in 1..(Len(x.blocks) + 1)
  BY <1>1
<1>4. QED
  BY <1>2, <1>3, FirstOfType

\* The new index after n blocks have been copied: its lines and bytes are those of
\* the blocks, counted from the first one that is kept.
MovedUpTo(x, start, n, y) ==
    /\ y \in Indexes
    /\ y.ok
    /\ y.base = x.base + Dropped(x, start)
    /\ y.gaps = << >>
    /\ y.records = n
    /\ Len(y.blocks) = n
    /\ y.lines + Dropped(x, start) = FirstOf(x, start + n + 1)
    /\ y.end + BlockBytes(x.blocks)[start] = BlockBytes(x.blocks)[start + n]

\* A block that is copied.
LEMMA MovedStep ==
    ASSUME NEW x, Sound(x), NEW start \in 0..Len(x.blocks),
           NEW n \in 1..(Len(x.blocks) - start), NEW y, MovedUpTo(x, start, n - 1, y)
    PROVE  MovedUpTo(x, start, n, Moved(y, x.blocks[start + n]))
<1> DEFINE b == x.blocks[start + n]
           z == Moved(y, b)
           B == BlockBytes(x.blocks)
           d == Dropped(x, start)
           c == [at |-> y.records + 1, first |-> y.lines, count |-> b.count,
                 size |-> b.size]
           cs == Append(y.blocks, c)
<1>1. x \in Indexes /\ x.blocks \in Seq(Blocks) /\ Len(x.blocks) \in Nat
  BY SoundOrdered
<1>2. start + n \in 1..Len(x.blocks) /\ start \in Nat /\ n \in Nat
  BY <1>1
<1>3. b \in Blocks /\ b.count \in Nat /\ b.size \in Nat
  <2>1. b \in Blocks
    BY <1>1, <1>2
  <2>2. QED
    BY <2>1 DEF Blocks
<1>4. /\ y \in Indexes /\ y.base = x.base + d /\ y.gaps = << >> /\ y.records = n - 1
      /\ Len(y.blocks) = n - 1 /\ y.lines + d = FirstOf(x, start + (n - 1) + 1)
      /\ y.end + B[start] = B[start + (n - 1)]
  BY DEF MovedUpTo
<1>5. y.lines \in Nat /\ y.end \in Nat /\ y.records \in Nat /\ y.blocks \in Seq(Blocks)
  BY <1>4, IndexFields
<1>6. y.ok
  BY DEF MovedUpTo
<1>7. z = [base |-> y.base, blocks |-> cs, gaps |-> y.gaps, lines |-> y.lines + b.count,
           records |-> y.records + 1, end |-> y.end + 1 + b.size, ok |-> y.ok]
  BY <1>3, <1>4, MovedIs, Zenon
<1>8. z \in Indexes
  BY <1>3, <1>4, MovedType
<1>9. Len(cs) = n
  <2>1. c \in Blocks
    BY <1>3, <1>5 DEF Blocks
  <2>2. Len(cs) = Len(y.blocks) + 1
    BY <1>5, <2>1, AppendProperties
  <2>3. QED
    BY <1>2, <1>4, <2>2
<1> HIDE DEF z, cs, b, B, d
<1>10. /\ z.base = y.base /\ z.blocks = cs /\ z.gaps = y.gaps
       /\ z.lines = y.lines + b.count /\ z.records = y.records + 1
       /\ z.end = y.end + 1 + b.size
  BY <1>7
<1>11. z.ok
  BY <1>6, <1>7
<1>12. z.lines + d = FirstOf(x, start + n + 1)
  <2>1. FirstOf(x, (start + n) + 1) = b.first + b.count
    BY <1>2 DEF Sound, b
  <2>2. FirstOf(x, start + n) = b.first
    BY <1>2 DEF FirstOf, b
  <2>3. start + (n - 1) + 1 = start + n
    BY <1>2
  <2>4. b.first \in Nat
    BY <1>3 DEF Blocks
  <2>5. d \in Nat
    BY DroppedIs DEF d
  <2>6. y.lines + d = b.first
    BY <1>4, <2>2, <2>3
  <2>7. QED
    BY <1>3, <1>5, <1>10, <2>1, <2>4, <2>5, <2>6
<1>13. z.end + B[start] = B[start + n]
  <2>1. B[start + n] = B[(start + n) - 1] + 1 + b.size
    BY <1>1, <1>2, BlockBytesDef DEF B, b
  <2>2. (start + n) - 1 = start + (n - 1) /\ start \in 0..Len(x.blocks)
        /\ start + (n - 1) \in 0..Len(x.blocks)
    BY <1>1, <1>2
  <2>3. B \in [0..Len(x.blocks) -> Nat]
    BY <1>1, BlockBytesDef DEF B
  <2>4. B[start] \in Nat /\ B[start + (n - 1)] \in Nat
    BY <2>2, <2>3
  <2> DEFINE u == B[start]
             v == B[start + (n - 1)]
             w == B[start + n]
             e == y.end
             k == b.size
  <2>5. /\ u \in Nat /\ v \in Nat /\ e \in Nat /\ k \in Nat
        /\ w = v + 1 + k /\ e + u = v
    BY <1>3, <1>4, <1>5, <2>1, <2>2, <2>4
  <2> HIDE DEF u, v, w, e, k
  <2>6. (e + 1 + k) + u = w
    BY <2>5
  <2>7. QED
    BY <1>10, <2>6 DEF u, w, e, k
<1>14. z.records = n
  BY <1>2, <1>4, <1>10
<1>15. QED
  BY <1>4, <1>8, <1>9, <1>10, <1>11, <1>12, <1>13, <1>14
     DEF MovedUpTo, z, b, B, d

\* No block has been copied.
LEMMA MovedInit ==
    ASSUME NEW x, Sound(x), NEW start \in 0..Len(x.blocks)
    PROVE  MovedUpTo(x, start, 0, EmptyIndex(x.base + Dropped(x, start)))
<1> DEFINE d == Dropped(x, start)
           y == EmptyIndex(x.base + d)
           B == BlockBytes(x.blocks)
<1>1. x \in Indexes /\ x.blocks \in Seq(Blocks) /\ x.base \in Nat
  BY SoundOrdered, IndexFields
<1>2. d = FirstOf(x, start + 1) /\ d \in Nat
  BY DroppedIs
<1>3. x.base + d \in Nat /\ start \in Nat
  BY <1>1, <1>2
<1> HIDE DEF d
<1>4. /\ y \in Indexes /\ y.base = x.base + d /\ y.gaps = << >> /\ y.records = 0
      /\ y.blocks = << >> /\ y.lines = 0 /\ y.end = 0
  BY <1>3, EmptyIndexType DEF EmptyIndex
<1>5. y.ok
  BY DEF EmptyIndex
<1>6. B[start] \in Nat
  <2>1. B \in [0..Len(x.blocks) -> Nat]
    BY <1>1, BlockBytesDef
  <2>2. QED
    BY <2>1
<1> HIDE DEF y, B
<1>7. y.lines + d = FirstOf(x, start + 0 + 1) /\ y.end + B[start] = B[start + 0]
  <2>1. start + 0 + 1 = start + 1 /\ start + 0 = start
    BY <1>3
  <2>2. QED
    BY <1>2, <1>4, <1>6, <2>1
<1>8. Len(y.blocks) = 0
  BY <1>4
<1>9. QED
  BY <1>4, <1>5, <1>7, <1>8 DEF MovedUpTo, y, B, d

\* The loop that copies blocks.
LEMMA MovedBlocksUpTo ==
    ASSUME NEW x, Sound(x), NEW start \in 0..Len(x.blocks)
    PROVE  \A n \in 0..(Len(x.blocks) - start) :
              MovedUpTo(x, start, n, MovedBlocks(x, start)[n])
<1> DEFINE N == Len(x.blocks) - start
           M == MovedBlocks(x, start)
           T == {n \in 0..N : MovedUpTo(x, start, n, M[n])}
<1>1. x \in Indexes /\ Len(x.blocks) \in Nat /\ Dropped(x, start) \in Nat
  BY SoundOrdered, DroppedIs
<1>2. /\ M[0] = EmptyIndex(x.base + Dropped(x, start))
      /\ \A n \in 1..N : M[n] = Moved(M[n - 1], x.blocks[start + n])
  BY <1>1, MovedBlocksDef
<1>3. N \in Nat
  BY <1>1
<1> HIDE DEF M
<1>4. 0 \in T
  BY <1>2, <1>3, MovedInit
<1>5. ASSUME NEW n \in 1..N, n - 1 \in T PROVE n \in T
  <2>1. MovedUpTo(x, start, n - 1, M[n - 1])
    BY <1>5
  <2>2. MovedUpTo(x, start, n, Moved(M[n - 1], x.blocks[start + n]))
    BY <2>1, MovedStep
  <2>3. n \in 0..N
    BY <1>3
  <2>4. QED
    BY <1>2, <2>2, <2>3
<1>6. \A n \in 0..N : n \in T
  <2> HIDE DEF T, N
  <2>1. QED
    BY <1>3, <1>4, <1>5, Induction
<1>7. QED
  BY <1>6 DEF M

\* Indexes with the same fields are the same.
LEMMA SameIndex ==
    ASSUME NEW x \in Indexes, NEW y \in Indexes, x.ok, y.ok,
           x.base = y.base, x.blocks = y.blocks, x.gaps = y.gaps,
           x.lines = y.lines, x.records = y.records, x.end = y.end
    PROVE  x = y
<1>1. x.ok = y.ok
  <2>1. x.ok \in BOOLEAN /\ y.ok \in BOOLEAN
    BY DEF Indexes
  <2>2. QED
    BY <2>1
<1>2. QED
  BY <1>1 DEF Indexes

\* z is the new index: y, the index of the copied blocks, with the gaps that are
\* kept.
IsReindexed(x, start, y, gaps, z) ==
    /\ MovedUpTo(x, start, Len(x.blocks) - start, y)
    /\ Dropped(x, start) \in Nat /\ Dropped(x, start) =< x.lines
    /\ y.lines = x.lines - Dropped(x, start)
    /\ Ordered(gaps, y.lines)
    /\ \A i \in 1..Len(gaps) : gaps[i] > 0
    /\ Len(gaps) = Cardinality(Behind(x.gaps, Dropped(x, start)))
    /\ z \in Indexes
    /\ z.ok
    /\ z.base = x.base + Dropped(x, start)
    /\ z.blocks = y.blocks
    /\ z.gaps = gaps
    /\ z.lines = y.lines
    /\ z.records = Len(x.blocks) - start + Len(gaps)
    /\ z.end = y.end + Len(gaps)

\* The fields of the new index.
LEMMA ReindexedIs ==
    ASSUME NEW x, Sound(x), NEW start \in 0..Len(x.blocks)
    PROVE  IsReindexed(x, start, MovedBlocks(x, start)[Len(x.blocks) - start],
                       GapsAfter(x.gaps, Dropped(x, start)), Reindexed(x, start))
<1> DEFINE N == Len(x.blocks) - start
           d == Dropped(x, start)
           y == MovedBlocks(x, start)[N]
           gaps == GapsAfter(x.gaps, d)
           z == Reindexed(x, start)
<1>1. Len(x.blocks) \in Nat /\ x.lines \in Nat /\ Ordered(x.gaps, x.lines)
  BY SoundOrdered
<1>2. N \in 0..N /\ N \in Nat
  BY <1>1
<1>3. MovedUpTo(x, start, N, y)
  BY <1>2, MovedBlocksUpTo
<1>4. d \in Nat
  BY DroppedIs
<1>5. /\ y \in Indexes /\ y.base = x.base + d /\ y.records = N
      /\ y.lines + d = FirstOf(x, start + N + 1)
  BY <1>3 DEF MovedUpTo
<1>6. y.lines \in Nat /\ y.records \in Nat /\ y.end \in Nat /\ y.base \in Nat
      /\ y.blocks \in Seq(Blocks)
  BY <1>5, IndexFields
<1>7. FirstOf(x, start + N + 1) = x.lines
  <2>1. start + N + 1 = Len(x.blocks) + 1
    BY <1>1
  <2>2. ~(Len(x.blocks) + 1 =< Len(x.blocks))
    BY <1>1
  <2>3. QED
    BY <2>1, <2>2 DEF FirstOf
<1> HIDE DEF d, N, y, gaps
<1>8. d =< x.lines /\ y.lines = x.lines - d
  BY <1>1, <1>4, <1>5, <1>6, <1>7
<1>9. /\ Ordered(gaps, y.lines)
      /\ \A i \in 1..Len(gaps) : gaps[i] > 0
      /\ Len(gaps) = Cardinality(Behind(x.gaps, d))
  <2>1. /\ Ordered(GapsAfter(x.gaps, d), x.lines - d)
        /\ \A i \in 1..Len(GapsAfter(x.gaps, d)) : GapsAfter(x.gaps, d)[i] > 0
        /\ Len(GapsAfter(x.gaps, d)) = Cardinality(Behind(x.gaps, d))
    BY <1>1, <1>4, <1>8, GapsAfterIsOrdered
  <2>2. gaps = GapsAfter(x.gaps, d)
    BY DEF gaps
  <2>3. QED
    BY <1>8, <2>1, <2>2
<1>10. gaps \in Seq(Nat) /\ Len(gaps) \in Nat
  BY <1>9 DEF Ordered
<1>11. z = [y EXCEPT !.gaps = gaps, !.records = @ + Len(gaps), !.end = @ + Len(gaps)]
  BY DEF Reindexed, y, gaps, d, N
<1>12. y.ok
  BY <1>3 DEF MovedUpTo
<1> HIDE DEF z
<1>13. /\ z.base = y.base /\ z.blocks = y.blocks /\ z.gaps = gaps /\ z.lines = y.lines
       /\ z.records = y.records + Len(gaps) /\ z.end = y.end + Len(gaps)
       /\ z.ok
  BY <1>5, <1>11, <1>12 DEF Indexes
<1>14. z \in Indexes
  <2> DEFINE p == y.records + Len(gaps)
             q == y.end + Len(gaps)
  <2>1. p \in Nat /\ q \in Nat
    BY <1>6, <1>10
  <2>2. z = [y EXCEPT !.gaps = gaps, !.records = p, !.end = q]
    BY <1>11
  <2> HIDE DEF p, q
  <2>3. QED
    BY <1>5, <1>10, <2>1, <2>2 DEF Indexes
<1>15. QED
  <2>1. z.base = x.base + d /\ z.records = N + Len(gaps)
    BY <1>5, <1>13
  <2>2. IsReindexed(x, start, y, gaps, z)
    BY <1>3, <1>4, <1>8, <1>9, <1>13, <1>14, <2>1 DEF IsReindexed, d, N
  <2>3. QED
    BY <2>2 DEF y, gaps, z, d, N

-----------------------------------------------------------------------------
(* Compaction: the new file is recovered to the new index.                 *)

\* c is a file of the last N blocks of x, behind the first start, and the gaps.
KeepsBlocks(c, x, start, N, gaps) ==
    /\ c \in Files /\ c.base = x.base + Dropped(x, start)
    /\ N \in Nat /\ Len(gaps) \in Nat /\ Len(c.records) = N + Len(gaps)
    /\ \A n \in 1..N : /\ x.blocks[start + n] \in Blocks
                       /\ c.records[n] =
                             Record("lines", x.base + x.blocks[start + n].first,
                                    x.blocks[start + n].count,
                                    x.blocks[start + n].size)
    /\ \A j \in 1..Len(gaps) :
          c.records[N + j] = Record("gap", c.base + gaps[j], gaps[j], 0)

\* The records of the compacted file.
LEMMA CompactedRecords ==
    ASSUME NEW file, WholeFile(file), NEW x, x = Recovered(file),
           NEW start \in 0..Len(x.blocks)
    PROVE  KeepsBlocks(Compacted(file, x, start), x, start, Len(x.blocks) - start,
                       GapsAfter(x.gaps, Dropped(x, start)))
<1> DEFINE N == Len(x.blocks) - start
           gaps == GapsAfter(x.gaps, Dropped(x, start))
           c == Compacted(file, x, start)
           kept == KeptBlocks(file, x, start)
           base == x.base + Dropped(x, start)
           marks == GapRecords(base, gaps)
<1>1. /\ file \in Files /\ Len(file.records) \in Nat
      /\ Describes(x, file, Len(file.records)) /\ Sound(x)
  BY WholeRecovered
<1>2. x \in Indexes /\ x.blocks \in Seq(Blocks) /\ Len(x.blocks) \in Nat
  BY <1>1, SoundOrdered
<1>3. N \in Nat /\ base \in Nat
  <2>1. Dropped(x, start) \in Nat /\ x.base \in Nat
    BY <1>1, <1>2, DroppedIs, IndexFields
  <2>2. QED
    BY <1>2, <2>1
<1>4. gaps \in Seq(Nat) /\ Len(gaps) \in Nat
  <2> DEFINE y == MovedBlocks(x, start)[Len(x.blocks) - start]
  <2>1. IsReindexed(x, start, y, gaps, Reindexed(x, start))
    BY <1>1, ReindexedIs
  <2> HIDE DEF y, gaps
  <2>2. QED
    BY <2>1 DEF IsReindexed, Ordered
<1>5. ASSUME NEW n \in 1..N
      PROVE  /\ x.blocks[start + n] \in Blocks
             /\ kept[n] \in Records
             /\ kept[n] = Record("lines", x.base + x.blocks[start + n].first,
                                 x.blocks[start + n].count, x.blocks[start + n].size)
  <2> DEFINE i == start + n
  <2>1. i \in 1..Len(x.blocks)
    BY <1>2
  <2>2. kept[n] = file.records[x.blocks[i].at]
    BY DEF KeptBlocks
  <2>3. x.blocks[i] \in Blocks
    BY <1>2, <2>1
  <2> HIDE DEF i, kept
  <2>4. /\ x.blocks[i].at \in 1..Len(file.records)
        /\ file.records[x.blocks[i].at] =
              Record("lines", x.base + x.blocks[i].first, x.blocks[i].count,
                     x.blocks[i].size)
    BY <1>1, <2>1 DEF Describes
  <2>5. file.records[x.blocks[i].at] \in Records
    BY <1>1, <2>4 DEF Files
  <2>6. QED
    BY <2>2, <2>3, <2>4, <2>5 DEF i
<1>6. kept \in Seq(Records) /\ Len(kept) = N
  <2>1. kept = [n \in 1..N |-> kept[n]]
    BY DEF KeptBlocks
  <2>2. \A n \in 1..N : kept[n] \in Records
    BY <1>5
  <2> HIDE DEF kept, N
  <2>3. QED
    BY <1>3, <2>1, <2>2
<1>7. ASSUME NEW j \in 1..Len(gaps)
      PROVE  marks[j] \in Records /\ marks[j] = Record("gap", base + gaps[j], gaps[j], 0)
  <2>1. gaps[j] \in Nat
    BY <1>4
  <2>2. marks[j] = Record("gap", base + gaps[j], gaps[j], 0)
    BY DEF GapRecords
  <2> HIDE DEF base, marks
  <2>3. base + gaps[j] \in Nat
    BY <1>3, <2>1
  <2>4. QED
    BY <2>1, <2>2, <2>3 DEF Record, Records
<1>8. marks \in Seq(Records) /\ Len(marks) = Len(gaps)
  <2>1. marks = [j \in 1..Len(gaps) |-> marks[j]]
    BY DEF GapRecords
  <2> HIDE DEF marks, gaps
  <2>2. QED
    BY <1>4, <1>7, <2>1
<1>9. c = [base |-> base, records |-> kept \o marks]
  BY DEF Compacted
<1> DEFINE s == kept \o marks
<1> HIDE DEF kept, marks, base, c, N, gaps
<1>10. /\ s \in Seq(Records) /\ Len(s) = Len(kept) + Len(marks)
       /\ \A i \in 1..(Len(kept) + Len(marks)) :
             s[i] = IF i =< Len(kept) THEN kept[i] ELSE marks[i - Len(kept)]
  BY <1>6, <1>8, ConcatProperties
<1>11. Len(s) = N + Len(gaps)
  BY <1>6, <1>8, <1>10
<1> HIDE DEF s
<1>12. c = [base |-> base, records |-> s]
  BY <1>9 DEF s
<1>13. c \in Files /\ c.base = base /\ c.records = s
  BY <1>3, <1>10, <1>12 DEF Files
<1>14. ASSUME NEW n \in 1..N PROVE s[n] = kept[n]
  <2>1. n \in 1..(Len(kept) + Len(marks)) /\ n =< Len(kept)
    BY <1>3, <1>4, <1>6, <1>8
  <2>2. QED
    BY <1>10, <2>1
<1>15. ASSUME NEW j \in 1..Len(gaps) PROVE s[N + j] = marks[j]
  <2>1. /\ N + j \in 1..(Len(kept) + Len(marks)) /\ ~(N + j =< N)
        /\ (N + j) - N = j /\ Len(kept) = N
    BY <1>3, <1>4, <1>6, <1>8
  <2>2. s[N + j] = marks[(N + j) - Len(kept)]
    BY <1>10, <2>1
  <2>3. QED
    BY <2>1, <2>2
<1>16. ASSUME NEW n \in 1..N
       PROVE  /\ x.blocks[start + n] \in Blocks
              /\ c.records[n] = Record("lines", x.base + x.blocks[start + n].first,
                                       x.blocks[start + n].count,
                                       x.blocks[start + n].size)
  BY <1>5, <1>13, <1>14
<1>17. ASSUME NEW j \in 1..Len(gaps)
       PROVE  c.records[N + j] = Record("gap", c.base + gaps[j], gaps[j], 0)
  BY <1>7, <1>13, <1>15
<1>18. c.base = x.base + Dropped(x, start) /\ Len(c.records) = N + Len(gaps)
  BY <1>11, <1>13 DEF base
<1>19. KeepsBlocks(c, x, start, N, gaps)
  BY <1>3, <1>4, <1>13, <1>16, <1>17, <1>18 DEF KeepsBlocks
<1>20. QED
  BY <1>19 DEF c, N, gaps

\* The kept blocks of the compacted file are recovered to the blocks of the new
\* index.
LEMMA CompactedBlocks ==
    ASSUME NEW x, Sound(x), NEW start \in 0..Len(x.blocks), NEW c, NEW gaps,
           KeepsBlocks(c, x, start, Len(x.blocks) - start, gaps)
    PROVE  \A n \in 0..(Len(x.blocks) - start) :
              /\ Recovery(c)[n] = MovedBlocks(x, start)[n]
              /\ Describes(Recovery(c)[n], c, n)
<1> DEFINE M == MovedBlocks(x, start)
           R == Recovery(c)
           d == Dropped(x, start)
           N == Len(x.blocks) - start
           T == {n \in 0..N : R[n] = M[n] /\ Describes(R[n], c, n)}
<1>1. Sound(x) /\ x \in Indexes /\ Len(x.blocks) \in Nat /\ x.base \in Nat
  BY SoundOrdered, IndexFields
<1>2. d \in Nat
  BY <1>1, DroppedIs
<1>3. /\ c \in Files /\ c.base = x.base + d /\ N \in Nat
      /\ Len(gaps) \in Nat /\ Len(c.records) = N + Len(gaps)
      /\ \A n \in 1..N : /\ x.blocks[start + n] \in Blocks
                         /\ c.records[n] =
                               Record("lines", x.base + x.blocks[start + n].first,
                                      x.blocks[start + n].count,
                                      x.blocks[start + n].size)
  BY DEF KeepsBlocks
<1>4. /\ R[0] = EmptyIndex(c.base)
      /\ \A n \in 1..Len(c.records) : R[n] = Indexed(R[n - 1], c.records[n])
  BY <1>3, RecoveryDef
<1>5. /\ M[0] = EmptyIndex(x.base + d)
      /\ \A n \in 1..N : M[n] = Moved(M[n - 1], x.blocks[start + n])
  BY <1>1, <1>2, MovedBlocksDef
<1>6. \A n \in 0..N : MovedUpTo(x, start, n, M[n])
  BY <1>1, MovedBlocksUpTo
<1> HIDE DEF M, R
<1>7. 0 \in T
  <2>1. R[0] = M[0] /\ R[0] = EmptyIndex(c.base)
    BY <1>3, <1>4, <1>5
  <2>2. c.base \in Nat /\ c \in Files
    BY <1>3 DEF Files
  <2> DEFINE y == EmptyIndex(c.base)
  <2>3. Sound(y)
    BY <2>2, WholeEmpty
  <2>4. y.blocks = << >> /\ y.base = c.base /\ y.records = 0
    BY DEF EmptyIndex
  <2> HIDE DEF y
  <2>5. Describes(y, c, 0)
    BY <2>3, <2>4 DEF Describes
  <2>6. R[0] = M[0] /\ Describes(R[0], c, 0) /\ 0 \in 0..N
    BY <1>3, <2>1, <2>5 DEF y
  <2>7. QED
    BY <2>6
<1>8. ASSUME NEW n \in 1..N, n - 1 \in T PROVE n \in T
  <2> DEFINE y == M[n - 1]
             b == x.blocks[start + n]
             r == c.records[n]
  <2>1. n \in 0..N /\ n - 1 \in 0..N /\ n \in 1..Len(c.records)
    BY <1>3
  <2>2. R[n - 1] = y /\ Describes(y, c, n - 1)
    BY <1>8
  <2>3. MovedUpTo(x, start, n - 1, y)
    BY <1>6, <2>1
  <2>4. y \in Indexes /\ y.base = c.base /\ y.lines + d = FirstOf(x, start + (n - 1) + 1)
        /\ y.gaps = << >>
    BY <1>3, <2>3 DEF MovedUpTo
  <2>5. b \in Blocks /\ r = Record("lines", x.base + b.first, b.count, b.size)
    BY <1>3
  <2>6. /\ b.first \in Nat /\ b.count \in Nat /\ b.size \in Nat
        /\ b.count > 0 /\ b.size > 0
    <3>1. start + n \in 1..Len(x.blocks)
      BY <1>1, <1>3
    <3>2. b.count > 0 /\ b.size > 0
      BY <3>1 DEF Sound
    <3>3. QED
      BY <2>5, <3>2 DEF Blocks
  <2>7. y.lines + d = b.first
    <3>1. start + (n - 1) + 1 = start + n /\ start + n =< Len(x.blocks)
      BY <1>1, <1>3
    <3>2. FirstOf(x, start + n) = b.first
      BY <3>1 DEF FirstOf
    <3>3. QED
      BY <2>4, <3>1, <3>2
  <2>8. M[n] = Moved(y, b) /\ R[n] = Indexed(y, r)
    BY <1>4, <1>5, <2>1, <2>2
  <2> HIDE DEF y, b, r
  <2>9. x.base + b.first \in Nat
    BY <1>1, <2>6
  <2>10. r \in Records /\ Valid(y, r) /\ Moved(y, b) = Indexed(y, r)
    BY <2>4, <2>5, <2>6, <2>9, MovedIsIndexed
  <2>11. Fits(y, r)
    <3>1. r.kind = "lines" /\ r.from = x.base + b.first
      BY <2>5 DEF Record
    <3>2. y.lines \in Nat
      BY <2>4, IndexFields
    <3>3. x.base + b.first = y.base + y.lines
      <4> DEFINE p == x.base
                 q == y.base
                 u == b.first
                 v == y.lines
      <4>1. p \in Nat /\ u \in Nat /\ v \in Nat /\ d \in Nat /\ q = p + d /\ v + d = u
        BY <1>1, <1>2, <1>3, <2>4, <2>6, <2>7, <3>2
      <4> HIDE DEF p, q, u, v, d
      <4>2. p + u = q + v
        BY <4>1
      <4>3. QED
        BY <4>2 DEF p, q, u, v
    <3>4. QED
      BY <2>10, <3>1, <3>3 DEF Fits
  <2>12. Describes(Indexed(y, r), c, n)
    <3>1. n \in 1..Len(c.records) /\ Fits(y, c.records[n])
      BY <2>1, <2>11 DEF r
    <3>2. Describes(Indexed(y, c.records[n]), c, n)
      BY <1>3, <2>2, <3>1, DescribesStep
    <3>3. QED
      BY <3>2 DEF r
  <2>13. QED
    BY <2>1, <2>8, <2>10, <2>12
<1>9. \A n \in 0..N : n \in T
  <2> HIDE DEF T, N
  <2>1. QED
    BY <1>3, <1>7, <1>8, Induction
<1>10. QED
  BY <1>9 DEF R, M

\* The compacted file after its blocks and j gap markers.
GapsUpTo(z, y, gaps, j) ==
    /\ z.base = y.base /\ z.blocks = y.blocks /\ z.lines = y.lines
    /\ z.end = y.end + j
    /\ Len(z.gaps) = j
    /\ \A i \in 1..j : z.gaps[i] = gaps[i]

\* A gap marker behind the markers of smaller offsets.
LEMMA GapStep ==
    ASSUME NEW c, NEW x, NEW start, NEW N, NEW gaps, KeepsBlocks(c, x, start, N, gaps),
           NEW y \in Indexes, y.base = c.base, Ordered(gaps, y.lines),
           \A i \in 1..Len(gaps) : gaps[i] > 0,
           NEW j \in 1..Len(gaps), NEW z, Describes(z, c, N + (j - 1)),
           GapsUpTo(z, y, gaps, j - 1)
    PROVE  /\ Describes(Indexed(z, c.records[N + j]), c, N + j)
           /\ GapsUpTo(Indexed(z, c.records[N + j]), y, gaps, j)
<1> DEFINE r == c.records[N + j]
           g == gaps[j]
           w == Indexed(z, r)
<1>1. /\ c \in Files /\ N \in Nat /\ Len(gaps) \in Nat
      /\ Len(c.records) = N + Len(gaps) /\ r = Record("gap", c.base + g, g, 0)
  BY DEF KeepsBlocks
<1>2. /\ gaps \in Seq(Nat) /\ g \in Nat /\ g =< y.lines /\ g > 0
      /\ \A i \in 1..Len(gaps) : gaps[i] \in Nat
      /\ \A i \in 1..Len(gaps) : i < j => gaps[i] < g
  BY DEF Ordered
<1>3. /\ z.base = y.base /\ z.blocks = y.blocks /\ z.lines = y.lines
      /\ z.end = y.end + (j - 1) /\ Len(z.gaps) = j - 1
      /\ \A i \in 1..(j - 1) : z.gaps[i] = gaps[i]
  BY DEF GapsUpTo
<1>4. Sound(z) /\ z \in Indexes /\ z.gaps \in Seq(Nat)
  BY SoundOrdered DEF Describes
<1>5. j \in Nat /\ j > 0 /\ \A i \in 1..(j - 1) : i \in 1..Len(gaps) /\ i < j
  BY <1>1
<1>6. c.base \in Nat /\ y.end \in Nat /\ y.lines \in Nat
  BY <1>1, IndexFields DEF Files
<1>7. /\ r \in Records /\ r.kind = "gap" /\ r.from = c.base + g /\ r.count = g
      /\ r.size = 0
  <2>1. c.base + g \in Nat
    BY <1>2, <1>6
  <2>2. QED
    BY <1>1, <1>2, <2>1 DEF Record, Records
<1> HIDE DEF r, g
<1>8. \A i \in 1..Len(z.gaps) : z.gaps[i] < g
  BY <1>2, <1>3, <1>5
<1>9. Fits(z, r)
  <2>1. ASSUME NEW i \in 1..Len(z.gaps) PROVE z.gaps[i] \in Nat /\ z.gaps[i] =< g
    <3> DEFINE u == z.gaps[i]
    <3>1. u \in Nat
      BY <1>4
    <3>2. u < g /\ g \in Nat
      BY <1>2, <1>8
    <3> HIDE DEF u
    <3>3. u \in Nat /\ u =< g
      BY <3>1, <3>2
    <3>4. QED
      BY <3>3 DEF u
  <2>2. QED
    BY <1>2, <1>3, <1>7, <2>1 DEF Fits, Valid
<1>10. Describes(w, c, N + j)
  <2>1. N + j \in 1..Len(c.records) /\ (N + j) - 1 = N + (j - 1)
    BY <1>1
  <2>2. Describes(z, c, (N + j) - 1)
    BY <2>1
  <2>3. Describes(Indexed(z, c.records[N + j]), c, N + j)
    BY <1>1, <1>9, <2>1, <2>2, DescribesStep DEF r
  <2>4. QED
    BY <2>3 DEF r
<1>11. AddGapOffset(z.gaps, g) = Append(z.gaps, g)
  <2>1. ~(z.gaps # << >> /\ z.gaps[Len(z.gaps)] = g)
    <3>1. SUFFICES ASSUME z.gaps # << >>, z.gaps[Len(z.gaps)] = g PROVE FALSE
      OBVIOUS
    <3>2. Len(z.gaps) \in 1..Len(z.gaps)
      BY <1>4, <3>1
    <3>3. z.gaps[Len(z.gaps)] < g
      BY <1>8, <3>2
    <3>4. QED
      BY <1>2, <3>1, <3>3
  <2>2. QED
    BY <2>1 DEF AddGapOffset
<1> DEFINE gs == Append(z.gaps, g)
<1>12. /\ w.base = z.base /\ w.blocks = z.blocks /\ w.lines = z.lines
       /\ w.end = z.end + 1 + r.size /\ w.gaps = AddGapOffset(z.gaps, r.count)
  BY <1>4, <1>7, IndexedGap
<1>13. /\ Len(gs) = Len(z.gaps) + 1 /\ gs[Len(z.gaps) + 1] = g
       /\ \A i \in 1..Len(z.gaps) : gs[i] = z.gaps[i]
  BY <1>2, <1>4, AppendProperties
<1>14. w.gaps = gs
  BY <1>7, <1>11, <1>12
<1> HIDE DEF w, gs
<1>15. Len(z.gaps) + 1 = j
  BY <1>3, <1>5
<1>16. ASSUME NEW i \in 1..j PROVE w.gaps[i] = gaps[i]
  <2>1. i \in 1..(j - 1) \/ i = j
    BY <1>5
  <2>2. CASE i \in 1..(j - 1)
    BY <1>3, <1>13, <1>14, <2>2
  <2>3. CASE i = j
    BY <1>13, <1>14, <1>15, <2>3 DEF g
  <2>4. QED
    BY <2>1, <2>2, <2>3
<1>17. w.end = y.end + j
  BY <1>3, <1>5, <1>6, <1>7, <1>12
<1>18. Len(w.gaps) = j
  BY <1>13, <1>14, <1>15
<1>19. GapsUpTo(w, y, gaps, j)
  BY <1>3, <1>12, <1>16, <1>17, <1>18 DEF GapsUpTo
<1>20. QED
  BY <1>10, <1>19 DEF w, r

\* Recovery of the compacted file returns the index that was built beside it, and
\* the file is whole: no crash behind the rename finds one that it refuses.
LEMMA CompactedWhole ==
    ASSUME NEW file, WholeFile(file), NEW x, x = Recovered(file),
           NEW start \in 0..Len(x.blocks)
    PROVE  /\ WholeFile(Compacted(file, x, start))
           /\ Recovered(Compacted(file, x, start)) = Reindexed(x, start)
<1> DEFINE c == Compacted(file, x, start)
           N == Len(x.blocks) - start
           d == Dropped(x, start)
           gaps == GapsAfter(x.gaps, d)
           G == Len(gaps)
           y == MovedBlocks(x, start)[N]
           R == Recovery(c)
           z == Reindexed(x, start)
<1>1. Sound(x)
  BY WholeRecovered
<1>2. KeepsBlocks(c, x, start, N, gaps)
  BY CompactedRecords
<1>3. /\ c \in Files /\ c.base = x.base + d /\ N \in Nat /\ G \in Nat
      /\ Len(c.records) = N + G
  BY <1>2 DEF KeepsBlocks
<1>4. \A n \in 0..N : R[n] = MovedBlocks(x, start)[n] /\ Describes(R[n], c, n)
  BY <1>1, <1>2, CompactedBlocks
<1>5. /\ MovedUpTo(x, start, N, y) /\ Ordered(gaps, y.lines)
      /\ \A i \in 1..G : gaps[i] > 0
      /\ z \in Indexes /\ z.ok /\ z.base = x.base + d /\ z.blocks = y.blocks
      /\ z.gaps = gaps /\ z.lines = y.lines /\ z.records = N + G /\ z.end = y.end + G
  <2>1. IsReindexed(x, start, y, gaps, z)
    BY <1>1, ReindexedIs
  <2> HIDE DEF y, gaps, z, d, N
  <2>2. MovedUpTo(x, start, N, y) /\ z.base = x.base + d /\ z.records = N + G
    BY <2>1 DEF IsReindexed, N, d
  <2>3. QED
    BY <2>1, <2>2 DEF IsReindexed
<1>6. y \in Indexes /\ y.base = c.base /\ y.gaps = << >> /\ y.end \in Nat
  BY <1>3, <1>5, IndexFields DEF MovedUpTo
<1>7. \A n \in 1..Len(c.records) : R[n] = Indexed(R[n - 1], c.records[n])
  BY <1>3, RecoveryDef
<1> HIDE DEF c, N, d, gaps, G, y, R, z
<1> DEFINE T == {j \in 0..G : Describes(R[N + j], c, N + j) /\ GapsUpTo(R[N + j], y, gaps, j)}
<1>8. 0 \in T
  <2>1. N \in 0..N /\ N + 0 = N /\ 0 \in 0..G
    BY <1>3
  <2>2. R[N] = y /\ Describes(R[N], c, N)
    BY <1>4, <2>1 DEF y
  <2>3. Len(y.gaps) = 0 /\ y.end + 0 = y.end
    BY <1>6
  <2>4. GapsUpTo(y, y, gaps, 0)
    BY <2>3 DEF GapsUpTo
  <2>5. QED
    BY <2>1, <2>2, <2>4
<1>9. ASSUME NEW j \in 1..G, j - 1 \in T PROVE j \in T
  <2>1. /\ Describes(R[N + (j - 1)], c, N + (j - 1))
        /\ GapsUpTo(R[N + (j - 1)], y, gaps, j - 1)
    BY <1>9
  <2>2. N + j \in 1..Len(c.records) /\ (N + j) - 1 = N + (j - 1) /\ j \in 0..G
    BY <1>3
  <2>3. R[N + j] = Indexed(R[N + (j - 1)], c.records[N + j])
    BY <1>7, <2>2
  <2>4. j \in 1..Len(gaps) /\ \A i \in 1..Len(gaps) : gaps[i] > 0
    BY <1>5 DEF G
  <2>5. /\ Describes(Indexed(R[N + (j - 1)], c.records[N + j]), c, N + j)
        /\ GapsUpTo(Indexed(R[N + (j - 1)], c.records[N + j]), y, gaps, j)
    BY <1>2, <1>5, <1>6, <2>1, <2>4, GapStep
  <2>6. QED
    BY <2>2, <2>3, <2>5
<1>10. \A j \in 0..G : j \in T
  <2> HIDE DEF T
  <2>1. QED
    BY <1>3, <1>8, <1>9, Induction
<1>11. ASSUME NEW n \in 0..Len(c.records) PROVE Describes(R[n], c, n)
  <2>1. CASE n =< N
    <3>1. n \in 0..N
      BY <1>3, <2>1
    <3>2. QED
      BY <1>4, <3>1
  <2>2. CASE ~(n =< N)
    <3>1. n - N \in 0..G /\ N + (n - N) = n
      BY <1>3, <2>2
    <3>2. Describes(R[N + (n - N)], c, N + (n - N))
      BY <1>10, <3>1
    <3>3. QED
      BY <3>1, <3>2
  <2>3. QED
    BY <2>1, <2>2
<1>12. WholeFile(c)
  BY <1>3, <1>11 DEF WholeFile, R
<1> DEFINE q == R[N + G]
<1>13. Describes(q, c, N + G) /\ GapsUpTo(q, y, gaps, G)
  <2>1. G \in 0..G
    BY <1>3
  <2>2. QED
    BY <1>10, <2>1
<1>14. Recovered(c) = q
  BY <1>3 DEF Recovered, R
<1> HIDE DEF q
<1>15. q \in Indexes /\ q.records = N + G /\ q.gaps \in Seq(Nat)
  BY <1>13, SoundOrdered DEF Describes
<1>16. q.ok
  BY <1>13 DEF Describes, Sound
<1>17. /\ q.base = y.base /\ q.blocks = y.blocks /\ q.lines = y.lines
       /\ q.end = y.end + G /\ Len(q.gaps) = G /\ \A i \in 1..G : q.gaps[i] = gaps[i]
  BY <1>13 DEF GapsUpTo
<1>18. q.gaps = gaps
  <2>1. gaps \in Seq(Nat)
    BY <1>5 DEF Ordered
  <2>2. QED
    BY <1>15, <1>17, <2>1, SeqEqual DEF G
<1>19. q = z
  <2>1. /\ q.base = z.base /\ q.blocks = z.blocks /\ q.lines = z.lines
        /\ q.end = z.end /\ q.gaps = z.gaps /\ q.records = z.records
    BY <1>3, <1>5, <1>6, <1>15, <1>17, <1>18
  <2>2. z \in Indexes
    BY <1>5
  <2>3. z.ok
    BY <1>5
  <2>4. QED
    BY <1>15, <1>16, <2>1, <2>2, <2>3, SameIndex
<1>20. QED
  BY <1>12, <1>14, <1>19 DEF c, z

\* The compacted file begins later and ends with the same line.
LEMMA ReindexedSound ==
    ASSUME NEW file, WholeFile(file), NEW x, x = Recovered(file),
           NEW start \in 0..Len(x.blocks)
    PROVE  Sound(Reindexed(x, start))
<1>1. WholeFile(Compacted(file, x, start))
  BY CompactedWhole
<1>2. Sound(Recovered(Compacted(file, x, start)))
  BY <1>1, WholeRecovered
<1>3. QED
  BY <1>2, CompactedWhole

-----------------------------------------------------------------------------
(* The limit: the new file is as long as the blocks it keeps cost.         *)

\* The gaps that a block takes along are those behind its first line and not
\* behind the first line of the next.
LEMMA CostIs ==
    ASSUME NEW x, Sound(x), NEW i \in 1..Len(x.blocks)
    PROVE  Cost(x, i) + Cardinality(Behind(x.gaps, FirstOf(x, i + 1)))
              = 1 + x.blocks[i].size + Cardinality(Behind(x.gaps, FirstOf(x, i)))
<1> DEFINE S == {k \in DOMAIN x.gaps :
                    /\ x.gaps[k] > x.blocks[i].first
                    /\ i < Len(x.blocks) => x.gaps[k] =< x.blocks[i + 1].first}
           p == FirstOf(x, i)
           q == FirstOf(x, i + 1)
           P == Behind(x.gaps, p)
           Q == Behind(x.gaps, q)
<1>1. /\ x.blocks \in Seq(Blocks) /\ x.gaps \in Seq(Nat) /\ Len(x.blocks) \in Nat
      /\ Len(x.gaps) \in Nat /\ \A k \in 1..Len(x.gaps) : x.gaps[k] \in Nat
      /\ DOMAIN x.gaps = 1..Len(x.gaps) /\ x.lines \in Nat
      /\ \A k \in 1..Len(x.gaps) : x.gaps[k] =< x.lines
  BY SoundOrdered DEF Ordered
<1>2. p = x.blocks[i].first /\ p \in Nat /\ q \in Nat
  <2>1. i \in 1..(Len(x.blocks) + 1) /\ i + 1 \in 1..(Len(x.blocks) + 1)
    BY <1>1
  <2>2. p \in Nat /\ q \in Nat
    BY <2>1, FirstOfType
  <2>3. QED
    BY <2>2 DEF FirstOf
<1>3. p =< q /\ x.blocks[i].size \in Nat
  <2>1. x.blocks[i] \in Blocks
    BY <1>1
  <2>2. x.blocks[i].count \in Nat /\ x.blocks[i].size \in Nat
    BY <2>1 DEF Blocks
  <2>3. q = x.blocks[i].first + x.blocks[i].count
    BY DEF Sound
  <2> HIDE DEF p, q
  <2>4. QED
    BY <1>2, <2>2, <2>3
<1>4. S = {k \in 1..Len(x.gaps) : x.gaps[k] > p /\ x.gaps[k] =< q}
  <2>1. CASE i < Len(x.blocks)
    <3>1. i + 1 =< Len(x.blocks)
      BY <1>1, <2>1
    <3>2. q = x.blocks[i + 1].first
      BY <3>1 DEF FirstOf
    <3> HIDE DEF p, q
    <3>3. QED
      BY <1>1, <1>2, <2>1, <3>2
  <2>2. CASE ~(i < Len(x.blocks))
    <3>1. ~(i + 1 =< Len(x.blocks))
      BY <1>1, <2>2
    <3>2. q = x.lines
      BY <3>1 DEF FirstOf
    <3> HIDE DEF p, q
    <3>3. QED
      BY <1>1, <1>2, <2>2, <3>2
  <2>3. QED
    BY <2>1, <2>2
<1>5. IsFiniteSet(P) /\ IsFiniteSet(Q) /\ Cardinality(P) \in Nat /\ Cardinality(Q) \in Nat
  BY <1>1, BehindFinite
<1>6. Cost(x, i) = 1 + x.blocks[i].size + Cardinality(S)
  BY DEF Cost
<1> HIDE DEF S, p, q
<1>7. P = S \cup Q /\ S \cap Q = {} /\ S \subseteq P
  <2>1. ASSUME NEW k \in 1..Len(x.gaps)
        PROVE  /\ x.gaps[k] > p <=> (x.gaps[k] > p /\ x.gaps[k] =< q) \/ x.gaps[k] > q
               /\ ~(x.gaps[k] =< q /\ x.gaps[k] > q)
    <3> DEFINE g == x.gaps[k]
    <3>1. g \in Nat /\ p \in Nat /\ q \in Nat /\ p =< q
      BY <1>1, <1>2, <1>3
    <3> HIDE DEF g
    <3>2. (g > p <=> (g > p /\ g =< q) \/ g > q) /\ ~(g =< q /\ g > q)
      BY <3>1
    <3>3. QED
      BY <3>2 DEF g
  <2>2. QED
    BY <1>4, <2>1 DEF Behind
<1> HIDE DEF P, Q
<1>8. IsFiniteSet(S) /\ Cardinality(S) \in Nat
  BY <1>5, <1>7, FS_Subset, FS_CardinalityType
<1>9. Cardinality(P) = Cardinality(S) + Cardinality(Q)
  <2>1. Cardinality(S \cup Q) =
            Cardinality(S) + Cardinality(Q) - Cardinality(S \cap Q)
    BY <1>5, <1>8, FS_Union
  <2>2. Cardinality({}) = 0
    BY FS_EmptySet
  <2>3. Cardinality(P) = Cardinality(S) + Cardinality(Q) - 0
    BY <1>7, <2>1, <2>2, Zenon
  <2>4. QED
    BY <1>5, <1>8, <2>3
<1>10. Cost(x, i) + Cardinality(Q) = 1 + x.blocks[i].size + Cardinality(P)
  BY <1>3, <1>5, <1>6, <1>8, <1>9
<1>11. QED
  BY <1>10 DEF P, Q, p, q

\* What the newest n blocks cost is what they occupy, with the gaps behind their
\* first line.
LEMMA NewestCost ==
    ASSUME NEW x, Sound(x)
    PROVE  \A n \in 0..Len(x.blocks) :
              CostOfNewest(x)[n] + BlockBytes(x.blocks)[Len(x.blocks) - n]
                 = BlockBytes(x.blocks)[Len(x.blocks)]
                   + Cardinality(Behind(x.gaps, FirstOf(x, Len(x.blocks) - n + 1)))
<1> DEFINE L == Len(x.blocks)
           B == BlockBytes(x.blocks)
           C == CostOfNewest(x)
           D(i) == Cardinality(Behind(x.gaps, FirstOf(x, i)))
           T == {n \in 0..L : C[n] + B[L - n] = B[L] + D(L - n + 1)}
<1>1. /\ x \in Indexes /\ x.blocks \in Seq(Blocks) /\ x.gaps \in Seq(Nat) /\ L \in Nat
      /\ x.lines \in Nat /\ Ordered(x.gaps, x.lines)
  BY SoundOrdered
<1>2. /\ B \in [0..L -> Nat]
      /\ \A n \in 1..L : B[n] = B[n - 1] + 1 + x.blocks[n].size
  BY <1>1, BlockBytesDef
<1>3. /\ C \in [0..L -> Nat] /\ C[0] = 0
      /\ \A n \in 1..L : C[n] = C[n - 1] + Cost(x, L + 1 - n)
  BY <1>1, CostOfNewestDef
<1>4. \A i : D(i) \in Nat
  BY <1>1, BehindFinite
<1>5. \A i \in 1..L : /\ Cost(x, i) + D(i + 1) = 1 + x.blocks[i].size + D(i)
                      /\ Cost(x, i) \in Nat
                      /\ x.blocks[i].size \in Nat
  <2>1. \A i \in 1..L : Cost(x, i) \in Nat
    BY <1>1, CostType
  <2>2. \A i \in 1..L : x.blocks[i] \in Blocks
    BY <1>1
  <2>3. \A i \in 1..L : x.blocks[i].size \in Nat
    BY <2>2 DEF Blocks
  <2>4. QED
    BY <2>1, <2>3, CostIs
<1>6. D(L + 1) = 0
  <2>1. ~(L + 1 =< L)
    BY <1>1
  <2>2. FirstOf(x, L + 1) = x.lines
    BY <2>1 DEF FirstOf
  <2>3. \A k \in 1..Len(x.gaps) : ~(x.gaps[k] > x.lines)
    BY <1>1 DEF Ordered
  <2>4. Behind(x.gaps, x.lines) = {}
    BY <2>3 DEF Behind
  <2>5. QED
    BY <2>2, <2>4, FS_EmptySet
<1> HIDE DEF B, C, D, L
<1>7. 0 \in T
  <2>1. L - 0 = L /\ L \in 0..L /\ 0 \in 0..L
    BY <1>1
  <2>2. B[L] \in Nat
    BY <1>2, <2>1
  <2>3. C[0] + B[L] = B[L] + D(L + 1)
    BY <1>3, <1>6, <2>2
  <2>4. QED
    BY <2>1, <2>3
<1>8. ASSUME NEW n \in 1..L, n - 1 \in T PROVE n \in T
  <2> DEFINE i == L - n + 1
  <2>1. /\ i \in 1..L /\ i + 1 = L - (n - 1) + 1 /\ i - 1 = L - n /\ L + 1 - n = i
        /\ L - (n - 1) = i /\ n \in 0..L /\ n - 1 \in 0..L /\ i \in 0..L /\ i - 1 \in 0..L
        /\ L \in 0..L
    BY <1>1
  <2> HIDE DEF i
  <2>2. C[n - 1] + B[i] = B[L] + D(i + 1)
    BY <1>8, <2>1
  <2>3. C[n] = C[n - 1] + Cost(x, i) /\ B[i] = B[i - 1] + 1 + x.blocks[i].size
    BY <1>2, <1>3, <2>1
  <2>4. Cost(x, i) + D(i + 1) = 1 + x.blocks[i].size + D(i)
    BY <1>5, <2>1
  <2>5. /\ C[n] \in Nat /\ C[n - 1] \in Nat /\ B[i] \in Nat /\ B[i - 1] \in Nat
        /\ B[L] \in Nat /\ D(i) \in Nat /\ D(i + 1) \in Nat /\ Cost(x, i) \in Nat
        /\ x.blocks[i].size \in Nat
    BY <1>2, <1>3, <1>4, <1>5, <2>1
  <2>6. C[n] + B[i - 1] = B[L] + D(i)
    BY <2>2, <2>3, <2>4, <2>5
  <2>7. C[n] + B[L - n] = B[L] + D(L - n + 1)
    BY <2>1, <2>6 DEF i
  <2>8. QED
    BY <2>1, <2>7
<1>9. \A n \in 0..L : n \in T
  <2> HIDE DEF T
  <2>1. QED
    BY <1>1, <1>7, <1>8, Induction
<1>10. QED
  BY <1>9 DEF B, C, D, L

\* The compacted file is as long as what it keeps costs, and not longer than the
\* file before.
LEMMA EndIsCost ==
    ASSUME NEW x, Sound(x), NEW start \in 0..Len(x.blocks)
    PROVE  /\ Reindexed(x, start).end = CostOfNewest(x)[Len(x.blocks) - start]
           /\ Reindexed(x, start).end \in Nat
           /\ Reindexed(x, start).end =< x.end
<1> DEFINE N == Len(x.blocks) - start
           d == Dropped(x, start)
           y == MovedBlocks(x, start)[N]
           gaps == GapsAfter(x.gaps, d)
           z == Reindexed(x, start)
           B == BlockBytes(x.blocks)
           C == CostOfNewest(x)
           L == Len(x.blocks)
           D == Cardinality(Behind(x.gaps, d))
<1>1. IsReindexed(x, start, y, gaps, z)
  BY ReindexedIs
<1>2. /\ x \in Indexes /\ x.blocks \in Seq(Blocks) /\ x.gaps \in Seq(Nat) /\ L \in Nat
      /\ Len(x.gaps) \in Nat
  BY SoundOrdered
<1>3. /\ N \in 0..L /\ start + N = L /\ L - N = start /\ L - N + 1 = start + 1
      /\ L \in 0..L
  BY <1>2
<1>4. d = FirstOf(x, start + 1)
  BY DroppedIs
<1>5. C[N] + B[L - N] = B[L] + Cardinality(Behind(x.gaps, FirstOf(x, L - N + 1)))
  BY <1>3, NewestCost
<1>6. B \in [0..L -> Nat]
  BY <1>2, BlockBytesDef
<1>7. C \in [0..L -> Nat]
  BY <1>2, CostOfNewestDef
<1>8. D \in Nat /\ D =< Len(x.gaps)
  BY <1>2, BehindFinite
<1>9. B[L] + Len(x.gaps) =< x.end /\ x.end \in Nat
  BY <1>2, IndexFields DEF Sound
<1> HIDE DEF y, gaps, z, B, C, L, N, d
<1>10. MovedUpTo(x, start, N, y) /\ z.end = y.end + D
  BY <1>1 DEF IsReindexed, N, L, d
<1>11. y.end + B[start] = B[L] /\ y.end \in Nat
  BY <1>3, <1>10, IndexFields DEF MovedUpTo, B
<1>12. C[N] + B[start] = B[L] + D
  BY <1>3, <1>4, <1>5
<1>13. B[start] \in Nat /\ B[L] \in Nat /\ C[N] \in Nat
  BY <1>3, <1>6, <1>7 DEF L
<1> HIDE DEF D
<1>14. z.end = C[N]
  <2> DEFINE e == y.end
             u == B[start]
             v == B[L]
             w == C[N]
  <2>1. /\ e \in Nat /\ u \in Nat /\ v \in Nat /\ w \in Nat /\ D \in Nat
        /\ e + u = v /\ w + u = v + D /\ z.end = e + D
    BY <1>8, <1>10, <1>11, <1>12, <1>13
  <2> HIDE DEF e, u, v, w
  <2>2. z.end = w
    BY <2>1
  <2>3. QED
    BY <2>2 DEF w
<1>15. z.end \in Nat /\ z.end =< x.end
  <2> DEFINE e == y.end
             u == B[start]
             v == B[L]
             g == Len(x.gaps)
  <2>1. /\ e \in Nat /\ u \in Nat /\ v \in Nat /\ g \in Nat /\ x.end \in Nat
        /\ e + u = v /\ v + g =< x.end /\ D \in Nat /\ D =< g /\ z.end = e + D
    BY <1>2, <1>8, <1>9, <1>10, <1>11, <1>13
  <2> HIDE DEF e, u, v, g
  <2>2. QED
    BY <2>1
<1>16. QED
  BY <1>14, <1>15 DEF z, C, N, L

\* More blocks cost more.
LEMMA CostsGrow ==
    ASSUME NEW x \in Indexes, NEW m \in 0..Len(x.blocks)
    PROVE  \A n \in 0..Len(x.blocks) : m =< n => CostOfNewest(x)[m] =< CostOfNewest(x)[n]
<1> DEFINE L == Len(x.blocks)
           C == CostOfNewest(x)
           T == {n \in 0..L : m =< n => C[m] =< C[n]}
<1>1. L \in Nat
  <2>1. x.blocks \in Seq(Blocks)
    BY IndexFields
  <2>2. QED
    BY <2>1
<1>2. /\ C \in [0..L -> Nat] /\ C[0] = 0
      /\ \A n \in 1..L : C[n] = C[n - 1] + Cost(x, L + 1 - n)
  BY CostOfNewestDef
<1>3. \A n \in 1..L : Cost(x, L + 1 - n) \in Nat
  <2>1. \A n \in 1..L : L + 1 - n \in 1..L
    BY <1>1
  <2>2. QED
    BY <2>1, CostType
<1>4. m \in 0..L
  OBVIOUS
<1> HIDE DEF L, C
<1>5. 0 \in T
  BY <1>1, <1>2, <1>4
<1>6. ASSUME NEW n \in 1..L, n - 1 \in T PROVE n \in T
  <2>1. n \in 0..L /\ n - 1 \in 0..L
    BY <1>1
  <2>2. C[n] = C[n - 1] + Cost(x, L + 1 - n) /\ Cost(x, L + 1 - n) \in Nat
    BY <1>2, <1>3
  <2>3. C[n - 1] \in Nat /\ C[m] \in Nat /\ C[n] \in Nat
    BY <1>2, <1>4, <2>1
  <2>4. m =< n - 1 => C[m] =< C[n - 1]
    BY <1>6
  <2>5. m =< n => C[m] =< C[n]
    BY <1>4, <2>1, <2>2, <2>3, <2>4
  <2>6. QED
    BY <2>1, <2>5
<1>7. \A n \in 0..L : n \in T
  <2> HIDE DEF T
  <2>1. QED
    BY <1>1, <1>5, <1>6, Induction
<1>8. QED
  BY <1>7 DEF L, C

\* enforceLimit finds a first block to keep.
LEMMA SizeStartFits ==
    ASSUME NEW x \in Indexes
    PROVE  /\ SizeStart(x) \in 0..Len(x.blocks)
           /\ CostOfNewest(x)[Len(x.blocks) - SizeStart(x)] =< FileLimit
<1> DEFINE L == Len(x.blocks)
           C == CostOfNewest(x)
           S == {s \in 0..L : C[L - s] =< Target}
           Is(s) == /\ C[L - s] =< Target
                    /\ \A m \in 0..(s - 1) : C[L - m] > Target
<1>1. L \in Nat
  <2>1. x.blocks \in Seq(Blocks)
    BY IndexFields
  <2>2. QED
    BY <2>1
<1>2. C \in [0..L -> Nat] /\ C[0] = 0
  BY CostOfNewestDef
<1>3. Target \in Nat /\ Target =< FileLimit
  BY HistoryAssumption DEF Target
<1> HIDE DEF L, C
<1>4. L \in S
  <2>1. L - L = 0 /\ L \in 0..L
    BY <1>1
  <2>2. QED
    BY <1>2, <1>3, <2>1
<1>5. PICK s \in S : \A t \in S : s <= t
  <2>1. \A t \in S : t \in Nat
    BY <1>1
  <2> HIDE DEF S
  <2>2. S \in SUBSET Nat /\ S # {}
    BY <1>4, <2>1
  <2>3. QED
    BY <2>2, LeastExists
<1>6. ASSUME NEW m \in 0..(s - 1) PROVE C[L - m] > Target
  <2>1. m \in 0..L /\ ~(s <= m) /\ L - m \in 0..L
    BY <1>1, <1>5
  <2>2. m \notin S
    BY <1>5, <2>1
  <2>3. ~(C[L - m] =< Target)
    BY <2>1, <2>2
  <2>4. C[L - m] \in Nat
    BY <1>2, <2>1
  <2>5. QED
    BY <1>3, <2>3, <2>4
<1>7. \E t \in 0..L : Is(t)
  <2>1. s \in 0..L /\ C[L - s] =< Target
    BY <1>5
  <2>2. Is(s)
    BY <1>6, <2>1
  <2>3. QED
    BY <2>1, <2>2
<1>8. SizeStart(x) = CHOOSE t \in 0..L : Is(t)
  BY DEF SizeStart, L, C
<1>9. SizeStart(x) \in 0..L /\ C[L - SizeStart(x)] =< Target
  <2> DEFINE v == CHOOSE t \in 0..L : Is(t)
  <2> HIDE DEF Is
  <2>1. v \in 0..L /\ Is(v)
    BY <1>7
  <2>2. QED
    BY <1>8, <2>1 DEF Is
<1>10. L - SizeStart(x) \in 0..L
  BY <1>1, <1>9
<1>11. C[L - SizeStart(x)] \in Nat
  BY <1>2, <1>10
<1>12. C[L - SizeStart(x)] =< FileLimit
  BY <1>3, <1>9, <1>11, HistoryAssumption
<1>13. QED
  BY <1>9, <1>12 DEF L, C

\* What enforceLimit keeps fits the limit.
LEMMA EnforcedFits ==
    ASSUME NEW x, Sound(x), NEW start \in 0..Len(x.blocks), SizeStart(x) =< start
    PROVE  Reindexed(x, start).end =< FileLimit
<1> DEFINE L == Len(x.blocks)
           C == CostOfNewest(x)
           s == SizeStart(x)
<1>1. x \in Indexes /\ L \in Nat
  BY SoundOrdered
<1>2. s \in 0..L /\ C[L - s] =< FileLimit
  BY <1>1, SizeStartFits
<1>3. C \in [0..L -> Nat]
  BY <1>1, CostOfNewestDef
<1>4. L - start \in 0..L /\ L - s \in 0..L /\ L - start =< L - s
  BY <1>1, <1>2
<1>5. C[L - start] =< C[L - s]
  BY <1>1, <1>4, CostsGrow
<1>6. Reindexed(x, start).end = C[L - start]
  BY EndIsCost
<1> HIDE DEF C, L, s
<1>7. C[L - start] \in Nat /\ C[L - s] \in Nat
  BY <1>3, <1>4
<1>8. C[L - start] =< FileLimit
  BY <1>2, <1>5, <1>7, HistoryAssumption
<1>9. QED
  BY <1>6, <1>8

-----------------------------------------------------------------------------
(* The calls.                                                              *)

\* What the initial call is.
LEMMA ReturnedCall ==
    Returned \in Calls /\ Returned.pc = "idle" /\ Returned.start = 0
BY DEF Returned, Calls, Names, Pcs

\* A call that goes on.
LEMMA ContinueCall ==
    ASSUME call \in Calls, NEW pc \in Pcs, Continue(pc)
    PROVE  /\ call' \in Calls /\ call'.pc = pc /\ call'.start = call.start
           /\ call'.then = call.then /\ call'.size = call.size
BY DEF Continue, Calls

\* What follows a flush or a retention check.
LEMMA ProceedCall ==
    ASSUME call \in Calls, Proceed
    PROVE  /\ call' \in Calls /\ call'.pc \in Calm /\ call'.pc # "flush"
           /\ call'.then = "return"
           /\ call'.pc = "append" => call.then = "append" /\ call'.size = call.size
<1>1. call.then \in {"return", "append", "record", "limit", "fsync", "shut"}
  BY DEF Calls
<1>2. CASE call.then = "return"
  <2>1. call' = Returned
    BY <1>2 DEF Proceed
  <2>2. QED
    BY <2>1, ReturnedCall DEF Calm, Returned
<1>3. CASE call.then # "return"
  <2>1. call' = [call EXCEPT !.pc = call.then, !.then = "return"]
    BY <1>3 DEF Proceed
  <2>2. QED
    BY <1>1, <1>3, <2>1 DEF Calls, Pcs, Calm
<1>4. QED
  BY <1>2, <1>3

\* A call that fails.
LEMMA FailCall ==
    ASSUME call \in Calls, Fail
    PROVE  call' \in Calls /\ call'.pc \in {"idle", "shut"} /\ overdue' = TRUE
<1>1. CASE call.name \in {"Close", "Open"}
  <2>1. call' = [call EXCEPT !.pc = "shut"]
    BY <1>1 DEF Fail
  <2>2. QED
    BY <2>1 DEF Fail, Calls, Pcs
<1>2. CASE ~(call.name \in {"Close", "Open"})
  BY <1>2, ReturnedCall DEF Fail
<1>3. QED
  BY <1>1, <1>2

\* A call that begins.
LEMMA BeginCall ==
    ASSUME NEW name \in Names, NEW pc \in Calm,
           NEW then \in {"return", "append", "record", "limit", "fsync", "shut"},
           NEW size \in Nat, Begin(name, pc, then, size)
    PROVE  call' \in Calls /\ call'.pc = pc
<1>1. call' = [Returned EXCEPT !.name = name, !.pc = pc, !.then = then, !.size = size]
  BY DEF Begin
<1>2. pc \in Pcs
  BY DEF Calm, Pcs
<1>3. QED
  BY <1>1, <1>2, ReturnedCall DEF Calls

\* A call of the interface.
AnyBegin ==
    AppendLines \/ AppendBoundary \/ AppendGap \/ PruneRetention \/ Sync \/ CloseFile

\* It begins with a step that is not of a compaction and changes nothing else.
LEMMA BeginCalm ==
    ASSUME AnyBegin
    PROVE  /\ call.pc = "idle" /\ fileState # "down"
           /\ call' \in Calls /\ call'.pc \in Calm
           /\ UNCHANGED <<disk, tail, durable, older, temp, fileState, index, unflushed,
                          epoch, overdue, unrolled, shifted, secured, frozen>>
<1> DEFINE Thens == {"return", "append", "record", "limit", "fsync", "shut"}
<1>1. \E name \in Names, pc \in Calm, then \in Thens, size \in Nat :
          Begin(name, pc, then, size)
  <2>1. "flush" \in Calm /\ "append" \in Calm /\ "shut" \in Calm /\ 0 \in Nat
    BY DEF Calm
  <2>2. CASE AppendLines
    <3>1. PICK size \in LineSizes :
             \/ Begin("AppendLines", "flush", "append", size)
             \/ Begin("AppendLines", "append", "return", size)
      BY <2>2 DEF AppendLines
    <3>2. size \in Nat
      BY HistoryAssumption
    <3>3. QED
      BY <2>1, <3>1, <3>2 DEF Names
  <2>3. CASE AppendBoundary
    BY <2>1, <2>3 DEF AppendBoundary, Names
  <2>4. CASE AppendGap
    BY <2>1, <2>4 DEF AppendGap, Names
  <2>5. CASE PruneRetention
    BY <2>1, <2>5 DEF PruneRetention, Names
  <2>6. CASE Sync
    BY <2>1, <2>6 DEF Sync, Names
  <2>7. CASE CloseFile
    BY <2>1, <2>7 DEF CloseFile, Names
  <2>8. QED
    BY <2>2, <2>3, <2>4, <2>5, <2>6, <2>7 DEF AnyBegin
<1>2. PICK name \in Names, pc \in Calm, then \in Thens, size \in Nat :
          Begin(name, pc, then, size)
  BY <1>1
<1>3. call' \in Calls /\ call'.pc = pc
  BY <1>2, BeginCall
<1>4. QED
  BY <1>2, <1>3 DEF Begin

-----------------------------------------------------------------------------
(* The invariant, action by action.                                        *)

\* The variables that the invariants are about.
Same == UNCHANGED <<disk, durable, older, temp, fileState, index>>

\* Outside of a compaction the index is in step when it is that of the file.
LEMMA CalmIndex ==
    ASSUME call'.pc \in Calm, Sound(index'),
           fileState' \in {"open", "stale"} => index' = Recovered(disk'),
           fileState' = "down" => call'.pc = "idle"
    PROVE  IndexInStep'
<1>1. call'.pc \notin {"temp", "close", "rename", "reopen", "syncdir"}
  BY DEF Calm
<1>2. QED
  BY <1>1 DEF IndexInStep, Doing

\* A step that leaves the files and the index alone.
LEMMA CalmStep ==
    ASSUME HistoryInv, Same, call' \in Calls, call'.pc \in Calm, fileState # "down",
           unflushed' \in [count : Nat, bytes : Nat], epoch' \in Nat,
           overdue' \in BOOLEAN, secured' \in Nat,
           frozen' \in [epoch : Nat \cup {-1}, base : Nat, count : Nat], LimitInStep'
    PROVE  HistoryInv'
<1>1. HistoryTypeOK'
  BY DEF HistoryInv, HistoryTypeOK, Same
<1>2. FilesWhole'
  BY DEF HistoryInv, FilesWhole, Same
<1>3. IndexInStep'
  BY CalmIndex DEF HistoryInv, IndexInStep, Same
<1>4. QED
  BY <1>1, <1>2, <1>3 DEF HistoryInv

\* A record is written at the end of the file and of its index.
LEMMA WrittenStep ==
    ASSUME HistoryInv, fileState = "open", NEW r, Fits(index, r), Written(r)
    PROVE  /\ WholeFile(disk') /\ disk' \in Files /\ disk'.base = disk.base
           /\ Sound(index') /\ index' \in Indexes /\ index' = Recovered(disk')
           /\ index' = Indexed(index, r)
           /\ durable \in 0..Len(disk'.records)
           /\ Recovery(disk')[durable] = Recovery(disk)[durable]
<1>1. WholeFile(disk) /\ index = Recovered(disk) /\ durable \in 0..Len(disk.records)
      /\ Sound(index)
  BY DEF HistoryInv, HistoryTypeOK, FilesWhole, IndexInStep
<1>2. disk' = Longer(disk, r) /\ index' = Indexed(index, r)
  BY DEF Written, Longer
<1>3. r \in Records /\ disk \in Files /\ Len(disk.records) \in Nat
  BY <1>1, WholeRecovered DEF Fits
<1>4. WholeFile(disk')
  BY <1>1, <1>2, WholeLonger
<1>5. Sound(index')
  BY <1>1, <1>2, SoundStep
<1>6. /\ Recovery(disk')[durable] = Recovery(disk)[durable]
      /\ index' = Recovered(disk')
  BY <1>1, <1>2, <1>3, RecoveryLonger
<1>7. disk' \in Files /\ disk'.base = disk.base
      /\ Len(disk'.records) = Len(disk.records) + 1
  BY <1>2, <1>3, LongerFile
<1>8. durable \in 0..Len(disk'.records)
  BY <1>1, <1>3, <1>7
<1>9. QED
  BY <1>2, <1>4, <1>5, <1>6, <1>7, <1>8 DEF Sound

\* A flush of lines, or the record of a boundary or a gap, and the check of the
\* limit that follows.
LEMMA WrittenInv ==
    ASSUME HistoryInv, fileState = "open", NEW r, Fits(index, r), Written(r),
           call' \in Calls, call'.pc = "limit", unflushed' \in [count : Nat, bytes : Nat],
           UNCHANGED <<durable, older, temp, fileState, epoch, overdue, secured,
                       frozen>>
    PROVE  HistoryInv'
<1>1. /\ WholeFile(disk') /\ disk' \in Files /\ Sound(index') /\ index' \in Indexes
      /\ index' = Recovered(disk') /\ durable \in 0..Len(disk'.records)
  BY WrittenStep
<1>2. HistoryTypeOK'
  BY <1>1 DEF HistoryInv, HistoryTypeOK
<1>3. FilesWhole'
  BY <1>1 DEF HistoryInv, FilesWhole
<1>4. IndexInStep'
  BY <1>1, CalmIndex DEF Calm
<1>5. LimitInStep'
  BY DEF LimitInStep
<1>6. QED
  BY <1>2, <1>3, <1>4, <1>5 DEF HistoryInv

\* A call that begins.
LEMMA BeginInv ==
    ASSUME HistoryInv, AnyBegin
    PROVE  HistoryInv'
<1>1. /\ call.pc = "idle" /\ fileState # "down"
      /\ call' \in Calls /\ call'.pc \in Calm
      /\ UNCHANGED <<disk, durable, older, temp, fileState, index, unflushed, epoch,
                     overdue, secured, frozen>>
  BY BeginCalm
<1>2. LimitInStep'
  BY <1>1 DEF HistoryInv, LimitInStep
<1>3. QED
  BY <1>1, <1>2, CalmStep DEF HistoryInv, HistoryTypeOK, Same

\* A line joins the pending ones.
LEMMA AppendPendingInv ==
    ASSUME HistoryInv, AppendPending
    PROVE  HistoryInv'
<1>1. call \in Calls /\ call.pc = "append" /\ fileState # "down"
  BY DEF HistoryInv, HistoryTypeOK, IndexInStep, AppendPending, Doing
<1>2. call' \in Calls /\ call'.pc \in {"flush", "idle"}
  <2>1. \/ call' = [call EXCEPT !.pc = "flush", !.then = "return"]
        \/ call' = Returned
    BY DEF AppendPending
  <2>2. CASE call' = [call EXCEPT !.pc = "flush", !.then = "return"]
    BY <1>1, <2>2 DEF Calls, Pcs
  <2>3. CASE call' = Returned
    BY <2>3, ReturnedCall
  <2>4. QED
    BY <2>1, <2>2, <2>3
<1>3. unflushed' \in [count : Nat, bytes : Nat]
  <2>1. unflushed.count \in Nat /\ unflushed.bytes \in Nat /\ call.size \in Nat
    BY <1>1 DEF HistoryInv, HistoryTypeOK, Calls
  <2>2. QED
    BY <2>1 DEF AppendPending
<1>4. LimitInStep'
  BY <1>1, <1>2 DEF HistoryInv, LimitInStep, AppendPending
<1>5. call'.pc \in Calm
  BY <1>2 DEF Calm
<1>6. QED
  BY <1>1, <1>2, <1>3, <1>4, <1>5, CalmStep
     DEF HistoryInv, HistoryTypeOK, Same, AppendPending

\* A step that fails leaves the limit to the next one.
LEMMA FailInv ==
    ASSUME HistoryInv, Fail, Same, fileState # "down",
           UNCHANGED <<unflushed, epoch, secured, frozen>>
    PROVE  HistoryInv'
<1>1. call' \in Calls /\ call'.pc \in Calm /\ overdue' = TRUE
  BY FailCall DEF HistoryInv, HistoryTypeOK, Calm
<1>2. LimitInStep'
  BY <1>1 DEF LimitInStep
<1>3. QED
  BY <1>1, <1>2, CalmStep DEF HistoryInv, HistoryTypeOK

\* A step that leaves all but the call alone and goes on outside of a compaction.
LEMMA PassInv ==
    ASSUME HistoryInv, Same, fileState # "down", call' \in Calls, call'.pc \in Calm,
           call.pc \notin {"limit", "temp", "close"},
           UNCHANGED <<unflushed, epoch, overdue, frozen>>, secured' \in Nat
    PROVE  HistoryInv'
<1>1. LimitInStep'
  BY DEF HistoryInv, LimitInStep, Same
<1>2. QED
  BY <1>1, CalmStep DEF HistoryInv, HistoryTypeOK

\* The block of a flush fits.
LEMMA FlushedFits ==
    ASSUME HistoryInv, PendingInStep, unflushed.count > 0
    PROVE  Fits(index, Record("lines", index.base + index.lines, unflushed.count,
                              unflushed.bytes))
<1>1. index \in Indexes /\ unflushed.count \in Nat /\ unflushed.bytes \in Nat
  BY DEF HistoryInv, HistoryTypeOK
<1>2. index.base + index.lines \in Nat
  BY <1>1, IndexFields
<1>3. unflushed.bytes > 0
  BY <1>1 DEF PendingInStep
<1>4. QED
  BY <1>1, <1>2, <1>3 DEF Fits, Valid, Record, Records

\* flushPending.
LEMMA FlushPendingInv ==
    ASSUME HistoryInv, PendingInStep, FlushPending
    PROVE  HistoryInv'
<1>1. call \in Calls /\ call.pc = "flush" /\ fileState # "down"
  BY DEF HistoryInv, HistoryTypeOK, IndexInStep, FlushPending, Doing
<1> DEFINE r == Record("lines", index.base + index.lines, unflushed.count,
                       unflushed.bytes)
<1>2. CASE Proceed /\ UNCHANGED <<disk, index, unflushed, overdue>>
  <2>1. call' \in Calls /\ call'.pc \in Calm
    BY <1>1, <1>2, ProceedCall
  <2>2. QED
    BY <1>1, <1>2, <2>1, PassInv DEF FlushPending, Same, HistoryInv, HistoryTypeOK
<1>3. CASE /\ unflushed.count > 0 /\ fileState = "open" /\ Written(r)
           /\ unflushed' = Nothing /\ Continue("limit") /\ UNCHANGED overdue
  <2>1. call' \in Calls /\ call'.pc = "limit"
    BY <1>1, <1>3, ContinueCall DEF Pcs
  <2>2. Fits(index, r)
    BY <1>3, FlushedFits
  <2>3. unflushed' \in [count : Nat, bytes : Nat]
    BY <1>3 DEF Nothing
  <2>4. QED
    BY <1>3, <2>1, <2>2, <2>3, WrittenInv DEF FlushPending
<1>4. CASE Fail /\ UNCHANGED <<disk, index, unflushed>>
  BY <1>1, <1>4, FailInv DEF FlushPending, Same
<1>5. QED
  BY <1>2, <1>3, <1>4 DEF FlushPending

\* The record of AppendRecord fits.
LEMMA AppendedFits ==
    ASSUME HistoryInv, NEW gap
    PROVE  Fits(index, IF gap THEN Record("gap", index.base + index.lines, index.lines, 0)
                       ELSE Record("boundary", index.base + index.lines, 0, 0))
<1>1. Sound(index)
  BY DEF HistoryInv, IndexInStep
<1>2. /\ index.base + index.lines \in Nat /\ index.lines \in Nat /\ 0 \in Nat
      /\ \A i \in 1..Len(index.gaps) : index.gaps[i] =< index.lines
  BY <1>1, IndexFields DEF Sound
<1>3. Fits(index, Record("gap", index.base + index.lines, index.lines, 0))
  BY <1>2 DEF Fits, Valid, Record, Records
<1>4. Fits(index, Record("boundary", index.base + index.lines, 0, 0))
  BY <1>2 DEF Fits, Valid, Record, Records
<1>5. QED
  BY <1>3, <1>4

\* The header of a boundary or a gap.
LEMMA AppendRecordInv ==
    ASSUME HistoryInv, AppendRecord
    PROVE  HistoryInv'
<1> DEFINE gap == call.name = "AppendGap"
           r == IF gap THEN Record("gap", index.base + index.lines, index.lines, 0)
                ELSE Record("boundary", index.base + index.lines, 0, 0)
<1>1. call \in Calls /\ call.pc = "record" /\ fileState # "down"
  BY DEF HistoryInv, HistoryTypeOK, IndexInStep, AppendRecord, Doing
<1>2. CASE call' = Returned /\ UNCHANGED <<disk, index, overdue>>
  <2>1. call' \in Calls /\ call'.pc \in Calm
    BY <1>2, ReturnedCall DEF Calm
  <2>2. QED
    BY <1>1, <1>2, <2>1, PassInv DEF AppendRecord, Same, HistoryInv, HistoryTypeOK
<1>3. CASE /\ fileState = "open" /\ Written(r)
           /\ call' = [call EXCEPT !.pc = "limit", !.then = "return"]
           /\ UNCHANGED overdue
  <2>1. call' \in Calls /\ call'.pc = "limit"
    BY <1>1, <1>3 DEF Calls, Pcs
  <2>2. Fits(index, r)
    BY AppendedFits
  <2> HIDE DEF r
  <2>3. QED
    BY <1>3, <2>1, <2>2, WrittenInv DEF AppendRecord, HistoryInv, HistoryTypeOK
<1>4. CASE Fail /\ UNCHANGED <<disk, index>>
  BY <1>1, <1>4, FailInv DEF AppendRecord, Same
<1>5. QED
  BY <1>2, <1>3, <1>4 DEF AppendRecord

\* The sync of the file.
LEMMA SyncFileInv ==
    ASSUME HistoryInv, SyncFile
    PROVE  HistoryInv'
<1>1. call \in Calls /\ call.pc = "fsync" /\ fileState # "down"
  BY DEF HistoryInv, HistoryTypeOK, IndexInStep, SyncFile, Doing
<1>2. CASE /\ durable' = Len(disk.records)
           /\ secured' \in {LastLine(disk), secured}
           /\ call' = Returned /\ UNCHANGED overdue
  <2>1. call' \in Calls /\ call'.pc = "idle"
    BY <1>2, ReturnedCall
  <2>2. WholeFile(disk)
    BY DEF HistoryInv, FilesWhole
  <2>3. disk \in Files /\ Len(disk.records) \in Nat /\ Recovered(disk) \in Indexes
    BY <2>2, WholeRecovered
  <2>4. secured' \in Nat /\ durable' \in 0..Len(disk.records)
    <3>1. Recovered(disk).lines \in Nat
      BY <2>3, IndexFields
    <3>2. LastLine(disk) \in Nat /\ secured \in Nat
      BY <2>3, <3>1 DEF LastLine, Files, HistoryInv, HistoryTypeOK
    <3>3. QED
      BY <1>2, <2>3, <3>2
  <2>5. HistoryTypeOK'
    BY <1>2, <2>1, <2>4 DEF HistoryInv, HistoryTypeOK, SyncFile
  <2>6. FilesWhole'
    BY DEF HistoryInv, FilesWhole, SyncFile
  <2>7. IndexInStep'
    BY <1>1, <2>1, CalmIndex DEF HistoryInv, IndexInStep, SyncFile, Calm
  <2>8. LimitInStep'
    BY <1>1, <1>2 DEF HistoryInv, LimitInStep, SyncFile
  <2>9. QED
    BY <2>5, <2>6, <2>7, <2>8 DEF HistoryInv
<1>3. CASE Fail /\ UNCHANGED <<durable, secured>>
  BY <1>1, <1>3, FailInv DEF SyncFile, Same
<1>4. QED
  BY <1>2, <1>3 DEF SyncFile

\* Close.
LEMMA ShutInv ==
    ASSUME HistoryInv, Shut
    PROVE  HistoryInv'
<1>1. durable \in 0..Len(disk.records) /\ Len(disk.records) \in Nat
  BY WholeRecovered DEF HistoryInv, HistoryTypeOK, FilesWhole
<1>2. durable' \in 0..Len(disk.records)
  <2>1. durable' = durable \/ durable' = Len(disk.records)
    BY DEF Shut
  <2>2. QED
    BY <1>1, <2>1
<1>3. HistoryTypeOK'
  BY <1>2, ReturnedCall DEF HistoryInv, HistoryTypeOK, Shut
<1>4. FilesWhole'
  BY DEF HistoryInv, FilesWhole, Shut
<1>5. IndexInStep'
  BY ReturnedCall, CalmIndex DEF HistoryInv, IndexInStep, Shut, Calm
<1>6. LimitInStep'
  BY DEF LimitInStep, Shut
<1>7. QED
  BY <1>3, <1>4, <1>5, <1>6 DEF HistoryInv

\* enforceLimit: what is to be kept fits.
LEMMA EnforceLimitInv ==
    ASSUME HistoryInv, EnforceLimit
    PROVE  HistoryInv'
<1> DEFINE large == index.end > FileLimit
           Start(aged) == IF large /\ SizeStart(index) > aged
                          THEN SizeStart(index) ELSE aged
           U == UNCHANGED <<disk, durable, older, temp, fileState, index, unflushed,
                            epoch, secured, frozen>>
<1>1. /\ call \in Calls /\ call.pc = "limit" /\ fileState # "down" /\ U
      /\ Sound(index) /\ index \in Indexes /\ index.end \in Nat /\ FileLimit \in Nat
  BY IndexFields, HistoryAssumption
     DEF HistoryInv, HistoryTypeOK, IndexInStep, EnforceLimit, Doing
<1>2. Len(index.blocks) \in Nat
  BY <1>1, SoundOrdered
<1>3. PICK aged \in 0..Len(index.blocks) :
          \/ /\ fileState # "nil"
             /\ call' = [call EXCEPT !.pc = "temp", !.start = Start(aged)]
             /\ UNCHANGED overdue
          \/ /\ fileState = "nil" \/ ~large
             /\ Proceed /\ overdue' = FALSE
  <2>1. PICK aged \in IF MayAge THEN 0..Len(index.blocks) ELSE {0} :
            IF fileState # "nil" /\ (aged > 0 \/ large)
            THEN /\ call' = [call EXCEPT !.pc = "temp", !.start = Start(aged)]
                 /\ UNCHANGED overdue
            ELSE Proceed /\ overdue' = FALSE
    BY DEF EnforceLimit
  <2>2. aged \in 0..Len(index.blocks)
    BY <1>2
  <2> HIDE DEF large, Start
  <2>3. QED
    BY <2>1, <2>2
<1>4. CASE /\ fileState # "nil"
           /\ call' = [call EXCEPT !.pc = "temp", !.start = Start(aged)]
           /\ UNCHANGED overdue
  <2> DEFINE start == Start(aged)
  <2>1. SizeStart(index) \in 0..Len(index.blocks)
    BY <1>1, SizeStartFits
  <2>2. start \in 0..Len(index.blocks)
    BY <2>1
  <2>3. Reindexed(index, start).end =< FileLimit
    <3>1. CASE large
      <4>1. SizeStart(index) =< start
        BY <1>2, <2>1, <3>1
      <4> HIDE DEF start
      <4>2. QED
        BY <1>1, <2>2, <4>1, EnforcedFits
    <3>2. CASE ~large
      <4> HIDE DEF start
      <4>1. Reindexed(index, start).end \in Nat /\ Reindexed(index, start).end =< index.end
        BY <1>1, <2>2, EndIsCost
      <4>2. index.end =< FileLimit
        BY <1>1, <3>2
      <4>3. QED
        BY <1>1, <4>1, <4>2
    <3>3. QED
      BY <3>1, <3>2
  <2> HIDE DEF start
  <2>4. call' \in Calls /\ call'.pc = "temp" /\ call'.start = start
    <3>1. start \in Nat /\ call' = [call EXCEPT !.pc = "temp", !.start = start]
      BY <1>2, <1>4, <2>2 DEF start
    <3>2. QED
      BY <1>1, <3>1 DEF Calls, Pcs
  <2>5. HistoryTypeOK'
    BY <1>1, <1>4, <2>4 DEF HistoryInv, HistoryTypeOK
  <2>6. FilesWhole'
    BY <1>1 DEF HistoryInv, FilesWhole
  <2>7. IndexInStep'
    BY <1>1, <1>4, <2>2, <2>3, <2>4 DEF HistoryInv, IndexInStep, Doing
  <2>8. LimitInStep'
    BY <2>4 DEF LimitInStep
  <2>9. QED
    BY <2>5, <2>6, <2>7, <2>8 DEF HistoryInv
<1>5. CASE /\ fileState = "nil" \/ ~large
           /\ Proceed /\ overdue' = FALSE
  <2>1. call' \in Calls /\ call'.pc \in Calm
    BY <1>1, <1>5, ProceedCall
  <2>2. LimitInStep'
    <3>1. fileState' = "open" => index'.end =< FileLimit
      BY <1>1, <1>5
    <3>2. QED
      BY <3>1 DEF LimitInStep
  <2>3. QED
    BY <1>1, <1>5, <2>1, <2>2, CalmStep DEF HistoryInv, HistoryTypeOK, Same
<1>6. QED
  BY <1>3, <1>4, <1>5

\* rewriteBlocks: the temporary file is whole, and the new index is its index.
LEMMA WriteTempInv ==
    ASSUME HistoryInv, WriteTemp
    PROVE  HistoryInv'
<1>1. /\ call \in Calls /\ call.pc = "temp" /\ fileState # "down"
      /\ call.start \in 0..Len(index.blocks)
      /\ Reindexed(index, call.start).end =< FileLimit
  BY DEF HistoryInv, HistoryTypeOK, IndexInStep, WriteTemp, Doing
<1>2. CASE /\ fileState = "open" /\ temp' = Compacted(disk, index, call.start)
           /\ Continue("close") /\ UNCHANGED overdue
  <2>1. call' \in Calls /\ call'.pc = "close" /\ call'.start = call.start
    BY <1>1, <1>2, ContinueCall DEF Pcs
  <2>2. WholeFile(disk) /\ index = Recovered(disk)
    BY <1>2 DEF HistoryInv, FilesWhole, IndexInStep
  <2>3. WholeFile(temp') /\ Recovered(temp') = Reindexed(index, call.start)
    BY <1>1, <1>2, <2>2, CompactedWhole
  <2>4. temp' \in Files
    BY <2>3 DEF WholeFile
  <2>5. temp' # NoFile
    <3>1. NoFile \notin Files
      BY DEF NoFile, Files
    <3>2. QED
      BY <2>4, <3>1
  <2>6. HistoryTypeOK'
    BY <1>2, <2>1, <2>4 DEF HistoryInv, HistoryTypeOK, WriteTemp
  <2>7. FilesWhole'
    BY <2>3 DEF HistoryInv, FilesWhole, WriteTemp
  <2>8. IndexInStep'
    BY <1>1, <1>2, <2>1, <2>3, <2>5 DEF HistoryInv, IndexInStep, Doing, WriteTemp
  <2>9. LimitInStep'
    BY <2>1 DEF LimitInStep
  <2>10. QED
    BY <2>6, <2>7, <2>8, <2>9 DEF HistoryInv
<1>3. CASE Fail /\ UNCHANGED temp
  BY <1>1, <1>3, FailInv DEF WriteTemp, Same
<1>4. QED
  BY <1>2, <1>3 DEF WriteTemp

\* The old file is closed.
LEMMA CloseOldInv ==
    ASSUME HistoryInv, CloseOld
    PROVE  HistoryInv'
<1>1. /\ call \in Calls /\ call.pc = "close" /\ fileState = "open"
      /\ index = Recovered(disk)
  BY DEF HistoryInv, HistoryTypeOK, IndexInStep, CloseOld, Doing
<1>2. CASE fileState' = "nil" /\ Continue("rename") /\ UNCHANGED <<overdue, temp>>
  <2>1. call' \in Calls /\ call'.pc = "rename" /\ call'.start = call.start
    BY <1>1, <1>2, ContinueCall DEF Pcs
  <2>2. HistoryTypeOK'
    BY <1>2, <2>1 DEF HistoryInv, HistoryTypeOK, CloseOld
  <2>3. FilesWhole'
    BY <1>2 DEF HistoryInv, FilesWhole, CloseOld
  <2>4. IndexInStep'
    BY <1>1, <1>2, <2>1 DEF HistoryInv, IndexInStep, Doing, CloseOld
  <2>5. LimitInStep'
    BY <1>2 DEF LimitInStep
  <2>6. QED
    BY <2>2, <2>3, <2>4, <2>5 DEF HistoryInv
<1>3. CASE fileState' = "stale" /\ temp' = NoFile /\ Fail
  <2>1. call' \in Calls /\ call'.pc \in Calm /\ overdue' = TRUE
    BY <1>1, <1>3, FailCall DEF Calm
  <2>2. HistoryTypeOK'
    BY <1>3, <2>1 DEF HistoryInv, HistoryTypeOK, CloseOld
  <2>3. FilesWhole'
    BY <1>3 DEF HistoryInv, FilesWhole, CloseOld
  <2>4. IndexInStep'
    BY <1>1, <1>3, <2>1, CalmIndex DEF HistoryInv, IndexInStep, CloseOld
  <2>5. LimitInStep'
    BY <2>1 DEF LimitInStep
  <2>6. QED
    BY <2>2, <2>3, <2>4, <2>5 DEF HistoryInv
<1>4. QED
  BY <1>2, <1>3 DEF CloseOld

\* The rename: the path names a whole file before it and behind it, and the one
\* that it may name again is whole too.
LEMMA RenameTempInv ==
    ASSUME HistoryInv, RenameTemp
    PROVE  HistoryInv'
<1>1. /\ call \in Calls /\ call.pc = "rename" /\ fileState = "nil" /\ temp # NoFile
      /\ index = Recovered(disk) /\ Recovered(temp) = Reindexed(index, call.start)
      /\ WholeFile(disk) /\ WholeFile(temp) /\ durable \in 0..Len(disk.records)
      /\ temp' = NoFile
  BY DEF HistoryInv, HistoryTypeOK, FilesWhole, IndexInStep, RenameTemp, Doing
<1>2. CASE /\ older' = older \cup {Replaced}
           /\ disk' = temp /\ durable' = Len(temp.records)
           /\ Continue("reopen") /\ UNCHANGED <<fileState, overdue>>
  <2>1. call' \in Calls /\ call'.pc = "reopen" /\ call'.start = call.start
    BY <1>1, <1>2, ContinueCall DEF Pcs
  <2>2. WholeFile(Replaced)
    BY <1>1, WholeCut DEF Cut, Replaced
  <2>3. Replaced \in Files /\ temp \in Files /\ Len(temp.records) \in Nat
    BY <1>1, <2>2, WholeRecovered
  <2>4. durable' \in 0..Len(disk'.records)
    BY <1>2, <2>3
  <2>5. HistoryTypeOK'
    BY <1>1, <1>2, <2>1, <2>3, <2>4 DEF HistoryInv, HistoryTypeOK, RenameTemp
  <2>6. FilesWhole'
    BY <1>1, <1>2, <2>2 DEF HistoryInv, FilesWhole
  <2>7. IndexInStep'
    BY <1>1, <1>2, <2>1 DEF HistoryInv, IndexInStep, Doing, RenameTemp
  <2>8. LimitInStep'
    BY <1>1, <1>2 DEF LimitInStep
  <2>9. QED
    BY <2>5, <2>6, <2>7, <2>8 DEF HistoryInv
<1>3. CASE /\ fileState' \in {"open", "nil"} /\ Fail
           /\ UNCHANGED <<disk, durable, older>>
  <2>1. call' \in Calls /\ call'.pc \in Calm /\ overdue' = TRUE
    BY <1>1, <1>3, FailCall DEF Calm
  <2>2. HistoryTypeOK'
    BY <1>1, <1>3, <2>1 DEF HistoryInv, HistoryTypeOK, RenameTemp
  <2>3. FilesWhole'
    BY <1>1, <1>3 DEF HistoryInv, FilesWhole
  <2>4. IndexInStep'
    BY <1>1, <1>3, <2>1, CalmIndex DEF HistoryInv, IndexInStep, RenameTemp
  <2>5. LimitInStep'
    BY <2>1 DEF LimitInStep
  <2>6. QED
    BY <2>2, <2>3, <2>4, <2>5 DEF HistoryInv
<1>4. QED
  BY <1>2, <1>3 DEF RenameTemp

\* The new file is opened.
LEMMA ReopenInv ==
    ASSUME HistoryInv, Reopen
    PROVE  HistoryInv'
<1>1. /\ call \in Calls /\ call.pc = "reopen" /\ fileState = "nil"
      /\ call.start \in 0..Len(index.blocks)
      /\ Reindexed(index, call.start).end =< FileLimit
      /\ Recovered(disk) = Reindexed(index, call.start)
      /\ WholeFile(disk) /\ Sound(index)
  BY DEF HistoryInv, HistoryTypeOK, FilesWhole, IndexInStep, Reopen, Doing
<1>2. CASE /\ fileState' = "open" /\ index' = Reindexed(index, call.start)
           /\ call' = [call EXCEPT !.pc = "syncdir", !.start = Dropped(index, call.start)]
           /\ UNCHANGED overdue
  <2>1. Dropped(index, call.start) \in Nat
    BY <1>1, DroppedIs
  <2>2. call' \in Calls /\ call'.pc = "syncdir"
    BY <1>1, <1>2, <2>1 DEF Calls, Pcs
  <2>3. /\ Sound(index') /\ index' \in Indexes /\ index' = Recovered(disk)
        /\ index'.end =< FileLimit
    BY <1>1, <1>2, WholeRecovered
  <2>4. HistoryTypeOK'
    BY <1>2, <2>2, <2>3 DEF HistoryInv, HistoryTypeOK, Reopen
  <2>5. FilesWhole'
    BY DEF HistoryInv, FilesWhole, Reopen
  <2>6. IndexInStep'
    BY <1>2, <2>2, <2>3 DEF IndexInStep, Doing, Reopen
  <2>7. LimitInStep'
    BY <2>3 DEF LimitInStep
  <2>8. QED
    BY <2>4, <2>5, <2>6, <2>7 DEF HistoryInv
<1>3. CASE Fail /\ UNCHANGED <<fileState, index>>
  BY <1>1, <1>3, FailInv DEF Reopen, Same
<1>4. QED
  BY <1>2, <1>3 DEF Reopen

\* The directory is synced.
LEMMA SyncDirectoryInv ==
    ASSUME HistoryInv, SyncDirectory
    PROVE  HistoryInv'
<1>1. /\ call \in Calls /\ call.pc = "syncdir" /\ fileState = "open"
      /\ index.end =< FileLimit /\ epoch \in Nat /\ Sound(index)
      /\ index = Recovered(disk)
  BY DEF HistoryInv, HistoryTypeOK, IndexInStep, SyncDirectory, Doing
<1>2. CASE /\ older' = {}
           /\ epoch' = IF call.start > 0 THEN epoch + 1 ELSE epoch
           /\ Proceed /\ overdue' = FALSE
  <2>1. call' \in Calls /\ call'.pc \in Calm
    BY <1>1, <1>2, ProceedCall
  <2>2. epoch' \in Nat
    BY <1>1, <1>2
  <2>3. HistoryTypeOK'
    BY <1>2, <2>1, <2>2 DEF HistoryInv, HistoryTypeOK, SyncDirectory
  <2>4. FilesWhole'
    BY <1>2 DEF HistoryInv, FilesWhole, SyncDirectory
  <2>5. IndexInStep'
    BY <1>1, <2>1, CalmIndex DEF SyncDirectory
  <2>6. LimitInStep'
    BY <1>1 DEF LimitInStep, SyncDirectory
  <2>7. QED
    BY <2>3, <2>4, <2>5, <2>6 DEF HistoryInv
<1>3. CASE Fail /\ UNCHANGED <<older, epoch>>
  BY <1>1, <1>3, FailInv DEF SyncDirectory, Same
<1>4. QED
  BY <1>2, <1>3 DEF SyncDirectory

\* The process stops.
LEMMA ProcessStopsInv ==
    ASSUME HistoryInv, ProcessStops
    PROVE  HistoryInv'
<1>1. Sound(index)
  BY DEF HistoryInv, IndexInStep
<1>2. /\ call' = Returned /\ fileState' = "down" /\ temp' = NoFile
      /\ UNCHANGED <<disk, durable, older, index, unflushed, epoch, overdue, secured, frozen>>
  BY DEF ProcessStops
<1>3. HistoryTypeOK'
  BY <1>2, ReturnedCall DEF HistoryInv, HistoryTypeOK
<1>4. FilesWhole'
  BY <1>2 DEF HistoryInv, FilesWhole
<1>5. IndexInStep'
  BY <1>1, <1>2, ReturnedCall, CalmIndex DEF Calm
<1>6. LimitInStep'
  BY <1>2 DEF LimitInStep
<1>7. QED
  BY <1>3, <1>4, <1>5, <1>6 DEF HistoryInv

\* What a power failure leaves: the file, what is left of it behind some record
\* that was not synced, or one that the path named before.
LEMMA PowerLeaves ==
    ASSUME HistoryInv, PowerFails
    PROVE  \/ /\ UNCHANGED disk /\ durable' = Len(disk.records)
           \/ \E n \in durable..Len(disk.records) :
                 /\ n \in 0..Len(disk.records) /\ durable \in 0..n
                 /\ disk' = Cut(disk, n) /\ durable' = n
           \/ disk' \in older /\ durable' = Len(disk'.records)
<1>1. WholeFile(disk) /\ durable \in 0..Len(disk.records)
  BY DEF HistoryInv, HistoryTypeOK, FilesWhole
<1>2. disk \in Files /\ Len(disk.records) \in Nat
  BY <1>1, WholeRecovered
<1>3. CASE \E n \in durable..(Len(disk.records) - 1) :
              /\ disk' = [disk EXCEPT !.records = SubSeq(@, 1, n)]
              /\ durable' = n
  <2>1. PICK n \in durable..(Len(disk.records) - 1) :
              /\ disk' = [disk EXCEPT !.records = SubSeq(@, 1, n)]
              /\ durable' = n
    BY <1>3
  <2>2. /\ n \in durable..Len(disk.records) /\ n \in 0..Len(disk.records)
        /\ durable \in 0..n
    BY <1>1, <1>2
  <2>3. disk' = Cut(disk, n)
    BY <1>2, <2>1 DEF Cut, Files
  <2>4. QED
    BY <2>1, <2>2, <2>3
<1>4. QED
  BY <1>3 DEF PowerFails

\* A power failure leaves a file whose whole records recovery accepts.
LEMMA PowerFailsInv ==
    ASSUME HistoryInv, PowerFails
    PROVE  HistoryInv'
<1>1. WholeFile(disk) /\ Sound(index) /\ durable \in 0..Len(disk.records)
      /\ \A file \in older : WholeFile(file)
  BY DEF HistoryInv, HistoryTypeOK, FilesWhole, IndexInStep
<1>2. /\ call' = Returned /\ fileState' = "down" /\ older' = {} /\ temp' = NoFile
      /\ UNCHANGED <<index, unflushed, epoch, overdue, secured, frozen>>
  BY DEF PowerFails
<1>3. WholeFile(disk') /\ durable' \in 0..Len(disk'.records)
  <2>1. CASE UNCHANGED disk /\ durable' = Len(disk.records)
    <3>1. Len(disk.records) \in Nat
      BY <1>1, WholeRecovered
    <3>2. QED
      BY <1>1, <2>1, <3>1
  <2>2. CASE \E n \in durable..Len(disk.records) :
                 /\ n \in 0..Len(disk.records) /\ durable \in 0..n
                 /\ disk' = Cut(disk, n) /\ durable' = n
    <3>1. PICK n \in 0..Len(disk.records) : disk' = Cut(disk, n) /\ durable' = n
      BY <2>2
    <3>2. WholeFile(disk')
      BY <1>1, <3>1, WholeCut
    <3>3. Len(disk'.records) = n /\ n \in Nat
      BY <1>1, <3>1, WholeCut, WholeRecovered
    <3>4. QED
      BY <3>1, <3>2, <3>3
  <2>3. CASE disk' \in older /\ durable' = Len(disk'.records)
    <3>1. WholeFile(disk')
      BY <1>1, <2>3
    <3>2. Len(disk'.records) \in Nat
      BY <3>1, WholeRecovered
    <3>3. QED
      BY <2>3, <3>1, <3>2
  <2>4. QED
    BY <2>1, <2>2, <2>3, PowerLeaves
<1>4. disk' \in Files
  BY <1>3 DEF WholeFile
<1>5. HistoryTypeOK'
  BY <1>2, <1>3, <1>4, ReturnedCall DEF HistoryInv, HistoryTypeOK
<1>6. FilesWhole'
  BY <1>2, <1>3 DEF FilesWhole
<1>7. IndexInStep'
  BY <1>1, <1>2, ReturnedCall, CalmIndex DEF Calm
<1>8. LimitInStep'
  BY <1>2 DEF LimitInStep
<1>9. QED
  BY <1>5, <1>6, <1>7, <1>8 DEF HistoryInv

\* The file is opened again.
LEMMA OpenFileInv ==
    ASSUME HistoryInv, OpenFile
    PROVE  HistoryInv'
<1>1. WholeFile(disk)
  BY DEF HistoryInv, FilesWhole
<1>2. Sound(index') /\ index' \in Indexes /\ index' = Recovered(disk')
  BY <1>1, WholeRecovered DEF OpenFile
<1>3. call' \in Calls /\ call'.pc = "limit"
  BY ReturnedCall DEF OpenFile, Calls, Names, Pcs
<1>4. HistoryTypeOK'
  BY <1>2, <1>3 DEF HistoryInv, HistoryTypeOK, OpenFile, Nothing, NoView
<1>5. FilesWhole'
  BY DEF HistoryInv, FilesWhole, OpenFile
<1>6. IndexInStep'
  BY <1>2, <1>3, CalmIndex DEF OpenFile, Calm
<1>7. LimitInStep'
  BY <1>3 DEF LimitInStep
<1>8. QED
  BY <1>4, <1>5, <1>6, <1>7 DEF HistoryInv

\* A reader freezes its view.
LEMMA FreezeInv ==
    ASSUME HistoryInv, Freeze
    PROVE  HistoryInv'
<1>1. /\ call.pc = "idle" /\ fileState = "open" /\ index \in Indexes
      /\ UNCHANGED <<disk, durable, older, temp, fileState, index, unflushed, epoch,
                     call, overdue, secured>>
      /\ frozen' = [epoch |-> epoch, base |-> index.base, count |-> LineCount]
  BY DEF HistoryInv, HistoryTypeOK, Freeze
<1>2. epoch \in Nat /\ index.base \in Nat /\ LineCount \in Nat
  BY <1>1, IndexFields DEF HistoryInv, HistoryTypeOK, LineCount
<1>3. frozen' \in [epoch : Nat \cup {-1}, base : Nat, count : Nat]
  BY <1>1, <1>2
<1>4. LimitInStep'
  BY <1>1 DEF HistoryInv, LimitInStep
<1>5. QED
  BY <1>1, <1>3, <1>4, CalmStep DEF HistoryInv, HistoryTypeOK, Same, Calm

\* The initial state.
LEMMA HistoryInitInv == HistoryInit => HistoryInv
<1> SUFFICES ASSUME HistoryInit PROVE HistoryInv
  OBVIOUS
<1>1. /\ WholeFile(disk) /\ Recovered(disk) = EmptyIndex(0) /\ Sound(EmptyIndex(0))
  BY WholeEmpty DEF HistoryInit
<1>2. disk \in Files /\ Len(disk.records) = 0
  BY <1>1 DEF WholeFile, HistoryInit
<1>3. index = EmptyIndex(0) /\ index \in Indexes /\ index.end = 0
  BY EmptyIndexType DEF HistoryInit, EmptyIndex
<1>4. HistoryTypeOK
  <2>1. durable \in 0..Len(disk.records)
    <3>1. durable = 0
      BY DEF HistoryInit
    <3>2. QED
      BY <1>2, <3>1
  <2>2. call \in Calls
    BY ReturnedCall DEF HistoryInit
  <2>3. QED
    BY <1>2, <1>3, <2>1, <2>2 DEF HistoryInit, HistoryTypeOK, Nothing, NoView
<1>5. FilesWhole
  BY <1>1 DEF FilesWhole, HistoryInit
<1>6. IndexInStep
  BY <1>1, <1>3, ReturnedCall DEF IndexInStep, HistoryInit, Doing
<1>7. LimitInStep
  BY <1>3, HistoryAssumption DEF LimitInStep
<1>8. QED
  BY <1>4, <1>5, <1>6, <1>7 DEF HistoryInv

\* A step of the file.
LEMMA HistoryNextInv ==
    ASSUME HistoryInv, PendingInStep, [HistoryNext]_historyVars
    PROVE  HistoryInv'
<1>1. CASE AnyBegin
  BY <1>1, BeginInv
<1>2. CASE AppendPending
  BY <1>2, AppendPendingInv
<1>3. CASE FlushPending
  BY <1>3, FlushPendingInv
<1>4. CASE AppendRecord
  BY <1>4, AppendRecordInv
<1>5. CASE SyncFile
  BY <1>5, SyncFileInv
<1>6. CASE Shut
  BY <1>6, ShutInv
<1>7. CASE EnforceLimit
  BY <1>7, EnforceLimitInv
<1>8. CASE WriteTemp
  BY <1>8, WriteTempInv
<1>9. CASE CloseOld
  BY <1>9, CloseOldInv
<1>10. CASE RenameTemp
  BY <1>10, RenameTempInv
<1>11. CASE Reopen
  BY <1>11, ReopenInv
<1>12. CASE SyncDirectory
  BY <1>12, SyncDirectoryInv
<1>13. CASE ProcessStops
  BY <1>13, ProcessStopsInv
<1>14. CASE PowerFails
  BY <1>14, PowerFailsInv
<1>15. CASE OpenFile
  BY <1>15, OpenFileInv
<1>16. CASE Freeze
  BY <1>16, FreezeInv
<1>17. CASE OpenRefused \/ UNCHANGED historyVars
  BY <1>17 DEF OpenRefused, historyVars, HistoryInv, HistoryTypeOK, FilesWhole,
               IndexInStep, LimitInStep, Doing
<1>18. QED
  BY <1>1, <1>2, <1>3, <1>4, <1>5, <1>6, <1>7, <1>8, <1>9, <1>10, <1>11, <1>12,
     <1>13, <1>14, <1>15, <1>16, <1>17 DEF HistoryNext, AnyBegin

\* A step that appends no line, and goes on with none but the one in hand.
LEMMA PendingPass ==
    ASSUME PendingInStep, unflushed' \in {unflushed, Nothing},
           \/ call'.pc # "append" /\ call'.then # "append"
           \/ /\ call'.pc = "append" => call.then = "append"
              /\ call'.then = "append" => call.then = "append"
              /\ call'.size = call.size
    PROVE  PendingInStep'
<1>1. unflushed'.count =< unflushed'.bytes
  <2>1. CASE unflushed' = unflushed
    BY <2>1 DEF PendingInStep
  <2>2. CASE unflushed' = Nothing
    BY <2>2 DEF Nothing
  <2>3. QED
    BY <2>1, <2>2
<1>2. call'.pc = "append" \/ call'.then = "append" => call'.size > 0
  BY DEF PendingInStep
<1>3. QED
  BY <1>1, <1>2 DEF PendingInStep, Doing

\* A call that goes on, returns or fails.
LEMMA PendingCall ==
    ASSUME call \in Calls, PendingInStep, unflushed' \in {unflushed, Nothing},
           \/ Fail \/ Proceed \/ call' = Returned
           \/ \E pc \in Pcs \ {"append"} : Continue(pc)
    PROVE  PendingInStep'
<1>1. CASE call' = Returned
  BY <1>1, PendingPass DEF Returned
<1>2. CASE \E pc \in Pcs \ {"append"} : Continue(pc)
  <2>1. call'.pc # "append" /\ call'.then = call.then /\ call'.size = call.size
    BY <1>2, ContinueCall
  <2>2. QED
    BY <2>1, PendingPass
<1>3. CASE Fail
  <2>1. call' = Returned \/ call' = [call EXCEPT !.pc = "shut"]
    BY <1>3 DEF Fail
  <2>2. QED
    BY <1>1, <1>2, <2>1 DEF Continue, Pcs
<1>4. CASE Proceed
  <2>1. /\ call'.then = "return"
        /\ call'.pc = "append" => call.then = "append" /\ call'.size = call.size
    BY <1>4, ProceedCall
  <2>2. QED
    BY <2>1, PendingPass
<1>5. QED
  BY <1>1, <1>2, <1>3, <1>4

\* A line joins the pending ones.
LEMMA PendingAppended ==
    ASSUME HistoryInv, PendingInStep, AppendPending
    PROVE  PendingInStep'
<1>1. /\ unflushed.count \in Nat /\ unflushed.bytes \in Nat /\ call.size \in Nat
      /\ call \in Calls
  BY DEF HistoryInv, HistoryTypeOK, Calls
<1>2. unflushed.count =< unflushed.bytes /\ call.size > 0
  BY DEF PendingInStep, AppendPending
<1>3. unflushed'.count =< unflushed'.bytes
  BY <1>1, <1>2 DEF AppendPending
<1>4. \/ call' = [call EXCEPT !.pc = "flush", !.then = "return"]
      \/ call' = Returned
  BY DEF AppendPending
<1>5. call'.pc # "append" /\ call'.then # "append"
  <2>1. CASE call' = [call EXCEPT !.pc = "flush", !.then = "return"]
    BY <1>1, <2>1 DEF Calls
  <2>2. CASE call' = Returned
    BY <2>2 DEF Returned
  <2>3. QED
    BY <1>4, <2>1, <2>2
<1>6. QED
  BY <1>3, <1>5 DEF PendingInStep, Doing

\* A call that begins; only AppendLines has a line.
LEMMA PendingBegin ==
    ASSUME PendingInStep, AnyBegin
    PROVE  PendingInStep'
<1>1. UNCHANGED unflushed
  BY BeginCalm
<1>2. ASSUME NEW name, NEW pc, NEW then, NEW size, Begin(name, pc, then, size)
      PROVE  call'.pc = pc /\ call'.then = then /\ call'.size = size
  BY <1>2 DEF Begin, Returned
<1>3. CASE AppendLines
  <2>1. PICK size \in LineSizes : \/ Begin("AppendLines", "flush", "append", size)
                                  \/ Begin("AppendLines", "append", "return", size)
    BY <1>3 DEF AppendLines
  <2>2. size > 0
    BY HistoryAssumption
  <2>3. call'.size = size
    BY <1>2, <2>1
  <2>4. QED
    BY <1>1, <2>2, <2>3 DEF PendingInStep
<1>4. CASE ~AppendLines
  <2>1. \E name, then : /\ then # "append"
                        /\ Begin(name, "flush", then, 0) \/ Begin(name, "shut", then, 0)
    <3>1. CASE AppendBoundary
      BY <3>1 DEF AppendBoundary
    <3>2. CASE AppendGap
      BY <3>2 DEF AppendGap
    <3>3. CASE PruneRetention
      BY <3>3 DEF PruneRetention
    <3>4. CASE Sync
      BY <3>4 DEF Sync
    <3>5. CASE CloseFile
      BY <3>5 DEF CloseFile
    <3>6. QED
      BY <1>4, <3>1, <3>2, <3>3, <3>4, <3>5 DEF AnyBegin
  <2>2. call'.pc # "append" /\ call'.then # "append"
    BY <1>2, <2>1
  <2>3. QED
    BY <1>1, <2>2, PendingPass
<1>5. QED
  BY <1>3, <1>4

\* A step of the file keeps the pending lines in step.
LEMMA PendingNext ==
    ASSUME HistoryInv, PendingInStep, [HistoryNext]_historyVars
    PROVE  PendingInStep'
<1>1. call \in Calls
  BY DEF HistoryInv, HistoryTypeOK
<1>2. CASE AnyBegin
  BY <1>2, PendingBegin
<1>3. CASE AppendPending
  BY <1>3, PendingAppended
<1>4. CASE FlushPending
  <2>1. unflushed' \in {unflushed, Nothing}
    BY <1>4 DEF FlushPending
  <2>2. Fail \/ Proceed \/ Continue("limit")
    BY <1>4 DEF FlushPending
  <2>3. QED
    BY <1>1, <2>1, <2>2, PendingCall DEF Pcs
<1>5. CASE AppendRecord
  <2>1. UNCHANGED unflushed
    BY <1>5 DEF AppendRecord
  <2>2. \/ Fail \/ call' = Returned
        \/ call' = [call EXCEPT !.pc = "limit", !.then = "return"]
    BY <1>5 DEF AppendRecord
  <2>3. CASE call' = [call EXCEPT !.pc = "limit", !.then = "return"]
    <3>1. call'.pc = "limit" /\ call'.then = "return"
      BY <1>1, <2>3 DEF Calls
    <3>2. QED
      BY <2>1, <3>1, PendingPass
  <2>4. QED
    BY <1>1, <2>1, <2>2, <2>3, PendingCall
<1>6. CASE SyncFile \/ WriteTemp \/ CloseOld \/ RenameTemp \/ SyncDirectory
  <2>1. UNCHANGED unflushed
    BY <1>6 DEF SyncFile, WriteTemp, CloseOld, RenameTemp, SyncDirectory
  <2>2. \/ Fail \/ call' = Returned \/ Continue("close") \/ Continue("rename")
        \/ Continue("reopen") \/ Proceed
    BY <1>6 DEF SyncFile, WriteTemp, CloseOld, RenameTemp, SyncDirectory
  <2>3. QED
    BY <1>1, <2>1, <2>2, PendingCall DEF Pcs
<1>7. CASE EnforceLimit \/ Reopen
  <2>1. UNCHANGED unflushed
    BY <1>7 DEF EnforceLimit, Reopen
  <2>2. \/ Fail \/ Proceed
        \/ \E start : \/ call' = [call EXCEPT !.pc = "temp", !.start = start]
                      \/ call' = [call EXCEPT !.pc = "syncdir", !.start = start]
    BY <1>7 DEF EnforceLimit, Reopen
  <2>3. ASSUME NEW start, \/ call' = [call EXCEPT !.pc = "temp", !.start = start]
                          \/ call' = [call EXCEPT !.pc = "syncdir", !.start = start]
        PROVE  PendingInStep'
    <3>1. call'.pc # "append" /\ call'.then = call.then /\ call'.size = call.size
      BY <1>1, <2>3 DEF Calls
    <3>2. QED
      BY <2>1, <3>1, PendingPass
  <2>4. QED
    BY <1>1, <2>1, <2>2, <2>3, PendingCall
<1>8. CASE Shut \/ ProcessStops \/ PowerFails
  <2>1. call' = Returned /\ UNCHANGED unflushed
    BY <1>8 DEF Shut, ProcessStops, PowerFails
  <2>2. QED
    BY <2>1, PendingPass DEF Returned
<1>9. CASE OpenFile
  <2>1. unflushed' = Nothing /\ call' = [Returned EXCEPT !.name = "Open", !.pc = "limit"]
    BY <1>9 DEF OpenFile
  <2>2. call'.pc # "append" /\ call'.then # "append"
    BY <2>1 DEF Returned
  <2>3. QED
    BY <2>1, <2>2, PendingPass
<1>10. CASE Freeze \/ OpenRefused \/ UNCHANGED historyVars
  BY <1>10 DEF Freeze, OpenRefused, historyVars, PendingInStep, Doing
<1>11. QED
  BY <1>2, <1>3, <1>4, <1>5, <1>6, <1>7, <1>8, <1>9, <1>10 DEF HistoryNext, AnyBegin

-----------------------------------------------------------------------------
(* The tail.                                                               *)

\* What a part of a record leaves.
LEMMA PartWrittenTail ==
    ASSUME tail \in [bytes : Nat, junk : BOOLEAN], NEW bytes \in Nat
    PROVE  /\ PartWritten(bytes) \in [bytes : Nat, junk : BOOLEAN]
           /\ PartWritten(bytes).junk => tail.junk \/ tail.bytes > 0
<1>1. tail.bytes \in Nat /\ tail.junk \in BOOLEAN
  OBVIOUS
<1>2. CASE bytes = 0
  BY <1>2 DEF PartWritten
<1>3. CASE bytes # 0 /\ bytes >= tail.bytes
  BY <1>3 DEF PartWritten
<1>4. CASE bytes # 0 /\ ~(bytes >= tail.bytes)
  <2>1. PartWritten(bytes) = [tail EXCEPT !.junk = TRUE] /\ tail.bytes > 0
    BY <1>1, <1>4 DEF PartWritten
  <2>2. QED
    BY <2>1
<1>5. QED
  BY <1>2, <1>3, <1>4

\* What a whole record leaves.
LEMMA OverwrittenTail ==
    ASSUME tail \in [bytes : Nat, junk : BOOLEAN], NEW bytes \in Nat
    PROVE  /\ Overwritten(bytes) \in [bytes : Nat, junk : BOOLEAN]
           /\ Overwritten(bytes).bytes > 0 \/ Overwritten(bytes).junk => tail.bytes > 0
<1>1. tail.bytes \in Nat
  OBVIOUS
<1>2. CASE bytes >= tail.bytes
  BY <1>2 DEF Overwritten, NoTail
<1>3. CASE ~(bytes >= tail.bytes)
  <2>1. Overwritten(bytes) = [bytes |-> tail.bytes - bytes, junk |-> TRUE]
    BY <1>3 DEF Overwritten
  <2>2. tail.bytes - bytes \in Nat /\ tail.bytes > 0
    BY <1>1, <1>3
  <2>3. QED
    BY <2>1, <2>2
<1>4. QED
  BY <1>2, <1>3

\* A write that fails leaves bytes only when its rollback fails too.
LEMMA TailWriteFails ==
    ASSUME TailInStep, NEW size \in Nat, WriteFails(size), UNCHANGED fileState
    PROVE  TailInStep'
<1>1. tail \in [bytes : Nat, junk : BOOLEAN]
  BY DEF TailInStep
<1>2. CASE UNCHANGED <<tail, unrolled>>
  BY <1>2 DEF TailInStep
<1>3. CASE \E bytes \in 0..size : RollbackPartialRecord(bytes)
  <2>1. PICK bytes \in 0..size : RollbackPartialRecord(bytes)
    BY <1>3
  <2>2. CASE tail' = NoTail
    BY <2>2 DEF TailInStep, NoTail
  <2>3. CASE tail' = PartWritten(bytes) /\ unrolled' = TRUE
    BY <1>1, <2>3, PartWrittenTail DEF TailInStep
  <2>4. QED
    BY <2>1, <2>2, <2>3 DEF RollbackPartialRecord
<1>4. QED
  BY <1>2, <1>3 DEF WriteFails

\* A record of that size is written, and the file is open.
LEMMA TailWritten ==
    ASSUME TailInStep, fileState = "open", NEW r, r.size \in Nat, Written(r),
           UNCHANGED <<fileState, unrolled>>
    PROVE  TailInStep'
<1>1. tail \in [bytes : Nat, junk : BOOLEAN] /\ (tail.bytes > 0 => unrolled)
  BY DEF TailInStep
<1>2. 1 + r.size \in Nat /\ tail' = Overwritten(1 + r.size)
  BY DEF Written
<1>3. QED
  BY <1>1, <1>2, OverwrittenTail DEF TailInStep

\* What is behind the records when the process stops.
LEMMA TailStops ==
    ASSUME HistoryInv, TailInStep, tail' \in TailsLeft \cup {NoTail},
           fileState' = "down", UNCHANGED unrolled
    PROVE  TailInStep'
<1>1. /\ tail \in [bytes : Nat, junk : BOOLEAN] /\ unflushed.bytes \in Nat
      /\ (tail.junk => unrolled)
      /\ (fileState # "down" /\ tail.bytes > 0 => unrolled)
  BY DEF TailInStep, HistoryInv, HistoryTypeOK
<1>2. CASE tail' = tail
  BY <1>1, <1>2 DEF TailInStep
<1>3. CASE tail' = NoTail
  BY <1>3 DEF TailInStep, NoTail
<1>4. CASE fileState = "open" /\ \E bytes \in 0..unflushed.bytes : tail' = PartWritten(bytes)
  BY <1>1, <1>4, PartWrittenTail DEF TailInStep
<1>5. QED
  BY <1>2, <1>3, <1>4 DEF TailsLeft

\* A step of the file.
LEMMA TailNext ==
    ASSUME HistoryInv, TailInStep, [HistoryNext]_historyVars
    PROVE  TailInStep'
<1>1. CASE AnyBegin
  <2>1. UNCHANGED <<tail, fileState, unrolled>>
    BY <1>1, BeginCalm
  <2>2. QED
    BY <2>1 DEF TailInStep
<1>2. CASE \/ AppendPending \/ SyncFile \/ EnforceLimit \/ WriteTemp \/ SyncDirectory
           \/ Freeze \/ OpenRefused \/ UNCHANGED historyVars
  <2>1. UNCHANGED <<tail, fileState, unrolled>>
    BY <1>2 DEF AppendPending, SyncFile, EnforceLimit, WriteTemp, SyncDirectory,
                Freeze, OpenRefused, historyVars
  <2>2. QED
    BY <2>1 DEF TailInStep
<1>3. CASE FlushPending
  <2>1. unflushed.bytes \in Nat /\ UNCHANGED fileState
    BY <1>3 DEF HistoryInv, HistoryTypeOK, FlushPending
  <2>2. CASE UNCHANGED <<tail, unrolled>>
    BY <2>1, <2>2 DEF TailInStep
  <2>3. CASE /\ fileState = "open" /\ UNCHANGED unrolled
             /\ Written(Record("lines", index.base + index.lines, unflushed.count,
                               unflushed.bytes))
    BY <2>1, <2>3, TailWritten DEF Record
  <2>4. CASE WriteFails(unflushed.bytes)
    BY <2>1, <2>4, TailWriteFails
  <2>5. QED
    BY <1>3, <2>2, <2>3, <2>4 DEF FlushPending
<1>4. CASE AppendRecord
  <2> DEFINE gap == call.name = "AppendGap"
             r == IF gap THEN Record("gap", index.base + index.lines, index.lines, 0)
                  ELSE Record("boundary", index.base + index.lines, 0, 0)
  <2>1. UNCHANGED fileState
    BY <1>4 DEF AppendRecord
  <2>2. CASE UNCHANGED <<tail, unrolled>>
    BY <2>1, <2>2 DEF TailInStep
  <2>3. CASE fileState = "open" /\ UNCHANGED unrolled /\ Written(r)
    <3>1. r.size \in Nat
      BY DEF Record
    <3> HIDE DEF r
    <3>2. QED
      BY <2>1, <2>3, <3>1, TailWritten
  <2>4. CASE WriteFails(0)
    BY <2>1, <2>4, TailWriteFails
  <2>5. QED
    BY <1>4, <2>2, <2>3, <2>4 DEF AppendRecord
<1>5. CASE Shut \/ CloseOld \/ Reopen
  <2>1. UNCHANGED <<tail, unrolled>> /\ fileState # "down"
    BY <1>5 DEF Shut, CloseOld, Reopen, HistoryInv, IndexInStep, Doing
  <2>2. QED
    BY <2>1 DEF TailInStep
<1>6. CASE RenameTemp
  <2>1. fileState # "down"
    BY <1>6 DEF RenameTemp, HistoryInv, IndexInStep, Doing
  <2>2. CASE tail' = NoTail
    BY <2>2 DEF TailInStep, NoTail
  <2>3. CASE UNCHANGED <<tail, unrolled>>
    BY <2>1, <2>3 DEF TailInStep
  <2>4. QED
    BY <1>6, <2>2, <2>3 DEF RenameTemp
<1>7. CASE ProcessStops
  BY <1>7, TailStops DEF ProcessStops
<1>8. CASE PowerFails
  <2>1. fileState' = "down" /\ UNCHANGED unrolled
    BY <1>8 DEF PowerFails
  <2>2. CASE tail' \in TailsLeft \cup {NoTail}
    BY <2>1, <2>2, TailStops
  <2>3. CASE \E n \in durable..(Len(disk.records) - 1) :
                \E bytes \in 0..disk.records[n + 1].size :
                    tail' = [bytes |-> bytes, junk |-> FALSE]
    <3>1. PICK n \in durable..(Len(disk.records) - 1) :
              \E bytes \in 0..disk.records[n + 1].size :
                  tail' = [bytes |-> bytes, junk |-> FALSE]
      BY <2>3
    <3>2. disk.records \in Seq(Records) /\ Len(disk.records) \in Nat
          /\ durable \in 0..Len(disk.records)
      BY DEF HistoryInv, HistoryTypeOK, Files
    <3>3. n + 1 \in 1..Len(disk.records)
      BY <3>2
    <3>4. disk.records[n + 1] \in Records
      BY <3>2, <3>3, ElementOfSeq
    <3>5. disk.records[n + 1].size \in Nat
      BY <3>4 DEF Records
    <3> DEFINE size == disk.records[n + 1].size
    <3>6. PICK bytes \in Nat : tail' = [bytes |-> bytes, junk |-> FALSE]
      <4>1. PICK bytes \in 0..size : tail' = [bytes |-> bytes, junk |-> FALSE]
        BY <3>1, Zenon
      <4>2. bytes \in Nat
        <5>1. size \in Nat
          BY <3>5
        <5> HIDE DEF size
        <5>2. QED
          BY <5>1
      <4>3. QED
        BY <4>1, <4>2, Zenon
    <3>7. QED
      BY <2>1, <3>6 DEF TailInStep
  <2>4. QED
    BY <1>8, <2>2, <2>3 DEF PowerFails
<1>9. CASE OpenFile
  <2>1. tail' = NoTail
    BY <1>9 DEF OpenFile
  <2>2. QED
    BY <2>1 DEF TailInStep, NoTail
<1>10. QED
  BY <1>1, <1>2, <1>3, <1>4, <1>5, <1>6, <1>7, <1>8, <1>9 DEF HistoryNext, AnyBegin

-----------------------------------------------------------------------------
(* The theorems.                                                           *)

\* The inductive invariant holds: every record of the file, of the temporary file
\* and of those that a lost rename would bring back passes the checks of recovery,
\* cut off behind any record, and no block of it is empty; only a failed rollback
\* leaves bytes behind the records of an open file
\* (compressed_file.go 443-477, 505-562, 665-754, 799-806).
THEOREM HistoryInvariant ==
    HistorySpec => [](HistoryInv /\ PendingInStep /\ TailInStep)
<1>1. HistoryInit => PendingInStep
  BY DEF HistoryInit, PendingInStep, Nothing, Returned, Doing
<1>2. HistoryInit => TailInStep
  BY DEF HistoryInit, TailInStep, NoTail
<1>3. HistoryInv /\ PendingInStep /\ TailInStep /\ [HistoryNext]_historyVars
        => HistoryInv' /\ PendingInStep' /\ TailInStep'
  BY HistoryNextInv, PendingNext, TailNext
<1>4. QED
  BY <1>1, <1>2, <1>3, HistoryInitInv, PTL DEF HistorySpec

\* Recovery accepts the file whenever the process or the machine stops, in the
\* middle of a record too, unless the rollback of a failed write has failed
\* (compressed_file.go 443-459, 505-526, 799-806).
THEOREM RecoveryCorrect == HistorySpec => []RecoveryAccepts
<1>1. HistoryInv /\ TailInStep => RecoveryAccepts
  <2> SUFFICES ASSUME HistoryInv, TailInStep PROVE RecoveryAccepts
    OBVIOUS
  <2>1. Sound(Recovered(disk))
    BY WholeRecovered DEF HistoryInv, FilesWhole
  <2>2. Recovered(disk).ok
    BY <2>1 DEF Sound
  <2>3. Unreadable => unrolled
    BY DEF TailInStep, Unreadable
  <2>4. QED
    BY <2>2, <2>3 DEF RecoveryAccepts
<1>2. QED
  BY <1>1, HistoryInvariant, PTL

\* Recovery would read from the file what the index says between any two calls,
\* whichever writes, rollbacks and compactions have failed before
\* (compressed_file.go 443-477, 505-562, 665-754).
THEOREM IndexCorrect == HistorySpec => []IndexMatchesFile
<1>1. HistoryInv => IndexMatchesFile
  BY DEF HistoryInv, IndexInStep, Quiet, IndexMatchesFile
<1>2. QED
  BY <1>1, HistoryInvariant, PTL

\* No line is lost from the middle, repeated or moved across a gap marker, in any
\* image that a crash, a recovery or a compaction leaves
\* (compressed_file.go 665-712).
THEOREM LinesCorrect == HistorySpec => []LinesInPlace
<1>1. HistoryInv => LinesInPlace
  <2> SUFFICES ASSUME HistoryInv PROVE LinesInPlace
    OBVIOUS
  <2> DEFINE x == Recovered(disk)
  <2>1. /\ disk \in Files /\ Len(disk.records) \in Nat
        /\ Describes(x, disk, Len(disk.records)) /\ Sound(x)
    BY WholeRecovered DEF HistoryInv, FilesWhole
  <2> HIDE DEF x
  <2>2. /\ DOMAIN x.blocks = 1..Len(x.blocks)
        /\ DOMAIN disk.records = 1..Len(disk.records)
    BY <2>1, SoundOrdered DEF Files
  <2>3. ASSUME NEW i \in DOMAIN x.blocks
        PROVE  disk.records[x.blocks[i].at].from = disk.base + x.blocks[i].first
    <3>1. x.base = disk.base /\ disk.records[x.blocks[i].at] =
              Record("lines", x.base + x.blocks[i].first, x.blocks[i].count,
                     x.blocks[i].size)
      BY <2>1, <2>2 DEF Describes
    <3>2. QED
      BY <3>1 DEF Record
  <2>4. ASSUME NEW k \in DOMAIN disk.records, disk.records[k].kind = "gap"
        PROVE  disk.records[k].from = disk.base + disk.records[k].count
    BY <2>1, <2>2, <2>4 DEF Describes
  <2>5. QED
    BY <2>3, <2>4 DEF LinesInPlace, x
<1>2. QED
  BY <1>1, HistoryInvariant, PTL

\* The file is over its limit only after a call that has failed, until a later one
\* has enforced the limit, PruneRetention among them
\* (compressed_file.go 302-310, 637-657).
THEOREM LimitCorrect == HistorySpec => []WithinLimit
<1>1. HistoryInv => WithinLimit
  BY DEF HistoryInv, LimitInStep, WithinLimit, Quiet
<1>2. QED
  BY <1>1, HistoryInvariant, PTL

-----------------------------------------------------------------------------
(* What a reader with a frozen view finds.                                 *)

\* Where a compaction leaves its lines: the last one is the last one, and only
\* when lines are dropped does the first one move.
LEMMA ReindexedLines ==
    ASSUME NEW x, Sound(x), NEW start \in 0..Len(x.blocks)
    PROVE  /\ Dropped(x, start) \in Nat
           /\ Reindexed(x, start).base = x.base + Dropped(x, start)
           /\ Reindexed(x, start).lines = x.lines - Dropped(x, start)
<1> DEFINE y == MovedBlocks(x, start)[Len(x.blocks) - start]
           gaps == GapsAfter(x.gaps, Dropped(x, start))
<1>1. IsReindexed(x, start, y, gaps, Reindexed(x, start))
  BY ReindexedIs
<1> HIDE DEF y, gaps
<1>2. QED
  BY <1>1 DEF IsReindexed

\* The line count of the object in memory.
LEMMA LineCountType ==
    ASSUME HistoryInv
    PROVE  /\ LineCount \in Nat /\ index.lines \in Nat /\ index.base \in Nat
           /\ unflushed.count \in Nat /\ frozen.count \in Nat /\ epoch \in Nat
           /\ frozen.epoch \in Int /\ frozen.base \in Nat
BY IndexFields DEF HistoryInv, HistoryTypeOK, LineCount

\* A step that keeps the first line and loses none.
LEMMA FrozenPass ==
    ASSUME HistoryInv, FrozenInStep, fileState # "down", ~Doing("syncdir"),
           UNCHANGED <<epoch, frozen, shifted>>, index'.base = index.base,
           index'.lines + unflushed'.count \in Nat,
           index.lines + unflushed.count =< index'.lines + unflushed'.count
    PROVE  FrozenInStep'
<1> DEFINE n == index'.lines + unflushed'.count
           m == index.lines + unflushed.count
<1>1. LineCount' = n /\ LineCount = m /\ n \in Nat /\ m =< n
  BY DEF LineCount
<1>2. m \in Nat /\ frozen.count \in Nat
  BY <1>1, LineCountType
<1>3. ~shifted /\ frozen.epoch = epoch => frozen.base = index.base /\ frozen.count =< m
  BY <1>1 DEF FrozenInStep
<1> HIDE DEF n, m
<1>4. frozen.count =< m => frozen.count =< n
  BY <1>1, <1>2
<1>5. ~shifted /\ frozen.epoch = epoch
        => frozen.base = index'.base /\ frozen.count =< LineCount'
  BY <1>1, <1>3, <1>4
<1>6. frozen' = frozen /\ epoch' = epoch /\ frozen.epoch =< epoch
  BY DEF FrozenInStep
<1>7. QED
  BY <1>5, <1>6 DEF FrozenInStep

\* A step that changes neither the index nor the pending lines.
LEMMA FrozenSame ==
    ASSUME HistoryInv, FrozenInStep, fileState # "down", ~Doing("syncdir"),
           UNCHANGED <<epoch, frozen, shifted, index, unflushed>>
    PROVE  FrozenInStep'
<1>1. index.lines + unflushed.count \in Nat
  BY LineCountType
<1>2. index.lines + unflushed.count =< index'.lines + unflushed'.count
  BY <1>1
<1>3. QED
  BY <1>1, <1>2, FrozenPass

\* Lines that are flushed stay where they are.
LEMMA FrozenFlush ==
    ASSUME HistoryInv, FrozenInStep, FlushPending
    PROVE  FrozenInStep'
<1> DEFINE r == Record("lines", index.base + index.lines, unflushed.count,
                       unflushed.bytes)
<1>1. /\ fileState # "down" /\ ~Doing("syncdir")
      /\ UNCHANGED <<epoch, frozen, shifted>> /\ index \in Indexes
  BY DEF HistoryInv, HistoryTypeOK, IndexInStep, FlushPending, Doing
<1>2. /\ index.lines \in Nat /\ index.base \in Nat /\ unflushed.count \in Nat
      /\ unflushed.bytes \in Nat
  BY LineCountType DEF HistoryInv, HistoryTypeOK
<1>3. CASE UNCHANGED <<index, unflushed>>
  BY <1>1, <1>3, FrozenSame
<1>4. CASE Written(r) /\ unflushed' = Nothing
  <2>1. index.base + index.lines \in Nat
    BY <1>2
  <2>2. r \in Records /\ r.kind = "lines" /\ r.count = unflushed.count
    BY <1>2, <2>1 DEF Record, Records
  <2> HIDE DEF r
  <2>3. index'.base = index.base /\ index'.lines = index.lines + unflushed.count
    <3>1. index' = Indexed(index, r)
      BY <1>4 DEF Written
    <3> DEFINE bs == Append(index.blocks, [at |-> index.records + 1, first |-> index.lines,
                                           count |-> r.count, size |-> r.size])
               ok == index.ok /\ Valid(index, r)
    <3>2. index' = [base |-> index.base, blocks |-> bs, gaps |-> index.gaps,
                    lines |-> index.lines + r.count, records |-> index.records + 1,
                    end |-> index.end + 1 + r.size, ok |-> ok]
      BY <1>1, <2>2, <3>1, IndexedLines, Zenon
    <3> HIDE DEF bs, ok
    <3>3. QED
      BY <2>2, <3>2
  <2>4. unflushed'.count = 0
    BY <1>4 DEF Nothing
  <2>5. /\ index'.lines + unflushed'.count \in Nat
        /\ index.lines + unflushed.count =< index'.lines + unflushed'.count
    BY <1>2, <2>3, <2>4
  <2>6. QED
    BY <1>1, <2>3, <2>5, FrozenPass
<1>5. QED
  BY <1>3, <1>4 DEF FlushPending

\* A boundary or a gap moves no line.
LEMMA FrozenRecord ==
    ASSUME HistoryInv, FrozenInStep, AppendRecord
    PROVE  FrozenInStep'
<1> DEFINE gap == call.name = "AppendGap"
           r == IF gap THEN Record("gap", index.base + index.lines, index.lines, 0)
                ELSE Record("boundary", index.base + index.lines, 0, 0)
<1>1. /\ fileState # "down" /\ ~Doing("syncdir")
      /\ UNCHANGED <<epoch, frozen, shifted, unflushed>> /\ index \in Indexes
  BY DEF HistoryInv, HistoryTypeOK, IndexInStep, AppendRecord, Doing
<1>2. index.lines \in Nat /\ index.base \in Nat /\ unflushed.count \in Nat
  BY LineCountType
<1>3. CASE UNCHANGED index
  BY <1>1, <1>3, FrozenSame
<1>4. CASE Written(r)
  <2>1. r \in Records
    BY AppendedFits DEF Fits
  <2>2. r.kind = "gap" \/ r.kind = "boundary"
    BY DEF Record
  <2> HIDE DEF r
  <2>3. index'.base = index.base /\ index'.lines = index.lines
    <3>1. index' = Indexed(index, r)
      BY <1>4 DEF Written
    <3>2. CASE r.kind = "gap"
      BY <1>1, <2>1, <3>1, <3>2, IndexedGap
    <3>3. CASE r.kind = "boundary"
      BY <1>1, <2>1, <3>1, <3>3, IndexedBoundary
    <3>4. QED
      BY <2>2, <3>2, <3>3
  <2>4. /\ index'.lines + unflushed'.count \in Nat
        /\ index.lines + unflushed.count =< index'.lines + unflushed'.count
    BY <1>1, <1>2, <2>3
  <2>5. QED
    BY <1>1, <2>3, <2>4, FrozenPass
<1>5. QED
  BY <1>3, <1>4 DEF AppendRecord

\* A compaction that drops lines is not finished before the epoch has advanced.
LEMMA FrozenReopen ==
    ASSUME HistoryInv, FrozenInStep, Reopen
    PROVE  FrozenInStep'
<1>1. /\ fileState # "down" /\ ~Doing("syncdir")
      /\ UNCHANGED <<epoch, frozen, shifted, unflushed>> /\ Sound(index) /\ call.start \in 0..Len(index.blocks) /\ call \in Calls
  BY DEF HistoryInv, HistoryTypeOK, IndexInStep, Reopen, Doing
<1>2. CASE UNCHANGED index
  BY <1>1, <1>2, FrozenSame
<1>3. CASE /\ index' = Reindexed(index, call.start)
           /\ call' = [call EXCEPT !.pc = "syncdir", !.start = Dropped(index, call.start)]
  <2> DEFINE d == Dropped(index, call.start)
  <2>1. d \in Nat /\ index'.base = index.base + d /\ index'.lines = index.lines - d
    BY <1>1, <1>3, ReindexedLines
  <2>2. call'.pc = "syncdir" /\ call'.start = d
    BY <1>1, <1>3 DEF Calls
  <2> HIDE DEF d
  <2>3. CASE d = 0
    <3>1. index.lines \in Nat /\ index.base \in Nat /\ unflushed.count \in Nat
      BY LineCountType
    <3>2. /\ index'.base = index.base
          /\ index'.lines + unflushed'.count \in Nat
          /\ index.lines + unflushed.count =< index'.lines + unflushed'.count
      BY <1>1, <2>1, <2>3, <3>1
    <3>3. QED
      BY <1>1, <3>2, FrozenPass
  <2>4. CASE d > 0
    BY <1>1, <2>2, <2>4 DEF FrozenInStep, Doing
  <2>5. QED
    BY <2>1, <2>3, <2>4
<1>4. QED
  BY <1>2, <1>3 DEF Reopen

\* The epoch advances when lines have been dropped, or the call fails.
LEMMA FrozenSyncDirectory ==
    ASSUME HistoryInv, FrozenInStep, SyncDirectory
    PROVE  FrozenInStep'
<1>1. /\ UNCHANGED <<frozen, index, unflushed, fileState>>
      /\ fileState = "open" /\ call.start \in Nat
      /\ \/ epoch' = (IF call.start > 0 THEN epoch + 1 ELSE epoch) /\ UNCHANGED shifted
         \/ shifted' = (shifted \/ call.start > 0) /\ UNCHANGED epoch
  BY DEF SyncDirectory, HistoryInv, HistoryTypeOK, IndexInStep, Calls
<1>2. epoch \in Nat /\ frozen.epoch \in Int /\ frozen.epoch =< epoch
  BY LineCountType DEF FrozenInStep
<1>3. CASE call.start > 0
  <2>1. CASE epoch' = epoch + 1
    <3>1. frozen'.epoch =< epoch' /\ frozen'.epoch # epoch'
      BY <1>1, <1>2, <2>1
    <3>2. QED
      BY <3>1 DEF FrozenInStep
  <2>2. CASE shifted' /\ UNCHANGED epoch
    BY <1>1, <1>2, <2>2 DEF FrozenInStep
  <2>3. QED
    BY <1>1, <1>3, <2>1, <2>2
<1>4. CASE ~(call.start > 0)
  <2>1. epoch' = epoch /\ LineCount' = LineCount
    BY <1>1, <1>4 DEF LineCount
  <2>2. ~shifted' => ~shifted
    BY <1>1, <1>4, Zenon
  <2>3. QED
    BY <1>1, <1>4, <2>1, <2>2 DEF FrozenInStep
<1>5. QED
  BY <1>3, <1>4

\* A step of the file keeps what a reader may rely on.
LEMMA FrozenNext ==
    ASSUME HistoryInv, FrozenInStep, [HistoryNext]_historyVars
    PROVE  FrozenInStep'
<1>1. CASE AnyBegin
  <2>1. /\ call.pc = "idle" /\ fileState # "down"
        /\ UNCHANGED <<epoch, frozen, shifted, index, unflushed>>
    BY <1>1, BeginCalm
  <2>2. QED
    BY <2>1, FrozenSame DEF Doing
<1>2. CASE AppendPending
  <2>1. /\ fileState # "down" /\ ~Doing("syncdir")
        /\ UNCHANGED <<epoch, frozen, shifted, index>>
    BY <1>2 DEF HistoryInv, IndexInStep, AppendPending, Doing
  <2>2. unflushed'.count = unflushed.count + 1
    BY <1>2 DEF AppendPending
  <2>3. index.lines \in Nat /\ unflushed.count \in Nat
    BY LineCountType
  <2>4. /\ index'.lines + unflushed'.count \in Nat
        /\ index.lines + unflushed.count =< index'.lines + unflushed'.count
    BY <2>1, <2>2, <2>3
  <2>5. QED
    BY <2>1, <2>4, FrozenPass
<1>3. CASE FlushPending
  BY <1>3, FrozenFlush
<1>4. CASE AppendRecord
  BY <1>4, FrozenRecord
<1>5. CASE SyncFile \/ EnforceLimit \/ WriteTemp \/ CloseOld \/ RenameTemp
  <2>1. /\ fileState # "down" /\ ~Doing("syncdir")
        /\ UNCHANGED <<epoch, frozen, shifted, index, unflushed>>
    BY <1>5 DEF HistoryInv, IndexInStep, Doing, SyncFile, EnforceLimit, WriteTemp,
                CloseOld, RenameTemp
  <2>2. QED
    BY <2>1, FrozenSame
<1>6. CASE Shut \/ ProcessStops \/ PowerFails
  <2>1. fileState' = "down" /\ UNCHANGED <<epoch, frozen>>
    BY <1>6 DEF Shut, ProcessStops, PowerFails
  <2>2. QED
    BY <2>1 DEF FrozenInStep
<1>7. CASE Reopen
  BY <1>7, FrozenReopen
<1>8. CASE SyncDirectory
  BY <1>8, FrozenSyncDirectory
<1>9. CASE OpenFile
  <2>1. frozen'.epoch = -1 /\ epoch' = 0
    BY <1>9 DEF OpenFile, NoView
  <2>2. QED
    BY <2>1 DEF FrozenInStep
<1>10. CASE Freeze
  <2>1. /\ frozen'.epoch = epoch /\ frozen'.base = index.base
        /\ frozen'.count = LineCount /\ UNCHANGED <<epoch, index, unflushed>>
    BY <1>10 DEF Freeze
  <2>2. epoch \in Nat /\ LineCount \in Nat /\ LineCount' = LineCount
    BY <2>1, LineCountType DEF LineCount
  <2>3. frozen'.epoch =< epoch' /\ frozen'.base = index'.base /\ frozen'.count =< LineCount'
    BY <2>1, <2>2
  <2>4. QED
    BY <2>3 DEF FrozenInStep
<1>11. CASE OpenRefused \/ UNCHANGED historyVars
  BY <1>11 DEF OpenRefused, historyVars, FrozenInStep, Doing, LineCount
<1>12. QED
  BY <1>1, <1>2, <1>3, <1>4, <1>5, <1>6, <1>7, <1>8, <1>9, <1>10, <1>11
     DEF HistoryNext, AnyBegin

\* A read that the epoch lets through finds the lines that were frozen, unless the
\* sync of the directory has failed since in a compaction that had dropped lines
\* (engine.go 180-192, store.go 308-321, compressed_file.go 742-752).
THEOREM FrozenCorrect == HistorySpec => []FrozenUnlessShifted
<1>1. HistoryInit => FrozenInStep
  BY DEF HistoryInit, FrozenInStep, NoView
<1>2. HistoryInv /\ FrozenInStep /\ [HistoryNext]_historyVars => FrozenInStep'
  BY FrozenNext
<1>3. FrozenInStep => FrozenUnlessShifted
  BY DEF FrozenInStep, FrozenUnlessShifted, FrozenReadsSameLines, Quiet, Doing
<1>4. QED
  BY <1>1, <1>2, <1>3, HistoryInvariant, PTL DEF HistorySpec

-----------------------------------------------------------------------------
(* What Sync has secured.                                                  *)

\* The last line of a whole file.
LEMMA LastLineType ==
    ASSUME NEW file, WholeFile(file)
    PROVE  /\ LastLine(file) \in Nat /\ file.base \in Nat
           /\ \A n \in 0..Len(file.records) :
                 /\ Recovery(file)[n].lines \in Nat
                 /\ file.base + Recovery(file)[n].lines =< LastLine(file)
<1>1. file \in Files /\ Len(file.records) \in Nat /\ Recovered(file) \in Indexes
  BY WholeRecovered
<1>2. file.base \in Nat
  BY <1>1 DEF Files
<1>3. Recovered(file).lines \in Nat
  BY <1>1, IndexFields
<1>4. ASSUME NEW n \in 0..Len(file.records)
      PROVE  /\ Recovery(file)[n].lines \in Nat
             /\ Recovery(file)[n].lines =< Recovered(file).lines
  <2>1. Recovery(file)[n] \in Indexes
    BY <1>1, RecoveryDef
  <2>2. Len(file.records) \in n..Len(file.records)
    BY <1>1
  <2>3. Recovery(file)[n].lines =< Recovery(file)[Len(file.records)].lines
    BY <2>2, LinesGrow
  <2>4. QED
    BY <2>1, <2>3, IndexFields DEF Recovered
<1>5. QED
  BY <1>2, <1>3, <1>4 DEF LastLine

\* A step that leaves the synced part of the file.
LEMMA SyncedPass ==
    ASSUME SyncedInStep, UNCHANGED <<older, secured>>, disk'.base = disk.base,
           Recovery(disk')[durable'] = Recovery(disk)[durable]
    PROVE  SyncedInStep'
BY DEF SyncedInStep

\* A step that syncs the file.
LEMMA SyncedWhole ==
    ASSUME HistoryInv, SyncedInStep, UNCHANGED <<disk, older, secured>>,
           durable' = Len(disk.records)
    PROVE  SyncedInStep'
<1> DEFINE n == Recovery(disk)[durable].lines
<1>1. secured =< disk.base + n /\ secured \in Nat
  BY DEF SyncedInStep, HistoryInv, HistoryTypeOK
<1>2. /\ disk.base \in Nat /\ n \in Nat /\ LastLine(disk) \in Nat
      /\ disk.base + n =< LastLine(disk)
  BY LastLineType DEF HistoryInv, HistoryTypeOK, FilesWhole
<1> HIDE DEF n
<1>3. secured =< LastLine(disk)
  BY <1>1, <1>2
<1>4. secured' =< disk'.base + Recovery(disk')[durable'].lines
  BY <1>3 DEF LastLine, Recovered
<1>5. QED
  BY <1>4 DEF SyncedInStep

\* A record is written behind the synced ones.
LEMMA SyncedWritten ==
    ASSUME HistoryInv, PendingInStep, SyncedInStep, FlushPending \/ AppendRecord
    PROVE  SyncedInStep'
<1>1. UNCHANGED <<older, secured, durable>>
  BY DEF FlushPending, AppendRecord
<1>2. CASE UNCHANGED disk
  BY <1>1, <1>2, SyncedPass
<1>3. CASE \E r : fileState = "open" /\ Fits(index, r) /\ Written(r)
  <2>1. PICK r : fileState = "open" /\ Fits(index, r) /\ Written(r)
    BY <1>3
  <2>2. disk'.base = disk.base /\ Recovery(disk')[durable] = Recovery(disk)[durable]
    BY <2>1, WrittenStep
  <2>3. QED
    BY <1>1, <2>2, SyncedPass
<1>4. FlushPending => UNCHANGED disk \/ \E r :
      fileState = "open" /\ Fits(index, r) /\ Written(r)
  <2> DEFINE r == Record("lines", index.base + index.lines, unflushed.count,
                         unflushed.bytes)
  <2>1. unflushed.count > 0 => Fits(index, r)
    BY FlushedFits
  <2>2. FlushPending => UNCHANGED disk \/ (/\ unflushed.count > 0
                                          /\ fileState = "open" /\ Written(r))
    BY DEF FlushPending
  <2> HIDE DEF r
  <2>3. QED
    BY <2>1, <2>2
<1>5. AppendRecord => UNCHANGED disk \/ \E r :
      fileState = "open" /\ Fits(index, r) /\ Written(r)
  <2> DEFINE gap == call.name = "AppendGap"
             r == IF gap THEN Record("gap", index.base + index.lines, index.lines, 0)
                  ELSE Record("boundary", index.base + index.lines, 0, 0)
  <2>1. Fits(index, r)
    BY AppendedFits
  <2>2. AppendRecord => UNCHANGED disk \/ (fileState = "open" /\ Written(r))
    BY DEF AppendRecord
  <2> HIDE DEF r
  <2>3. QED
    BY <2>1, <2>2
<1>6. QED
  BY <1>2, <1>3, <1>4, <1>5

\* The rename: both files hold what has been secured.
LEMMA SyncedRename ==
    ASSUME HistoryInv, SyncedInStep, RenameTemp
    PROVE  SyncedInStep'
<1>1. /\ call \in Calls /\ call.pc = "rename" /\ temp # NoFile /\ Sound(index)
      /\ index = Recovered(disk) /\ Recovered(temp) = Reindexed(index, call.start)
      /\ WholeFile(disk) /\ WholeFile(temp) /\ durable \in 0..Len(disk.records)
      /\ call.start \in 0..Len(index.blocks) /\ UNCHANGED secured /\ secured \in Nat
  BY DEF HistoryInv, HistoryTypeOK, FilesWhole, IndexInStep, RenameTemp, Doing
<1>2. CASE UNCHANGED <<disk, durable, older>>
  BY <1>1, <1>2, SyncedPass
<1>3. CASE /\ older' = older \cup {Replaced}
           /\ disk' = temp /\ durable' = Len(temp.records)
  <2> DEFINE n == Recovery(disk)[durable].lines
             last == LastLine(disk)
  <2>1. secured =< disk.base + n
    BY DEF SyncedInStep
  <2>2. disk.base \in Nat /\ n \in Nat /\ last \in Nat /\ disk.base + n =< last
    BY <1>1, LastLineType
  <2>3. LastLine(Replaced) = disk.base + n
    <3>1. Replaced = Cut(disk, durable)
      BY DEF Cut, Replaced
    <3>2. Replaced.base = disk.base /\ Recovered(Replaced) = Recovery(disk)[durable]
      BY <1>1, <3>1, WholeCut
    <3>3. QED
      BY <3>2 DEF LastLine
  <2>4. LastLine(temp) = last
    <3> DEFINE d == Dropped(index, call.start)
    <3>1. /\ d \in Nat /\ Recovered(temp).base = index.base + d
          /\ Recovered(temp).lines = index.lines - d
      BY <1>1, ReindexedLines
    <3>2. Recovered(temp).base = temp.base /\ index.base = disk.base
      BY <1>1, WholeRecovered DEF Describes
    <3>3. index.lines \in Nat /\ last = disk.base + index.lines
      BY <1>1, SoundOrdered DEF LastLine
    <3> HIDE DEF d, last
    <3>4. temp.base + Recovered(temp).lines = last
      BY <2>2, <3>1, <3>2, <3>3
    <3>5. QED
      BY <3>4 DEF LastLine
  <2>5. disk'.base + Recovery(disk')[durable'].lines = last
    BY <1>3, <2>4 DEF LastLine, Recovered
  <2> HIDE DEF n, last
  <2>6. secured =< last
    BY <1>1, <2>1, <2>2
  <2>7. QED
    BY <1>1, <1>3, <2>1, <2>3, <2>5, <2>6 DEF SyncedInStep
<1>4. QED
  BY <1>2, <1>3 DEF RenameTemp

\* A power failure leaves what has been secured.
LEMMA SyncedPower ==
    ASSUME HistoryInv, SyncedInStep, PowerFails
    PROVE  SyncedInStep'
<1>1. /\ WholeFile(disk) /\ durable \in 0..Len(disk.records) /\ secured \in Nat
      /\ older' = {} /\ UNCHANGED secured
  BY DEF HistoryInv, HistoryTypeOK, FilesWhole, PowerFails
<1>2. CASE \/ UNCHANGED disk /\ durable' = Len(disk.records)
           \/ \E n \in durable..Len(disk.records) :
                 /\ n \in 0..Len(disk.records) /\ durable \in 0..n
                 /\ disk' = Cut(disk, n) /\ durable' = n
  <2>1. PICK n \in 0..Len(disk.records) :
            /\ durable \in 0..n /\ durable' = n /\ disk'.base = disk.base
            /\ Recovery(disk')[n] = Recovery(disk)[n]
    <3>1. CASE UNCHANGED disk /\ durable' = Len(disk.records)
      <4>1. Len(disk.records) \in 0..Len(disk.records)
        BY <1>1, WholeRecovered
      <4>2. QED
        BY <1>1, <3>1, <4>1
    <3>2. CASE \E n \in durable..Len(disk.records) :
                 /\ n \in 0..Len(disk.records) /\ durable \in 0..n
                 /\ disk' = Cut(disk, n) /\ durable' = n
      <4>1. PICK n \in 0..Len(disk.records) :
                 durable \in 0..n /\ disk' = Cut(disk, n) /\ durable' = n
        BY <3>2
      <4>2. n \in 0..n
        BY <1>1, WholeRecovered
      <4>3. disk'.base = disk.base /\ Recovery(disk')[n] = Recovery(disk)[n]
        BY <1>1, <4>1, <4>2, WholeCut
      <4>4. QED
        BY <4>1, <4>3
    <3>3. QED
      BY <1>2, <3>1, <3>2
  <2> DEFINE d == Recovery(disk)[durable].lines
             e == Recovery(disk)[n].lines
  <2>2. n \in durable..Len(disk.records)
    BY <1>1, <2>1, WholeRecovered
  <2>3. d =< e /\ d \in Nat /\ e \in Nat /\ disk.base \in Nat
    BY <1>1, <2>2, LinesGrow, LastLineType, WholeRecovered
  <2>4. secured =< disk.base + d
    BY DEF SyncedInStep
  <2> HIDE DEF d, e
  <2>5. secured =< disk.base + e
    BY <1>1, <2>3, <2>4
  <2>6. QED
    BY <1>1, <2>1, <2>5 DEF SyncedInStep, e
<1>3. CASE disk' \in older /\ durable' = Len(disk'.records)
  <2>1. secured =< LastLine(disk')
    BY <1>3 DEF SyncedInStep
  <2>2. secured =< disk'.base + Recovery(disk')[durable'].lines
    BY <1>3, <2>1 DEF LastLine, Recovered
  <2>3. QED
    BY <1>1, <2>2 DEF SyncedInStep
<1>4. QED
  BY <1>2, <1>3, PowerLeaves

\* A step of the file keeps what has been secured.
LEMMA SyncedNext ==
    ASSUME HistoryInv, PendingInStep, SyncedInStep, [HistoryNext]_historyVars
    PROVE  SyncedInStep'
<1>1. WholeFile(disk) /\ durable \in 0..Len(disk.records) /\ secured \in Nat
  BY DEF HistoryInv, HistoryTypeOK, FilesWhole
<1>2. CASE AnyBegin
  <2>1. UNCHANGED <<disk, durable, older, secured>>
    BY <1>2, BeginCalm
  <2>2. QED
    BY <2>1, SyncedPass
<1>3. CASE \/ AppendPending \/ EnforceLimit \/ WriteTemp \/ CloseOld \/ Reopen \/ Freeze
           \/ ProcessStops \/ OpenFile \/ OpenRefused \/ UNCHANGED historyVars
  <2>1. UNCHANGED <<disk, durable, older, secured>>
    BY <1>3 DEF AppendPending, EnforceLimit, WriteTemp, CloseOld, Reopen, Freeze,
                ProcessStops, OpenFile, OpenRefused, historyVars
  <2>2. QED
    BY <2>1, SyncedPass
<1>4. CASE FlushPending \/ AppendRecord
  BY <1>4, SyncedWritten
<1>5. CASE SyncFile
  <2>1. UNCHANGED <<disk, older>>
    BY <1>5 DEF SyncFile
  <2>2. CASE /\ durable' = Len(disk.records) /\ older = {}
             /\ secured' = LastLine(disk)
    <3>1. LastLine(disk) \in Nat
      BY <1>1, LastLineType
    <3>2. secured' = disk'.base + Recovery(disk')[durable'].lines
      BY <2>1, <2>2 DEF LastLine, Recovered
    <3>3. secured' =< disk'.base + Recovery(disk')[durable'].lines
      BY <2>2, <3>1, <3>2
    <3>4. QED
      BY <2>1, <2>2, <3>3 DEF SyncedInStep
  <2>3. CASE durable' = Len(disk.records) /\ UNCHANGED secured
    BY <2>1, <2>3, SyncedWhole
  <2>4. CASE UNCHANGED <<durable, secured>>
    BY <2>1, <2>4, SyncedPass
  <2>5. QED
    BY <1>5, <2>2, <2>3, <2>4 DEF SyncFile
<1>6. CASE Shut
  <2>1. UNCHANGED <<disk, older, secured>>
    BY <1>6 DEF Shut
  <2>2. CASE UNCHANGED durable
    BY <2>1, <2>2, SyncedPass
  <2>3. CASE durable' = Len(disk.records)
    BY <2>1, <2>3, SyncedWhole
  <2>4. QED
    BY <1>6, <2>2, <2>3 DEF Shut
<1>7. CASE RenameTemp
  BY <1>7, SyncedRename
<1>8. CASE SyncDirectory
  <2>1. older' \in {{}, older} /\ UNCHANGED <<disk, durable, secured>>
    BY <1>8 DEF SyncDirectory
  <2>2. QED
    BY <2>1 DEF SyncedInStep
<1>9. CASE PowerFails
  BY <1>9, SyncedPower
<1>10. QED
  BY <1>2, <1>3, <1>4, <1>5, <1>6, <1>7, <1>8, <1>9 DEF HistoryNext, AnyBegin

\* Lines that were in the file when Sync returned are there after any crash, unless
\* retention has dropped them or a rename was not yet durable when Sync returned
\* (compressed_file.go 404-412, 716, 726, 747).
THEOREM SyncedCorrect == HistorySpec => []SyncedLinesSurvive
<1>1. HistoryInit => SyncedInStep
  <2> SUFFICES ASSUME HistoryInit PROVE SyncedInStep
    OBVIOUS
  <2>1. /\ disk = [base |-> 0, records |-> << >>] /\ durable = 0 /\ secured = 0
        /\ older = {}
    BY DEF HistoryInit
  <2>2. WholeFile(disk)
    BY <2>1, WholeEmpty
  <2>3. 0 \in 0..Len(disk.records)
    BY <2>1
  <2>4. disk.base \in Nat /\ Recovery(disk)[0].lines \in Nat
    BY <2>2, <2>3, LastLineType
  <2>5. secured =< disk.base + Recovery(disk)[durable].lines
    BY <2>1, <2>4
  <2>6. QED
    BY <2>1, <2>5 DEF SyncedInStep
<1>2. HistoryInv /\ PendingInStep /\ SyncedInStep /\ [HistoryNext]_historyVars
        => SyncedInStep'
  BY SyncedNext
<1>3. HistoryInv /\ SyncedInStep => SyncedLinesSurvive
  <2> SUFFICES ASSUME HistoryInv, SyncedInStep PROVE SyncedLinesSurvive
    OBVIOUS
  <2> DEFINE n == Recovery(disk)[durable].lines
  <2>1. secured =< disk.base + n /\ secured \in Nat
    BY DEF SyncedInStep, HistoryInv, HistoryTypeOK
  <2>2. WholeFile(disk) /\ durable \in 0..Len(disk.records)
    BY DEF HistoryInv, HistoryTypeOK, FilesWhole
  <2>3. /\ disk.base \in Nat /\ n \in Nat /\ LastLine(disk) \in Nat
        /\ disk.base + n =< LastLine(disk)
    BY <2>2, LastLineType
  <2> HIDE DEF n
  <2>4. QED
    BY <2>1, <2>3 DEF SyncedLinesSurvive
<1>4. QED
  BY <1>1, <1>2, <1>3, HistoryInvariant, PTL DEF HistorySpec

=============================================================================
