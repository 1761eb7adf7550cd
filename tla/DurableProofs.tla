---------------------------- MODULE DurableProofs ----------------------------
(***************************************************************************)
(* Theorems about Durable for any number of ids, segments, versions, log   *)
(* generations, crashes and points in a batch.  Those about recovery hold  *)
(* as long as nothing rewrites history: restore changes the working set    *)
(* and gc removes files without the log knowing (README, section 3).       *)
(* Those about Timeline allow both, as long as the process runs: a stop    *)
(* brings the collection back from its files, and there versions can       *)
(* change (DurableHistory).                                                *)
(***************************************************************************)
EXTENDS Durable, FiniteSetTheorems, SequenceTheorems, TLAPS

KeepsHistory == Operations \cap {"restore", "gc"} = {}

(***************************************************************************)
(* The inductive invariant.  Log is the log of HEAD's generation; its      *)
(* first Done records have been applied to the collection in memory, the   *)
(* others are the batch in flight.                                         *)
(***************************************************************************)
LogRecords == [op : {"upsert", "delete"}, id : Ids]

Log  == wal[Checkpointed.generation]
Done == IF up /\ InFlight THEN Len(Log) - Len(task.batch) ELSE Len(Log)

(* Upserted and Tombstoned of the first n records.                         *)
UpsertedUpTo(log, n) == {log[i].id : i \in {j \in 1 .. n : log[j].op = "upsert"}}

TombstonedUpTo(base, log, n) ==
  {log[i].id : i \in {j \in 1 .. n :
     /\ log[j].op = "delete"
     /\ \/ log[j].id \in base
        \/ \E k \in 1 .. j - 1 : log[k] = Record("upsert", log[j].id)}}

Base == UNION {segFiles[i] : i \in Checkpointed.working}

(* Ids of rows that were written: they have a payload and are below the    *)
(* allocator, by HEAD or by the log.                                       *)
Written ==
  {id \in Checkpointed.payloads : id < Checkpointed.nextId} \cup UpsertedUpTo(Log, Done)

StoreShape(s) ==
  s = [commits |-> s.commits, head |-> s.head, branches |-> s.branches,
       tags |-> s.tags, next |-> s.next]

CollectionShape(m) ==
  /\ m = [app |-> m.app, working |-> m.working, segments |-> m.segments,
          dels |-> m.dels, payloads |-> m.payloads, vs |-> m.vs,
          nextId |-> m.nextId, nextSeg |-> m.nextSeg]
  /\ StoreShape(m.vs)
  /\ m.app \subseteq Nat /\ m.dels \subseteq Nat /\ m.payloads \subseteq Nat
  /\ m.segments \in [DOMAIN m.segments -> SUBSET Nat] /\ DOMAIN m.segments \subseteq Nat
  /\ m.nextId \in Nat /\ m.nextSeg \in Nat

(* Segments that are worked on or named by a version are registered, and   *)
(* the registry and the working set agree.                                 *)
RegistryOK(m) ==
  /\ \A s \in m.working : /\ s.id < m.nextSeg
                           /\ s.id \in DOMAIN m.segments
                           /\ m.segments[s.id] = s.rows
  /\ SegmentIdsToPersist(m) \subseteq DOMAIN m.segments

Shapes ==
  /\ up \in BOOLEAN /\ generation \in Nat /\ synced \in Nat
  /\ CollectionShape(mem)
  /\ head \in Heads \cup {None}
  /\ versions = None \/ StoreShape(versions)
  /\ wal \in [DOMAIN wal -> Seq(LogRecords)] /\ DOMAIN wal \subseteq Nat
  /\ segFiles \in [DOMAIN segFiles -> SUBSET Nat] /\ DOMAIN segFiles \subseteq Nat

(* Which log is active, and how much of it is on disk.                     *)
LogInv ==
  /\ Checkpointed.generation \in DOMAIN wal
  /\ \A g \in DOMAIN wal : g > Checkpointed.generation => wal[g] = <<>>
  /\ ~up => task = Idle /\ mem = EmptyCollection
  /\ up => /\ generation \in DOMAIN wal
           /\ IF task.at = "retire" THEN generation + 1 = Checkpointed.generation
                                    ELSE generation = Checkpointed.generation
           /\ IF task.at = "flush" THEN synced \in Done .. Len(wal[generation])
                                   ELSE synced = Len(wal[generation])
           /\ task.at = "head" => generation + 1 \in DOMAIN wal

(* The batch in flight is the end of the log: deletes, then upserts with   *)
(* ids nothing uses.                                                       *)
BatchInv ==
  up /\ InFlight =>
    /\ task = [at |-> task.at, batch |-> task.batch, commit |-> task.commit]
    /\ task.batch \in Seq(LogRecords) \ {<<>>}
    /\ Len(task.batch) <= Len(Log)
    /\ \A i \in 1 .. Len(task.batch) : Log[Done + i] = task.batch[i]
    /\ \A i \in 1 .. Len(task.batch) : task.batch[i].op = "upsert" =>
         /\ task.batch[i].id \notin Written
         /\ \A j \in i .. Len(task.batch) : task.batch[j].op = "upsert"

Stored(i) == i \in DOMAIN segFiles /\ segFiles[i] = mem.segments[i]

(* Segments: those of HEAD and of versions have files, those in memory are *)
(* registered, and a file that HEAD names holds what memory holds.         *)
FilesInv ==
  /\ LoadedSegments \subseteq DOMAIN segFiles
  /\ \A i \in Checkpointed.working : i < Checkpointed.nextSeg
  /\ up => /\ persisted \subseteq DOMAIN segFiles
           /\ Checkpointed.nextSeg <= mem.nextSeg
           /\ RegistryOK(mem)
           /\ \A i \in Checkpointed.working : i \in DOMAIN mem.segments /\ Stored(i)

(* How far the running call has come with its files.                       *)
TaskInv ==
  up =>
    /\ task.at \in {"idle", "flush", "apply", "commit", "segments", "checkpoint",
                    "head", "retire"}
    /\ task.at = "segments" => task.todo = SegmentIdsToPersist(mem)
    /\ task.at \in {"checkpoint", "head"} => mem.app = {}
    /\ task.at = "checkpoint" =>
         /\ task = [at |-> "checkpoint", todo |-> task.todo]
         /\ task.todo \subseteq SegmentIdsToPersist(mem) \cap DOMAIN mem.segments
         /\ \A i \in SegmentIdsToPersist(mem) \ task.todo : Stored(i)
    /\ task.at = "head" => \A i \in SegmentIdsToPersist(mem) : Stored(i)

(* Memory is what HEAD and the applied records say.                        *)
DataInv ==
  up => /\ mem.app \cup WorkingRows(mem) = Base \cup UpsertedUpTo(Log, Done)
        /\ mem.dels = Checkpointed.dels \cup TombstonedUpTo(Base, Log, Done)

(* Only written rows are anywhere, and the allocator is past them.         *)
IdsInv ==
  /\ Checkpointed.dels \subseteq Written
  /\ \A i \in DOMAIN segFiles : segFiles[i] \subseteq Written
  /\ up => /\ \A i \in DOMAIN mem.segments : mem.segments[i] \subseteq Written
           /\ Written \subseteq mem.payloads
           /\ Checkpointed.nextId <= mem.nextId
           /\ \A id \in UpsertedUpTo(Log, Len(Log)) : id < mem.nextId

IInv == Shapes /\ LogInv /\ BatchInv /\ FilesInv /\ TaskInv /\ DataInv /\ IdsInv

-----------------------------------------------------------------------------
(***************************************************************************)
(* Operators.                                                              *)
(***************************************************************************)

(* Min, with which files are written in ascending order, picks an element. *)
LEMMA MinInSet ==
  ASSUME NEW S \in SUBSET Nat, S # {}
  PROVE  Min(S) \in S /\ \A y \in S : Min(S) <= y
<1> DEFINE T == {0 .. x : x \in S}
<1>1. T \subseteq FiniteSubsetsOf(Nat) /\ T # {}
  <2>1. \A x \in S : IsFiniteSet(0 .. x)
    BY FS_Interval
  <2>2. \A x \in S : 0 .. x \in SUBSET Nat
    OBVIOUS
  <2>3. QED
    BY <2>1, <2>2 DEF FiniteSubsetsOf
<1>2. PICK t \in T : \A u \in T : ~(<<u, t>> \in StrictSubsetOrdering(Nat))
  BY <1>1, FS_StrictSubsetOrderingWellFounded, WFMin
<1>3. PICK x \in S : t = 0 .. x
  OBVIOUS
<1>4. \A y \in S : x <= y
  <2> SUFFICES ASSUME NEW y \in S, y < x PROVE FALSE
    OBVIOUS
  <2>1. 0 .. y \subseteq 0 .. x /\ 0 .. y # 0 .. x
    <3>1. x \in 0 .. x /\ x \notin 0 .. y
      OBVIOUS
    <3>2. QED
      BY <3>1
  <2>2. <<0 .. y, t>> \in StrictSubsetOrdering(Nat)
    BY <2>1, <1>3 DEF StrictSubsetOrdering
  <2>3. QED
    BY <2>2, <1>2
<1>5. QED
  BY <1>4 DEF Min

(* Max of a bounded set, with which replay moves the allocator.            *)
LEMMA MaxInSet ==
  ASSUME NEW S \in SUBSET Nat, S # {}, NEW b \in Nat, \A x \in S : x <= b
  PROVE  Max(S) \in S /\ \A y \in S : y <= Max(S)
<1> DEFINE T == {b - x : x \in S}
<1>1. T \in SUBSET Nat /\ T # {}
  <2>1. \A x \in S : b - x \in Nat
    OBVIOUS
  <2>2. QED
    BY <2>1
<1>2. PICK t \in T : \A u \in T : t <= u
  BY <1>1, MinInSet
<1>3. PICK x \in S : t = b - x
  OBVIOUS
<1>4. \A y \in S : x >= y
  BY <1>2, <1>3
<1>5. QED
  BY <1>4 DEF Max

(* Two logs with the same first n records say the same with them.          *)
LEMMA SamePrefix ==
  ASSUME NEW s, NEW t, NEW n \in Nat, \A i \in 1 .. n : s[i] = t[i]
  PROVE  /\ UpsertedUpTo(s, n) = UpsertedUpTo(t, n)
         /\ \A base : TombstonedUpTo(base, s, n) = TombstonedUpTo(base, t, n)
<1>1. UpsertedUpTo(s, n) = UpsertedUpTo(t, n)
  BY DEF UpsertedUpTo
<1>2. ASSUME NEW base
      PROVE  TombstonedUpTo(base, s, n) = TombstonedUpTo(base, t, n)
  <2>1. \A i \in 1 .. n : \A k \in 1 .. i - 1 : s[i] = t[i] /\ s[k] = t[k]
    OBVIOUS
  <2>2. QED
    BY <2>1 DEF TombstonedUpTo
<1>3. QED
  BY <1>1, <1>2

(* A log without a torn record is read to its end.                         *)
LEMMA ValidLog ==
  ASSUME NEW log \in Seq(LogRecords)
  PROVE  Valid(log) = log
<1>1. \A j \in DOMAIN log : log[j] # Torn
  BY NoneAssumption, BoundsAssumption DEF LogRecords, Ids, Torn, Record
<1>2. {Len(log)} \cup {i - 1 : i \in {j \in DOMAIN log : log[j] = Torn}} = {Len(log)}
  BY <1>1
<1>3. Min({Len(log)}) = Len(log)
  BY DEF Min
<1>4. QED
  BY <1>2, <1>3, SubSeqFull DEF Valid

(* What recovery reads in the first n records.                             *)
LEMMA PrefixOfLog ==
  ASSUME NEW log \in Seq(LogRecords), NEW n \in 0 .. Len(log)
  PROVE  /\ SubSeq(log, 1, n) \in Seq(LogRecords)
         /\ Len(SubSeq(log, 1, n)) = n
         /\ \A i \in 1 .. n : SubSeq(log, 1, n)[i] = log[i]
         /\ Upserted(SubSeq(log, 1, n)) = UpsertedUpTo(log, n)
         /\ \A base : Tombstoned(base, SubSeq(log, 1, n)) = TombstonedUpTo(base, log, n)
<1> DEFINE prefix == SubSeq(log, 1, n)
<1>1. \A i \in 1 .. n : log[i] \in LogRecords
  OBVIOUS
<1>2. /\ prefix \in Seq(LogRecords)
      /\ Len(prefix) = n
      /\ \A i \in 1 .. n : prefix[i] = log[i]
  BY <1>1, SubSeqProperties
<1>3. DOMAIN prefix = 1 .. n
  BY <1>2
<1>4. Upserted(prefix) = UpsertedUpTo(prefix, n)
  BY <1>3 DEF Upserted, IdsOf, UpsertedUpTo
<1>5. \A base : Tombstoned(base, prefix) = TombstonedUpTo(base, prefix, n)
  BY <1>3 DEF Tombstoned, TombstonedUpTo
<1>6. /\ UpsertedUpTo(prefix, n) = UpsertedUpTo(log, n)
      /\ \A base : TombstonedUpTo(base, prefix, n) = TombstonedUpTo(base, log, n)
  <2> HIDE DEF prefix
  <2>1. n \in Nat
    OBVIOUS
  <2>2. QED
    BY <1>2, <2>1, SamePrefix
<1>7. QED
  BY <1>2, <1>4, <1>5, <1>6

(* A batch: deletes of known ids' range, then upserts of the next n ids.   *)
LEMMA BatchShape ==
  ASSUME NEW k \in Nat, NEW deletes \in [1 .. k -> Ids],
         NEW first \in Nat, NEW n \in Nat, n > 0 => first + n <= MaxIds
  PROVE  LET batch == Batch(deletes, first, n) IN
         /\ batch \in Seq(LogRecords)
         /\ Len(batch) = k + n
         /\ \A i \in 1 .. Len(batch) : batch[i].op = "upsert" =>
              /\ batch[i].id \in first .. first + n - 1
              /\ \A j \in i .. Len(batch) : batch[j].op = "upsert"
<1> DEFINE batch == Batch(deletes, first, n)
<1>1. Len(deletes) = k
  OBVIOUS
<1>2. batch = [i \in 1 .. k + n |->
                 IF i <= k THEN Record("delete", deletes[i])
                           ELSE Record("upsert", first + (i - k - 1))]
  BY <1>1 DEF Batch
<1>3. ASSUME NEW i \in 1 .. k + n
      PROVE  /\ batch[i] \in LogRecords
             /\ i <= k => batch[i].op = "delete"
             /\ i > k => batch[i].op = "upsert" /\ batch[i].id = first + (i - k - 1)
  <2>1. CASE i <= k
    BY <2>1, <1>2 DEF LogRecords, Record
  <2>2. CASE i > k
    <3>1. n > 0 /\ first + (i - k - 1) \in Ids
      BY <2>2, BoundsAssumption DEF Ids
    <3>2. QED
      BY <2>2, <3>1, <1>2 DEF LogRecords, Record
  <2>3. QED
    BY <2>1, <2>2
<1>4. batch \in [1 .. k + n -> LogRecords]
  BY <1>2, <1>3
<1>5. batch \in Seq(LogRecords) /\ Len(batch) = k + n
  BY <1>4
<1> HIDE DEF batch
<1>6. ASSUME NEW i \in 1 .. Len(batch), batch[i].op = "upsert"
      PROVE  /\ batch[i].id \in first .. first + n - 1
             /\ \A j \in i .. Len(batch) : batch[j].op = "upsert"
  <2>1. i > k
    BY <1>3, <1>5, <1>6
  <2>2. QED
    BY <2>1, <1>3, <1>5
<1>7. QED
  BY <1>5, <1>6 DEF batch

EndsWith(log, n, batch) ==
  /\ n + Len(batch) = Len(log)
  /\ \A i \in 1 .. Len(batch) : log[n + i] = batch[i]

DeletesFirst(batch) ==
  \A i \in 1 .. Len(batch) : batch[i].op = "upsert" =>
    \A l \in i .. Len(batch) : batch[l].op = "upsert"

(* A batch of deletes and fresh upserts that the log ends with: what its   *)
(* first j records add to what is read.                                    *)
LEMMA PartOfBatch ==
  ASSUME NEW log \in Seq(LogRecords), NEW batch \in Seq(LogRecords),
         NEW n \in Nat, NEW j \in 0 .. Len(batch), NEW base,
         EndsWith(log, n, batch), DeletesFirst(batch)
  PROVE  /\ UpsertedUpTo(log, n + j)
              = UpsertedUpTo(log, n) \cup UpsertedUpTo(batch, j)
         /\ TombstonedUpTo(base, log, n + j)
              = TombstonedUpTo(base, log, n)
                  \cup (Deleted(SubSeq(batch, 1, j))
                          \cap (base \cup UpsertedUpTo(log, n)))
<1> USE DEF EndsWith, DeletesFirst
<1>1. UpsertedUpTo(log, n + j) = UpsertedUpTo(log, n) \cup UpsertedUpTo(batch, j)
  <2>1. ASSUME NEW i \in 1 .. n + j, i \notin 1 .. n
        PROVE  i - n \in 1 .. j /\ log[i] = batch[i - n]
    <3>1. i - n \in 1 .. j /\ i - n \in 1 .. Len(batch)
      BY <2>1
    <3>2. log[n + (i - n)] = batch[i - n]
      BY <3>1
    <3>3. QED
      BY <3>1, <3>2
  <2>2. \A i \in 1 .. j : n + i \in 1 .. n + j /\ log[n + i] = batch[i]
    OBVIOUS
  <2>3. 1 .. n \subseteq 1 .. n + j
    OBVIOUS
  <2>4. UpsertedUpTo(log, n + j) \subseteq UpsertedUpTo(log, n) \cup UpsertedUpTo(batch, j)
    BY <2>1 DEF UpsertedUpTo
  <2>5. UpsertedUpTo(log, n) \subseteq UpsertedUpTo(log, n + j)
    BY <2>3 DEF UpsertedUpTo
  <2>6. UpsertedUpTo(batch, j) \subseteq UpsertedUpTo(log, n + j)
    BY <2>2 DEF UpsertedUpTo
  <2>7. QED
    BY <2>4, <2>5, <2>6
<1>2. Deleted(SubSeq(batch, 1, j))
        = {batch[i].id : i \in {l \in 1 .. j : batch[l].op = "delete"}}
  <2>1. /\ DOMAIN SubSeq(batch, 1, j) = 1 .. j
        /\ \A i \in 1 .. j : SubSeq(batch, 1, j)[i] = batch[i]
    BY PrefixOfLog
  <2>2. QED
    BY <2>1 DEF Deleted, IdsOf
<1>3. TombstonedUpTo(base, log, n) \subseteq TombstonedUpTo(base, log, n + j)
  BY DEF TombstonedUpTo
<1>4. ASSUME NEW id \in Deleted(SubSeq(batch, 1, j)), id \in base \cup UpsertedUpTo(log, n)
      PROVE  id \in TombstonedUpTo(base, log, n + j)
  <2>1. PICK i \in 1 .. j : batch[i].op = "delete" /\ batch[i].id = id
    BY <1>2
  <2>2. n + i \in 1 .. n + j /\ log[n + i] = batch[i]
    OBVIOUS
  <2>3. CASE id \in base
    BY <2>1, <2>2, <2>3 DEF TombstonedUpTo
  <2>4. CASE id \in UpsertedUpTo(log, n)
    <3>1. PICK k \in 1 .. n : log[k].op = "upsert" /\ log[k].id = id
      BY <2>4 DEF UpsertedUpTo
    <3>2. log[k] = Record("upsert", id)
      <4>1. log[k] \in LogRecords
        OBVIOUS
      <4>2. QED
        BY <3>1, <4>1 DEF LogRecords, Record
    <3>3. k \in 1 .. (n + i) - 1
      OBVIOUS
    <3>4. QED
      BY <2>1, <2>2, <3>2, <3>3 DEF TombstonedUpTo
  <2>5. QED
    BY <1>4, <2>3, <2>4
<1>5. ASSUME NEW id \in TombstonedUpTo(base, log, n + j),
             id \notin TombstonedUpTo(base, log, n)
      PROVE  id \in Deleted(SubSeq(batch, 1, j)) /\ id \in base \cup UpsertedUpTo(log, n)
  <2>1. PICK i \in 1 .. n + j : /\ log[i].op = "delete" /\ log[i].id = id
                                /\ \/ id \in base
                                   \/ \E k \in 1 .. i - 1 : log[k] = Record("upsert", id)
    BY DEF TombstonedUpTo
  <2>2. i > n
    BY <1>5, <2>1 DEF TombstonedUpTo
  <2>3. i - n \in 1 .. j /\ i - n \in 1 .. Len(batch)
    BY <2>2
  <2>4. log[n + (i - n)] = batch[i - n]
    BY <2>3
  <2>5. log[i] = batch[i - n]
    BY <2>4
  <2>6. id \in Deleted(SubSeq(batch, 1, j))
    BY <2>1, <2>3, <2>5, <1>2
  <2>7. ASSUME NEW k \in 1 .. i - 1, log[k] = Record("upsert", id)
        PROVE  id \in UpsertedUpTo(log, n)
    <3>1. k <= n
      <4> SUFFICES ASSUME k > n PROVE FALSE
        OBVIOUS
      <4>1. k - n \in 1 .. Len(batch) /\ i - n \in k - n .. Len(batch)
        BY <2>3
      <4>2. log[n + (k - n)] = batch[k - n]
        BY <4>1
      <4>3. batch[k - n].op = "upsert"
        BY <4>2, <2>7 DEF Record
      <4>4. batch[i - n].op = "upsert"
        BY <4>1, <4>3
      <4>5. QED
        BY <4>4, <2>1, <2>5
    <3>2. QED
      BY <3>1, <2>7 DEF UpsertedUpTo, Record
  <2>8. QED
    BY <2>1, <2>6, <2>7
<1>6. QED
  BY <1>1, <1>3, <1>4, <1>5

-----------------------------------------------------------------------------
(***************************************************************************)
(* Seals, compactions and commits move rows between segments: the same     *)
(* rows, tombstones and payloads, and no segment below next_seg changes.   *)
(***************************************************************************)
Rearranged(m, r) ==
  /\ CollectionShape(r) /\ RegistryOK(r)
  /\ r.app \cup WorkingRows(r) = m.app \cup WorkingRows(m)
  /\ r.dels = m.dels /\ r.payloads = m.payloads /\ r.nextId = m.nextId
  /\ m.nextSeg <= r.nextSeg
  /\ \A i \in DOMAIN m.segments :
       /\ i \in DOMAIN r.segments
       /\ i < m.nextSeg => r.segments[i] = m.segments[i]
  /\ \A i \in DOMAIN r.segments :
       \/ i \in DOMAIN m.segments /\ r.segments[i] = m.segments[i]
       \/ i < r.nextSeg /\ r.segments[i] \subseteq m.app \cup WorkingRows(m)

(* The rows of the working set are ids.                                    *)
LEMMA WorkingRowsType ==
  ASSUME NEW m, CollectionShape(m), RegistryOK(m)
  PROVE  WorkingRows(m) \subseteq Nat
BY DEF CollectionShape, RegistryOK, WorkingRows

(* Two rearrangements are one.                                             *)
LEMMA RearrangedTwice ==
  ASSUME NEW m, NEW q, NEW r, CollectionShape(m), CollectionShape(q),
         Rearranged(m, q), Rearranged(q, r)
  PROVE  Rearranged(m, r)
<1>1. m.nextSeg \in Nat /\ q.nextSeg \in Nat /\ r.nextSeg \in Nat
      /\ m.nextSeg <= q.nextSeg /\ q.nextSeg <= r.nextSeg
      /\ DOMAIN m.segments \subseteq Nat /\ DOMAIN r.segments \subseteq Nat
  BY DEF Rearranged, CollectionShape
<1>2. ASSUME NEW i \in DOMAIN r.segments
      PROVE  \/ i \in DOMAIN m.segments /\ r.segments[i] = m.segments[i]
             \/ i < r.nextSeg /\ r.segments[i] \subseteq m.app \cup WorkingRows(m)
  <2>1. i \in Nat
    BY <1>1
  <2>2. \/ i \in DOMAIN q.segments /\ r.segments[i] = q.segments[i]
        \/ i < r.nextSeg /\ r.segments[i] \subseteq q.app \cup WorkingRows(q)
    BY DEF Rearranged
  <2>3. i \in DOMAIN q.segments =>
          \/ i \in DOMAIN m.segments /\ q.segments[i] = m.segments[i]
          \/ i < q.nextSeg /\ q.segments[i] \subseteq m.app \cup WorkingRows(m)
    BY DEF Rearranged
  <2>4. q.app \cup WorkingRows(q) = m.app \cup WorkingRows(m)
    BY DEF Rearranged
  <2>5. QED
    BY <1>1, <2>1, <2>2, <2>3, <2>4
<1>3. QED
  BY <1>1, <1>2 DEF Rearranged

(* Registering a segment with the next id.                                 *)
LEMMA RegisterEffect ==
  ASSUME NEW m, CollectionShape(m), NEW rows \in SUBSET Nat
  PROVE  LET registry == Register(m, Segment(m.nextSeg, rows)) IN
         /\ DOMAIN registry = DOMAIN m.segments \cup {m.nextSeg}
         /\ registry[m.nextSeg] = rows
         /\ \A i \in DOMAIN m.segments \ {m.nextSeg} : registry[i] = m.segments[i]
         /\ registry \in [DOMAIN registry -> SUBSET Nat]
         /\ DOMAIN registry \subseteq Nat
BY DEF Register, Segment, CollectionShape

(* seal() moves the appendable's rows to a new segment.                    *)
LEMMA SealRearranges ==
  ASSUME NEW m, CollectionShape(m), RegistryOK(m)
  PROVE  Rearranged(m, Seal(m)) /\ Seal(m).app = {} /\ Seal(m).vs = m.vs
<1>1. CASE m.app = {}
  <2>1. Seal(m) = m
    BY <1>1 DEF Seal
  <2>2. QED
    BY <1>1, <2>1 DEF Rearranged, CollectionShape
<1>2. CASE m.app # {}
  <2> DEFINE sealed == Segment(m.nextSeg, m.app)
             r == Seal(m)
             registry == Register(m, sealed)
  <2>1. r = [app |-> {}, working |-> m.working \cup {sealed}, segments |-> registry,
             dels |-> m.dels, payloads |-> m.payloads, vs |-> m.vs,
             nextId |-> m.nextId, nextSeg |-> m.nextSeg + 1]
    BY <1>2 DEF Seal, CollectionShape
  <2>2. m.app \in SUBSET Nat /\ m.nextSeg \in Nat /\ DOMAIN m.segments \subseteq Nat
    BY DEF CollectionShape
  <2>3. /\ DOMAIN registry = DOMAIN m.segments \cup {m.nextSeg}
        /\ registry[m.nextSeg] = m.app
        /\ \A i \in DOMAIN m.segments \ {m.nextSeg} : registry[i] = m.segments[i]
        /\ registry \in [DOMAIN registry -> SUBSET Nat]
        /\ DOMAIN registry \subseteq Nat
    BY <2>2, RegisterEffect
  <2>4. sealed.id = m.nextSeg /\ sealed.rows = m.app
    BY DEF Segment
  <2> HIDE DEF sealed, registry, r
  <2>5. CollectionShape(r)
    BY <2>1, <2>2, <2>3 DEF CollectionShape
  <2>6. WorkingRows(r) = WorkingRows(m) \cup m.app
    BY <2>1, <2>4 DEF WorkingRows
  <2>7. WorkingIds(r) = WorkingIds(m) \cup {m.nextSeg}
    BY <2>1, <2>4 DEF WorkingIds
  <2>8. \A s \in m.working : s.id < m.nextSeg /\ s.id \in DOMAIN m.segments
                             /\ m.segments[s.id] = s.rows
    BY DEF RegistryOK
  <2>9. RegistryOK(r)
    <3>1. SegmentIdsToPersist(r) \subseteq DOMAIN r.segments
      BY <2>1, <2>3, <2>7 DEF RegistryOK, SegmentIdsToPersist
    <3>2. ASSUME NEW s \in m.working
          PROVE  s.id < m.nextSeg + 1 /\ s.id \in DOMAIN registry /\ registry[s.id] = s.rows
      <4>1. s.id \in Nat /\ s.id # m.nextSeg
        BY <2>2, <2>8
      <4>2. QED
        BY <4>1, <2>2, <2>3, <2>8
    <3>3. /\ sealed.id < m.nextSeg + 1 /\ sealed.id \in DOMAIN registry
          /\ registry[sealed.id] = sealed.rows
      BY <2>2, <2>3, <2>4
    <3>4. /\ r.working = m.working \cup {sealed}
          /\ r.segments = registry /\ r.nextSeg = m.nextSeg + 1
      BY <2>1
    <3>5. QED
      BY <3>1, <3>2, <3>3, <3>4 DEF RegistryOK
  <2>10. Rearranged(m, r)
    <3>1. ASSUME NEW i \in DOMAIN m.segments
          PROVE  i \in DOMAIN registry /\ (i < m.nextSeg => registry[i] = m.segments[i])
      BY <2>2, <2>3
    <3>2. ASSUME NEW i \in DOMAIN registry
          PROVE  \/ i \in DOMAIN m.segments /\ registry[i] = m.segments[i]
                 \/ i < m.nextSeg + 1 /\ registry[i] \subseteq m.app \cup WorkingRows(m)
      BY <2>2, <2>3
    <3>3. /\ r.app = {} /\ r.segments = registry /\ r.nextSeg = m.nextSeg + 1
          /\ r.dels = m.dels /\ r.payloads = m.payloads /\ r.nextId = m.nextId
      BY <2>1
    <3>4. QED
      BY <3>1, <3>2, <3>3, <2>2, <2>5, <2>6, <2>9 DEF Rearranged
  <2>11. QED
    BY <2>1, <2>10 DEF r
<1>3. QED
  BY <1>1, <1>2

(* compact() puts the working rows into one segment.                       *)
LEMMA CompactRearranges ==
  ASSUME NEW m, CollectionShape(m), RegistryOK(m)
  PROVE  Rearranged(m, CompactWorking(m)) /\ CompactWorking(m).vs = m.vs
<1> DEFINE merged == Segment(m.nextSeg, WorkingRows(m))
           r == CompactWorking(m)
           registry == Register(m, merged)
<1>1. r = [app |-> m.app, working |-> {merged}, segments |-> registry,
           dels |-> m.dels, payloads |-> m.payloads, vs |-> m.vs,
           nextId |-> m.nextId, nextSeg |-> m.nextSeg + 1]
  <2> DEFINE n  == m.nextSeg + 1
             q1 == [m EXCEPT !.nextSeg = n]
             q2 == [q1 EXCEPT !.segments = registry]
             q3 == [q2 EXCEPT !.working = {merged}]
  <2>1. r = [m EXCEPT !.nextSeg = n, !.segments = registry, !.working = {merged}]
    BY DEF CompactWorking
  <2> HIDE DEF r, merged, registry, n
  <2>2. r = q3
    BY <2>1
  <2>3. m = [app |-> m.app, working |-> m.working, segments |-> m.segments,
             dels |-> m.dels, payloads |-> m.payloads, vs |-> m.vs,
             nextId |-> m.nextId, nextSeg |-> m.nextSeg]
    BY DEF CollectionShape
  <2>4. q1 = [app |-> m.app, working |-> m.working, segments |-> m.segments,
              dels |-> m.dels, payloads |-> m.payloads, vs |-> m.vs,
              nextId |-> m.nextId, nextSeg |-> n]
    BY <2>3
  <2> HIDE DEF q1
  <2>5. q2 = [app |-> m.app, working |-> m.working, segments |-> registry,
              dels |-> m.dels, payloads |-> m.payloads, vs |-> m.vs,
              nextId |-> m.nextId, nextSeg |-> n]
    BY <2>4
  <2> HIDE DEF q2
  <2>6. q3 = [app |-> m.app, working |-> {merged}, segments |-> registry,
              dels |-> m.dels, payloads |-> m.payloads, vs |-> m.vs,
              nextId |-> m.nextId, nextSeg |-> n]
    BY <2>5
  <2>7. QED
    BY <2>2, <2>6 DEF n
<1>2. WorkingRows(m) \in SUBSET Nat /\ m.nextSeg \in Nat /\ DOMAIN m.segments \subseteq Nat
  BY WorkingRowsType DEF CollectionShape
<1>3. /\ DOMAIN registry = DOMAIN m.segments \cup {m.nextSeg}
      /\ registry[m.nextSeg] = WorkingRows(m)
      /\ \A i \in DOMAIN m.segments \ {m.nextSeg} : registry[i] = m.segments[i]
      /\ registry \in [DOMAIN registry -> SUBSET Nat]
      /\ DOMAIN registry \subseteq Nat
  BY <1>2, RegisterEffect
<1>4. merged.id = m.nextSeg /\ merged.rows = WorkingRows(m)
  BY DEF Segment
<1> HIDE DEF merged, registry, r
<1>5. CollectionShape(r)
  BY <1>1, <1>2, <1>3 DEF CollectionShape
<1>6. WorkingRows(r) = WorkingRows(m) /\ WorkingIds(r) = {m.nextSeg}
  BY <1>1, <1>4 DEF WorkingRows, WorkingIds
<1>7. RegistryOK(r)
  <2>1. SegmentIdsToPersist(r) \subseteq DOMAIN r.segments
    BY <1>1, <1>3, <1>6 DEF RegistryOK, SegmentIdsToPersist
  <2>2. merged.id < r.nextSeg /\ r.segments[merged.id] = merged.rows
    BY <1>1, <1>2, <1>3, <1>4
  <2>3. r.working = {merged} /\ DOMAIN r.segments = DOMAIN registry
    BY <1>1
  <2>4. QED
    BY <2>1, <2>2, <2>3, <1>3, <1>4 DEF RegistryOK
<1>8. Rearranged(m, r)
  <2>1. ASSUME NEW i \in DOMAIN m.segments
        PROVE  i \in DOMAIN registry /\ (i < m.nextSeg => registry[i] = m.segments[i])
    BY <1>2, <1>3
  <2>2. ASSUME NEW i \in DOMAIN registry
        PROVE  \/ i \in DOMAIN m.segments /\ registry[i] = m.segments[i]
               \/ i < m.nextSeg + 1 /\ registry[i] \subseteq m.app \cup WorkingRows(m)
    BY <1>2, <1>3
  <2>3. /\ r.app = m.app /\ r.segments = registry /\ r.nextSeg = m.nextSeg + 1
        /\ r.dels = m.dels /\ r.payloads = m.payloads /\ r.nextId = m.nextId
    BY <1>1
  <2>4. QED
    BY <2>1, <2>2, <2>3, <1>2, <1>5, <1>6, <1>7 DEF Rearranged
<1>9. QED
  BY <1>1, <1>8 DEF r

(* A version store that names only registered segments in place of the     *)
(* old one rearranges nothing.                                             *)
LEMMA NewStoreRearranges ==
  ASSUME NEW m, CollectionShape(m), RegistryOK(m),
         NEW vs, StoreShape(vs),
         AllReferenced(vs) \subseteq AllReferenced(m.vs) \cup WorkingIds(m)
  PROVE  Rearranged(m, [m EXCEPT !.vs = vs])
<1> DEFINE r == [m EXCEPT !.vs = vs]
<1>1. r = [app |-> m.app, working |-> m.working, segments |-> m.segments,
           dels |-> m.dels, payloads |-> m.payloads, vs |-> vs,
           nextId |-> m.nextId, nextSeg |-> m.nextSeg]
  BY DEF CollectionShape
<1> HIDE DEF r
<1>2. CollectionShape(r)
  BY <1>1 DEF CollectionShape
<1>3. WorkingRows(r) = WorkingRows(m) /\ WorkingIds(r) = WorkingIds(m)
  BY <1>1 DEF WorkingRows, WorkingIds
<1>4. RegistryOK(r)
  BY <1>1, <1>3 DEF RegistryOK, SegmentIdsToPersist
<1>5. Rearranged(m, r)
  BY <1>1, <1>2, <1>3, <1>4 DEF Rearranged, CollectionShape
<1>6. QED
  BY <1>5 DEF r

(* commit() seals, then records the working set.                           *)
LEMMA CommitRearranges ==
  ASSUME NEW m, CollectionShape(m), RegistryOK(m), NEW tag
  PROVE  Rearranged(m, CommitWorking(m, tag))
<1> DEFINE sealed == Seal(m)
           references == {Reference(s) : s \in sealed.working}
           vs == CommitTo(sealed.vs, references, sealed.dels, tag)
<1>1. Rearranged(m, sealed)
  BY SealRearranges
<1>2. CollectionShape(sealed) /\ RegistryOK(sealed)
  BY <1>1 DEF Rearranged
<1>3. CommitWorking(m, tag) = [sealed EXCEPT !.vs = vs]
  BY DEF CommitWorking
<1>4. StoreShape(vs)
  BY DEF CommitTo, StoreShape
<1>5. AllReferenced(vs) \subseteq AllReferenced(sealed.vs) \cup WorkingIds(sealed)
  <2>1. {s.id : s \in references} = WorkingIds(sealed)
    <3>1. \A s : Reference(s).id = s.id
      BY DEF Reference
    <3>2. QED
      BY <3>1 DEF WorkingIds
  <2>2. ASSUME NEW v \in Versions(vs)
        PROVE  \/ SegmentIds(vs.commits[v]) = {s.id : s \in references}
               \/ v \in Versions(sealed.vs) /\ vs.commits[v] = sealed.vs.commits[v]
    BY DEF CommitTo, Versions, Manifest, SegmentIds
  <2> HIDE DEF vs, references
  <2>3. QED
    BY <2>1, <2>2 DEF AllReferenced
<1> HIDE DEF sealed, vs
<1>6. Rearranged(sealed, [sealed EXCEPT !.vs = vs])
  BY <1>2, <1>4, <1>5, NewStoreRearranges
<1>7. QED
  BY <1>1, <1>2, <1>3, <1>6, RearrangedTwice

-----------------------------------------------------------------------------
(***************************************************************************)
(* Steps that only rearrange the collection in memory.                     *)
(***************************************************************************)

(* What is read from the directory changes with the directory only.        *)
LEMMA SameDisk ==
  ASSUME UNCHANGED <<wal, head, versions, segFiles>>
  PROVE  /\ Checkpointed' = Checkpointed /\ Log' = Log /\ Base' = Base
         /\ LoadedSegments' = LoadedSegments
BY DEF Checkpointed, Log, Base, LoadedSegments, StoredStore

(* Between calls and in those that write files, nothing is in flight.      *)
LEMMA NothingInFlight ==
  ASSUME IInv, up, ~InFlight
  PROVE  /\ Done = Len(Log)
         /\ mem.app \cup WorkingRows(mem) \subseteq Written
BY DEF Done, IInv, DataInv, IdsInv, Written, Base, FilesInv, LoadedSegments

LEMMA RearrangeStep ==
  ASSUME IInv, up, ~InFlight, task.at \notin {"retire", "head"},
         UNCHANGED <<up, generation, persisted, disk>>,
         Rearranged(mem, mem'), TaskInv',
         ~InFlight', task'.at \notin {"retire", "head"}
  PROVE  IInv'
<1>1. /\ Checkpointed' = Checkpointed /\ Log' = Log /\ Base' = Base
      /\ LoadedSegments' = LoadedSegments
  BY SameDisk DEF disk
<1>2. Done = Len(Log) /\ Done' = Done
  BY <1>1 DEF Done
<1>3. Written' = Written
  BY <1>1, <1>2 DEF Written
<1>4. Shapes'
  BY DEF IInv, Shapes, Rearranged, disk
<1>5. LogInv'
  BY <1>1 DEF IInv, LogInv, InFlight, disk
<1>6. BatchInv'
  BY DEF BatchInv
<1>7. FilesInv'
  <2>1. RegistryOK(mem') /\ mem.nextSeg <= mem'.nextSeg
    BY DEF Rearranged
  <2>2. Checkpointed'.nextSeg <= mem'.nextSeg
    <3>1. Checkpointed.nextSeg \in Nat
      BY DEF IInv, Shapes, Checkpointed, NoCheckpoint, Heads
    <3>2. mem.nextSeg \in Nat /\ mem'.nextSeg \in Nat
      BY DEF IInv, Shapes, CollectionShape, Rearranged
    <3>3. QED
      BY <1>1, <2>1, <3>1, <3>2 DEF IInv, FilesInv
  <2>3. ASSUME NEW i \in Checkpointed.working
        PROVE  i \in DOMAIN mem'.segments /\ Stored(i)'
    <3>1. Checkpointed.working \subseteq Nat /\ Checkpointed.nextSeg \in Nat
      BY DEF IInv, Shapes, Checkpointed, NoCheckpoint, Heads
    <3>2. i < mem.nextSeg
      BY <3>1 DEF IInv, FilesInv, Shapes, CollectionShape
    <3>3. i \in DOMAIN mem.segments /\ Stored(i)
      BY DEF IInv, FilesInv
    <3>4. QED
      BY <3>2, <3>3 DEF Rearranged, Stored, disk
  <2>4. QED
    BY <1>1, <2>1, <2>2, <2>3 DEF IInv, FilesInv, disk
<1>8. DataInv'
  BY <1>1, <1>2 DEF IInv, DataInv, Rearranged
<1>9. IdsInv'
  <2>1. ASSUME NEW i \in DOMAIN mem'.segments
        PROVE  mem'.segments[i] \subseteq Written
    BY NothingInFlight DEF Rearranged, IInv, IdsInv
  <2>2. QED
    BY <1>1, <1>3, <2>1 DEF IInv, IdsInv, Rearranged, disk
<1>10. QED
  BY <1>4, <1>5, <1>6, <1>7, <1>8, <1>9 DEF IInv

(* What the invariant says of the collection of an open process.           *)
LEMMA InMemory ==
  ASSUME IInv, up
  PROVE  CollectionShape(mem) /\ RegistryOK(mem)
BY DEF IInv, Shapes, FilesInv

LEMMA CommitStep ==
  ASSUME IInv, Commit
  PROVE  IInv'
<1>1. up /\ ~InFlight /\ task.at = "commit"
  BY DEF Commit, InFlight
<1>2. Rearranged(mem, mem')
  BY <1>1, InMemory, CommitRearranges DEF Commit
<1>3. task' = [at |-> "segments", todo |-> SegmentIdsToPersist(mem')]
  BY DEF Commit, Persist
<1>4. TaskInv' /\ ~InFlight'
  BY <1>3 DEF TaskInv, InFlight
<1>5. QED
  BY <1>1, <1>2, <1>3, <1>4, RearrangeStep DEF Commit

(* Moving a tag or a branch touches the DAG's pointers only.               *)
LEMMA PointerStep ==
  ASSUME IInv, Ready("tag") \/ Ready("branch"), NEW name, NEW v,
         \/ mem' = [mem EXCEPT !.vs = SetTag(@, name, v)]
         \/ mem' = [mem EXCEPT !.vs = SetBranch(@, name, v)],
         task' = Persist(mem'),
         UNCHANGED <<up, generation, persisted, disk, crashes>>
  PROVE  IInv'
<1>1. up /\ ~InFlight /\ task.at = "idle"
  BY DEF Ready, Idle, InFlight
<1>2. Rearranged(mem, mem')
  <2>1. CASE mem' = [mem EXCEPT !.vs = SetTag(@, name, v)]
    <3> DEFINE vs == SetTag(mem.vs, name, v)
    <3>1. StoreShape(mem.vs)
      BY DEF IInv, Shapes, CollectionShape
    <3>2. StoreShape(vs) /\ vs.commits = mem.vs.commits
      BY <3>1 DEF SetTag, StoreShape
    <3> HIDE DEF vs
    <3>3. AllReferenced(vs) = AllReferenced(mem.vs)
      BY <3>2 DEF AllReferenced, Versions
    <3>4. Rearranged(mem, [mem EXCEPT !.vs = vs])
      BY <1>1, <3>2, <3>3, InMemory, NewStoreRearranges
    <3>5. QED
      BY <2>1, <3>4 DEF vs
  <2>2. CASE mem' = [mem EXCEPT !.vs = SetBranch(@, name, v)]
    <3> DEFINE vs == SetBranch(mem.vs, name, v)
    <3>1. StoreShape(mem.vs)
      BY DEF IInv, Shapes, CollectionShape
    <3>2. StoreShape(vs) /\ vs.commits = mem.vs.commits
      BY <3>1 DEF SetBranch, StoreShape
    <3> HIDE DEF vs
    <3>3. AllReferenced(vs) = AllReferenced(mem.vs)
      BY <3>2 DEF AllReferenced, Versions
    <3>4. Rearranged(mem, [mem EXCEPT !.vs = vs])
      BY <1>1, <3>2, <3>3, InMemory, NewStoreRearranges
    <3>5. QED
      BY <2>2, <3>4 DEF vs
  <2>3. QED
    BY <2>1, <2>2
<1>3. task' = [at |-> "segments", todo |-> SegmentIdsToPersist(mem')]
  BY DEF Persist
<1>4. TaskInv' /\ ~InFlight'
  BY <1>3 DEF TaskInv, InFlight
<1>5. QED
  BY <1>1, <1>2, <1>3, <1>4, RearrangeStep

(* Both checkpoint and compact start by sealing, compact what it merged.   *)
LEMMA StartCheckpointStep ==
  ASSUME IInv, up, task = Idle, NEW m, Rearranged(mem, m), StartCheckpoint(m),
         UNCHANGED <<up, generation, persisted, disk, crashes>>
  PROVE  IInv'
<1>1. CollectionShape(m) /\ RegistryOK(m) /\ CollectionShape(mem)
  BY InMemory DEF Rearranged
<1>2. Rearranged(m, Seal(m)) /\ Seal(m).app = {}
  BY <1>1, SealRearranges
<1>3. CollectionShape(Seal(m))
  BY <1>2 DEF Rearranged
<1>4. Rearranged(mem, mem') /\ mem'.app = {}
  BY <1>1, <1>2, <1>3, RearrangedTwice DEF StartCheckpoint
<1>5. task' = [at |-> "checkpoint",
               todo |-> SegmentIdsToPersist(mem') \cap DOMAIN mem'.segments]
  BY DEF StartCheckpoint
<1>6. SegmentIdsToPersist(mem') \subseteq DOMAIN mem'.segments
  BY <1>4 DEF Rearranged, RegistryOK
<1>7. TaskInv' /\ ~InFlight'
  BY <1>4, <1>5, <1>6 DEF TaskInv, InFlight
<1>8. QED
  BY <1>4, <1>5, <1>7, RearrangeStep DEF Idle, InFlight

LEMMA CheckpointStep ==
  ASSUME IInv, Checkpoint
  PROVE  IInv'
<1>1. up /\ task = Idle
  BY DEF Checkpoint, Ready
<1>2. CollectionShape(mem) /\ RegistryOK(mem)
  BY <1>1, InMemory
<1>3. Rearranged(mem, mem)
  BY <1>2 DEF Rearranged, CollectionShape
<1>4. QED
  BY <1>1, <1>3, StartCheckpointStep DEF Checkpoint

LEMMA CompactStep ==
  ASSUME IInv, Compact
  PROVE  IInv'
<1>1. up /\ task = Idle
  BY DEF Compact, Ready
<1>2. Rearranged(mem, CompactWorking(mem))
  BY <1>1, InMemory, CompactRearranges
<1>3. QED
  BY <1>1, <1>2, StartCheckpointStep DEF Compact

(* The log of HEAD's generation is a sequence of whole records.            *)
LEMMA LogType ==
  ASSUME IInv
  PROVE  /\ Log \in Seq(LogRecords) /\ Len(Log) \in Nat
         /\ Done \in 0 .. Len(Log)
         /\ UpsertedUpTo(Log, Done) \subseteq UpsertedUpTo(Log, Len(Log))
<1>1. Log \in Seq(LogRecords)
  BY DEF IInv, Shapes, LogInv, Log
<1>2. Len(Log) \in Nat
  BY <1>1
<1>3. Done \in 0 .. Len(Log)
  <2>1. CASE up /\ InFlight
    <3>1. Len(task.batch) \in Nat /\ Len(task.batch) <= Len(Log)
      BY <2>1 DEF IInv, BatchInv
    <3>2. QED
      BY <1>2, <2>1, <3>1 DEF Done
  <2>2. CASE ~(up /\ InFlight)
    BY <1>2, <2>2 DEF Done
  <2>3. QED
    BY <2>1, <2>2
<1>4. UpsertedUpTo(Log, Done) \subseteq UpsertedUpTo(Log, Len(Log))
  <2>1. 1 .. Done \subseteq 1 .. Len(Log)
    BY <1>2, <1>3
  <2>2. QED
    BY <2>1 DEF UpsertedUpTo
<1>5. QED
  BY <1>1, <1>2, <1>3, <1>4

(* The allocator is past every row that was written.                       *)
LEMMA WrittenBelow ==
  ASSUME IInv, up
  PROVE  /\ Written \subseteq Nat
         /\ \A id \in Written : id < mem.nextId
<1>1. Checkpointed.nextId \in Nat /\ mem.nextId \in Nat /\ mem.payloads \subseteq Nat
  BY DEF IInv, Shapes, Heads, NoCheckpoint, Checkpointed, CollectionShape
<1>2. Checkpointed.nextId <= mem.nextId /\ Written \subseteq mem.payloads
  BY DEF IInv, IdsInv
<1>3. ASSUME NEW id \in Written
      PROVE  id < mem.nextId
  <2>1. id \in Nat
    BY <1>1, <1>2
  <2>2. CASE id < Checkpointed.nextId
    BY <1>1, <1>2, <2>1, <2>2
  <2>3. CASE id \in UpsertedUpTo(Log, Done)
    BY <2>3, LogType DEF IInv, IdsInv
  <2>4. QED
    BY <2>2, <2>3 DEF Written
<1>4. QED
  BY <1>1, <1>2, <1>3

(* Tombstones recovered from the log are over rows that were written.      *)
LEMMA TombstonedWritten ==
  ASSUME NEW log, NEW n \in Nat, NEW base
  PROVE  TombstonedUpTo(base, log, n) \subseteq base \cup UpsertedUpTo(log, n)
<1> SUFFICES ASSUME NEW id \in TombstonedUpTo(base, log, n)
             PROVE  id \in base \cup UpsertedUpTo(log, n)
  OBVIOUS
<1>1. PICK i \in 1 .. n : \/ id \in base
                          \/ \E k \in 1 .. i - 1 : log[k] = Record("upsert", id)
  BY DEF TombstonedUpTo
<1>2. ASSUME NEW k \in 1 .. i - 1, log[k] = Record("upsert", id)
      PROVE  id \in UpsertedUpTo(log, n)
  <2>1. k \in 1 .. n
    OBVIOUS
  <2>2. QED
    BY <1>2, <2>1 DEF UpsertedUpTo, Record
<1>3. QED
  BY <1>1, <1>2

LEMMA CallCommitStep ==
  ASSUME IInv, NEW tag, CallCommit(tag)
  PROVE  IInv'
<1>1. up /\ task = Idle /\ task' = [at |-> "commit", tag |-> tag]
  BY DEF CallCommit, Ready
<1>2. CollectionShape(mem) /\ RegistryOK(mem)
  BY <1>1, InMemory
<1>3. Rearranged(mem, mem)
  BY <1>2 DEF Rearranged, CollectionShape
<1>4. TaskInv' /\ ~InFlight /\ ~InFlight'
  BY <1>1 DEF TaskInv, InFlight, Idle
<1>5. QED
  BY <1>1, <1>3, <1>4, RearrangeStep DEF CallCommit, Idle

-----------------------------------------------------------------------------
(***************************************************************************)
(* Steps that write files.                                                 *)
(***************************************************************************)

(* A segment file gets the rows of the registered segment; the other files *)
(* are left alone.                                                         *)
LEMMA StoreEffect ==
  ASSUME IInv, up, NEW i \in DOMAIN mem.segments, StoreSegment(i), mem' = mem
  PROVE  /\ DOMAIN segFiles' = DOMAIN segFiles \cup {i}
         /\ Stored(i)'
         /\ \A j \in DOMAIN segFiles \ {i} : segFiles'[j] = segFiles[j]
         /\ \A j : Stored(j) => Stored(j)'
         /\ segFiles' \in [DOMAIN segFiles' -> SUBSET Nat]
<1>1. /\ segFiles \in [DOMAIN segFiles -> SUBSET Nat]
      /\ mem.segments[i] \in SUBSET Nat
  BY DEF IInv, Shapes, CollectionShape
<1>2. QED
  BY <1>1 DEF StoreSegment, Stored

LEMMA StoreStep ==
  ASSUME IInv, up, ~InFlight, task.at \notin {"retire", "head"},
         NEW i \in DOMAIN mem.segments, StoreSegment(i), persisted' = persisted \cup {i},
         UNCHANGED <<up, mem, generation, wal, synced, head, versions>>,
         TaskInv', task'.at = task.at
  PROVE  IInv'
<1>1. /\ DOMAIN segFiles' = DOMAIN segFiles \cup {i}
      /\ Stored(i)'
      /\ \A j \in DOMAIN segFiles \ {i} : segFiles'[j] = segFiles[j]
      /\ \A j : Stored(j) => Stored(j)'
      /\ segFiles' \in [DOMAIN segFiles' -> SUBSET Nat]
  BY StoreEffect
<1>2. /\ Checkpointed' = Checkpointed /\ Log' = Log
      /\ LoadedSegments' = LoadedSegments
  BY DEF Checkpointed, Log, LoadedSegments, StoredStore
<1>3. Base' = Base
  <2>1. \A j \in Checkpointed.working : Stored(j) /\ Stored(j)'
    BY <1>1 DEF IInv, FilesInv
  <2>2. \A j \in Checkpointed.working : segFiles'[j] = segFiles[j]
    BY <2>1 DEF Stored
  <2>3. QED
    BY <1>2, <2>2 DEF Base
<1>4. Done' = Done /\ Written' = Written
  BY <1>2 DEF Done, Written, InFlight
<1>5. i \in Nat
  BY DEF IInv, Shapes, CollectionShape
<1>6. Shapes'
  BY <1>1, <1>5 DEF IInv, Shapes
<1>7. LogInv'
  BY <1>2 DEF IInv, LogInv, InFlight
<1>8. BatchInv'
  BY DEF BatchInv, InFlight
<1>9. FilesInv'
  BY <1>1, <1>2 DEF IInv, FilesInv
<1>10. DataInv'
  BY <1>2, <1>3, <1>4 DEF IInv, DataInv
<1>11. IdsInv'
  <2>1. ASSUME NEW j \in DOMAIN segFiles'
        PROVE  segFiles'[j] \subseteq Written
    BY <1>1 DEF IInv, IdsInv, Stored
  <2>2. QED
    BY <1>2, <1>4, <2>1 DEF IInv, IdsInv
<1>12. QED
  BY <1>6, <1>7, <1>8, <1>9, <1>10, <1>11 DEF IInv

LEMMA PersistSegmentStep ==
  ASSUME IInv, PersistSegment
  PROVE  IInv'
<1>1. up /\ task.at = "segments" /\ ToWrite # {}
  BY DEF PersistSegment
<1>2. ToWrite \in SUBSET Nat
  BY DEF ToWrite, IInv, Shapes, CollectionShape
<1>3. Min(ToWrite) \in DOMAIN mem.segments
  BY <1>1, <1>2, MinInSet DEF ToWrite
<1>4. TaskInv'
  BY <1>1 DEF PersistSegment, IInv, TaskInv
<1>5. QED
  BY <1>1, <1>3, <1>4, StoreStep DEF PersistSegment, InFlight

LEMMA CheckpointSegmentStep ==
  ASSUME IInv, CheckpointSegment
  PROVE  IInv'
<1>1. up /\ task.at = "checkpoint" /\ task.todo # {} /\ mem' = mem
  BY DEF CheckpointSegment
<1>2. task.todo \subseteq DOMAIN mem.segments /\ task.todo \in SUBSET Nat
  BY <1>1 DEF IInv, TaskInv, Shapes, CollectionShape
<1>3. PICK i \in task.todo : i = Min(task.todo)
  BY <1>1, <1>2, MinInSet
<1>4. i \in DOMAIN mem.segments /\ StoreSegment(i) /\ persisted' = persisted \cup {i}
  BY <1>2, <1>3 DEF CheckpointSegment
<1>5. task' = [at |-> "checkpoint", todo |-> task.todo \ {i}]
  BY <1>1, <1>3 DEF CheckpointSegment, IInv, TaskInv
<1>6. Stored(i)' /\ \A j : Stored(j) => Stored(j)'
  BY <1>1, <1>4, StoreEffect
<1>7. TaskInv'
  BY <1>1, <1>2, <1>5, <1>6 DEF IInv, TaskInv
<1>8. QED
  BY <1>1, <1>3, <1>4, <1>5, <1>7, StoreStep DEF CheckpointSegment, InFlight

(* The versions file is written when the segments it names are there.      *)
LEMMA PersistVersionsStep ==
  ASSUME IInv, PersistVersions
  PROVE  IInv'
<1>1. /\ up /\ up' /\ task.at = "segments" /\ ToWrite = {}
      /\ versions' = mem.vs /\ task' = Idle
      /\ UNCHANGED <<up, mem, generation, persisted, wal, synced, head, segFiles>>
  BY DEF PersistVersions
<1>2. Checkpointed' = Checkpointed /\ Log' = Log /\ Base' = Base
  BY <1>1 DEF Checkpointed, Log, Base
<1>3. Done' = Done /\ Written' = Written
  BY <1>1, <1>2 DEF Done, Written, InFlight, Idle
<1>4. SegmentIdsToPersist(mem) \subseteq DOMAIN segFiles
  BY <1>1 DEF IInv, TaskInv, FilesInv, RegistryOK, ToWrite
<1>5. LoadedSegments' \subseteq DOMAIN segFiles
  <2>1. AllReferenced(EmptyStore) = {}
    BY DEF AllReferenced, Versions, EmptyStore
  <2>2. AllReferenced(StoredStore') \subseteq DOMAIN segFiles
    BY <1>1, <1>4, <2>1 DEF StoredStore, SegmentIdsToPersist
  <2>3. QED
    BY <1>2, <2>2 DEF IInv, FilesInv, LoadedSegments
<1>6. Shapes'
  BY <1>1 DEF IInv, Shapes, CollectionShape
<1>7. LogInv' /\ BatchInv'
  BY <1>1, <1>2 DEF IInv, LogInv, BatchInv, InFlight, Idle
<1>8. FilesInv'
  BY <1>1, <1>2, <1>5 DEF IInv, FilesInv, Stored
<1>9. TaskInv'
  BY <1>1 DEF TaskInv, Idle
<1>10. DataInv' /\ IdsInv'
  BY <1>1, <1>2, <1>3 DEF IInv, DataInv, IdsInv
<1>11. QED
  BY <1>6, <1>7, <1>8, <1>9, <1>10 DEF IInv

(* The next generation's log is there before HEAD names it, empty.         *)
LEMMA CheckpointLogStep ==
  ASSUME IInv, CheckpointLog
  PROVE  IInv'
<1>1. /\ up /\ up' /\ task.at = "checkpoint" /\ task.todo = {} /\ task' = [at |-> "head"]
      /\ wal' = [g \in DOMAIN wal \cup {generation + 1} |->
                   IF g \in DOMAIN wal THEN wal[g] ELSE <<>>]
      /\ UNCHANGED <<up, mem, generation, persisted, synced, head, versions, segFiles>>
  BY DEF CheckpointLog
<1>2. /\ generation \in Nat /\ generation \in DOMAIN wal
      /\ generation = Checkpointed.generation
      /\ wal \in [DOMAIN wal -> Seq(LogRecords)] /\ DOMAIN wal \subseteq Nat
  BY <1>1 DEF IInv, Shapes, LogInv
<1>3. /\ DOMAIN wal' = DOMAIN wal \cup {generation + 1}
      /\ \A g \in DOMAIN wal : wal'[g] = wal[g]
      /\ \A g \in DOMAIN wal' \ DOMAIN wal : wal'[g] = <<>>
  BY <1>1
<1>4. wal' \in [DOMAIN wal' -> Seq(LogRecords)]
  <2>1. <<>> \in Seq(LogRecords)
    OBVIOUS
  <2>2. QED
    BY <1>1, <1>2, <2>1
<1>5. Checkpointed' = Checkpointed /\ Base' = Base /\ LoadedSegments' = LoadedSegments
  BY <1>1 DEF Checkpointed, Base, LoadedSegments, StoredStore
<1>6. Log' = Log
  BY <1>2, <1>3, <1>5 DEF Log
<1>7. Done' = Done /\ Written' = Written
  BY <1>1, <1>5, <1>6 DEF Done, Written, InFlight
<1>8. Shapes'
  BY <1>1, <1>2, <1>3, <1>4 DEF IInv, Shapes
<1>9. LogInv'
  <2>1. \A g \in DOMAIN wal' : g > Checkpointed.generation => wal'[g] = <<>>
    BY <1>3 DEF IInv, LogInv
  <2>2. QED
    BY <1>1, <1>2, <1>3, <1>5, <2>1 DEF IInv, LogInv
<1>10. BatchInv'
  BY <1>1 DEF BatchInv, InFlight
<1>11. FilesInv'
  BY <1>1, <1>5 DEF IInv, FilesInv, Stored
<1>12. TaskInv'
  BY <1>1 DEF IInv, TaskInv, Stored
<1>13. DataInv' /\ IdsInv'
  BY <1>1, <1>5, <1>6, <1>7 DEF IInv, DataInv, IdsInv
<1>14. QED
  BY <1>8, <1>9, <1>10, <1>11, <1>12, <1>13 DEF IInv

(* The old log goes once HEAD names the next one.                          *)
LEMMA RetireLogStep ==
  ASSUME IInv, RetireLog
  PROVE  IInv'
<1>1. /\ up /\ up' /\ task.at = "retire" /\ task' = Idle
      /\ wal' = [g \in DOMAIN wal \ {generation} |-> wal[g]]
      /\ generation' = generation + 1
      /\ synced' = Len(wal[generation + 1])
      /\ UNCHANGED <<up, mem, persisted, head, versions, segFiles>>
  BY DEF RetireLog
<1>2. /\ generation \in Nat /\ generation + 1 = Checkpointed.generation
      /\ generation + 1 \in DOMAIN wal
      /\ wal \in [DOMAIN wal -> Seq(LogRecords)] /\ DOMAIN wal \subseteq Nat
  BY <1>1 DEF IInv, Shapes, LogInv
<1>3. /\ DOMAIN wal' = DOMAIN wal \ {generation}
      /\ \A g \in DOMAIN wal' : wal'[g] = wal[g]
      /\ generation + 1 \in DOMAIN wal'
  BY <1>1, <1>2
<1>4. Checkpointed' = Checkpointed /\ Base' = Base /\ LoadedSegments' = LoadedSegments
  BY <1>1 DEF Checkpointed, Base, LoadedSegments, StoredStore
<1>5. Log' = Log
  BY <1>2, <1>3, <1>4 DEF Log
<1>6. Done' = Done /\ Written' = Written
  BY <1>1, <1>4, <1>5 DEF Done, Written, InFlight, Idle
<1>7. synced' \in Nat /\ synced' = Len(wal'[generation + 1])
  <2>1. wal[generation + 1] \in Seq(LogRecords)
    BY <1>2
  <2>2. QED
    BY <1>1, <1>3, <2>1
<1>8. Shapes'
  BY <1>1, <1>2, <1>3, <1>7 DEF IInv, Shapes
<1>9. LogInv'
  <2>1. \A g \in DOMAIN wal' : g > Checkpointed.generation => wal'[g] = <<>>
    BY <1>3 DEF IInv, LogInv
  <2>2. QED
    BY <1>1, <1>2, <1>3, <1>4, <1>7, <2>1 DEF IInv, LogInv, Idle
<1>10. BatchInv' /\ TaskInv'
  BY <1>1 DEF BatchInv, TaskInv, InFlight, Idle
<1>11. FilesInv'
  BY <1>1, <1>4 DEF IInv, FilesInv, Stored
<1>12. DataInv' /\ IdsInv'
  BY <1>1, <1>4, <1>5, <1>6 DEF IInv, DataInv, IdsInv
<1>13. QED
  BY <1>8, <1>9, <1>10, <1>11, <1>12 DEF IInv

(* HEAD moves to the collection in memory, everything of which is in a     *)
(* segment file, and to an empty log.                                      *)
LEMMA SwapHeadStep ==
  ASSUME IInv, SwapHead
  PROVE  IInv'
<1>1. /\ up /\ up' /\ task.at = "head" /\ task' = [at |-> "retire"]
      /\ head' = CheckpointHead(mem, generation + 1)
      /\ UNCHANGED <<up, mem, generation, persisted, wal, synced, versions, segFiles>>
  BY DEF SwapHead
<1>2. CollectionShape(mem) /\ RegistryOK(mem)
  BY <1>1, InMemory
<1>3. /\ mem.app = {}
      /\ \A i \in SegmentIdsToPersist(mem) : Stored(i)
      /\ SegmentIdsToPersist(mem) \subseteq DOMAIN mem.segments
  BY <1>1, <1>2 DEF IInv, TaskInv, RegistryOK
<1>4. /\ generation \in Nat /\ generation = Checkpointed.generation
      /\ generation + 1 \in DOMAIN wal
      /\ wal[generation + 1] = <<>>
  BY <1>1 DEF IInv, LogInv, Shapes
<1>5. /\ WorkingIds(mem) \subseteq SegmentIdsToPersist(mem)
      /\ SegmentIdsToPersist(mem) \in SUBSET Nat
  BY <1>2, <1>3 DEF SegmentIdsToPersist, CollectionShape
<1>6. head' \in Heads
  BY <1>1, <1>2, <1>3, <1>4, <1>5 DEF CheckpointHead, Heads, CollectionShape
<1>7. Checkpointed' = head'
  BY <1>6, NoneIsNoHead DEF Checkpointed
<1>8. /\ Checkpointed'.generation = generation + 1
      /\ Checkpointed'.working = WorkingIds(mem)
      /\ Checkpointed'.all = SegmentIdsToPersist(mem)
      /\ Checkpointed'.nextId = mem.nextId /\ Checkpointed'.nextSeg = mem.nextSeg
      /\ Checkpointed'.dels = mem.dels /\ Checkpointed'.payloads = mem.payloads
  BY <1>1, <1>3, <1>7 DEF CheckpointHead
<1>9. Log' = <<>> /\ Done' = 0
  BY <1>1, <1>4, <1>8 DEF Log, Done, InFlight
<1>10. /\ UpsertedUpTo(Log', Done') = {}
       /\ \A base : TombstonedUpTo(base, Log', Done') = {}
  BY <1>9 DEF UpsertedUpTo, TombstonedUpTo
<1>11. Base' = WorkingRows(mem)
  <2>1. \A s \in mem.working : s.id \in WorkingIds(mem) /\ segFiles[s.id] = s.rows
    BY <1>2, <1>3, <1>5 DEF WorkingIds, RegistryOK, Stored
  <2>2. {segFiles[i] : i \in WorkingIds(mem)} = {s.rows : s \in mem.working}
    BY <2>1 DEF WorkingIds
  <2>3. QED
    BY <1>1, <1>8, <2>2 DEF Base, WorkingRows
<1>12. Written' = {id \in mem.payloads : id < mem.nextId}
  BY <1>8, <1>10 DEF Written
<1>13. Written \subseteq Written'
  BY <1>1, <1>12, WrittenBelow DEF IInv, IdsInv
<1>14. mem.dels \subseteq Written
  <2>1. TombstonedUpTo(Base, Log, Done) \subseteq Base \cup UpsertedUpTo(Log, Done)
    BY LogType, TombstonedWritten
  <2>2. Base \subseteq Written
    BY DEF Base, IInv, IdsInv, FilesInv, LoadedSegments
  <2>3. QED
    BY <1>1, <2>1, <2>2 DEF IInv, DataInv, IdsInv, Written
<1>15. Shapes'
  BY <1>1, <1>6 DEF IInv, Shapes
<1>16. LogInv'
  <2>1. \A g \in DOMAIN wal : g > generation + 1 => wal[g] = <<>>
    BY <1>4 DEF IInv, LogInv, Shapes
  <2>2. QED
    BY <1>1, <1>4, <1>8, <2>1 DEF IInv, LogInv
<1>17. BatchInv' /\ TaskInv'
  BY <1>1 DEF BatchInv, TaskInv, InFlight
<1>18. FilesInv'
  <2>1. LoadedSegments' \subseteq DOMAIN segFiles
    <3>1. AllReferenced(StoredStore') \subseteq DOMAIN segFiles
      BY <1>1 DEF IInv, FilesInv, LoadedSegments, StoredStore
    <3>2. QED
      BY <1>3, <1>5, <1>8, <3>1 DEF LoadedSegments, Stored
  <2>2. \A i \in Checkpointed'.working : i < mem.nextSeg
    BY <1>2, <1>8 DEF RegistryOK, WorkingIds
  <2>3. \A i \in Checkpointed'.working : i \in DOMAIN mem.segments /\ Stored(i)'
    BY <1>1, <1>3, <1>5, <1>8 DEF Stored
  <2>4. mem.nextSeg <= mem.nextSeg
    BY <1>2 DEF CollectionShape
  <2>5. QED
    BY <1>1, <1>2, <1>8, <2>1, <2>2, <2>3, <2>4 DEF IInv, FilesInv
<1>19. DataInv'
  BY <1>1, <1>3, <1>8, <1>10, <1>11 DEF DataInv
<1>20. IdsInv'
  <2>1. \A i \in DOMAIN segFiles : segFiles[i] \subseteq Written'
    BY <1>13 DEF IInv, IdsInv
  <2>2. \A i \in DOMAIN mem.segments : mem.segments[i] \subseteq Written'
    BY <1>1, <1>13 DEF IInv, IdsInv
  <2>3. mem.dels \subseteq Written' /\ Written' \subseteq mem.payloads
    BY <1>12, <1>13, <1>14
  <2>4. mem.nextId <= mem.nextId
    BY <1>2 DEF CollectionShape
  <2>5. UpsertedUpTo(Log', Len(Log')) = {}
    BY <1>9, <1>10
  <2>6. QED
    BY <1>1, <1>8, <2>1, <2>2, <2>3, <2>4, <2>5 DEF IdsInv
<1>21. QED
  BY <1>15, <1>16, <1>17, <1>18, <1>19, <1>20 DEF IInv

-----------------------------------------------------------------------------
(***************************************************************************)
(* Writes.                                                                 *)
(***************************************************************************)
LEMMA LogBatchStep ==
  ASSUME IInv, up, task = Idle,
         NEW k \in Nat, NEW deletes \in [1 .. k -> Ids], NEW n \in Nat, NEW commit,
         k + n > 0, n > 0 => mem.nextId + n <= MaxIds, LogBatch(n, deletes, commit)
  PROVE  IInv'
<1>1. PICK batch : batch = Batch(deletes, mem.nextId, n)
  OBVIOUS
<1>2. /\ up' /\ task' = [at |-> "flush", batch |-> batch, commit |-> commit]
      /\ wal' = [wal EXCEPT ![generation] = @ \o batch]
      /\ mem' = [mem EXCEPT !.nextId = @ + n]
      /\ UNCHANGED <<up, generation, persisted, synced, head, versions, segFiles>>
  BY <1>1 DEF LogBatch
<1>3. mem.nextId \in Nat
  BY DEF IInv, Shapes, CollectionShape
<1>4. /\ batch \in Seq(LogRecords) \ {<<>>} /\ Len(batch) \in Nat
      /\ \A i \in 1 .. Len(batch) : batch[i].op = "upsert" =>
           /\ batch[i].id \in mem.nextId .. mem.nextId + n - 1
           /\ \A j \in i .. Len(batch) : batch[j].op = "upsert"
  <2>1. PICK first \in Nat : first = mem.nextId
    BY <1>3
  <2>2. (n > 0 => first + n <= MaxIds) /\ batch = Batch(deletes, first, n)
    BY <1>1, <2>1
  <2>3. /\ batch \in Seq(LogRecords)
        /\ Len(batch) = k + n
        /\ \A i \in 1 .. Len(batch) : batch[i].op = "upsert" =>
             /\ batch[i].id \in first .. first + n - 1
             /\ \A j \in i .. Len(batch) : batch[j].op = "upsert"
    BY <2>2, BatchShape
  <2>4. QED
    BY <2>1, <2>3
<1>5. /\ generation \in DOMAIN wal /\ generation = Checkpointed.generation
      /\ synced = Len(Log)
      /\ Done = Len(Log)
      /\ wal \in [DOMAIN wal -> Seq(LogRecords)]
  BY DEF IInv, Shapes, LogInv, InFlight, Done, Idle, Log
<1>6. Checkpointed' = Checkpointed /\ Base' = Base /\ LoadedSegments' = LoadedSegments
  BY <1>2 DEF Checkpointed, Base, LoadedSegments, StoredStore
<1>7. Log \in Seq(LogRecords) /\ Len(Log) \in Nat
  BY LogType
<1>8. Log' = Log \o batch
  BY <1>2, <1>5, <1>6 DEF Log
<1>9. /\ Log' \in Seq(LogRecords) /\ Len(Log') = Len(Log) + Len(batch)
      /\ \A i \in 1 .. Len(Log) : Log'[i] = Log[i]
      /\ \A i \in 1 .. Len(batch) : Log'[Len(Log) + i] = batch[i]
  BY <1>4, <1>7, <1>8, ConcatProperties
<1>10. Done' = Done
  BY <1>2, <1>4, <1>5, <1>7, <1>9 DEF Done, InFlight
<1>11. /\ UpsertedUpTo(Log', Done') = UpsertedUpTo(Log, Done)
       /\ \A base : TombstonedUpTo(base, Log', Done') = TombstonedUpTo(base, Log, Done)
  <2>1. PICK old : old = Log
    OBVIOUS
  <2>2. PICK new : new = Log'
    OBVIOUS
  <2>3. PICK d \in Nat : d = Done
    BY <1>5, <1>7
  <2>4. \A i \in 1 .. d : new[i] = old[i]
    BY <1>5, <1>9, <2>1, <2>2, <2>3
  <2>5. /\ UpsertedUpTo(new, d) = UpsertedUpTo(old, d)
        /\ \A base : TombstonedUpTo(base, new, d) = TombstonedUpTo(base, old, d)
    BY <2>4, SamePrefix
  <2>6. QED
    BY <1>10, <2>1, <2>2, <2>3, <2>5
<1>12. Written' = Written
  BY <1>6, <1>11 DEF Written
<1>13. mem' = [app |-> mem.app, working |-> mem.working, segments |-> mem.segments,
               dels |-> mem.dels, payloads |-> mem.payloads, vs |-> mem.vs,
               nextId |-> mem.nextId + n, nextSeg |-> mem.nextSeg]
  BY <1>2 DEF IInv, Shapes, CollectionShape
<1>14. CollectionShape(mem') /\ RegistryOK(mem')
  <2>1. CollectionShape(mem) /\ RegistryOK(mem)
    BY InMemory
  <2>2. CollectionShape(mem')
    BY <1>3, <1>13, <2>1 DEF CollectionShape
  <2>3. WorkingIds(mem') = WorkingIds(mem)
    BY <1>13 DEF WorkingIds
  <2>4. RegistryOK(mem')
    BY <1>13, <2>1, <2>3 DEF RegistryOK, SegmentIdsToPersist
  <2>5. QED
    BY <2>2, <2>4
<1>15. Shapes'
  <2>1. /\ DOMAIN wal' = DOMAIN wal
        /\ wal' \in [DOMAIN wal' -> Seq(LogRecords)]
    BY <1>2, <1>4, <1>5, <1>7, <1>9 DEF Log
  <2>2. QED
    BY <1>2, <1>14, <2>1 DEF IInv, Shapes
<1>16. LogInv'
  <2>1. \A g \in DOMAIN wal : g > Checkpointed.generation => wal'[g] = wal[g]
    BY <1>2, <1>5 DEF IInv, Shapes
  <2>2. wal'[generation] = Log' /\ DOMAIN wal' = DOMAIN wal
    BY <1>2, <1>5, <1>6 DEF Log
  <2>3. synced \in Done' .. Len(Log')
    BY <1>4, <1>5, <1>7, <1>9, <1>10
  <2>4. QED
    BY <1>2, <1>5, <1>6, <2>1, <2>2, <2>3 DEF IInv, LogInv
<1>17. BatchInv'
  <2>1. Len(batch) <= Len(Log')
    BY <1>4, <1>7, <1>9
  <2>2. ASSUME NEW i \in 1 .. Len(batch), batch[i].op = "upsert"
        PROVE  batch[i].id \notin Written
    BY <1>3, <1>4, <2>2, WrittenBelow
  <2>3. QED
    BY <1>2, <1>4, <1>5, <1>9, <1>10, <1>12, <2>1, <2>2 DEF BatchInv
<1>18. FilesInv'
  <2>1. Checkpointed.nextSeg <= mem'.nextSeg /\ mem'.segments = mem.segments
    BY <1>13 DEF IInv, FilesInv
  <2>2. QED
    BY <1>2, <1>6, <1>14, <2>1 DEF IInv, FilesInv, Stored
<1>19. TaskInv'
  BY <1>2 DEF TaskInv
<1>20. DataInv'
  <2>1. WorkingRows(mem') = WorkingRows(mem) /\ mem'.app = mem.app /\ mem'.dels = mem.dels
    BY <1>13 DEF WorkingRows
  <2>2. QED
    BY <1>6, <1>11, <2>1 DEF IInv, DataInv
<1>21. IdsInv'
  <2>1. ASSUME NEW id \in UpsertedUpTo(Log', Len(Log'))
        PROVE  id < mem.nextId + n
    <3>1. PICK i \in 1 .. Len(Log') : Log'[i].op = "upsert" /\ Log'[i].id = id
      BY DEF UpsertedUpTo
    <3>2. CASE i <= Len(Log)
      <4>1. i \in 1 .. Len(Log) /\ Log'[i] = Log[i] /\ Log[i] \in LogRecords
        BY <1>7, <1>9, <3>2
      <4>2. id \in UpsertedUpTo(Log, Len(Log)) /\ id \in Int
        BY <3>1, <4>1 DEF UpsertedUpTo, LogRecords, Ids
      <4>3. id < mem.nextId
        BY <4>2 DEF IInv, IdsInv
      <4>4. QED
        BY <1>3, <4>2, <4>3
    <3>3. CASE i > Len(Log)
      <4>1. i - Len(Log) \in 1 .. Len(batch)
        BY <1>4, <1>7, <1>9, <3>3
      <4>2. Log'[i] = batch[i - Len(Log)]
        <5>1. Log'[Len(Log) + (i - Len(Log))] = batch[i - Len(Log)]
          BY <1>9, <4>1
        <5>2. Len(Log) + (i - Len(Log)) = i
          BY <1>7
        <5>3. QED
          BY <5>1, <5>2
      <4>3. id \in mem.nextId .. mem.nextId + n - 1
        BY <1>4, <3>1, <4>1, <4>2
      <4>4. QED
        BY <1>3, <4>3
    <3>4. QED
      BY <1>7, <3>2, <3>3
  <2>2. Checkpointed.nextId <= mem.nextId + n
    <3>1. Checkpointed.nextId \in Nat
      BY DEF IInv, Shapes, Heads, NoCheckpoint, Checkpointed
    <3>2. Checkpointed.nextId <= mem.nextId
      BY DEF IInv, IdsInv
    <3>3. QED
      BY <1>3, <3>1, <3>2
  <2>3. /\ mem'.nextId = mem.nextId + n /\ mem'.segments = mem.segments
        /\ mem'.payloads = mem.payloads
    BY <1>13
  <2>4. QED
    BY <1>2, <1>6, <1>12, <2>1, <2>2, <2>3 DEF IInv, IdsInv
<1>22. QED
  BY <1>15, <1>16, <1>17, <1>18, <1>19, <1>20, <1>21 DEF IInv

LEMMA WriteBatchStep ==
  ASSUME IInv, NEW n \in Nat, NEW deletes \in DeleteLists, NEW commit,
         WriteBatch(n, deletes, commit)
  PROVE  IInv'
<1>1. PICK k \in 0 .. MaxBatch : deletes \in [1 .. k -> Ids]
  BY DEF DeleteLists
<1>2. k \in Nat /\ k + n > 0
  <2>1. n + Len(deletes) \in 1 .. MaxBatch
    BY DEF WriteBatch
  <2>2. k \in Nat /\ Len(deletes) = k
    BY <1>1, BoundsAssumption
  <2>3. QED
    BY <2>1, <2>2, BoundsAssumption
<1>3. up /\ task = Idle /\ mem.nextId + n <= MaxIds /\ LogBatch(n, deletes, commit)
  BY DEF WriteBatch, Ready
<1>4. QED
  BY <1>1, <1>2, <1>3, LogBatchStep

LEMMA DeletePointStep ==
  ASSUME IInv, NEW id \in Ids, DeletePoint(id)
  PROVE  IInv'
<1>1. up /\ task = Idle /\ LogBatch(0, <<id>>, FALSE)
  BY DEF DeletePoint, Ready
<1>2. PICK deletes : deletes = <<id>>
  OBVIOUS
<1>3. <<id>> \in [1 .. 1 -> Ids]
  OBVIOUS
<1>4. PICK k \in Nat, n \in Nat : k = 1 /\ n = 0
  OBVIOUS
<1>5. deletes \in [1 .. k -> Ids]
  BY <1>2, <1>3, <1>4
<1>6. LogBatch(n, deletes, FALSE)
  BY <1>1, <1>2, <1>4
<1>7. k + n > 0 /\ (n > 0 => mem.nextId + n <= MaxIds)
  BY <1>4
<1>8. QED
  BY <1>1, <1>5, <1>6, <1>7, LogBatchStep

LEMMA FlushStep ==
  ASSUME IInv, Flush
  PROVE  IInv'
<1>1. /\ up /\ up' /\ task.at = "flush" /\ synced' = Len(wal[generation])
      /\ task' = [task EXCEPT !.at = "apply"]
      /\ UNCHANGED <<up, mem, generation, persisted, wal, head, versions, segFiles>>
  BY DEF Flush
<1>2. task' = [at |-> "apply", batch |-> task.batch, commit |-> task.commit]
  BY <1>1 DEF IInv, BatchInv, InFlight
<1>3. /\ Checkpointed' = Checkpointed /\ Log' = Log /\ Base' = Base
      /\ LoadedSegments' = LoadedSegments
  BY <1>1, SameDisk
<1>4. Done' = Done /\ Written' = Written
  BY <1>1, <1>2, <1>3 DEF Done, Written, InFlight
<1>5. /\ generation = Checkpointed.generation /\ generation \in DOMAIN wal
      /\ synced' = Len(Log) /\ Len(Log) \in Nat
  BY <1>1, LogType DEF IInv, LogInv, Log
<1>6. Shapes'
  BY <1>1, <1>5 DEF IInv, Shapes
<1>7. LogInv'
  BY <1>1, <1>2, <1>3, <1>5 DEF IInv, LogInv
<1>8. BatchInv'
  BY <1>1, <1>2, <1>3, <1>4 DEF IInv, BatchInv, InFlight
<1>9. FilesInv' /\ TaskInv'
  BY <1>1, <1>2, <1>3 DEF IInv, FilesInv, TaskInv, Stored
<1>10. DataInv' /\ IdsInv'
  BY <1>1, <1>3, <1>4 DEF IInv, DataInv, IdsInv
<1>11. QED
  BY <1>6, <1>7, <1>8, <1>9, <1>10 DEF IInv

(* The collection after deletes and upserts of allocated ids.              *)
LEMMA WriteEffect ==
  ASSUME NEW m, CollectionShape(m), NEW deletes, NEW upserts \in SUBSET Nat,
         \A id \in upserts : id < m.nextId
  PROVE  Insert(Delete(m, deletes), upserts) =
           [app |-> m.app \cup upserts, working |-> m.working, segments |-> m.segments,
            dels |-> m.dels \cup (deletes \cap (m.app \cup WorkingRows(m))),
            payloads |-> m.payloads \cup upserts, vs |-> m.vs,
            nextId |-> m.nextId, nextSeg |-> m.nextSeg]
<1> DEFINE dels == m.dels \cup (deletes \cap (m.app \cup WorkingRows(m)))
           q1 == Delete(m, deletes)
           q2 == [q1 EXCEPT !.app = @ \cup upserts]
           q3 == [q2 EXCEPT !.payloads = @ \cup upserts]
           past == {m.nextId} \cup {i + 1 : i \in upserts}
<1>1. q1 = [app |-> m.app, working |-> m.working, segments |-> m.segments,
            dels |-> dels, payloads |-> m.payloads, vs |-> m.vs,
            nextId |-> m.nextId, nextSeg |-> m.nextSeg]
  <2>1. q1 = [m EXCEPT !.dels = dels]
    BY DEF Delete
  <2>2. m = [app |-> m.app, working |-> m.working, segments |-> m.segments,
             dels |-> m.dels, payloads |-> m.payloads, vs |-> m.vs,
             nextId |-> m.nextId, nextSeg |-> m.nextSeg]
    BY DEF CollectionShape
  <2> HIDE DEF dels, q1
  <2>3. QED
    BY <2>1, <2>2
<1> HIDE DEF dels, q1
<1>2. q2 = [app |-> m.app \cup upserts, working |-> m.working, segments |-> m.segments,
            dels |-> dels, payloads |-> m.payloads, vs |-> m.vs,
            nextId |-> m.nextId, nextSeg |-> m.nextSeg]
  BY <1>1
<1> HIDE DEF q2
<1>3. q3 = [app |-> m.app \cup upserts, working |-> m.working, segments |-> m.segments,
            dels |-> dels, payloads |-> m.payloads \cup upserts, vs |-> m.vs,
            nextId |-> m.nextId, nextSeg |-> m.nextSeg]
  BY <1>2
<1>4. Max(past) = m.nextId
  <2>1. m.nextId \in Nat
    BY DEF CollectionShape
  <2>2. past \in SUBSET Nat /\ \A x \in past : x <= m.nextId
    BY <2>1
  <2>3. Max(past) \in past /\ \A y \in past : y <= Max(past)
    BY <2>1, <2>2, MaxInSet
  <2>4. m.nextId <= Max(past) /\ Max(past) <= m.nextId /\ Max(past) \in Nat
    BY <2>2, <2>3
  <2>5. QED
    BY <2>1, <2>4
<1>5. Insert(q1, upserts)
        = [q3 EXCEPT !.nextId = Max({q3.nextId} \cup {i + 1 : i \in upserts})]
  BY <1>1, <1>2 DEF Insert, q2
<1> HIDE DEF q3, past
<1>6. Insert(q1, upserts) = [q3 EXCEPT !.nextId = m.nextId]
  BY <1>3, <1>4, <1>5 DEF past
<1>7. QED
  BY <1>3, <1>6 DEF dels, q1

(* The applied batch, seen by the log: how reading goes on past Done.      *)
LEMMA BatchApplied ==
  ASSUME IInv, up, InFlight, NEW j \in 0 .. Len(task.batch), NEW base
  PROVE  /\ Done \in Nat /\ Done + Len(task.batch) = Len(Log)
         /\ UpsertedUpTo(Log, Done + j)
              = UpsertedUpTo(Log, Done) \cup Upserted(SubSeq(task.batch, 1, j))
         /\ TombstonedUpTo(base, Log, Done + j)
              = TombstonedUpTo(base, Log, Done)
                  \cup (Deleted(SubSeq(task.batch, 1, j))
                          \cap (base \cup UpsertedUpTo(Log, Done)))
<1>1. PICK batch : batch = task.batch
  OBVIOUS
<1>2. PICK log : log = Log
  OBVIOUS
<1>3. PICK n : n = Done
  OBVIOUS
<1>4. log \in Seq(LogRecords) /\ Len(log) \in Nat /\ n \in 0 .. Len(log)
  BY <1>2, <1>3, LogType
<1>5. /\ batch \in Seq(LogRecords) /\ Len(batch) \in Nat
      /\ n = Len(log) - Len(batch)
      /\ \A i \in 1 .. Len(batch) : log[n + i] = batch[i]
      /\ \A i \in 1 .. Len(batch) : batch[i].op = "upsert" =>
           \A l \in i .. Len(batch) : batch[l].op = "upsert"
  BY <1>1, <1>2, <1>3 DEF IInv, BatchInv, Done
<1>6. n \in Nat /\ n + Len(batch) = Len(log) /\ j \in 0 .. Len(batch)
  BY <1>1, <1>4, <1>5
<1>7. /\ UpsertedUpTo(log, n + j)
           = UpsertedUpTo(log, n) \cup UpsertedUpTo(batch, j)
      /\ TombstonedUpTo(base, log, n + j)
           = TombstonedUpTo(base, log, n)
               \cup (Deleted(SubSeq(batch, 1, j)) \cap (base \cup UpsertedUpTo(log, n)))
  <2>1. EndsWith(log, n, batch) /\ DeletesFirst(batch)
    BY <1>5, <1>6 DEF EndsWith, DeletesFirst
  <2>2. log \in Seq(LogRecords) /\ batch \in Seq(LogRecords)
    BY <1>4, <1>5
  <2>3. n \in Nat /\ j \in 0 .. Len(batch)
    BY <1>6
  <2>4. QED
    BY <2>1, <2>2, <2>3, PartOfBatch
<1>8. Upserted(SubSeq(batch, 1, j)) = UpsertedUpTo(batch, j)
  BY <1>5, <1>6, PrefixOfLog
<1>9. QED
  BY <1>1, <1>2, <1>3, <1>6, <1>7, <1>8

LEMMA ApplyStep ==
  ASSUME IInv, Apply
  PROVE  IInv'
<1>1. /\ up /\ up' /\ task.at = "apply" /\ InFlight
      /\ mem' = Insert(Delete(mem, Deleted(task.batch)), Upserted(task.batch))
      /\ task' = IF task.commit THEN [at |-> "commit", tag |-> None] ELSE Idle
      /\ UNCHANGED <<up, generation, persisted, wal, synced, head, versions, segFiles>>
  BY DEF Apply, disk, InFlight
<1>2. PICK upserts : upserts = Upserted(task.batch)
  OBVIOUS
<1>3. PICK deletes : deletes = Deleted(task.batch)
  OBVIOUS
<1>4. CollectionShape(mem) /\ RegistryOK(mem)
  BY <1>1, InMemory
<1>5. /\ Checkpointed' = Checkpointed /\ Log' = Log /\ Base' = Base
      /\ LoadedSegments' = LoadedSegments
  BY <1>1, SameDisk
<1>6. Log \in Seq(LogRecords) /\ Len(Log) \in Nat
  BY LogType
<1>7. ~InFlight' /\ Done' = Len(Log)
  BY <1>1, <1>5 DEF Done, InFlight, Idle
<1>8. task.batch \in Seq(LogRecords) /\ Len(task.batch) \in Nat
  BY <1>1 DEF IInv, BatchInv
<1>9. Done + Len(task.batch) = Len(Log)
  BY <1>1, <1>6, <1>8 DEF Done
<1>10. SubSeq(task.batch, 1, Len(task.batch)) = task.batch
  BY <1>8, SubSeqFull
<1>11. PICK base : base = Base
  OBVIOUS
<1>12. /\ UpsertedUpTo(Log', Done') = UpsertedUpTo(Log, Done) \cup upserts
       /\ TombstonedUpTo(Base', Log', Done')
            = TombstonedUpTo(Base, Log, Done)
                \cup (deletes \cap (Base \cup UpsertedUpTo(Log, Done)))
  <2>1. PICK j \in 0 .. Len(task.batch) : j = Len(task.batch)
    BY <1>8
  <2>2. /\ UpsertedUpTo(Log, Done + j)
             = UpsertedUpTo(Log, Done) \cup Upserted(SubSeq(task.batch, 1, j))
        /\ TombstonedUpTo(base, Log, Done + j)
             = TombstonedUpTo(base, Log, Done)
                 \cup (Deleted(SubSeq(task.batch, 1, j))
                         \cap (base \cup UpsertedUpTo(Log, Done)))
    BY <1>1, BatchApplied
  <2>3. Done + j = Done' /\ SubSeq(task.batch, 1, j) = task.batch
    BY <1>7, <1>9, <1>10, <2>1
  <2>4. QED
    BY <1>2, <1>3, <1>5, <1>11, <2>2, <2>3
<1>13. Written' = Written \cup upserts
  BY <1>5, <1>12 DEF Written
<1>14. upserts \in SUBSET Nat /\ \A id \in upserts : id < mem.nextId
  <2>1. upserts \subseteq Nat
    <3>1. \A i \in DOMAIN task.batch : task.batch[i] \in LogRecords
      BY <1>8
    <3>2. QED
      BY <1>2, <3>1 DEF Upserted, IdsOf, LogRecords, Ids
  <2>2. upserts \subseteq UpsertedUpTo(Log, Len(Log))
    BY <1>5, <1>7, <1>12
  <2>3. QED
    BY <1>1, <2>1, <2>2 DEF IInv, IdsInv
<1>15. mem' = [app |-> mem.app \cup upserts, working |-> mem.working,
               segments |-> mem.segments,
               dels |-> mem.dels \cup (deletes \cap (mem.app \cup WorkingRows(mem))),
               payloads |-> mem.payloads \cup upserts, vs |-> mem.vs,
               nextId |-> mem.nextId, nextSeg |-> mem.nextSeg]
  <2>1. PICK m : m = mem
    OBVIOUS
  <2>2. CollectionShape(m) /\ \A id \in upserts : id < m.nextId
    BY <1>4, <1>14, <2>1
  <2>3. mem' = Insert(Delete(m, deletes), upserts)
    BY <1>1, <1>2, <1>3, <2>1
  <2>4. QED
    BY <1>14, <2>1, <2>2, <2>3, WriteEffect
<1>16. WorkingRows(mem') = WorkingRows(mem) /\ WorkingIds(mem') = WorkingIds(mem)
  BY <1>15 DEF WorkingRows, WorkingIds
<1>17. CollectionShape(mem') /\ RegistryOK(mem')
  <2>1. mem.app \cup WorkingRows(mem) \subseteq Nat
    BY <1>4, WorkingRowsType DEF CollectionShape
  <2>2. CollectionShape(mem')
    BY <1>4, <1>14, <1>15, <2>1 DEF CollectionShape
  <2>3. RegistryOK(mem')
    BY <1>4, <1>15, <1>16 DEF RegistryOK, SegmentIdsToPersist
  <2>4. QED
    BY <2>2, <2>3
<1>18. Shapes'
  BY <1>1, <1>17 DEF IInv, Shapes
<1>19. LogInv'
  BY <1>1, <1>5, <1>7 DEF IInv, LogInv, InFlight, Idle
<1>20. BatchInv' /\ TaskInv'
  BY <1>1, <1>7 DEF BatchInv, TaskInv, Idle
<1>21. FilesInv'
  <2>1. mem'.nextSeg = mem.nextSeg /\ mem'.segments = mem.segments
    BY <1>15
  <2>2. QED
    BY <1>1, <1>5, <1>17, <2>1 DEF IInv, FilesInv, Stored
<1>22. DataInv'
  <2>1. /\ mem'.app = mem.app \cup upserts
        /\ mem'.dels = mem.dels \cup (deletes \cap (mem.app \cup WorkingRows(mem)))
    BY <1>15
  <2>2. QED
    BY <1>1, <1>5, <1>12, <1>16, <2>1 DEF IInv, DataInv
<1>23. IdsInv'
  <2>1. /\ mem'.payloads = mem.payloads \cup upserts /\ mem'.nextId = mem.nextId
        /\ mem'.segments = mem.segments
    BY <1>15
  <2>2. QED
    BY <1>1, <1>5, <1>13, <2>1 DEF IInv, IdsInv
<1>24. QED
  BY <1>18, <1>19, <1>20, <1>21, <1>22, <1>23 DEF IInv

-----------------------------------------------------------------------------
(***************************************************************************)
(* Stops and recovery.                                                     *)
(***************************************************************************)

(* What HEAD holds is well formed, before the first checkpoint as well.    *)
LEMMA CheckpointType ==
  ASSUME IInv
  PROVE  Checkpointed \in Heads
<1>1. NoCheckpoint \in Heads
  BY DEF NoCheckpoint, Heads
<1>2. head \in Heads \cup {None}
  BY DEF IInv, Shapes
<1>3. QED
  BY <1>1, <1>2 DEF Checkpointed

(* The collection open() builds when n records of the log are left.        *)
LEMMA Recovered ==
  ASSUME IInv, NEW n \in 0 .. Len(Log), NEW r, r = Recover(SubSeq(Log, 1, n))
  PROVE  /\ CollectionShape(r) /\ RegistryOK(r)
         /\ r.app = UpsertedUpTo(Log, n) /\ WorkingRows(r) = Base
         /\ r.dels = Checkpointed.dels \cup TombstonedUpTo(Base, Log, n)
         /\ r.payloads = Checkpointed.payloads \cup UpsertedUpTo(Log, n)
         /\ r.segments = [i \in LoadedSegments |-> segFiles[i]]
         /\ r.nextSeg = Checkpointed.nextSeg
         /\ Checkpointed.nextId <= r.nextId
         /\ \A id \in UpsertedUpTo(Log, n) : id < r.nextId
<1>1. PICK log : log = SubSeq(Log, 1, n)
  OBVIOUS
<1>2. /\ Upserted(log) = UpsertedUpTo(Log, n)
      /\ \A base : Tombstoned(base, log) = TombstonedUpTo(base, Log, n)
  <2>1. PICK whole : whole = Log
    OBVIOUS
  <2>2. whole \in Seq(LogRecords) /\ n \in 0 .. Len(whole)
    BY <2>1, LogType
  <2>3. /\ Upserted(SubSeq(whole, 1, n)) = UpsertedUpTo(whole, n)
        /\ \A base : Tombstoned(base, SubSeq(whole, 1, n)) = TombstonedUpTo(base, whole, n)
    BY <2>2, PrefixOfLog
  <2>4. QED
    BY <1>1, <2>1, <2>3
<1>3. UpsertedUpTo(Log, n) \subseteq Ids
  <2>1. \A i \in 1 .. n : Log[i] \in LogRecords
    BY LogType
  <2>2. QED
    BY <2>1 DEF UpsertedUpTo, LogRecords
<1> DEFINE working == {Segment(i, segFiles[i]) : i \in Checkpointed.working}
           upserts == UpsertedUpTo(Log, n)
           past == {Checkpointed.nextId} \cup {i + 1 : i \in upserts}
<1>4. UNION {s.rows : s \in working} = Base
  <2>1. {s.rows : s \in working} = {segFiles[i] : i \in Checkpointed.working}
    <3>1. \A i : Segment(i, segFiles[i]).rows = segFiles[i]
      BY DEF Segment
    <3>2. QED
      BY <3>1
  <2>2. QED
    BY <2>1 DEF Base
<1>5. r = [app |-> upserts, working |-> working,
           segments |-> [i \in LoadedSegments |-> segFiles[i]],
           dels |-> Checkpointed.dels \cup TombstonedUpTo(Base, Log, n),
           payloads |-> Checkpointed.payloads \cup upserts,
           vs |-> StoredStore, nextId |-> Max(past), nextSeg |-> Checkpointed.nextSeg]
  BY <1>1, <1>2, <1>4 DEF Recover
<1>6. Checkpointed \in Heads
  BY CheckpointType
<1>7. /\ Checkpointed.nextId \in Nat /\ Checkpointed.nextSeg \in Nat
      /\ Checkpointed.dels \subseteq Nat /\ Checkpointed.payloads \subseteq Nat
      /\ Checkpointed.working \subseteq Nat
  BY <1>6 DEF Heads
<1>8. upserts \subseteq Nat
  BY <1>3 DEF Ids
<1>9. Max(past) \in past /\ \A y \in past : y <= Max(past)
  <2>1. past \in SUBSET Nat /\ past # {}
    BY <1>7, <1>8
  <2>2. \A x \in past : x <= Checkpointed.nextId + MaxIds
    BY <1>3, <1>7, BoundsAssumption DEF Ids
  <2>3. Checkpointed.nextId + MaxIds \in Nat
    BY <1>7, BoundsAssumption
  <2>4. PICK b \in Nat : b = Checkpointed.nextId + MaxIds
    BY <2>3
  <2>5. PICK S : S = past
    OBVIOUS
  <2>6. Max(S) \in S /\ \A y \in S : y <= Max(S)
    BY <2>1, <2>2, <2>4, <2>5, MaxInSet
  <2>7. QED
    BY <2>5, <2>6
<1>10. /\ Max(past) \in Nat /\ Checkpointed.nextId <= Max(past)
       /\ \A id \in upserts : id < Max(past)
  <2>1. Max(past) \in Nat
    BY <1>7, <1>8, <1>9
  <2>2. ASSUME NEW id \in upserts
        PROVE  id < Max(past)
    <3>1. id + 1 <= Max(past) /\ id \in Nat
      BY <1>8, <1>9
    <3>2. QED
      BY <2>1, <3>1
  <2>3. QED
    BY <1>9, <2>1, <2>2
<1> HIDE DEF upserts, past
<1>11. /\ LoadedSegments \subseteq DOMAIN segFiles /\ LoadedSegments \subseteq Nat
       /\ Checkpointed.working \subseteq LoadedSegments
       /\ AllReferenced(StoredStore) \subseteq LoadedSegments
  BY DEF LoadedSegments, IInv, FilesInv, Shapes
<1>12. StoreShape(StoredStore)
  <2>1. StoreShape(EmptyStore)
    BY DEF StoreShape, EmptyStore
  <2>2. QED
    BY <2>1 DEF IInv, Shapes, StoredStore
<1>13. Base \subseteq Nat
  BY <1>11 DEF Base, IInv, Shapes
<1>14. TombstonedUpTo(Base, Log, n) \subseteq Nat
  <2>1. TombstonedUpTo(Base, Log, n) \subseteq Base \cup UpsertedUpTo(Log, n)
    BY LogType, TombstonedWritten
  <2>2. QED
    BY <1>8, <1>13, <2>1 DEF upserts
<1>15. WorkingRows(r) = Base /\ WorkingIds(r) = Checkpointed.working
  <2>1. r.working = working
    BY <1>5
  <2>2. {s.id : s \in working} = Checkpointed.working
    <3>1. \A i : Segment(i, segFiles[i]).id = i
      BY DEF Segment
    <3>2. QED
      BY <3>1
  <2>3. QED
    BY <1>4, <2>1, <2>2 DEF WorkingRows, WorkingIds
<1>16. CollectionShape(r)
  <2>1. [i \in LoadedSegments |-> segFiles[i]] \in [LoadedSegments -> SUBSET Nat]
    BY <1>11 DEF IInv, Shapes
  <2>2. /\ Checkpointed.dels \cup TombstonedUpTo(Base, Log, n) \subseteq Nat
        /\ Checkpointed.payloads \cup upserts \subseteq Nat
    BY <1>7, <1>8, <1>14
  <2> HIDE DEF working
  <2>3. r = [app |-> r.app, working |-> r.working, segments |-> r.segments,
             dels |-> r.dels, payloads |-> r.payloads, vs |-> r.vs,
             nextId |-> r.nextId, nextSeg |-> r.nextSeg]
    BY <1>5
  <2>4. /\ r.segments = [i \in LoadedSegments |-> segFiles[i]]
        /\ DOMAIN r.segments = LoadedSegments
        /\ r.app \subseteq Nat /\ r.dels \subseteq Nat /\ r.payloads \subseteq Nat
        /\ r.nextId \in Nat /\ r.nextSeg \in Nat /\ StoreShape(r.vs)
    BY <1>5, <1>7, <1>8, <1>10, <1>12, <2>2
  <2>5. QED
    BY <1>11, <2>1, <2>3, <2>4 DEF CollectionShape
<1>17. RegistryOK(r)
  <2>1. SegmentIdsToPersist(r) \subseteq DOMAIN r.segments
    BY <1>5, <1>11, <1>15 DEF SegmentIdsToPersist
  <2>2. ASSUME NEW i \in Checkpointed.working
        PROVE  i < Checkpointed.nextSeg /\ i \in LoadedSegments
    BY <1>11 DEF IInv, FilesInv
  <2>3. ASSUME NEW s \in working
        PROVE  s.id < r.nextSeg /\ s.id \in DOMAIN r.segments /\ r.segments[s.id] = s.rows
    <3>1. PICK i \in Checkpointed.working : s = Segment(i, segFiles[i])
      OBVIOUS
    <3>2. s.id = i /\ s.rows = segFiles[i]
      BY <3>1 DEF Segment
    <3>3. QED
      BY <1>5, <2>2, <3>2
  <2>4. r.working = working
    BY <1>5
  <2>5. QED
    BY <2>1, <2>3, <2>4 DEF RegistryOK
<1>18. QED
  BY <1>5, <1>10, <1>15, <1>16, <1>17 DEF upserts

(* What a stop can leave of the log: a prefix no shorter than what was     *)
(* acked, the whole of it unless records wait for their fsync.             *)
LEMMA SurvivingPrefix ==
  ASSUME IInv, NEW log \in SurvivingLogs
  PROVE  \E k \in Done .. Len(Log) :
           /\ log = SubSeq(Log, 1, k)
           /\ (up /\ task.at = "flush") \/ k = Len(Log)
<1>1. Log \in Seq(LogRecords) /\ Len(Log) \in Nat /\ Done \in 0 .. Len(Log)
  BY LogType
<1>2. ActiveLog = Log /\ SubSeq(Log, 1, Len(Log)) = Log
  <2>1. PICK whole : whole = Log
    OBVIOUS
  <2>2. Valid(whole) = whole /\ SubSeq(whole, 1, Len(whole)) = whole
    BY <1>1, <2>1, ValidLog, SubSeqFull
  <2>3. Checkpointed.generation \in DOMAIN wal
    BY DEF IInv, LogInv
  <2>4. QED
    BY <2>1, <2>2, <2>3 DEF ActiveLog, Log
<1>3. CASE up /\ generation = Checkpointed.generation
  <2>1. wal[generation] = Log
    BY <1>3 DEF Log
  <2>2. PICK k \in synced .. Len(Log) : log = Valid(SubSeq(Log, 1, k))
    BY <1>3, <2>1 DEF SurvivingLogs
  <2>3. IF task.at = "flush" THEN synced \in Done .. Len(Log) ELSE synced = Len(Log)
    BY <1>3, <2>1 DEF IInv, LogInv
  <2>4. k \in Done .. Len(Log) /\ k \in 0 .. Len(Log)
    BY <1>1, <2>3
  <2>5. task.at # "flush" => k = Len(Log)
    BY <1>1, <2>3
  <2>6. SubSeq(Log, 1, k) \in Seq(LogRecords)
    <3>1. PICK whole : whole = Log
      OBVIOUS
    <3>2. SubSeq(whole, 1, k) \in Seq(LogRecords)
      BY <1>1, <2>4, <3>1, PrefixOfLog
    <3>3. QED
      BY <3>1, <3>2
  <2>7. Valid(SubSeq(Log, 1, k)) = SubSeq(Log, 1, k)
    <3>1. PICK part : part = SubSeq(Log, 1, k)
      OBVIOUS
    <3>2. Valid(part) = part
      BY <2>6, <3>1, ValidLog
    <3>3. QED
      BY <3>1, <3>2
  <2>8. QED
    BY <1>3, <2>2, <2>4, <2>5, <2>7
<1>4. CASE ~(up /\ generation = Checkpointed.generation)
  <2>1. log = SubSeq(Log, 1, Len(Log)) /\ Len(Log) \in Done .. Len(Log)
    BY <1>1, <1>2, <1>4 DEF SurvivingLogs
  <2>2. QED
    BY <2>1
<1>5. QED
  BY <1>3, <1>4

LEMMA CrashStep ==
  ASSUME IInv, Crash
  PROVE  IInv'
<1>1. PICK k \in synced .. Len(wal[generation]) :
        wal' = [wal EXCEPT ![generation] = SubSeq(@, 1, k)] /\ synced' = k
  BY DEF Crash
<1>2. /\ up /\ up' = FALSE /\ mem' = EmptyCollection /\ generation' = 0
      /\ persisted' = {} /\ task' = Idle
      /\ UNCHANGED <<head, versions, segFiles>>
  BY DEF Crash
<1>3. /\ generation \in Nat /\ generation \in DOMAIN wal /\ synced \in Nat
      /\ wal \in [DOMAIN wal -> Seq(LogRecords)] /\ DOMAIN wal \subseteq Nat
      /\ Checkpointed.generation \in DOMAIN wal
      /\ generation <= Checkpointed.generation
  BY <1>2 DEF IInv, Shapes, LogInv
<1>4. wal[generation] \in Seq(LogRecords) /\ Len(wal[generation]) \in Nat
  BY <1>3
<1>5. k \in Nat /\ k \in 0 .. Len(wal[generation])
  BY <1>3, <1>4
<1>6. /\ SubSeq(wal[generation], 1, k) \in Seq(LogRecords)
      /\ Len(SubSeq(wal[generation], 1, k)) = k
      /\ \A i \in 1 .. k : SubSeq(wal[generation], 1, k)[i] = wal[generation][i]
  <2>1. PICK log : log = wal[generation]
    OBVIOUS
  <2>2. /\ SubSeq(log, 1, k) \in Seq(LogRecords)
        /\ Len(SubSeq(log, 1, k)) = k
        /\ \A i \in 1 .. k : SubSeq(log, 1, k)[i] = log[i]
    BY <1>4, <1>5, <2>1, PrefixOfLog
  <2>3. QED
    BY <2>1, <2>2
<1>7. /\ DOMAIN wal' = DOMAIN wal
      /\ wal'[generation] = SubSeq(wal[generation], 1, k)
      /\ \A g \in DOMAIN wal \ {generation} : wal'[g] = wal[g]
      /\ wal' \in [DOMAIN wal' -> Seq(LogRecords)]
  BY <1>1, <1>3, <1>6
<1>8. /\ Checkpointed' = Checkpointed /\ Base' = Base /\ LoadedSegments' = LoadedSegments
  BY <1>2 DEF Checkpointed, Base, LoadedSegments, StoredStore
<1>9. Log \in Seq(LogRecords) /\ Len(Log) \in Nat /\ Done \in 0 .. Len(Log)
  BY LogType
<1>10. /\ Len(Log') \in Nat /\ Done <= Len(Log')
       /\ \A i \in 1 .. Done : Log'[i] = Log[i]
  <2>1. CASE generation = Checkpointed.generation
    <3>1. Log = wal[generation] /\ Log' = SubSeq(wal[generation], 1, k)
      BY <1>7, <1>8, <2>1 DEF Log
    <3>2. Done <= k
      <4>1. CASE task.at = "flush"
        BY <1>2, <1>9, <3>1, <4>1 DEF IInv, LogInv
      <4>2. CASE task.at # "flush"
        BY <1>2, <1>9, <3>1, <4>2 DEF IInv, LogInv
      <4>3. QED
        BY <4>1, <4>2
    <3>3. QED
      BY <1>5, <1>6, <1>9, <3>1, <3>2
  <2>2. CASE generation # Checkpointed.generation
    <3>1. Log' = Log
      BY <1>3, <1>7, <1>8, <2>2 DEF Log
    <3>2. QED
      BY <1>9, <3>1
  <2>3. QED
    BY <2>1, <2>2
<1>11. Done' = Len(Log')
  BY <1>2 DEF Done
<1>12. Written \subseteq Written'
  <2>1. UpsertedUpTo(Log, Done) \subseteq UpsertedUpTo(Log', Done')
    <3>1. 1 .. Done \subseteq 1 .. Done'
      BY <1>9, <1>10, <1>11
    <3>2. QED
      BY <1>10, <3>1 DEF UpsertedUpTo
  <2>2. QED
    BY <1>8, <2>1 DEF Written
<1>13. Shapes'
  <2>1. CollectionShape(EmptyCollection)
    BY DEF CollectionShape, EmptyCollection, StoreShape, EmptyStore
  <2>2. QED
    BY <1>1, <1>2, <1>5, <1>7, <2>1 DEF IInv, Shapes
<1>14. LogInv'
  <2>1. ASSUME NEW g \in DOMAIN wal, g > Checkpointed.generation
        PROVE  wal'[g] = <<>>
    <3>1. g # generation
      BY <1>3, <2>1
    <3>2. QED
      BY <1>7, <2>1, <3>1 DEF IInv, LogInv
  <2>2. QED
    BY <1>2, <1>3, <1>7, <1>8, <2>1 DEF LogInv
<1>15. BatchInv' /\ TaskInv' /\ DataInv'
  BY <1>2 DEF BatchInv, TaskInv, DataInv
<1>16. FilesInv'
  BY <1>2, <1>8 DEF IInv, FilesInv
<1>17. IdsInv'
  BY <1>2, <1>8, <1>12 DEF IInv, IdsInv
<1>18. QED
  BY <1>13, <1>14, <1>15, <1>16, <1>17 DEF IInv

LEMMA OpenStep ==
  ASSUME IInv, Open
  PROVE  IInv'
<1>1. /\ ~up /\ up' /\ up' = TRUE /\ mem' = Recover(ActiveLog)
      /\ generation' = Checkpointed.generation /\ persisted' = LoadedSegments
      /\ wal' = [g \in DOMAIN wal \cup {generation'} |->
                   IF g = generation' THEN ActiveLog ELSE wal[g]]
      /\ synced' = Len(ActiveLog)
      /\ UNCHANGED <<task, head, versions, segFiles>>
  BY DEF Open
<1>2. /\ Log \in Seq(LogRecords) /\ Len(Log) \in Nat
      /\ Done = Len(Log) /\ task = Idle /\ Checkpointed.generation \in DOMAIN wal
      /\ wal \in [DOMAIN wal -> Seq(LogRecords)] /\ DOMAIN wal \subseteq Nat
  BY <1>1, LogType DEF IInv, LogInv, Done, Shapes
<1>3. ActiveLog = Log /\ SubSeq(Log, 1, Len(Log)) = Log
  <2>1. PICK whole : whole = Log
    OBVIOUS
  <2>2. Valid(whole) = whole /\ SubSeq(whole, 1, Len(whole)) = whole
    BY <1>2, <2>1, ValidLog, SubSeqFull
  <2>3. QED
    BY <1>2, <2>1, <2>2 DEF ActiveLog, Log
<1>4. /\ Checkpointed' = Checkpointed /\ Base' = Base /\ LoadedSegments' = LoadedSegments
  BY <1>1 DEF Checkpointed, Base, LoadedSegments, StoredStore
<1>5. wal' = wal
  BY <1>1, <1>2, <1>3 DEF Log
<1>6. Log' = Log
  BY <1>4, <1>5 DEF Log
<1>7. Done' = Len(Log) /\ Done' = Done /\ Written' = Written
  BY <1>1, <1>2, <1>4, <1>6 DEF Done, InFlight, Idle, Written
<1>8. PICK n \in 0 .. Len(Log) : n = Len(Log)
  BY <1>2
<1>9. /\ CollectionShape(mem') /\ RegistryOK(mem')
      /\ mem'.app = UpsertedUpTo(Log, n) /\ WorkingRows(mem') = Base
      /\ mem'.dels = Checkpointed.dels \cup TombstonedUpTo(Base, Log, n)
      /\ mem'.payloads = Checkpointed.payloads \cup UpsertedUpTo(Log, n)
      /\ mem'.segments = [i \in LoadedSegments |-> segFiles[i]]
      /\ mem'.nextSeg = Checkpointed.nextSeg
      /\ Checkpointed.nextId <= mem'.nextId
      /\ \A id \in UpsertedUpTo(Log, n) : id < mem'.nextId
  <2>1. PICK r : r = Recover(SubSeq(Log, 1, n))
    OBVIOUS
  <2>2. mem' = r
    BY <1>1, <1>3, <1>8, <2>1
  <2>3. QED
    BY <2>1, <2>2, Recovered
<1>10. Shapes'
  BY <1>1, <1>2, <1>3, <1>5, <1>9 DEF IInv, Shapes
<1>11. LogInv'
  BY <1>1, <1>2, <1>3, <1>4, <1>5 DEF IInv, LogInv, Idle, Log
<1>12. BatchInv' /\ TaskInv'
  BY <1>1, <1>2 DEF BatchInv, TaskInv, InFlight, Idle
<1>13. FilesInv'
  <2>1. LoadedSegments \subseteq DOMAIN segFiles /\ Checkpointed.working \subseteq LoadedSegments
    BY DEF IInv, FilesInv, LoadedSegments
  <2>2. Checkpointed.nextSeg <= mem'.nextSeg
    BY <1>9, CheckpointType DEF Heads
  <2>3. \A i \in Checkpointed.working : i \in DOMAIN mem'.segments /\ Stored(i)'
    BY <1>1, <1>9, <2>1 DEF Stored
  <2>4. QED
    BY <1>1, <1>4, <1>9, <2>1, <2>2, <2>3 DEF IInv, FilesInv
<1>14. DataInv'
  BY <1>4, <1>6, <1>7, <1>8, <1>9 DEF DataInv
<1>15. IdsInv'
  <2>1. \A i \in DOMAIN mem'.segments : mem'.segments[i] \subseteq Written
    BY <1>9 DEF IInv, IdsInv, FilesInv
  <2>2. Written \subseteq mem'.payloads
    BY <1>2, <1>8, <1>9 DEF Written
  <2>3. QED
    BY <1>1, <1>4, <1>6, <1>7, <1>8, <1>9, <2>1, <2>2 DEF IInv, IdsInv
<1>16. QED
  BY <1>10, <1>11, <1>12, <1>13, <1>14, <1>15 DEF IInv

-----------------------------------------------------------------------------
(***************************************************************************)
(* Theorems.                                                               *)
(***************************************************************************)
LEMMA InitIInv ==
  ASSUME Init
  PROVE  IInv
<1> USE DEF Init, Idle
<1>1. /\ mem = EmptyCollection /\ CollectionShape(mem)
      /\ mem.app = {} /\ WorkingRows(mem) = {} /\ mem.dels = {} /\ mem.segments = [i \in {} |-> {}]
      /\ DOMAIN mem.segments = {} /\ mem.working = {} /\ SegmentIdsToPersist(mem) = {}
      /\ mem.nextId = 0 /\ mem.nextSeg = 0 /\ mem.payloads = {}
  BY DEF EmptyCollection, CollectionShape, StoreShape, EmptyStore, WorkingRows,
         SegmentIdsToPersist, WorkingIds, AllReferenced, Versions
<1>2. /\ Checkpointed = NoCheckpoint /\ Log = <<>> /\ Done = 0
      /\ LoadedSegments = {} /\ Base = {}
  BY DEF Checkpointed, NoCheckpoint, Log, Done, InFlight, LoadedSegments, StoredStore,
         AllReferenced, Versions, EmptyStore, Base
<1>3. /\ UpsertedUpTo(Log, 0) = {}
      /\ \A base : TombstonedUpTo(base, Log, 0) = {}
  BY DEF UpsertedUpTo, TombstonedUpTo
<1>4. Written = {}
  BY <1>2, <1>3 DEF Written, NoCheckpoint
<1>5. Shapes
  BY <1>1 DEF Shapes
<1>6. LogInv
  BY <1>2 DEF LogInv, NoCheckpoint
<1>7. BatchInv /\ TaskInv
  BY <1>1 DEF BatchInv, TaskInv, InFlight
<1>8. FilesInv
  BY <1>1, <1>2 DEF FilesInv, RegistryOK, NoCheckpoint
<1>9. DataInv
  BY <1>1, <1>2, <1>3 DEF DataInv, NoCheckpoint
<1>10. IdsInv
  BY <1>1, <1>2, <1>3, <1>4 DEF IdsInv, NoCheckpoint
<1>11. QED
  BY <1>5, <1>6, <1>7, <1>8, <1>9, <1>10 DEF IInv

LEMMA NextIInv ==
  ASSUME KeepsHistory, IInv, [Next]_vars
  PROVE  IInv'
<1>1. CASE UNCHANGED vars
  <2>1. UNCHANGED <<up, mem, generation, persisted, task, wal, synced, head, versions,
                    segFiles>>
    BY <1>1 DEF vars, disk
  <2>2. /\ Checkpointed' = Checkpointed /\ Log' = Log /\ Base' = Base
        /\ LoadedSegments' = LoadedSegments
    BY <2>1, SameDisk
  <2>3. Done' = Done /\ Written' = Written
    BY <2>1, <2>2 DEF Done, Written, InFlight
  <2>4. Shapes' /\ LogInv' /\ BatchInv'
    BY <2>1, <2>2, <2>3 DEF IInv, Shapes, LogInv, BatchInv, InFlight
  <2>5. FilesInv' /\ TaskInv'
    BY <2>1, <2>2 DEF IInv, FilesInv, TaskInv, Stored
  <2>6. DataInv' /\ IdsInv'
    BY <2>1, <2>2, <2>3 DEF IInv, DataInv, IdsInv
  <2>7. QED
    BY <2>4, <2>5, <2>6 DEF IInv
<1>2. ASSUME NEW n \in 0 .. MaxBatch, NEW deletes \in DeleteLists, NEW commit \in BOOLEAN,
             WriteBatch(n, deletes, commit)
      PROVE  IInv'
  <2>1. n \in Nat
    BY BoundsAssumption
  <2>2. QED
    BY <1>2, <2>1, WriteBatchStep
<1>3. ASSUME NEW id \in Ids, DeletePoint(id)
      PROVE  IInv'
  BY <1>3, DeletePointStep
<1>4. CASE Flush
  BY <1>4, FlushStep
<1>5. CASE Apply
  BY <1>5, ApplyStep
<1>6. ASSUME NEW tag \in TagNames \cup {None}, CallCommit(tag)
      PROVE  IInv'
  BY <1>6, CallCommitStep
<1>7. CASE Commit
  BY <1>7, CommitStep
<1>8. ASSUME NEW v, Restore(v)
      PROVE  IInv'
  BY <1>8 DEF Restore, Ready, KeepsHistory
<1>9. ASSUME NEW name, NEW v, CreateTag(name, v) \/ CreateBranch(name, v)
      PROVE  IInv'
  BY <1>9, PointerStep DEF CreateTag, CreateBranch
<1>10. CASE PersistSegment
  BY <1>10, PersistSegmentStep
<1>11. CASE PersistVersions
  BY <1>11, PersistVersionsStep
<1>12. CASE Checkpoint
  BY <1>12, CheckpointStep
<1>13. CASE Compact
  BY <1>13, CompactStep
<1>14. CASE CheckpointSegment
  BY <1>14, CheckpointSegmentStep
<1>15. CASE CheckpointLog
  BY <1>15, CheckpointLogStep
<1>16. CASE SwapHead
  BY <1>16, SwapHeadStep
<1>17. CASE RetireLog
  BY <1>17, RetireLogStep
<1>18. ASSUME NEW rules, Gc(rules)
       PROVE  IInv'
  BY <1>18 DEF Gc, Ready, KeepsHistory
<1>19. CASE RemoveSegment \/ GcPersist
  BY <1>19 DEF RemoveSegment, GcPersist, IInv, TaskInv
<1>20. CASE Read
  BY <1>1, <1>20 DEF Read
<1>21. CASE Crash
  BY <1>21, CrashStep
<1>22. CASE Open
  BY <1>22, OpenStep
<1>23. QED
  BY <1>1, <1>2, <1>3, <1>4, <1>5, <1>6, <1>7, <1>8, <1>9, <1>10, <1>11, <1>12, <1>13,
     <1>14, <1>15, <1>16, <1>17, <1>18, <1>19, <1>20, <1>21, <1>22 DEF Next

(* Whatever calls are made, wherever the machine stops: the directory and  *)
(* the collection in memory tell the same story, file by file and record   *)
(* by record.                                                              *)
THEOREM DurableInvariant ==
  ASSUME KeepsHistory
  PROVE  Spec => []IInv
<1>1. Init => IInv
  BY InitIInv
<1>2. IInv /\ [Next]_vars => IInv'
  BY NextIInv
<1>3. QED
  BY <1>1, <1>2, PTL DEF Spec

(* Memory holds rows that were written, and tombstones over them only.     *)
LEMMA MemoryWritten ==
  ASSUME IInv, up
  PROVE  mem.app \cup WorkingRows(mem) \cup mem.dels \subseteq Written
<1>1. Base \subseteq Written
  BY DEF Base, IInv, IdsInv, FilesInv, LoadedSegments
<1>2. TombstonedUpTo(Base, Log, Done) \subseteq Base \cup UpsertedUpTo(Log, Done)
  <2>1. Done \in Nat
    BY LogType
  <2>2. QED
    BY <2>1, TombstonedWritten
<1>3. QED
  BY <1>1, <1>2 DEF IInv, DataInv, IdsInv, Written

(* What was written is recovered, from any log a stop can leave.           *)
LEMMA WrittenRecovered ==
  ASSUME IInv, NEW log \in SurvivingLogs, NEW r, r = Recover(log)
  PROVE  /\ Written \subseteq r.payloads
         /\ \A id \in Written : id < r.nextId
<1>1. PICK k \in Done .. Len(Log) : log = SubSeq(Log, 1, k)
  BY SurvivingPrefix
<1>2. k \in 0 .. Len(Log) /\ Len(Log) \in Nat /\ Done \in 0 .. Len(Log)
  BY LogType
<1>3. /\ CollectionShape(r)
      /\ r.payloads = Checkpointed.payloads \cup UpsertedUpTo(Log, k)
      /\ Checkpointed.nextId <= r.nextId
      /\ \A id \in UpsertedUpTo(Log, k) : id < r.nextId
  BY <1>1, <1>2, Recovered
<1>4. UpsertedUpTo(Log, Done) \subseteq UpsertedUpTo(Log, k)
  <2>1. 1 .. Done \subseteq 1 .. k
    BY <1>2
  <2>2. QED
    BY <2>1 DEF UpsertedUpTo
<1>5. Written \subseteq r.payloads
  BY <1>3, <1>4 DEF Written
<1>6. ASSUME NEW id \in Written
      PROVE  id < r.nextId
  <2>1. /\ r.nextId \in Nat /\ Checkpointed.nextId \in Nat
        /\ Checkpointed.payloads \subseteq Nat
    BY <1>3, CheckpointType DEF CollectionShape, Heads
  <2>2. CASE id \in Checkpointed.payloads /\ id < Checkpointed.nextId
    BY <1>3, <2>1, <2>2
  <2>3. CASE id \in UpsertedUpTo(Log, Done)
    BY <1>3, <1>4, <2>3
  <2>4. QED
    BY <2>2, <2>3 DEF Written
<1>7. QED
  BY <1>5, <1>6

(* The live points recovery finds with k records left in the log.          *)
LEMMA LiveRecovered ==
  ASSUME IInv, NEW k \in 0 .. Len(Log)
  PROVE  Live(Recover(SubSeq(Log, 1, k)))
           = (Base \cup UpsertedUpTo(Log, k))
               \ (Checkpointed.dels \cup TombstonedUpTo(Base, Log, k))
<1>1. PICK r : r = Recover(SubSeq(Log, 1, k))
  OBVIOUS
<1>2. /\ r.app = UpsertedUpTo(Log, k) /\ WorkingRows(r) = Base
      /\ r.dels = Checkpointed.dels \cup TombstonedUpTo(Base, Log, k)
  BY <1>1, Recovered
<1>3. QED
  BY <1>1, <1>2 DEF Live

(* "Any acked write survives a crash" (durable.rs), in the middle of a     *)
(* commit, a checkpoint or a compaction as well.                           *)
THEOREM AckedWritesSurvive ==
  ASSUME KeepsHistory
  PROVE  Spec => []AckedSurvives
<1>1. IInv => AckedSurvives
  <2> SUFFICES ASSUME IInv, up, ~InFlight, NEW log \in SurvivingLogs
               PROVE  Live(Recover(log)) = Live(mem)
    BY DEF AckedSurvives
  <2>1. PICK k \in Done .. Len(Log) : log = SubSeq(Log, 1, k) /\ k = Len(Log)
    BY SurvivingPrefix DEF InFlight
  <2>2. Done = Len(Log)
    BY DEF Done
  <2>3. k \in 0 .. Len(Log) /\ k = Done
    BY <2>1, <2>2, LogType
  <2>4. Live(Recover(log)) = (Base \cup UpsertedUpTo(Log, Done))
                               \ (Checkpointed.dels \cup TombstonedUpTo(Base, Log, Done))
    BY <2>1, <2>3, LiveRecovered
  <2>5. QED
    BY <2>4 DEF IInv, DataInv, Live
<1>2. QED
  BY <1>1, DurableInvariant, PTL

(* open() finds every segment file HEAD and the versions file name, after  *)
(* any sequence of calls and stops: each is written before it is named.    *)
THEOREM OpenFindsItsFiles ==
  ASSUME KeepsHistory
  PROVE  Spec => []CanAlwaysOpen
<1>1. IInv => CanAlwaysOpen
  BY DEF IInv, FilesInv, CanAlwaysOpen, OpenSucceeds
<1>2. QED
  BY <1>1, DurableInvariant, PTL

(* An id that some row, tombstone or file still uses is never allocated    *)
(* again, by this process or by the one after the next stop.               *)
THEOREM IdsStayUnique ==
  ASSUME KeepsHistory
  PROVE  Spec => []IdsNeverReused
<1>1. IInv => IdsNeverReused
  <2> SUFFICES ASSUME IInv PROVE IdsNeverReused
    OBVIOUS
  <2>1. UsedIds \subseteq Written
    <3>1. UNION {segFiles[i] : i \in DOMAIN segFiles} \subseteq Written
      BY DEF IInv, IdsInv
    <3>2. CASE up
      BY <3>1, <3>2, MemoryWritten DEF UsedIds
    <3>3. CASE ~up
      <4>1. mem.app = {} /\ mem.dels = {} /\ WorkingRows(mem) = {}
        BY <3>3 DEF IInv, LogInv, EmptyCollection, WorkingRows
      <4>2. QED
        BY <3>1, <4>1 DEF UsedIds
    <3>4. QED
      BY <3>2, <3>3
  <2>2. up => \A id \in UsedIds : id < mem.nextId
    BY <2>1, WrittenBelow
  <2>3. ASSUME NEW log \in SurvivingLogs, NEW id \in UsedIds
        PROVE  id < Recover(log).nextId
    BY <2>1, WrittenRecovered
  <2>4. QED
    BY <2>2, <2>3 DEF IdsNeverReused
<1>2. QED
  BY <1>1, DurableInvariant, PTL

(* Payloads are kept beside the segments, in HEAD and in the log; recovery *)
(* finds one for every row it loads.                                       *)
THEOREM PayloadsSurvive ==
  ASSUME KeepsHistory
  PROVE  Spec => []PayloadsRecovered
<1>1. IInv => PayloadsRecovered
  <2> SUFFICES ASSUME IInv, NEW log \in SurvivingLogs, NEW m, m = Recover(log)
               PROVE  m.app \cup UNION {m.segments[i] : i \in DOMAIN m.segments}
                        \subseteq m.payloads
    BY DEF PayloadsRecovered
  <2>1. PICK k \in Done .. Len(Log) : log = SubSeq(Log, 1, k)
    BY SurvivingPrefix
  <2>2. k \in 0 .. Len(Log)
    BY LogType
  <2>3. /\ m.app = UpsertedUpTo(Log, k)
        /\ m.payloads = Checkpointed.payloads \cup UpsertedUpTo(Log, k)
        /\ m.segments = [i \in LoadedSegments |-> segFiles[i]]
    BY <2>1, <2>2, Recovered
  <2>4. \A i \in LoadedSegments : segFiles[i] \subseteq Written
    BY DEF IInv, IdsInv, FilesInv
  <2>5. Written \subseteq m.payloads
    BY WrittenRecovered
  <2>6. QED
    BY <2>3, <2>4, <2>5
<1>2. QED
  BY <1>1, DurableInvariant, PTL

(* search_at and restore skip segment ids they do not know; there is none  *)
(* to skip.                                                                *)
THEOREM NamedSegmentsRegistered ==
  ASSUME KeepsHistory
  PROVE  Spec => []ReferencedRegistered
<1>1. IInv => ReferencedRegistered
  <2>1. ASSUME IInv, up PROVE ReferencedRegistered
    BY <2>1 DEF IInv, FilesInv, RegistryOK, ReferencedRegistered
  <2>2. ASSUME IInv, ~up PROVE ReferencedRegistered
    BY <2>2 DEF IInv, LogInv, EmptyCollection, ReferencedRegistered, SegmentIdsToPersist,
                WorkingIds, AllReferenced, Versions, EmptyStore
  <2>3. QED
    BY <2>1, <2>2
<1>2. QED
  BY <1>1, DurableInvariant, PTL

-----------------------------------------------------------------------------
(***************************************************************************)
(* The collection with its log implements AckedStore.                      *)
(***************************************************************************)

(* The batch is what it would do to the points, record by record: what j   *)
(* of its records leave after a stop is their outcome.                     *)
LEMMA OutcomeOfPart ==
  ASSUME IInv, up, InFlight, NEW j \in 0 .. Len(task.batch)
  PROVE  /\ Done + j \in 0 .. Len(Log)
         /\ Live(Recover(SubSeq(Log, 1, Done + j)))
              = Acked!Outcome(Live(mem), SubSeq(task.batch, 1, j))
<1>1. PICK upserts : upserts = Upserted(SubSeq(task.batch, 1, j))
  OBVIOUS
<1>2. PICK deletes : deletes = Deleted(SubSeq(task.batch, 1, j))
  OBVIOUS
<1>3. PICK base : base = Base
  OBVIOUS
<1>4. /\ Done \in Nat /\ Done + Len(task.batch) = Len(Log)
      /\ UpsertedUpTo(Log, Done + j) = UpsertedUpTo(Log, Done) \cup upserts
      /\ TombstonedUpTo(base, Log, Done + j)
           = TombstonedUpTo(base, Log, Done)
               \cup (deletes \cap (base \cup UpsertedUpTo(Log, Done)))
  BY <1>1, <1>2, BatchApplied
<1>5. task.batch \in Seq(LogRecords) /\ Len(task.batch) \in Nat
  BY DEF IInv, BatchInv
<1>6. Done + j \in 0 .. Len(Log)
  BY <1>4, <1>5
<1>7. Live(Recover(SubSeq(Log, 1, Done + j)))
        = (Base \cup UpsertedUpTo(Log, Done + j))
            \ (Checkpointed.dels \cup TombstonedUpTo(Base, Log, Done + j))
  <2>1. PICK k \in 0 .. Len(Log) : k = Done + j
    BY <1>6
  <2>2. Live(Recover(SubSeq(Log, 1, k)))
        = (Base \cup UpsertedUpTo(Log, k))
            \ (Checkpointed.dels \cup TombstonedUpTo(Base, Log, k))
    BY LiveRecovered
  <2>3. QED
    BY <2>1, <2>2
<1>8. upserts \cap Written = {}
  <2>1. /\ DOMAIN SubSeq(task.batch, 1, j) = 1 .. j
        /\ \A i \in 1 .. j : SubSeq(task.batch, 1, j)[i] = task.batch[i]
    <3>1. PICK batch : batch = task.batch
      OBVIOUS
    <3>2. batch \in Seq(LogRecords) /\ j \in 0 .. Len(batch) /\ j \in Nat
      BY <1>5, <3>1
    <3>3. /\ SubSeq(batch, 1, j) \in Seq(LogRecords)
          /\ Len(SubSeq(batch, 1, j)) = j
          /\ \A i \in 1 .. j : SubSeq(batch, 1, j)[i] = batch[i]
      BY <3>2, PrefixOfLog
    <3>4. QED
      BY <3>1, <3>2, <3>3
  <2>2. \A i \in 1 .. j : task.batch[i].op = "upsert" => task.batch[i].id \notin Written
    BY <1>5 DEF IInv, BatchInv
  <2>3. QED
    BY <1>1, <2>1, <2>2 DEF Upserted, IdsOf
<1>9. /\ mem.app \cup WorkingRows(mem) = Base \cup UpsertedUpTo(Log, Done)
      /\ mem.dels = Checkpointed.dels \cup TombstonedUpTo(Base, Log, Done)
      /\ mem.app \cup WorkingRows(mem) \subseteq Written /\ mem.dels \subseteq Written
  BY MemoryWritten DEF IInv, DataInv
<1>10. Acked!Outcome(Live(mem), SubSeq(task.batch, 1, j)) = (Live(mem) \ deletes) \cup upserts
  BY <1>1, <1>2 DEF Acked!Outcome, Acked!IdsOf, Upserted, Deleted, IdsOf
<1>11. (Base \cup UpsertedUpTo(Log, Done + j))
          \ (Checkpointed.dels \cup TombstonedUpTo(Base, Log, Done + j))
         = (Live(mem) \ deletes) \cup upserts
  BY <1>3, <1>4, <1>8, <1>9 DEF Live
<1>12. QED
  BY <1>6, <1>7, <1>10, <1>11

(* Rearranging the collection does not show.                               *)
LEMMA RearrangedLive ==
  ASSUME NEW m, NEW r, Rearranged(m, r)
  PROVE  Live(r) = Live(m)
BY DEF Rearranged, Live

(* Steps that change neither what is live nor the batch in flight.         *)
LEMMA Unseen ==
  ASSUME up, up', Live(mem') = Live(mem), ~InFlight, ~InFlight'
  PROVE  UNCHANGED Acked!vars
<1>1. Content' = Content
  BY DEF Content
<1>2. Pending = <<>> /\ Pending' = <<>>
  BY DEF Pending
<1>3. (up /\ task.at = "apply") = FALSE /\ (up /\ task.at = "apply")' = FALSE
  BY DEF InFlight
<1>4. QED
  BY <1>1, <1>2, <1>3 DEF Acked!vars

LEMMA RefinedInit ==
  ASSUME Init
  PROVE  Acked!Init
<1>1. Content = {}
  BY DEF Init, Content, Live, EmptyCollection, WorkingRows
<1>2. Pending = <<>> /\ (up /\ task.at = "apply") = FALSE
  BY DEF Init, Pending, InFlight, Idle
<1>3. QED
  BY <1>1, <1>2 DEF Acked!Init

(* A write logged is a write submitted.                                    *)
LEMMA RefinedLogBatch ==
  ASSUME IInv, IInv', Ready("write") \/ Ready("delete"),
         NEW n, NEW deletes, NEW commit, LogBatch(n, deletes, commit)
  PROVE  Acked!Submit
<1>1. up /\ task = Idle /\ up' /\ task'.at = "flush" /\ mem' = [mem EXCEPT !.nextId = @ + n]
  BY DEF Ready, LogBatch
<1>2. /\ mem'.app = mem.app /\ mem'.dels = mem.dels /\ WorkingRows(mem') = WorkingRows(mem)
  BY <1>1 DEF IInv, Shapes, CollectionShape, WorkingRows
<1>3. Content' = Content /\ Content = Live(mem)
  BY <1>1, <1>2 DEF Content, Live
<1>4. Pending = <<>> /\ Pending' = task'.batch
  BY <1>1 DEF Pending, InFlight, Idle
<1>5. task'.batch \in Seq(LogRecords) \ {<<>>}
  BY <1>1 DEF IInv, BatchInv, InFlight
<1>6. ASSUME NEW id \in IdsOf("upsert", task'.batch)
      PROVE  id \in Ids \ Content
  <2>1. PICK i \in DOMAIN task'.batch : task'.batch[i].op = "upsert" /\ task'.batch[i].id = id
    BY DEF IdsOf
  <2>2. PICK batch : batch = task'.batch
    OBVIOUS
  <2>3. /\ i \in 1 .. Len(batch) /\ batch[i] \in LogRecords
        /\ batch[i].op = "upsert" /\ batch[i].id = id
    BY <1>5, <2>1, <2>2
  <2>4. id \in Ids
    BY <2>3 DEF LogRecords
  <2>5. id \notin Written'
    BY <1>1, <2>2, <2>3 DEF IInv, BatchInv, InFlight
  <2>6. Content' \subseteq Written'
    <3>1. (IInv /\ up => mem.app \cup WorkingRows(mem) \cup mem.dels \subseteq Written)'
      BY MemoryWritten, PTL
    <3>2. QED
      BY <1>1, <3>1 DEF Content, Live
  <2>7. QED
    BY <1>3, <2>4, <2>5, <2>6
<1>7. (up /\ task.at = "apply") = FALSE /\ (up /\ task.at = "apply")' = FALSE
  BY <1>1 DEF Idle
<1>8. QED
  BY <1>3, <1>4, <1>5, <1>6, <1>7 DEF Acked!Submit, Acked!IdsOf, IdsOf

(* The fsync hardens it.                                                   *)
LEMMA RefinedFlush ==
  ASSUME IInv, Flush
  PROVE  Acked!Harden
<1>1. /\ up /\ up' /\ task.at = "flush" /\ mem' = mem
      /\ task' = [task EXCEPT !.at = "apply"]
  BY DEF Flush
<1>2. task' = [at |-> "apply", batch |-> task.batch, commit |-> task.commit]
  BY <1>1 DEF IInv, BatchInv, InFlight
<1>3. Pending = task.batch /\ Pending' = task.batch /\ task.batch # <<>>
  BY <1>1, <1>2 DEF Pending, InFlight, IInv, BatchInv
<1>4. Content' = Content
  BY <1>1 DEF Content
<1>5. (up /\ task.at = "apply")' = TRUE
  BY <1>1, <1>2
<1>6. QED
  BY <1>3, <1>4, <1>5 DEF Acked!Harden

(* Applying it to the collection is the moment it is acked.                *)
LEMMA RefinedApply ==
  ASSUME IInv, IInv', Apply
  PROVE  Acked!Ack
<1>1. /\ up /\ up' /\ task.at = "apply" /\ InFlight
      /\ task' = IF task.commit THEN [at |-> "commit", tag |-> None] ELSE Idle
      /\ UNCHANGED <<wal, head, versions, segFiles>>
  BY DEF Apply, disk, InFlight
<1>2. ~InFlight' /\ (up /\ task.at = "apply")' = FALSE
  BY <1>1 DEF InFlight, Idle
<1>3. /\ Checkpointed' = Checkpointed /\ Log' = Log /\ Base' = Base
  BY <1>1, SameDisk
<1>4. Done' = Len(Log)
  BY <1>2, <1>3 DEF Done
<1>5. Content' = (Base \cup UpsertedUpTo(Log, Len(Log)))
                   \ (Checkpointed.dels \cup TombstonedUpTo(Base, Log, Len(Log)))
  <2>1. Content' = Live(mem')
    BY <1>1 DEF Content
  <2>2. /\ mem'.app \cup WorkingRows(mem') = Base \cup UpsertedUpTo(Log, Len(Log))
        /\ mem'.dels = Checkpointed.dels \cup TombstonedUpTo(Base, Log, Len(Log))
    BY <1>1, <1>3, <1>4 DEF IInv, DataInv
  <2>3. QED
    BY <2>1, <2>2 DEF Live
<1>6. task.batch \in Seq(LogRecords) /\ Len(task.batch) \in Nat
  BY <1>1 DEF IInv, BatchInv
<1>7. PICK j \in 0 .. Len(task.batch) : j = Len(task.batch)
  BY <1>6
<1>8. Done + j = Len(Log) /\ SubSeq(task.batch, 1, j) = task.batch
  <2>1. Done + Len(task.batch) = Len(Log)
    BY <1>1, <1>6, LogType DEF Done
  <2>2. QED
    BY <1>6, <1>7, <2>1, SubSeqFull
<1>9. Live(Recover(SubSeq(Log, 1, Len(Log)))) = Acked!Outcome(Live(mem), task.batch)
  <2>1. Live(Recover(SubSeq(Log, 1, Done + j)))
          = Acked!Outcome(Live(mem), SubSeq(task.batch, 1, j))
    BY <1>1, OutcomeOfPart
  <2>2. QED
    BY <1>8, <2>1
<1>10. Content' = Acked!Outcome(Content, Pending)
  <2>1. PICK k \in 0 .. Len(Log) : k = Len(Log)
    BY LogType
  <2>2. Live(Recover(SubSeq(Log, 1, k)))
          = (Base \cup UpsertedUpTo(Log, k))
              \ (Checkpointed.dels \cup TombstonedUpTo(Base, Log, k))
    BY LiveRecovered
  <2>3. Content = Live(mem) /\ Pending = task.batch
    BY <1>1 DEF Content, Pending
  <2>4. QED
    BY <1>5, <1>9, <2>1, <2>2, <2>3
<1>11. (up /\ task.at = "apply") /\ Pending' = <<>>
  BY <1>1, <1>2 DEF Pending
<1>12. QED
  BY <1>2, <1>10, <1>11 DEF Acked!Ack

(* The log a stop leaves is one of those SurvivingLogs lists.              *)
LEMMA CrashLeaves ==
  ASSUME IInv, Crash
  PROVE  ActiveLog' \in SurvivingLogs /\ Recover(ActiveLog)' = Recover(ActiveLog')
<1>1. PICK k \in synced .. Len(wal[generation]) :
        wal' = [wal EXCEPT ![generation] = SubSeq(@, 1, k)]
  BY DEF Crash
<1>2. up /\ UNCHANGED <<head, versions, segFiles>>
  BY DEF Crash
<1>3. Checkpointed' = Checkpointed /\ StoredStore' = StoredStore
      /\ LoadedSegments' = LoadedSegments
  BY <1>2 DEF Checkpointed, StoredStore, LoadedSegments
<1>4. /\ generation \in DOMAIN wal /\ Checkpointed.generation \in DOMAIN wal
      /\ DOMAIN wal' = DOMAIN wal
      /\ wal'[generation] = SubSeq(wal[generation], 1, k)
      /\ \A g \in DOMAIN wal \ {generation} : wal'[g] = wal[g]
  BY <1>1, <1>2 DEF IInv, LogInv, Shapes
<1>5. Recover(ActiveLog)' = Recover(ActiveLog')
  BY <1>2, <1>3 DEF Recover
<1>6. ActiveLog' = Valid(wal'[Checkpointed.generation])
  BY <1>3, <1>4 DEF ActiveLog
<1>7. CASE generation = Checkpointed.generation
  <2>1. ActiveLog' = Valid(SubSeq(wal[generation], 1, k))
    BY <1>4, <1>6, <1>7
  <2>2. QED
    BY <1>2, <1>5, <1>7, <2>1 DEF SurvivingLogs
<1>8. CASE generation # Checkpointed.generation
  <2>1. ActiveLog' = ActiveLog
    BY <1>4, <1>6, <1>8 DEF ActiveLog
  <2>2. QED
    BY <1>5, <1>8, <2>1 DEF SurvivingLogs
<1>9. QED
  BY <1>7, <1>8

(* A stop keeps everything acked, and of the batch in flight some prefix,  *)
(* the whole of it once it was fsynced.                                    *)
LEMMA RefinedCrash ==
  ASSUME IInv, Crash
  PROVE  Acked!Crash
<1>1. up /\ up' = FALSE
  BY DEF Crash
<1>2. Content = Live(mem) /\ Content' = Live(Recover(ActiveLog'))
  BY <1>1, CrashLeaves DEF Content
<1>3. PICK k \in Done .. Len(Log) :
        /\ ActiveLog' = SubSeq(Log, 1, k)
        /\ task.at = "flush" \/ k = Len(Log)
  BY CrashLeaves, SurvivingPrefix
<1>4. Done \in 0 .. Len(Log) /\ Len(Log) \in Nat
  BY LogType
<1>5. Pending' = <<>> /\ (up /\ task.at = "apply")' = FALSE
  BY <1>1 DEF Pending
<1>6. CASE InFlight
  <2>1. task.batch \in Seq(LogRecords) /\ Len(task.batch) \in Nat
        /\ Done + Len(task.batch) = Len(Log)
    BY <1>1, <1>4, <1>6 DEF IInv, BatchInv, Done
  <2>2. PICK j \in 0 .. Len(task.batch) : k = Done + j
    <3>1. k - Done \in 0 .. Len(task.batch) /\ k = Done + (k - Done)
      BY <1>4, <2>1
    <3>2. QED
      BY <3>1
  <2>3. Content' = Acked!Outcome(Content, SubSeq(task.batch, 1, j))
    BY <1>1, <1>2, <1>3, <1>6, <2>2, OutcomeOfPart
  <2>4. Pending = task.batch
    BY <1>1, <1>6 DEF Pending
  <2>5. task.at = "apply" => j = Len(task.batch)
    BY <1>3, <1>4, <2>1, <2>2
  <2>6. j \in (IF up /\ task.at = "apply" THEN Len(Pending) ELSE 0) .. Len(Pending)
    BY <1>1, <2>1, <2>4, <2>5
  <2>7. QED
    BY <1>5, <2>3, <2>4, <2>6 DEF Acked!Crash
<1>7. CASE ~InFlight
  <2>1. Content' = Content
    <3>1. k = Done /\ k \in 0 .. Len(Log)
      BY <1>3, <1>4, <1>7 DEF Done, InFlight
    <3>2. Live(Recover(SubSeq(Log, 1, k)))
            = (Base \cup UpsertedUpTo(Log, k))
                \ (Checkpointed.dels \cup TombstonedUpTo(Base, Log, k))
      BY <3>1, LiveRecovered
    <3>3. QED
      BY <1>1, <1>2, <1>3, <3>1, <3>2 DEF Live, IInv, DataInv
  <2>2. Pending = <<>> /\ ~(up /\ task.at = "apply")
    BY <1>7 DEF Pending, InFlight
  <2>3. Content' = Acked!Outcome(Content, SubSeq(Pending, 1, 0))
    <3>1. SubSeq(<<>>, 1, 0) = <<>> /\ DOMAIN <<>> = {}
      OBVIOUS
    <3>2. QED
      BY <2>1, <2>2, <3>1 DEF Acked!Outcome, Acked!IdsOf
  <2>4. 0 \in (IF up /\ task.at = "apply" THEN Len(Pending) ELSE 0) .. Len(Pending)
    BY <2>2
  <2>5. QED
    BY <1>5, <2>3, <2>4 DEF Acked!Crash
<1>8. QED
  BY <1>6, <1>7

(* Everything else - commits, checkpoints, compactions, files written,     *)
(* reads, reopening - changes nothing a caller can see.                    *)
LEMMA RefinedStep ==
  ASSUME KeepsHistory, IInv, IInv', [Next]_vars
  PROVE  [Acked!Next]_Acked!vars
<1>1. CASE UNCHANGED vars
  <2>1. UNCHANGED <<up, mem, task, wal, head, versions, segFiles>>
    BY <1>1 DEF vars, disk
  <2>2. Content' = Content
    <3>1. Checkpointed' = Checkpointed /\ StoredStore' = StoredStore
          /\ LoadedSegments' = LoadedSegments
      BY <2>1 DEF Checkpointed, StoredStore, LoadedSegments
    <3>2. ActiveLog' = ActiveLog
      BY <2>1, <3>1 DEF ActiveLog
    <3>3. Recover(ActiveLog)' = Recover(ActiveLog)
      BY <2>1, <3>1, <3>2 DEF Recover
    <3>4. QED
      BY <2>1, <3>3 DEF Content
  <2>3. Pending' = Pending /\ (up /\ task.at = "apply")' = (up /\ task.at = "apply")
    BY <2>1 DEF Pending, InFlight
  <2>4. QED
    BY <2>2, <2>3 DEF Acked!vars
<1>2. ASSUME NEW n, NEW deletes, NEW commit, WriteBatch(n, deletes, commit)
      PROVE  Acked!Submit
  BY <1>2, RefinedLogBatch DEF WriteBatch
<1>3. ASSUME NEW id, DeletePoint(id)
      PROVE  Acked!Submit
  BY <1>3, RefinedLogBatch DEF DeletePoint
<1>4. CASE Flush
  BY <1>4, RefinedFlush DEF Acked!Next
<1>5. CASE Apply
  BY <1>5, RefinedApply DEF Acked!Next
<1>6. ASSUME NEW tag, CallCommit(tag)
      PROVE  UNCHANGED Acked!vars
  <2>1. up /\ up' /\ mem' = mem /\ ~InFlight /\ ~InFlight'
    BY <1>6 DEF CallCommit, Ready, InFlight, Idle
  <2>2. QED
    BY <2>1, Unseen
<1>7. CASE Commit
  <2>1. up /\ up' /\ ~InFlight /\ ~InFlight'
    BY <1>7 DEF Commit, Persist, InFlight
  <2>2. Rearranged(mem, mem')
    BY <1>7, <2>1, InMemory, CommitRearranges DEF Commit
  <2>3. QED
    BY <2>1, <2>2, RearrangedLive, Unseen
<1>8. ASSUME NEW v, Restore(v)
      PROVE  FALSE
  BY <1>8 DEF Restore, Ready, KeepsHistory
<1>9. ASSUME NEW name, NEW v, CreateTag(name, v) \/ CreateBranch(name, v)
      PROVE  UNCHANGED Acked!vars
  <2>1. up /\ up' /\ ~InFlight /\ ~InFlight'
    BY <1>9 DEF CreateTag, CreateBranch, Ready, Persist, InFlight, Idle
  <2>2. Live(mem') = Live(mem)
    <3>1. mem'.app = mem.app /\ mem'.working = mem.working /\ mem'.dels = mem.dels
      BY <1>9 DEF CreateTag, CreateBranch, IInv, Shapes, CollectionShape
    <3>2. QED
      BY <3>1 DEF Live, WorkingRows
  <2>3. QED
    BY <2>1, <2>2, Unseen
<1>10. CASE \/ PersistSegment \/ PersistVersions \/ CheckpointSegment \/ CheckpointLog
            \/ SwapHead \/ RetireLog
  <2>1. up /\ up' /\ mem' = mem /\ ~InFlight
    BY <1>10 DEF PersistSegment, PersistVersions, CheckpointSegment, CheckpointLog, SwapHead,
                 RetireLog, InFlight
  <2>2. ~InFlight'
    <3>1. CASE CheckpointSegment
      <4>1. task.at = "checkpoint" /\ task' = [task EXCEPT !.todo = @ \ {Min(@)}]
        BY <3>1 DEF CheckpointSegment
      <4>2. task'.at = "checkpoint"
        BY <2>1, <4>1 DEF IInv, TaskInv
      <4>3. QED
        BY <4>2 DEF InFlight
    <3>2. QED
      BY <1>10, <3>1 DEF PersistSegment, PersistVersions, CheckpointLog, SwapHead,
                         RetireLog, InFlight, Idle
  <2>3. QED
    BY <2>1, <2>2, Unseen
<1>11. CASE Checkpoint \/ Compact
  <2>1. PICK m : StartCheckpoint(m) /\ Rearranged(mem, m)
    <3>1. CollectionShape(mem) /\ RegistryOK(mem)
      BY <1>11, InMemory DEF Checkpoint, Compact, Ready
    <3>2. Rearranged(mem, mem) /\ Rearranged(mem, CompactWorking(mem))
      BY <3>1, CompactRearranges DEF Rearranged, CollectionShape
    <3>3. QED
      BY <1>11, <3>2 DEF Checkpoint, Compact
  <2>2. up /\ up' /\ ~InFlight /\ ~InFlight'
    BY <1>11, <2>1 DEF Checkpoint, Compact, Ready, StartCheckpoint, InFlight, Idle
  <2>3. Live(mem') = Live(mem)
    <3>1. CollectionShape(m) /\ RegistryOK(m)
      BY <2>1 DEF Rearranged
    <3>2. Rearranged(m, mem')
      BY <2>1, <3>1, SealRearranges DEF StartCheckpoint
    <3>3. QED
      BY <2>1, <3>2, RearrangedLive
  <2>4. QED
    BY <2>2, <2>3, Unseen
<1>12. ASSUME NEW rules, Gc(rules)
       PROVE  FALSE
  BY <1>12 DEF Gc, Ready, KeepsHistory
<1>13. CASE RemoveSegment \/ GcPersist
  BY <1>13 DEF RemoveSegment, GcPersist, IInv, TaskInv
<1>14. CASE Crash
  BY <1>14, RefinedCrash DEF Acked!Next
<1>15. CASE Open
  <2>1. /\ ~up /\ up' /\ mem' = Recover(ActiveLog) /\ task' = task /\ task = Idle
    BY <1>15 DEF Open, IInv, LogInv
  <2>2. Content' = Content
    BY <2>1 DEF Content
  <2>3. Pending' = Pending /\ (up /\ task.at = "apply")' = (up /\ task.at = "apply")
    BY <2>1 DEF Pending, InFlight, Idle
  <2>4. QED
    BY <2>2, <2>3 DEF Acked!vars
<1>16. CASE Read
  BY <1>1, <1>16 DEF Read
<1>17. QED
  BY <1>1, <1>2, <1>3, <1>4, <1>5, <1>6, <1>7, <1>8, <1>9, <1>10, <1>11, <1>12, <1>13,
     <1>14, <1>15, <1>16 DEF Next, Acked!Next

(* The collection with its log, checkpoints and compactions is a plain set *)
(* of points: a write changes it once it is acked, a stop only by a prefix *)
(* of the one write that was not.                                          *)
THEOREM DurableImplementsAckedStore ==
  ASSUME KeepsHistory
  PROVE  Spec => ImplementsAckedStore
<1>1. Init => Acked!Init
  BY RefinedInit
<1>2. IInv /\ IInv' /\ [Next]_vars => [Acked!Next]_Acked!vars
  BY RefinedStep
<1>3. Spec => []IInv
  BY DurableInvariant
<1>4. QED
  BY <1>1, <1>2, <1>3, PTL DEF Spec, ImplementsAckedStore, Acked!Spec
-----------------------------------------------------------------------------
(***************************************************************************)
(* Durable implements Timeline.                                            *)
(***************************************************************************)

KeepsRunning == "crash" \notin Operations

(***************************************************************************)
(* The inductive invariant, about memory alone.  Held are the ids that     *)
(* some row or tombstone, of the present or of a version, still has.       *)
(***************************************************************************)
Rows(m) ==
  m.app \cup WorkingRows(m) \cup m.dels
    \cup UNION {m.segments[i] : i \in DOMAIN m.segments}

Frozen(m) == UNION {m.vs.commits[v].deletions : v \in Versions(m.vs)}
Held(m)   == Rows(m) \cup Frozen(m)

(* HEAD is the newest version.                                             *)
HistoryShape(s) ==
  /\ s.next \in Nat
  /\ \A v \in Versions(s) : /\ v \in Nat /\ v < s.next
                            /\ s.head \in Versions(s) /\ v <= s.head

MemoryInv(m) ==
  /\ CollectionShape(m) /\ RegistryOK(m) /\ HistoryShape(m.vs)
  /\ \A i \in DOMAIN m.segments : i < m.nextSeg
  /\ \A id \in Held(m) : id \in Nat /\ id < m.nextId

(* The upserts in flight have ids that nothing holds.                      *)
FreshBatch ==
  /\ task = [at |-> task.at, batch |-> task.batch, commit |-> task.commit]
  /\ task.batch \in Seq(LogRecords)
  /\ \A id \in Upserted(task.batch) : id \in Ids \ Held(mem) /\ id < mem.nextId

TInv ==
  /\ up
  /\ MemoryInv(mem)
  /\ InFlight => FreshBatch
  /\ task.at \in {"checkpoint", "remove"} => task = [at |-> task.at, todo |-> task.todo]

(* What Timeline sees of a collection.                                     *)
History(m) == [v \in Versions(m.vs) |-> LiveAt(m, v)]

-----------------------------------------------------------------------------
(***************************************************************************)
(* What happens to the versions when the collection changes.               *)
(***************************************************************************)

(* A version reads the same as long as its segments stay registered.       *)
LEMMA SameVersion ==
  ASSUME NEW m, NEW r, NEW v, v \in Versions(m.vs),
         AllReferenced(m.vs) \subseteq DOMAIN m.segments,
         r.vs.commits[v] = m.vs.commits[v],
         \A i \in SegmentIds(m.vs.commits[v]) :
           i \in DOMAIN r.segments /\ r.segments[i] = m.segments[i]
  PROVE  LiveAt(r, v) = LiveAt(m, v)
<1> DEFINE ids == SegmentIds(m.vs.commits[v])
<1>1. ids \subseteq DOMAIN m.segments
  BY DEF AllReferenced
<1>2. ids \cap DOMAIN m.segments = ids /\ ids \cap DOMAIN r.segments = ids
  BY <1>1
<1> HIDE DEF ids
<1>3. {r.segments[i] : i \in ids} = {m.segments[i] : i \in ids}
  BY DEF ids
<1>4. QED
  BY <1>2, <1>3 DEF LiveAt, ids

(* What a version holds has been written.                                  *)
LEMMA VersionsHeld ==
  ASSUME NEW m, NEW v, v \in Versions(m.vs)
  PROVE  LiveAt(m, v) \subseteq Held(m)
BY DEF LiveAt, Held, Rows

(* Rows that only move stay in the versions they are in, and no id is used *)
(* anew.                                                                   *)
LEMMA RearrangedHistory ==
  ASSUME NEW m, MemoryInv(m), NEW r, Rearranged(m, r)
  PROVE  /\ CollectionShape(r) /\ RegistryOK(r)
         /\ \A i \in DOMAIN r.segments : i < r.nextSeg
         /\ Rows(r) \subseteq Rows(m) /\ r.nextId = m.nextId
         /\ Live(r) = Live(m)
         /\ \A v \in Versions(m.vs) :
              r.vs.commits[v] = m.vs.commits[v] => LiveAt(r, v) = LiveAt(m, v)
<1>1. /\ CollectionShape(r) /\ RegistryOK(r) /\ r.nextId = m.nextId /\ r.dels = m.dels
      /\ r.app \cup WorkingRows(r) = m.app \cup WorkingRows(m)
  BY DEF Rearranged
<1>2. ASSUME NEW i \in DOMAIN m.segments
      PROVE  i \in DOMAIN r.segments /\ r.segments[i] = m.segments[i]
  BY DEF Rearranged, MemoryInv
<1>3. ASSUME NEW i \in DOMAIN r.segments
      PROVE  i < r.nextSeg
  <2>1. i \in Nat /\ m.nextSeg \in Nat /\ r.nextSeg \in Nat /\ m.nextSeg <= r.nextSeg
    BY <1>1 DEF CollectionShape, MemoryInv, Rearranged
  <2>2. i \in DOMAIN m.segments => i < m.nextSeg
    BY DEF MemoryInv
  <2>3. i \in DOMAIN m.segments \/ i < r.nextSeg
    BY DEF Rearranged
  <2>4. QED
    BY <2>1, <2>2, <2>3
<1>4. UNION {r.segments[i] : i \in DOMAIN r.segments} \subseteq Rows(m)
  <2>1. ASSUME NEW i \in DOMAIN r.segments
        PROVE  r.segments[i] \subseteq Rows(m)
    BY DEF Rearranged, Rows
  <2>2. QED
    BY <2>1
<1>5. Rows(r) \subseteq Rows(m)
  BY <1>1, <1>4 DEF Rows
<1>6. Live(r) = Live(m)
  BY <1>1 DEF Live
<1>7. ASSUME NEW v \in Versions(m.vs), r.vs.commits[v] = m.vs.commits[v]
      PROVE  LiveAt(r, v) = LiveAt(m, v)
  <2>1. AllReferenced(m.vs) \subseteq DOMAIN m.segments
    BY DEF MemoryInv, RegistryOK, SegmentIdsToPersist
  <2>2. SegmentIds(m.vs.commits[v]) \subseteq DOMAIN m.segments
    BY <2>1 DEF AllReferenced
  <2>3. QED
    BY <1>2, <1>7, <2>1, <2>2, SameVersion
<1>8. QED
  BY <1>1, <1>3, <1>5, <1>6, <1>7

(* The same collection with the versions it had.                           *)
LEMMA SameStore ==
  ASSUME NEW m, MemoryInv(m), NEW r, Rearranged(m, r), r.vs.commits = m.vs.commits,
         r.vs.head = m.vs.head, r.vs.next = m.vs.next
  PROVE  /\ MemoryInv(r) /\ Held(r) \subseteq Held(m)
         /\ Live(r) = Live(m) /\ History(r) = History(m)
<1>1. /\ CollectionShape(r) /\ RegistryOK(r)
      /\ \A i \in DOMAIN r.segments : i < r.nextSeg
      /\ Rows(r) \subseteq Rows(m) /\ r.nextId = m.nextId
      /\ Live(r) = Live(m)
      /\ \A v \in Versions(m.vs) :
           r.vs.commits[v] = m.vs.commits[v] => LiveAt(r, v) = LiveAt(m, v)
  BY RearrangedHistory
<1>2. Versions(r.vs) = Versions(m.vs)
  BY DEF Versions
<1>3. Frozen(r) = Frozen(m)
  BY <1>2 DEF Frozen
<1>4. History(r) = History(m)
  BY <1>1, <1>2 DEF History
<1>5. HistoryShape(r.vs)
  BY <1>2 DEF MemoryInv, HistoryShape
<1>6. Held(r) \subseteq Held(m)
  BY <1>1, <1>3 DEF Held
<1>7. QED
  BY <1>1, <1>4, <1>5, <1>6 DEF MemoryInv


(* commit(): the new version holds what is live, the others what they did. *)
LEMMA CommitHistory ==
  ASSUME NEW m, MemoryInv(m), NEW tag
  PROVE  LET r == CommitWorking(m, tag) IN
         /\ MemoryInv(r) /\ Held(r) \subseteq Held(m) /\ Live(r) = Live(m)
         /\ Versions(r.vs) = Versions(m.vs) \cup {m.vs.next}
         /\ LiveAt(r, m.vs.next) = Live(m)
         /\ \A v \in Versions(m.vs) : LiveAt(r, v) = LiveAt(m, v)
<1> DEFINE sealed == Seal(m)
           references == {Reference(s) : s \in sealed.working}
           vs == CommitTo(sealed.vs, references, sealed.dels, tag)
           r == CommitWorking(m, tag)
           new == m.vs.next
<1>1. CollectionShape(m) /\ RegistryOK(m) /\ HistoryShape(m.vs)
  BY DEF MemoryInv
<1>2. Rearranged(m, r) /\ Rearranged(m, sealed) /\ sealed.app = {} /\ sealed.vs = m.vs
  BY <1>1, CommitRearranges, SealRearranges
<1>3. /\ CollectionShape(r) /\ RegistryOK(r)
      /\ \A i \in DOMAIN r.segments : i < r.nextSeg
      /\ Rows(r) \subseteq Rows(m) /\ r.nextId = m.nextId
      /\ Live(r) = Live(m)
      /\ \A v \in Versions(m.vs) :
           r.vs.commits[v] = m.vs.commits[v] => LiveAt(r, v) = LiveAt(m, v)
  BY <1>2, RearrangedHistory
<1>4. r = [sealed EXCEPT !.vs = vs]
  BY DEF CommitWorking
<1>5. /\ r.vs = vs /\ r.app = {} /\ r.working = sealed.working /\ r.dels = m.dels
      /\ r.segments = sealed.segments
  <2>1. sealed = [app |-> sealed.app, working |-> sealed.working,
                  segments |-> sealed.segments, dels |-> sealed.dels,
                  payloads |-> sealed.payloads, vs |-> sealed.vs,
                  nextId |-> sealed.nextId, nextSeg |-> sealed.nextSeg]
    BY <1>2 DEF Rearranged, CollectionShape
  <2> HIDE DEF sealed, vs, r
  <2>2. /\ r.vs = vs /\ r.app = sealed.app /\ r.working = sealed.working
        /\ r.dels = sealed.dels /\ r.segments = sealed.segments
    BY <2>1, <1>4
  <2>3. QED
    BY <1>2, <2>2 DEF Rearranged
<1>6. new \in Nat /\ new \notin Versions(m.vs)
  BY <1>1 DEF HistoryShape
<1>7. /\ vs.next = new + 1 /\ vs.head = new
      /\ Versions(vs) = Versions(m.vs) \cup {new}
      /\ vs.commits[new] = Manifest(m.vs.head, references, m.dels)
      /\ \A v \in Versions(m.vs) : vs.commits[v] = m.vs.commits[v]
  BY <1>2, <1>6 DEF CommitTo, Versions, Rearranged
<1>8. \A s : Reference(s).id = s.id
  BY DEF Reference
<1>9. SegmentIds(vs.commits[new]) = WorkingIds(r) /\ vs.commits[new].deletions = m.dels
  <2>1. SegmentIds(vs.commits[new]) = {s.id : s \in references}
        /\ vs.commits[new].deletions = m.dels
    <3>1. PICK manifest : manifest = vs.commits[new]
      OBVIOUS
    <3>2. manifest.segments = references /\ manifest.deletions = m.dels
      <4> HIDE DEF references, vs, sealed, new
      <4>1. manifest = [parent |-> m.vs.head, segments |-> references,
                        deletions |-> m.dels]
        BY <1>7, <3>1 DEF Manifest
      <4>2. QED
        BY <4>1
    <3> HIDE DEF references, vs
    <3>3. QED
      BY <3>1, <3>2 DEF SegmentIds
  <2>2. {s.id : s \in references} = {s.id : s \in sealed.working}
    BY <1>8
  <2>3. QED
    BY <2>1, <2>2, <1>5 DEF WorkingIds
<1> HIDE DEF sealed, references, vs, r, new
<1>10. LiveAt(r, new) = Live(r)
  <2>1. \A s \in r.working : s.id \in DOMAIN r.segments /\ r.segments[s.id] = s.rows
    BY <1>3 DEF RegistryOK
  <2>2. WorkingIds(r) \cap DOMAIN r.segments = WorkingIds(r)
    BY <2>1 DEF WorkingIds
  <2>3. UNION {r.segments[i] : i \in WorkingIds(r)} = WorkingRows(r)
    BY <2>1 DEF WorkingIds, WorkingRows
  <2>4. LiveAt(r, new) = WorkingRows(r) \ m.dels
    BY <1>5, <1>9, <2>2, <2>3 DEF LiveAt
  <2>5. QED
    BY <1>5, <2>4 DEF Live
<1>11. HistoryShape(r.vs)
  <2>1. ASSUME NEW v \in Versions(vs)
        PROVE  /\ v \in Nat /\ v < vs.next
               /\ vs.head \in Versions(vs) /\ v <= vs.head
    <3>1. v \in Versions(m.vs) => v \in Nat /\ v < new
      BY <1>1 DEF HistoryShape, new
    <3>2. QED
      BY <3>1, <1>6, <1>7
  <2>2. vs.next \in Nat
    BY <1>6, <1>7
  <2>3. QED
    BY <1>5, <2>1, <2>2 DEF HistoryShape
<1>12. Held(r) \subseteq Held(m)
  <2>1. ASSUME NEW v \in Versions(r.vs)
        PROVE  r.vs.commits[v].deletions \subseteq Held(m)
    <3>1. CASE v = new
      BY <3>1, <1>5, <1>9 DEF Held, Rows
    <3>2. CASE v \in Versions(m.vs)
      BY <3>2, <1>5, <1>7 DEF Held, Frozen
    <3>3. QED
      BY <3>1, <3>2, <1>5, <1>7
  <2>2. Frozen(r) \subseteq Held(m)
    BY <2>1 DEF Frozen
  <2>3. QED
    BY <1>3, <2>2 DEF Held
<1>13. MemoryInv(r)
  BY <1>3, <1>11, <1>12 DEF MemoryInv
<1>14. \A v \in Versions(m.vs) : LiveAt(r, v) = LiveAt(m, v)
  BY <1>3, <1>5, <1>7
<1>15. QED
  BY <1>3, <1>5, <1>7, <1>10, <1>12, <1>13, <1>14 DEF r, new

(* restore(): the working set of the version, committed once more.         *)
LEMMA RestoreHistory ==
  ASSUME NEW m, MemoryInv(m), NEW from, from \in Versions(m.vs)
  PROVE  LET r == RestoreTo(m, from) IN
         /\ MemoryInv(r) /\ Live(r) = LiveAt(m, from)
         /\ Versions(r.vs) = Versions(m.vs) \cup {m.vs.next}
         /\ LiveAt(r, m.vs.next) = LiveAt(m, from)
         /\ \A v \in Versions(m.vs) : LiveAt(r, v) = LiveAt(m, v)
<1> DEFINE manifest == m.vs.commits[from]
           present  == SegmentIds(manifest) \cap DOMAIN m.segments
           working  == {Segment(i, m.segments[i]) : i \in present}
           q == [m EXCEPT !.working = working, !.dels = manifest.deletions, !.app = {}]
<1>1. RestoreTo(m, from) = CommitWorking(q, None)
  BY DEF RestoreTo
<1>2. q = [app |-> {}, working |-> working, segments |-> m.segments,
           dels |-> manifest.deletions, payloads |-> m.payloads, vs |-> m.vs,
           nextId |-> m.nextId, nextSeg |-> m.nextSeg]
  <2> DEFINE deletions == manifest.deletions
             q1 == [m EXCEPT !.working = working]
             q2 == [q1 EXCEPT !.dels = deletions]
             q3 == [q2 EXCEPT !.app = {}]
  <2> HIDE DEF working, deletions
  <2>1. q = q3
    BY DEF deletions
  <2>2. m = [app |-> m.app, working |-> m.working, segments |-> m.segments,
             dels |-> m.dels, payloads |-> m.payloads, vs |-> m.vs,
             nextId |-> m.nextId, nextSeg |-> m.nextSeg]
    BY DEF MemoryInv, CollectionShape
  <2>3. q1 = [app |-> m.app, working |-> working, segments |-> m.segments,
              dels |-> m.dels, payloads |-> m.payloads, vs |-> m.vs,
              nextId |-> m.nextId, nextSeg |-> m.nextSeg]
    BY <2>2
  <2> HIDE DEF q1
  <2>4. q2 = [app |-> m.app, working |-> working, segments |-> m.segments,
              dels |-> deletions, payloads |-> m.payloads, vs |-> m.vs,
              nextId |-> m.nextId, nextSeg |-> m.nextSeg]
    BY <2>3
  <2> HIDE DEF q2
  <2>5. q3 = [app |-> {}, working |-> working, segments |-> m.segments,
              dels |-> deletions, payloads |-> m.payloads, vs |-> m.vs,
              nextId |-> m.nextId, nextSeg |-> m.nextSeg]
    BY <2>4
  <2>6. QED
    BY <2>1, <2>5 DEF deletions
<1>3. /\ \A s \in working : s.id \in present /\ s.rows = m.segments[s.id]
      /\ \A i \in present : \E s \in working : s.id = i /\ s.rows = m.segments[i]
  <2>1. \A i : Segment(i, m.segments[i]).id = i
               /\ Segment(i, m.segments[i]).rows = m.segments[i]
    BY DEF Segment
  <2> HIDE DEF present, manifest, q
  <2>2. QED
    BY <2>1
<1> HIDE DEF working, present, manifest, q
<1>4. manifest.deletions \subseteq Held(m)
  BY DEF manifest, Held, Frozen
<1>5. WorkingRows(q) = UNION {m.segments[i] : i \in present}
  BY <1>2, <1>3 DEF WorkingRows
<1>6. WorkingIds(q) = present /\ present \subseteq DOMAIN m.segments
  BY <1>2, <1>3 DEF WorkingIds, present
<1>7. CollectionShape(q)
  BY <1>2, <1>4 DEF CollectionShape, MemoryInv
<1>8. RegistryOK(q)
  <2>1. SegmentIdsToPersist(q) \subseteq DOMAIN q.segments
    BY <1>2, <1>6 DEF SegmentIdsToPersist, MemoryInv, RegistryOK
  <2>2. ASSUME NEW s \in working
        PROVE  /\ s.id < m.nextSeg /\ s.id \in DOMAIN m.segments
               /\ m.segments[s.id] = s.rows
    BY <1>3, <1>6 DEF MemoryInv
  <2>3. QED
    BY <1>2, <2>1, <2>2 DEF RegistryOK
<1>9. Held(q) \subseteq Held(m)
  <2>1. WorkingRows(q) \subseteq Held(m)
    BY <1>5, <1>6 DEF Held, Rows
  <2>2. Frozen(q) = Frozen(m)
    BY <1>2 DEF Frozen
  <2>3. /\ q.app = {} /\ q.dels = manifest.deletions /\ q.segments = m.segments
    BY <1>2
  <2>4. UNION {q.segments[i] : i \in DOMAIN q.segments} \subseteq Held(m)
    BY <2>3 DEF Held, Rows
  <2>5. Rows(q) \subseteq Held(m)
    BY <1>4, <2>1, <2>3, <2>4 DEF Rows
  <2>6. QED
    BY <2>2, <2>5 DEF Held
<1>10. MemoryInv(q)
  BY <1>2, <1>7, <1>8, <1>9 DEF MemoryInv
<1>11. Live(q) = LiveAt(m, from)
  BY <1>2, <1>5 DEF Live, LiveAt, manifest, present
<1>12. \A v \in Versions(m.vs) : LiveAt(q, v) = LiveAt(m, v)
  BY <1>2 DEF LiveAt
<1>13. q.vs = m.vs
  BY <1>2
<1>14. QED
  BY <1>1, <1>10, <1>11, <1>12, <1>13, CommitHistory

(* gc(): what it keeps keeps its segments; HEAD is kept.                   *)
LEMMA GcHistory ==
  ASSUME NEW m, MemoryInv(m), NEW rules
  PROVE  LET r == CollectGarbage(m, rules) IN
         /\ MemoryInv(r) /\ Live(r) = Live(m)
         /\ Versions(r.vs) \subseteq Versions(m.vs)
         /\ \A v \in Versions(r.vs) : LiveAt(r, v) = LiveAt(m, v)
         /\ m.vs.head \in Versions(m.vs) => m.vs.head \in Versions(r.vs)
<1> DEFINE dropped == DroppedSegments(m, rules)
           kept == Versions(m.vs) \ RemovedVersions(m.vs, rules)
           vs == Collect(m.vs, rules)
           segments == [i \in DOMAIN m.segments \ dropped |-> m.segments[i]]
           r == CollectGarbage(m, rules)
<1>1. r = [app |-> m.app, working |-> m.working, segments |-> segments,
           dels |-> m.dels, payloads |-> m.payloads, vs |-> vs,
           nextId |-> m.nextId, nextSeg |-> m.nextSeg]
  <2>1. r = [m EXCEPT !.vs = vs, !.segments = segments]
    BY DEF CollectGarbage
  <2> HIDE DEF segments, vs, r
  <2> DEFINE q1 == [m EXCEPT !.vs = vs]
             q2 == [q1 EXCEPT !.segments = segments]
  <2>2. r = q2
    BY <2>1
  <2>3. m = [app |-> m.app, working |-> m.working, segments |-> m.segments,
             dels |-> m.dels, payloads |-> m.payloads, vs |-> m.vs,
             nextId |-> m.nextId, nextSeg |-> m.nextSeg]
    BY DEF MemoryInv, CollectionShape
  <2>4. q1 = [app |-> m.app, working |-> m.working, segments |-> m.segments,
              dels |-> m.dels, payloads |-> m.payloads, vs |-> vs,
              nextId |-> m.nextId, nextSeg |-> m.nextSeg]
    BY <2>3
  <2> HIDE DEF q1
  <2>5. q2 = [app |-> m.app, working |-> m.working, segments |-> segments,
              dels |-> m.dels, payloads |-> m.payloads, vs |-> vs,
              nextId |-> m.nextId, nextSeg |-> m.nextSeg]
    BY <2>4
  <2>6. QED
    BY <2>2, <2>5
<1>2. /\ vs = [commits |-> [v \in kept |-> m.vs.commits[v]], head |-> m.vs.head,
               branches |-> m.vs.branches, tags |-> m.vs.tags, next |-> m.vs.next]
  BY DEF Collect, MemoryInv, CollectionShape, StoreShape
<1>3. kept \subseteq Versions(m.vs) \cap RetainedVersions(m.vs, rules)
  BY DEF RemovedVersions
<1>4. ASSUME NEW v \in kept, NEW i \in SegmentIds(m.vs.commits[v])
      PROVE  i \in DOMAIN m.segments \ dropped
  <2>1. i \in DOMAIN m.segments
    BY <1>3 DEF MemoryInv, RegistryOK, SegmentIdsToPersist, AllReferenced
  <2>2. i \notin OrphanSegments(m.vs, rules)
    BY <1>3 DEF OrphanSegments
  <2>3. QED
    BY <2>1, <2>2 DEF DroppedSegments
<1>5. WorkingIds(m) \subseteq DOMAIN m.segments \ dropped
  BY DEF WorkingIds, DroppedSegments, MemoryInv, RegistryOK
<1>6. m.vs.head \in Versions(m.vs) => m.vs.head \in kept
  <2>1. m.vs.head \in Versions(m.vs) => m.vs.head # None
    BY NoneAssumption DEF MemoryInv, HistoryShape
  <2>2. m.vs.head # None => m.vs.head \in RetainedVersions(m.vs, rules)
    BY DEF RetainedVersions
  <2>3. QED
    BY <2>1, <2>2 DEF RemovedVersions
<1> HIDE DEF dropped, kept, vs, r
<1>7. Versions(vs) = kept /\ \A v \in kept : vs.commits[v] = m.vs.commits[v]
  BY <1>2 DEF Versions
<1>8. /\ DOMAIN segments = DOMAIN m.segments \ dropped
      /\ \A i \in DOMAIN segments : segments[i] = m.segments[i]
  OBVIOUS
<1> HIDE DEF segments
<1>9. WorkingRows(r) = WorkingRows(m) /\ WorkingIds(r) = WorkingIds(m)
  BY <1>1 DEF WorkingRows, WorkingIds
<1>10. CollectionShape(r)
  <2>1. StoreShape(vs)
    BY <1>2 DEF StoreShape
  <2>2. segments \in [DOMAIN segments -> SUBSET Nat] /\ DOMAIN segments \subseteq Nat
    BY <1>2, <1>8 DEF MemoryInv, CollectionShape, segments
  <2>3. QED
    BY <1>1, <2>1, <2>2 DEF CollectionShape, MemoryInv
<1>11. RegistryOK(r)
  <2>1. AllReferenced(vs) \subseteq DOMAIN segments
    BY <1>4, <1>7, <1>8 DEF AllReferenced
  <2>2. SegmentIdsToPersist(r) \subseteq DOMAIN segments
    BY <1>1, <1>5, <1>8, <1>9, <2>1 DEF SegmentIdsToPersist
  <2>3. ASSUME NEW s \in m.working
        PROVE  s.id < m.nextSeg /\ s.id \in DOMAIN segments /\ segments[s.id] = s.rows
    <3>1. s.id \in WorkingIds(m)
      BY DEF WorkingIds
    <3>2. QED
      BY <3>1, <1>5, <1>8 DEF MemoryInv, RegistryOK
  <2>4. QED
    BY <1>1, <2>2, <2>3 DEF RegistryOK
<1>12. HistoryShape(vs)
  <2>1. HistoryShape(m.vs)
    BY DEF MemoryInv
  <2>2. \A v \in kept : m.vs.head \in kept
    BY <2>1, <1>3, <1>6 DEF HistoryShape
  <2>3. vs.next = m.vs.next /\ vs.head = m.vs.head
    BY <1>2
  <2>4. QED
    BY <1>3, <1>7, <2>1, <2>2, <2>3 DEF HistoryShape
<1>13. Held(r) \subseteq Held(m)
  <2>1. Rows(r) \subseteq Rows(m)
    BY <1>1, <1>8, <1>9 DEF Rows
  <2>2. Frozen(r) \subseteq Frozen(m)
    BY <1>1, <1>3, <1>7 DEF Frozen
  <2>3. QED
    BY <2>1, <2>2 DEF Held
<1>14. MemoryInv(r)
  BY <1>1, <1>8, <1>10, <1>11, <1>12, <1>13 DEF MemoryInv
<1>15. Live(r) = Live(m)
  BY <1>1, <1>9 DEF Live
<1>16. ASSUME NEW v \in kept
       PROVE  LiveAt(r, v) = LiveAt(m, v)
  <2>1. AllReferenced(m.vs) \subseteq DOMAIN m.segments
    BY DEF MemoryInv, RegistryOK, SegmentIdsToPersist
  <2>2. v \in Versions(m.vs) /\ r.vs.commits[v] = m.vs.commits[v]
    BY <1>1, <1>3, <1>7
  <2>3. \A i \in SegmentIds(m.vs.commits[v]) :
          i \in DOMAIN r.segments /\ r.segments[i] = m.segments[i]
    BY <1>1, <1>4, <1>8
  <2>4. QED
    BY <2>1, <2>2, <2>3, SameVersion
<1>17. r.vs = vs
  BY <1>1
<1>18. QED
  BY <1>3, <1>6, <1>7, <1>14, <1>15, <1>16, <1>17 DEF r


-----------------------------------------------------------------------------
(***************************************************************************)
(* The steps.                                                              *)
(***************************************************************************)
Refines == TInv' /\ [Time!Next]_(Time!vars)

(* Steps after which the collection reads as before.                       *)
LEMMA NothingSeen ==
  ASSUME Live(mem') = Live(mem), History(mem') = History(mem)
  PROVE  UNCHANGED Time!vars
BY DEF Time!vars, History

LEMMA TimeInit ==
  ASSUME Init
  PROVE  TInv /\ Time!Init
<1>1. up /\ mem = EmptyCollection /\ task = Idle
  BY DEF Init
<1>2. /\ Versions(mem.vs) = {} /\ mem.working = {} /\ DOMAIN mem.segments = {}
      /\ mem.app = {} /\ mem.dels = {} /\ mem.vs.next = 0
  BY <1>1 DEF EmptyCollection, EmptyStore, Versions
<1>3. WorkingRows(mem) = {} /\ WorkingIds(mem) = {} /\ AllReferenced(mem.vs) = {}
      /\ Frozen(mem) = {}
  BY <1>2 DEF WorkingRows, WorkingIds, AllReferenced, Frozen
<1>4. CollectionShape(mem)
  BY <1>1 DEF CollectionShape, EmptyCollection, StoreShape, EmptyStore
<1>5. RegistryOK(mem)
  BY <1>2, <1>3 DEF RegistryOK, SegmentIdsToPersist
<1>6. Held(mem) = {}
  BY <1>2, <1>3 DEF Held, Rows
<1>7. MemoryInv(mem)
  BY <1>2, <1>4, <1>5, <1>6 DEF MemoryInv, HistoryShape
<1>8. Time!Init
  BY <1>2, <1>3 DEF Time!Init, Live
<1>9. QED
  BY <1>1, <1>7, <1>8 DEF TInv, InFlight, Idle

(* A batch is logged: its upserts take ids from the allocator.             *)
LEMMA TimeLogBatch ==
  ASSUME TInv, NEW k \in Nat, NEW deletes \in [1 .. k -> Ids], NEW n \in Nat, NEW commit,
         n > 0 => mem.nextId + n <= MaxIds,
         LogBatch(n, deletes, commit)
  PROVE  Refines
<1> DEFINE batch == Batch(deletes, mem.nextId, n)
<1>1. /\ up' = up /\ mem' = [mem EXCEPT !.nextId = @ + n]
      /\ task' = [at |-> "flush", batch |-> batch, commit |-> commit]
  BY DEF LogBatch
<1>2. up /\ MemoryInv(mem)
  BY DEF TInv
<1>3. mem.nextId \in Nat
  BY <1>2 DEF MemoryInv, CollectionShape
<1>4. /\ batch \in Seq(LogRecords) /\ Len(batch) = k + n
      /\ \A i \in 1 .. Len(batch) : batch[i].op = "upsert" =>
           batch[i].id \in mem.nextId .. mem.nextId + n - 1
  BY <1>3, BatchShape
<1> HIDE DEF batch
<1>5. mem' = [app |-> mem.app, working |-> mem.working, segments |-> mem.segments,
              dels |-> mem.dels, payloads |-> mem.payloads, vs |-> mem.vs,
              nextId |-> mem.nextId + n, nextSeg |-> mem.nextSeg]
  BY <1>1, <1>2 DEF MemoryInv, CollectionShape
<1>6. /\ mem'.vs = mem.vs /\ mem'.segments = mem.segments /\ mem'.app = mem.app
      /\ mem'.dels = mem.dels /\ mem'.working = mem.working /\ mem'.nextSeg = mem.nextSeg
      /\ mem'.payloads = mem.payloads /\ mem'.nextId = mem.nextId + n
  BY <1>5
<1>7. WorkingRows(mem') = WorkingRows(mem) /\ WorkingIds(mem') = WorkingIds(mem)
  BY <1>6 DEF WorkingRows, WorkingIds
<1>8. Held(mem') = Held(mem)
  BY <1>6, <1>7 DEF Held, Rows, Frozen
<1>9. Live(mem') = Live(mem) /\ History(mem') = History(mem)
  BY <1>6, <1>7 DEF Live, History, LiveAt
<1>10. MemoryInv(mem')
  <2>1. CollectionShape(mem')
    BY <1>2, <1>3, <1>5 DEF MemoryInv, CollectionShape
  <2>2. RegistryOK(mem')
    BY <1>2, <1>6, <1>7 DEF MemoryInv, RegistryOK, SegmentIdsToPersist
  <2>3. \A id \in Held(mem') : id \in Nat /\ id < mem'.nextId
    BY <1>2, <1>3, <1>6, <1>8 DEF MemoryInv
  <2>4. QED
    BY <1>2, <1>6, <2>1, <2>2, <2>3 DEF MemoryInv
<1>11. ASSUME NEW id \in Upserted(batch)
       PROVE  id \in Ids \ Held(mem') /\ id < mem'.nextId
  <2>1. PICK i \in DOMAIN batch : batch[i].op = "upsert" /\ batch[i].id = id
    BY DEF Upserted, IdsOf
  <2>2. i \in 1 .. Len(batch)
    BY <1>4, <2>1
  <2>3. id \in mem.nextId .. mem.nextId + n - 1
    BY <1>4, <2>1, <2>2
  <2>4. n > 0
    BY <1>3, <2>3
  <2>5. id \in Ids
    BY <1>3, <2>3, <2>4, BoundsAssumption DEF Ids
  <2>6. id \notin Held(mem)
    BY <1>2, <1>3, <2>3 DEF MemoryInv
  <2>7. QED
    BY <1>3, <1>6, <1>8, <2>3, <2>5, <2>6
<1>12. TInv'
  BY <1>1, <1>2, <1>4, <1>10, <1>11 DEF TInv, InFlight, FreshBatch
<1>13. QED
  BY <1>9, <1>12, NothingSeen DEF Refines

(* The batch is applied: new points appear, held ones may go, and no       *)
(* version can have had the new ones.                                      *)
LEMMA TimeApply ==
  ASSUME TInv, Apply
  PROVE  Refines
<1> DEFINE upserts == Upserted(task.batch)
           deletes == Deleted(task.batch)
           held == mem.app \cup WorkingRows(mem)
<1>1. /\ up /\ up' /\ task.at = "apply"
      /\ mem' = Insert(Delete(mem, deletes), upserts)
      /\ task' = IF task.commit THEN [at |-> "commit", tag |-> None] ELSE Idle
  BY DEF Apply
<1>2. MemoryInv(mem) /\ FreshBatch
  BY <1>1 DEF TInv, InFlight
<1>3. CollectionShape(mem) /\ RegistryOK(mem) /\ HistoryShape(mem.vs) /\ mem.nextId \in Nat
  BY <1>2 DEF MemoryInv, CollectionShape
<1>4. \A id \in upserts : id \in Ids /\ id \in Nat /\ id \notin Held(mem) /\ id < mem.nextId
  BY <1>2 DEF FreshBatch, Ids
<1> HIDE DEF upserts
<1>5. mem' = [app |-> mem.app \cup upserts, working |-> mem.working,
              segments |-> mem.segments, dels |-> mem.dels \cup (deletes \cap held),
              payloads |-> mem.payloads \cup upserts, vs |-> mem.vs,
              nextId |-> mem.nextId, nextSeg |-> mem.nextSeg]
  <2>1. upserts \in SUBSET Nat
    BY <1>4
  <2> HIDE DEF deletes
  <2>2. QED
    BY <1>1, <1>3, <1>4, <2>1, WriteEffect
<1> HIDE DEF deletes
<1>6. /\ mem'.vs = mem.vs /\ mem'.segments = mem.segments /\ mem'.working = mem.working
      /\ mem'.app = mem.app \cup upserts /\ mem'.nextSeg = mem.nextSeg
      /\ mem'.dels = mem.dels \cup (deletes \cap held) /\ mem'.nextId = mem.nextId
      /\ mem'.payloads = mem.payloads \cup upserts
  BY <1>5
<1>7. WorkingRows(mem') = WorkingRows(mem) /\ WorkingIds(mem') = WorkingIds(mem)
  BY <1>6 DEF WorkingRows, WorkingIds
<1>8. held \subseteq Held(mem) /\ mem.dels \subseteq Held(mem)
  BY DEF Held, Rows
<1>9. Held(mem') \subseteq Held(mem) \cup upserts
  <2>1. Frozen(mem') = Frozen(mem)
    BY <1>6 DEF Frozen
  <2>2. Rows(mem') \subseteq Held(mem) \cup upserts
    BY <1>6, <1>7, <1>8 DEF Rows, Held
  <2>3. QED
    BY <2>1, <2>2 DEF Held
<1>10. MemoryInv(mem')
  <2>1. \A id \in Held(mem') : id \in Nat /\ id < mem.nextId
    BY <1>2, <1>4, <1>9 DEF MemoryInv
  <2>2. CollectionShape(mem')
    <3>1. /\ mem'.app \subseteq Nat /\ mem'.dels \subseteq Nat /\ mem'.payloads \subseteq Nat
      BY <1>2, <1>3, <1>4, <1>6, <1>8 DEF CollectionShape, MemoryInv
    <3>2. QED
      BY <1>3, <1>5, <3>1 DEF CollectionShape
  <2>3. RegistryOK(mem')
    BY <1>3, <1>6, <1>7 DEF RegistryOK, SegmentIdsToPersist
  <2>4. QED
    BY <1>2, <1>6, <2>1, <2>2, <2>3 DEF MemoryInv
<1>11. TInv'
  <2>1. task'.at \notin {"flush", "apply", "checkpoint", "remove"}
    BY <1>1 DEF Idle
  <2>2. QED
    BY <1>1, <1>10, <2>1 DEF TInv, InFlight
<1>12. Time!Write
  <2> DEFINE removed == deletes \cap Live(mem)
  <2>1. History(mem') = History(mem)
    BY <1>6 DEF History, LiveAt
  <2>2. Live(mem') = (Live(mem) \ removed) \cup upserts
    BY <1>4, <1>6, <1>7, <1>8 DEF Live
  <2>3. upserts \in SUBSET Ids /\ removed \in SUBSET Ids
    <3>1. deletes \subseteq Ids
      <4>1. PICK batch \in Seq(LogRecords) : batch = task.batch
        BY <1>2 DEF FreshBatch
      <4>2. ASSUME NEW i \in DOMAIN batch
            PROVE  batch[i].id \in Ids
        <5>1. batch[i] \in LogRecords
          OBVIOUS
        <5>2. QED
          BY <5>1 DEF LogRecords
      <4>3. QED
        BY <4>1, <4>2 DEF deletes, Deleted, IdsOf
    <3>2. QED
      BY <1>4, <3>1
  <2>4. upserts \cap (Live(mem) \cup UNION {History(mem)[v] : v \in DOMAIN History(mem)}) = {}
    <3>1. Live(mem) \subseteq Held(mem)
      BY <1>8 DEF Live
    <3>2. \A v \in Versions(mem.vs) : LiveAt(mem, v) \subseteq Held(mem)
      BY VersionsHeld
    <3>3. UNION {History(mem)[v] : v \in DOMAIN History(mem)} \subseteq Held(mem)
      BY <3>2 DEF History
    <3>4. QED
      BY <1>4, <3>1, <3>3
  <2> HIDE DEF removed
  <2>5. QED
    BY <2>1, <2>2, <2>3, <2>4 DEF Time!Write, History
<1>13. QED
  BY <1>11, <1>12 DEF Refines, Time!Next

(* commit() adds a version with what is live.                              *)
LEMMA TimeCommit ==
  ASSUME TInv, Commit
  PROVE  Refines
<1> DEFINE new == mem.vs.next
<1>1. /\ up' /\ mem' = CommitWorking(mem, task.tag) /\ task' = Persist(mem')
      /\ MemoryInv(mem)
  BY DEF Commit, TInv
<1>2. /\ MemoryInv(mem') /\ Live(mem') = Live(mem)
      /\ Versions(mem'.vs) = Versions(mem.vs) \cup {new}
      /\ LiveAt(mem', new) = Live(mem)
      /\ \A v \in Versions(mem.vs) : LiveAt(mem', v) = LiveAt(mem, v)
  BY <1>1, CommitHistory
<1>3. TInv'
  BY <1>1, <1>2 DEF TInv, Persist, InFlight
<1>4. new \notin Versions(mem.vs) /\ \A v \in Versions(mem.vs) : v <= new
  BY <1>1 DEF MemoryInv, HistoryShape
<1>5. History(mem') = [w \in DOMAIN History(mem) \cup {new} |->
                         IF w = new THEN Live(mem) ELSE History(mem)[w]]
  BY <1>2, <1>4 DEF History
<1> HIDE DEF new
<1>6. Time!Commit
  <2>1. new \in DOMAIN History(mem') /\ new \notin DOMAIN History(mem)
    BY <1>2, <1>4 DEF History
  <2>2. \A w \in DOMAIN History(mem) : w <= new
    BY <1>4 DEF History
  <2>3. QED
    BY <1>2, <1>5, <2>1, <2>2 DEF Time!Commit, Time!Newest, Time!Extend, History
<1>7. QED
  BY <1>3, <1>6 DEF Refines, Time!Next

(* restore() adds a version with what an earlier one holds, and that is    *)
(* live then.                                                              *)
LEMMA TimeRestore ==
  ASSUME TInv, NEW from, Restore(from)
  PROVE  Refines
<1> DEFINE new == mem.vs.next
<1>1. /\ up' /\ mem' = RestoreTo(mem, from) /\ task' = Persist(mem')
      /\ MemoryInv(mem) /\ from \in Versions(mem.vs)
  BY DEF Restore, Ready, TInv
<1>2. /\ MemoryInv(mem') /\ Live(mem') = LiveAt(mem, from)
      /\ Versions(mem'.vs) = Versions(mem.vs) \cup {new}
      /\ LiveAt(mem', new) = LiveAt(mem, from)
      /\ \A v \in Versions(mem.vs) : LiveAt(mem', v) = LiveAt(mem, v)
  BY <1>1, RestoreHistory
<1>3. TInv'
  BY <1>1, <1>2 DEF TInv, Persist, InFlight
<1>4. new \notin Versions(mem.vs) /\ \A v \in Versions(mem.vs) : v <= new
  BY <1>1 DEF MemoryInv, HistoryShape
<1>5. History(mem') = [w \in DOMAIN History(mem) \cup {new} |->
                         IF w = new THEN History(mem)[from] ELSE History(mem)[w]]
  BY <1>1, <1>2, <1>4 DEF History
<1> HIDE DEF new
<1>6. Time!Rewind
  <2>1. new \in DOMAIN History(mem') /\ new \notin DOMAIN History(mem)
        /\ from \in DOMAIN History(mem)
    BY <1>1, <1>2, <1>4 DEF History
  <2>2. \A w \in DOMAIN History(mem) : w <= new
    BY <1>4 DEF History
  <2>3. Live(mem') = History(mem)[from]
    BY <1>1, <1>2 DEF History
  <2>4. QED
    BY <1>5, <2>1, <2>2, <2>3 DEF Time!Rewind, Time!Newest, Time!Extend, History
<1>7. QED
  BY <1>3, <1>6 DEF Refines, Time!Next

(* gc() forgets whole versions, never the newest.                          *)
LEMMA TimeGc ==
  ASSUME TInv, NEW rules, Gc(rules)
  PROVE  Refines
<1>1. /\ up' /\ mem' = CollectGarbage(mem, rules) /\ MemoryInv(mem)
      /\ task' = [at |-> "remove", todo |-> DroppedSegments(mem, rules)]
  BY DEF Gc, Ready, TInv
<1>2. /\ MemoryInv(mem') /\ Live(mem') = Live(mem)
      /\ Versions(mem'.vs) \subseteq Versions(mem.vs)
      /\ \A v \in Versions(mem'.vs) : LiveAt(mem', v) = LiveAt(mem, v)
      /\ mem.vs.head \in Versions(mem.vs) => mem.vs.head \in Versions(mem'.vs)
  BY <1>1, GcHistory
<1>3. TInv'
  BY <1>1, <1>2 DEF TInv, InFlight
<1>4. /\ DOMAIN History(mem') \subseteq DOMAIN History(mem)
      /\ \A v \in DOMAIN History(mem') : History(mem')[v] = History(mem)[v]
  BY <1>2 DEF History
<1>5. ASSUME NEW v \in DOMAIN History(mem), \A w \in DOMAIN History(mem) : w <= v
      PROVE  v \in DOMAIN History(mem')
  <2>1. v \in Versions(mem.vs) /\ \A w \in Versions(mem.vs) : w <= v
    BY <1>5 DEF History
  <2>2. v \in Nat /\ mem.vs.head \in Versions(mem.vs) /\ v <= mem.vs.head
        /\ mem.vs.head \in Nat
    BY <1>1, <2>1 DEF MemoryInv, HistoryShape
  <2>3. v = mem.vs.head
    BY <2>1, <2>2
  <2>4. QED
    BY <1>2, <2>2, <2>3 DEF History
<1>6. Time!Forget
  BY <1>2, <1>4, <1>5 DEF Time!Forget, Time!Newest, History
<1>7. QED
  BY <1>3, <1>6 DEF Refines, Time!Next

(* Tags and branches are pointers to versions.                             *)
LEMMA TimePointer ==
  ASSUME TInv, NEW name, NEW v, CreateTag(name, v) \/ CreateBranch(name, v)
  PROVE  Refines
<1>1. up' /\ task' = Persist(mem') /\ MemoryInv(mem) /\ CollectionShape(mem)
      /\ RegistryOK(mem) /\ StoreShape(mem.vs)
  BY DEF CreateTag, CreateBranch, Ready, TInv, MemoryInv, CollectionShape
<1>2. PICK vs : /\ vs \in {SetTag(mem.vs, name, v), SetBranch(mem.vs, name, v)}
                /\ mem' = [mem EXCEPT !.vs = vs]
  BY DEF CreateTag, CreateBranch
<1>3. /\ StoreShape(vs) /\ vs.commits = mem.vs.commits /\ vs.head = mem.vs.head
      /\ vs.next = mem.vs.next
  BY <1>1, <1>2 DEF SetTag, SetBranch, StoreShape
<1>4. Rearranged(mem, mem')
  <2>1. AllReferenced(vs) = AllReferenced(mem.vs)
    BY <1>3 DEF AllReferenced, Versions
  <2>2. QED
    BY <1>1, <1>2, <1>3, <2>1, NewStoreRearranges
<1>5. mem'.vs = vs
  BY <1>1, <1>2 DEF CollectionShape
<1>6. MemoryInv(mem') /\ Live(mem') = Live(mem) /\ History(mem') = History(mem)
  BY <1>1, <1>3, <1>4, <1>5, SameStore
<1>7. TInv'
  BY <1>1, <1>6 DEF TInv, Persist, InFlight
<1>8. QED
  BY <1>6, <1>7, NothingSeen DEF Refines

(* Checkpoints and compactions only move rows.                             *)
LEMMA TimeCheckpoint ==
  ASSUME TInv, Checkpoint \/ Compact
  PROVE  Refines
<1>1. up' /\ MemoryInv(mem) /\ CollectionShape(mem) /\ RegistryOK(mem)
  BY DEF Checkpoint, Compact, Ready, TInv, MemoryInv
<1>2. PICK m : StartCheckpoint(m) /\ Rearranged(mem, m) /\ m.vs = mem.vs
  <2>1. Rearranged(mem, mem)
    BY <1>1 DEF Rearranged, CollectionShape
  <2>2. Rearranged(mem, CompactWorking(mem)) /\ CompactWorking(mem).vs = mem.vs
    BY <1>1, CompactRearranges
  <2>3. QED
    BY <2>1, <2>2 DEF Checkpoint, Compact
<1>3. /\ mem' = Seal(m)
      /\ task' = [at |-> "checkpoint",
                  todo |-> SegmentIdsToPersist(mem') \cap DOMAIN mem'.segments]
  BY <1>2 DEF StartCheckpoint
<1>4. MemoryInv(m) /\ Live(m) = Live(mem) /\ History(m) = History(mem)
  BY <1>1, <1>2, SameStore
<1>5. Rearranged(m, Seal(m)) /\ Seal(m).vs = m.vs
  BY <1>4, SealRearranges DEF MemoryInv
<1>6. MemoryInv(mem') /\ Live(mem') = Live(m) /\ History(mem') = History(m)
  BY <1>3, <1>4, <1>5, SameStore
<1>7. TInv'
  BY <1>1, <1>3, <1>6 DEF TInv, InFlight
<1>8. QED
  BY <1>4, <1>6, <1>7, NothingSeen DEF Refines

(* Everything else is on disk.                                             *)
LEMMA TimeDisk ==
  ASSUME TInv,
         \/ Flush \/ PersistSegment \/ PersistVersions
         \/ CheckpointSegment \/ CheckpointLog \/ SwapHead \/ RetireLog
         \/ RemoveSegment \/ GcPersist \/ (\E tag : CallCommit(tag))
         \/ UNCHANGED vars
  PROVE  Refines
<1>1. up' /\ mem' = mem
  BY DEF TInv, Flush, PersistSegment, PersistVersions, CheckpointSegment, CheckpointLog,
         SwapHead, RetireLog, RemoveSegment, GcPersist, CallCommit, Ready, vars
<1>2. CASE UNCHANGED vars
  <2>1. UNCHANGED <<up, mem, task>>
    BY <1>2 DEF vars
  <2>2. TInv'
    BY <2>1 DEF TInv, InFlight, FreshBatch
  <2>3. QED
    BY <2>1, <2>2, NothingSeen DEF Refines
<1>3. CASE Flush
  <2>1. InFlight /\ task' = [task EXCEPT !.at = "apply"]
    BY <1>3 DEF Flush, InFlight
  <2>2. task' = [at |-> "apply", batch |-> task.batch, commit |-> task.commit]
    BY <2>1 DEF TInv, FreshBatch
  <2>3. TInv'
    BY <1>1, <2>1, <2>2 DEF TInv, InFlight, FreshBatch
  <2>4. QED
    BY <1>1, <2>3, NothingSeen DEF Refines
<1>4. CASE CheckpointSegment \/ RemoveSegment
  <2>1. task = [at |-> task.at, todo |-> task.todo] /\ task.at \in {"checkpoint", "remove"}
    BY <1>4 DEF CheckpointSegment, RemoveSegment, TInv
  <2>2. PICK todo : task' = [task EXCEPT !.todo = todo]
    BY <1>4 DEF CheckpointSegment, RemoveSegment
  <2>3. task' = [at |-> task.at, todo |-> todo]
    BY <2>1, <2>2
  <2>4. TInv'
    BY <1>1, <2>1, <2>3 DEF TInv, InFlight
  <2>5. QED
    BY <1>1, <2>4, NothingSeen DEF Refines
<1>5. CASE \/ PersistSegment \/ PersistVersions \/ CheckpointLog \/ SwapHead \/ RetireLog
           \/ GcPersist \/ (\E tag : CallCommit(tag))
  <2>1. /\ ~InFlight'
        /\ task'.at \notin {"checkpoint", "remove"}
    BY <1>5 DEF InFlight, Idle, PersistSegment, PersistVersions, CheckpointLog, SwapHead,
                RetireLog, GcPersist, CallCommit, Persist, Ready
  <2>2. TInv'
    BY <1>1, <2>1 DEF TInv
  <2>3. QED
    BY <1>1, <2>2, NothingSeen DEF Refines
<1>6. QED
  BY <1>2, <1>3, <1>4, <1>5

LEMMA TimeStep ==
  ASSUME KeepsRunning, TInv, [Next]_vars
  PROVE  Refines
<1>1. ASSUME NEW n \in 0 .. MaxBatch, NEW deletes \in DeleteLists, NEW commit,
             WriteBatch(n, deletes, commit)
      PROVE  Refines
  <2>1. PICK k \in 0 .. MaxBatch : deletes \in [1 .. k -> Ids]
    BY DEF DeleteLists
  <2>2. k \in Nat /\ n \in Nat
    BY BoundsAssumption
  <2>3. mem.nextId + n <= MaxIds /\ LogBatch(n, deletes, commit)
    BY <1>1 DEF WriteBatch
  <2>4. QED
    BY <2>1, <2>2, <2>3, TimeLogBatch
<1>2. ASSUME NEW id \in Ids, DeletePoint(id)
      PROVE  Refines
  <2>1. LogBatch(0, <<id>>, FALSE)
    BY <1>2 DEF DeletePoint
  <2>2. PICK k \in Nat, n \in Nat : k = 1 /\ n = 0
    OBVIOUS
  <2>3. PICK deletes : deletes = <<id>>
    OBVIOUS
  <2>4. deletes \in [1 .. k -> Ids]
    BY <2>2, <2>3
  <2>5. LogBatch(n, deletes, FALSE)
    BY <2>1, <2>2, <2>3
  <2>6. ~(n > 0)
    BY <2>2
  <2>7. QED
    BY <2>4, <2>5, <2>6, TimeLogBatch
<1>3. ~Crash /\ ~Open
  BY DEF KeepsRunning, TInv, Crash, Open
<1>4. Read => UNCHANGED vars
  BY DEF Read
<1>5. QED
  BY <1>1, <1>2, <1>3, <1>4, TimeApply, TimeCommit, TimeRestore, TimeGc, TimePointer,
     TimeCheckpoint, TimeDisk DEF Next

(* The inductive invariant of a collection that runs: no id is used twice, *)
(* not even one that only an old version still holds; every segment the    *)
(* working set or a version names is registered with its rows; HEAD is the *)
(* newest version.  Restores and collections of garbage are among the      *)
(* steps.                                                                  *)
THEOREM RunningInvariant ==
  ASSUME KeepsRunning
  PROVE  Spec => []TInv
<1>1. Init => TInv
  BY TimeInit
<1>2. TInv /\ [Next]_vars => TInv'
  BY TimeStep DEF Refines
<1>3. QED
  BY <1>1, <1>2, PTL DEF Spec

(* search_at and restore skip segments that are not registered; while the  *)
(* process runs they never have to, whatever gc dropped.                   *)
THEOREM ReferencesStayRegistered ==
  ASSUME KeepsRunning
  PROVE  Spec => []ReferencedRegistered
<1>1. TInv => ReferencedRegistered
  BY DEF TInv, MemoryInv, RegistryOK, ReferencedRegistered
<1>2. QED
  BY <1>1, RunningInvariant, PTL

(* While the process runs, versions are snapshots: writes, seals,          *)
(* checkpoints and compactions never show in one, restore brings one back  *)
(* as the new present, and gc forgets whole versions, never the newest.    *)
THEOREM DurableImplementsTimeline ==
  ASSUME KeepsRunning
  PROVE  Spec => ImplementsTimeline
<1>1. Init => Time!Init
  BY TimeInit
<1>2. TInv /\ [Next]_vars => [Time!Next]_(Time!vars)
  BY TimeStep DEF Refines
<1>3. Spec => []TInv
  BY RunningInvariant
<1>4. QED
  BY <1>1, <1>2, <1>3, PTL DEF Spec, ImplementsTimeline, Time!Spec
=============================================================================
