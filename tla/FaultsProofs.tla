---------------------------- MODULE FaultsProofs ----------------------------
(***************************************************************************)
(* Theorems about DurableFaults for any bounds, any number of faults and   *)
(* stops included, without restore and gc (KeepsHistory).                  *)
(***************************************************************************)
EXTENDS DurableFaults, DurableProofs

(***************************************************************************)
(* The inductive invariant.  FilesInv and TaskInv of DurableProofs hold    *)
(* whatever fails; what memory and log say of each other does not.         *)
(***************************************************************************)
FaultyRecords == LogRecords \cup {Torn}
ActiveWal     == wal[generation]

FShapes ==
  /\ up \in BOOLEAN /\ generation \in Nat /\ synced \in Nat
  /\ CollectionShape(mem) /\ HistoryShape(mem.vs)
  /\ head \in Heads \cup {None}
  /\ versions = None \/ (StoreShape(versions) /\ HistoryShape(versions))
  /\ wal \in [DOMAIN wal -> Seq(FaultyRecords)] /\ DOMAIN wal \subseteq Nat
  /\ segFiles \in [DOMAIN segFiles -> SUBSET Nat] /\ DOMAIN segFiles \subseteq Nat
  /\ faults \in Seq({"fail", "tear", "late"})

(* Writes go to the log of HEAD's generation or, while HEAD is one ahead   *)
(* of them, to the one before; then HEAD's log is empty.                   *)
GenerationsInv ==
  /\ Checkpointed.generation \in DOMAIN wal
  /\ \A g \in DOMAIN wal : g > Checkpointed.generation => wal[g] = <<>>
  /\ ~up => task = Idle /\ mem = EmptyCollection
  /\ up => /\ generation \in DOMAIN wal /\ synced <= Len(ActiveWal)
           /\ Checkpointed.generation \in {generation, generation + 1}
           /\ Checkpointed.generation # generation => Log = <<>>
           /\ task.at = "head" => generation + 1 \in DOMAIN wal
           /\ task.at = "retire" => Checkpointed.generation = generation + 1

(* The batch in flight is the end of the log that writes go to.            *)
FBatchInv ==
  up /\ InFlight =>
    /\ task = [at |-> task.at, batch |-> task.batch, commit |-> task.commit]
    /\ task.batch \in Seq(LogRecords) /\ DeletesFirst(task.batch)
    /\ Len(task.batch) <= Len(ActiveWal)
    /\ EndsWith(ActiveWal, Len(ActiveWal) - Len(task.batch), task.batch)
    /\ \A id \in Upserted(task.batch) : id < mem.nextId

Untorn(log, n) == \A i \in 1 .. n : log[i] # Torn

(* Every allocated id is a row's, or of a write that failed or is under    *)
(* way; and so it is after a stop, whatever it leaves of the log.          *)
HeadIdsInv ==
  /\ \A i \in Checkpointed.working : segFiles[i] # {}
  /\ \A id \in Base : id < Checkpointed.nextId
  /\ \A id \in 0 .. Checkpointed.nextId - 1 : id \in Base \cup doubtful

LogIdsInv ==
  \A n \in 1 .. Len(Log) : Untorn(Log, n) /\ Log[n].op = "upsert" =>
    \A id \in 0 .. Log[n].id - 1 :
      id < Checkpointed.nextId \/ id \in UpsertedUpTo(Log, n - 1) \cup doubtful

MemoryIdsInv ==
  up =>
    /\ \A s \in mem.working : s.rows # {}
    /\ \A id \in mem.app \cup WorkingRows(mem) : id < mem.nextId
    /\ \A id \in 0 .. mem.nextId - 1 :
         id \in mem.app \cup WorkingRows(mem) \cup Upserted(Pending) \cup doubtful

AllocatorInv ==
  up /\ (task.at = "retire" \/ Checkpointed.generation = generation)
     /\ Untorn(Log, Len(Log)) =>
    \A id \in 0 .. mem.nextId - 1 :
      id < Checkpointed.nextId \/ id \in UpsertedUpTo(Log, Len(Log)) \cup doubtful

(* Manifests in memory extend those of the file; a segment id is below the *)
(* allocator or was handed back; and what a file is thought to hold, it    *)
(* holds.                                                                  *)
SegmentsInv ==
  /\ \A i \in Checkpointed.all : i < Checkpointed.nextSeg \/ i \in tainted
  /\ ~up => \A i \in AllReferenced(StoredStore) :
              i < Checkpointed.nextSeg \/ i \in tainted
  /\ up => /\ \A v \in Versions(StoredStore) :
                /\ v \in Versions(mem.vs)
                /\ mem.vs.commits[v] = StoredStore.commits[v]
           /\ \A i \in AllReferenced(mem.vs) : i < mem.nextSeg \/ i \in tainted
           /\ AllReferenced(StoredStore) \subseteq persisted
           /\ \A i \in persisted \ tainted : /\ i < mem.nextSeg
                                             /\ i \in DOMAIN mem.segments /\ Stored(i)

Current == IF up THEN mem.vs ELSE StoredStore

FileAt(v) ==
  (UNION {segFiles[i] : i \in SegmentIds(StoredStore.commits[v])})
    \ StoredStore.commits[v].deletions

FrozenInv ==
  /\ DOMAIN frozen = Versions(Current)
  /\ \A v \in Versions(Current) :
       /\ SameBut(doubtful, LiveIds(Current.commits[v]), frozen[v])
       /\ SegmentIds(Current.commits[v]) \cap tainted = {} =>
            frozen[v] = IF up THEN LiveAt(mem, v) ELSE FileAt(v)

(* Memory is what HEAD and the applied records say, up to ids of writes    *)
(* that failed, as long as no fault left half a record or a renamed HEAD.  *)
Clean == Range(faults) \subseteq {"fail"}

CleanInv ==
  Clean =>
    /\ \A g \in DOMAIN wal : wal[g] \in Seq(LogRecords)
    /\ up => /\ task.at # "retire" => Checkpointed.generation = generation
             /\ task.at = "apply" => synced = Len(Log)
             /\ \A i \in synced + 1 .. Done : Log[i].id \in doubtful
             /\ SameBut(doubtful, mem.app \cup WorkingRows(mem),
                        Base \cup UpsertedUpTo(Log, Done))
             /\ SameBut(doubtful, mem.dels,
                        Checkpointed.dels \cup TombstonedUpTo(Base, Log, Done))

FInv ==
  /\ FShapes /\ GenerationsInv /\ FBatchInv /\ FilesInv /\ TaskInv
  /\ HeadIdsInv /\ LogIdsInv /\ MemoryIdsInv /\ AllocatorInv
  /\ SegmentsInv /\ FrozenInv /\ CleanInv

-----------------------------------------------------------------------------
(***************************************************************************)
(* Steps that leave the directory alone.                                   *)
(***************************************************************************)

(* What open() reads of HEAD and versions is well formed.                  *)
LEMMA HeadType ==
  ASSUME FShapes
  PROVE  Checkpointed \in Heads /\ StoreShape(StoredStore) /\ HistoryShape(StoredStore)
<1>1. NoCheckpoint \in Heads
  BY DEF NoCheckpoint, Heads
<1>2. StoreShape(EmptyStore) /\ HistoryShape(EmptyStore)
  BY DEF StoreShape, HistoryShape, EmptyStore, Versions
<1>3. Checkpointed \in Heads
  BY <1>1 DEF FShapes, Checkpointed
<1>4. QED
  BY <1>2, <1>3 DEF FShapes, StoredStore

(* One more fault, and what it says of the ones before.                    *)
LEMMA FaultAdded ==
  ASSUME FShapes, NEW kind \in {"fail", "tear", "late"}, faults' = Append(faults, kind)
  PROVE  /\ faults' \in Seq({"fail", "tear", "late"})
         /\ Clean' => Clean /\ kind = "fail"
<1> DEFINE K == {"fail", "tear", "late"}
<1>1. faults \in Seq(K)
  BY DEF FShapes
<1>2. /\ faults' \in Seq(K) /\ Len(faults') = Len(faults) + 1
      /\ \A i \in 1 .. Len(faults) : faults'[i] = faults[i]
      /\ faults'[Len(faults) + 1] = kind
  <2>1. PICK s \in Seq(K) : s = faults
    BY <1>1
  <2>2. /\ Append(s, kind) \in Seq(K) /\ Len(Append(s, kind)) = Len(s) + 1
        /\ \A i \in 1 .. Len(s) : Append(s, kind)[i] = s[i]
        /\ Append(s, kind)[Len(s) + 1] = kind
    BY AppendProperties
  <2>3. QED
    BY <2>1, <2>2
<1>3. DOMAIN faults = 1 .. Len(faults) /\ DOMAIN faults' = 1 .. Len(faults) + 1
      /\ Len(faults) \in Nat
  BY <1>1, <1>2
<1>4. Range(faults) \subseteq Range(faults') /\ kind \in Range(faults')
  BY <1>2, <1>3 DEF Range
<1>5. QED
  BY <1>2, <1>4 DEF Clean

(* What a step does to the version store and the registry when it loses    *)
(* none of either.                                                         *)
SegmentsKept(m, r) ==
  /\ CollectionShape(r) /\ RegistryOK(r) /\ HistoryShape(r.vs)
  /\ m.nextSeg <= r.nextSeg
  /\ \A i \in DOMAIN m.segments :
       /\ i \in DOMAIN r.segments
       /\ i < m.nextSeg => r.segments[i] = m.segments[i]
  /\ \A v \in Versions(m.vs) : v \in Versions(r.vs) /\ r.vs.commits[v] = m.vs.commits[v]
  /\ AllReferenced(r.vs) \subseteq AllReferenced(m.vs) \cup WorkingIds(r)

(* The versions it adds hold what is live, and so say their ranges, up to  *)
(* ids in doubt.                                                           *)
NewVersions(m, r, doubt) ==
  \A v \in Versions(r.vs) \ Versions(m.vs) :
    /\ LiveAt(r, v) = Live(r)
    /\ SameBut(doubt, LiveIds(r.vs.commits[v]), Live(r))

(* The history variables after a step of an open collection.               *)
LEMMA Observed ==
  ASSUME FInv, up, up', Observe,
         \A v \in Versions(StoredStore') : v \in Versions(mem'.vs)
  PROVE  /\ tainted' = tainted
         /\ frozen' = [v \in Versions(mem'.vs) |->
                         IF v \in Versions(mem.vs) THEN frozen[v] ELSE Live(mem')]
<1>1. Known = Versions(mem.vs)
  BY DEF FInv, SegmentsInv, Known
<1>2. Known' = Versions(mem'.vs)
  BY DEF Known
<1>3. QED
  BY <1>1, <1>2 DEF Observe

LEMMA FrozenKept ==
  ASSUME FInv, up, up', Observe, SegmentsKept(mem, mem'), doubtful \subseteq doubtful',
         NewVersions(mem, mem', doubtful'),
         \A v \in Versions(StoredStore') : v \in Versions(mem'.vs)
  PROVE  FrozenInv' /\ tainted' = tainted
<1>1. /\ tainted' = tainted
      /\ frozen' = [v \in Versions(mem'.vs) |->
                      IF v \in Versions(mem.vs) THEN frozen[v] ELSE Live(mem')]
  BY Observed
<1>2. Current = mem.vs /\ Current' = mem'.vs
  BY DEF Current
<1>3. ASSUME NEW v \in Versions(mem.vs)
      PROVE  /\ SameBut(doubtful', LiveIds(mem'.vs.commits[v]), frozen'[v])
             /\ SegmentIds(mem'.vs.commits[v]) \cap tainted = {} =>
                  frozen'[v] = LiveAt(mem', v)
  <2>1. /\ SameBut(doubtful, LiveIds(mem.vs.commits[v]), frozen[v])
        /\ SegmentIds(mem.vs.commits[v]) \cap tainted = {} => frozen[v] = LiveAt(mem, v)
    BY <1>2 DEF FInv, FrozenInv
  <2>2. v \in Versions(mem'.vs) /\ mem'.vs.commits[v] = mem.vs.commits[v]
    BY DEF SegmentsKept
  <2>3. frozen'[v] = frozen[v]
    BY <1>1, <2>2
  <2>4. SameBut(doubtful', LiveIds(mem'.vs.commits[v]), frozen'[v])
    BY <2>1, <2>2, <2>3 DEF SameBut
  <2>5. ASSUME SegmentIds(mem.vs.commits[v]) \cap tainted = {}
        PROVE  LiveAt(mem', v) = LiveAt(mem, v)
    <3>1. AllReferenced(mem.vs) \subseteq DOMAIN mem.segments
      BY DEF FInv, FilesInv, RegistryOK, SegmentIdsToPersist
    <3>2. ASSUME NEW i \in SegmentIds(mem.vs.commits[v])
          PROVE  i \in DOMAIN mem'.segments /\ mem'.segments[i] = mem.segments[i]
      <4>1. i \in AllReferenced(mem.vs)
        BY DEF AllReferenced
      <4>2. i < mem.nextSeg
        BY <2>5, <4>1 DEF FInv, SegmentsInv
      <4>3. QED
        BY <3>1, <4>1, <4>2 DEF SegmentsKept
    <3>3. QED
      BY <2>2, <3>1, <3>2, SameVersion
  <2>6. QED
    BY <2>1, <2>2, <2>3, <2>4, <2>5
<1>4. ASSUME NEW v \in Versions(mem'.vs), v \notin Versions(mem.vs)
      PROVE  /\ SameBut(doubtful', LiveIds(mem'.vs.commits[v]), frozen'[v])
             /\ frozen'[v] = LiveAt(mem', v)
  BY <1>1, <1>4 DEF NewVersions
<1>5. DOMAIN frozen' = Versions(mem'.vs)
  BY <1>1
<1>6. QED
  BY <1>1, <1>2, <1>3, <1>4, <1>5 DEF FrozenInv

LEMMA FilesUntouched ==
  ASSUME FInv, up, up', Observe, SegmentsKept(mem, mem'),
         UNCHANGED <<persisted, head, versions, segFiles>>, doubtful \subseteq doubtful',
         NewVersions(mem, mem', doubtful')
  PROVE  FilesInv' /\ SegmentsInv' /\ FrozenInv'
<1>1. /\ Checkpointed' = Checkpointed /\ LoadedSegments' = LoadedSegments
      /\ StoredStore' = StoredStore
  BY DEF Checkpointed, LoadedSegments, StoredStore
<1>2. \A v \in Versions(StoredStore) :
        v \in Versions(mem'.vs) /\ mem'.vs.commits[v] = StoredStore.commits[v]
  BY DEF FInv, SegmentsInv, SegmentsKept
<1>3. FrozenInv' /\ tainted' = tainted
  BY <1>1, <1>2, FrozenKept
<1>4. /\ mem.nextSeg \in Nat /\ mem'.nextSeg \in Nat /\ mem.nextSeg <= mem'.nextSeg
      /\ DOMAIN mem.segments \subseteq Nat /\ Checkpointed.nextSeg \in Nat
      /\ Checkpointed.working \subseteq Nat
  BY HeadType DEF FInv, FShapes, CollectionShape, SegmentsKept, Heads
<1>5. FilesInv'
  <2>1. RegistryOK(mem') /\ Checkpointed.nextSeg <= mem'.nextSeg
    BY <1>4 DEF SegmentsKept, FInv, FilesInv
  <2>2. ASSUME NEW i \in Checkpointed.working
        PROVE  i \in DOMAIN mem'.segments /\ Stored(i)'
    <3>1. i \in DOMAIN mem.segments /\ Stored(i) /\ i < mem.nextSeg
      BY <1>4 DEF FInv, FilesInv
    <3>2. QED
      BY <3>1 DEF SegmentsKept, Stored
  <2>3. QED
    BY <1>1, <2>1, <2>2 DEF FInv, FilesInv
<1>6. SegmentsInv'
  <2>1. ASSUME NEW i \in AllReferenced(mem'.vs)
        PROVE  i < mem'.nextSeg \/ i \in tainted
    <3>1. CASE i \in AllReferenced(mem.vs)
      <4>1. i \in Nat
        BY <1>4, <3>1 DEF FInv, FilesInv, RegistryOK, SegmentIdsToPersist
      <4>2. QED
        BY <1>4, <3>1, <4>1 DEF FInv, SegmentsInv
    <3>2. CASE i \in WorkingIds(mem')
      BY <3>2 DEF SegmentsKept, RegistryOK, WorkingIds
    <3>3. QED
      BY <3>1, <3>2 DEF SegmentsKept
  <2>2. ASSUME NEW i \in persisted \ tainted
        PROVE  i < mem'.nextSeg /\ i \in DOMAIN mem'.segments /\ Stored(i)'
    <3>1. i < mem.nextSeg /\ i \in DOMAIN mem.segments /\ Stored(i)
      BY DEF FInv, SegmentsInv
    <3>2. i < mem'.nextSeg
      BY <1>4, <3>1
    <3>3. QED
      BY <3>1, <3>2 DEF SegmentsKept, Stored
  <2>3. QED
    BY <1>1, <1>2, <1>3, <2>1, <2>2 DEF FInv, SegmentsInv
<1>7. QED
  BY <1>3, <1>5, <1>6

(* Ids in doubt only help.                                                 *)
LEMMA DoubtGrows ==
  ASSUME FInv, UNCHANGED <<wal, head, segFiles>>, doubtful \subseteq doubtful'
  PROVE  /\ HeadIdsInv' /\ LogIdsInv'
         /\ Checkpointed' = Checkpointed /\ Log' = Log /\ Base' = Base
<1>1. Checkpointed' = Checkpointed /\ Log' = Log /\ Base' = Base
  BY DEF Checkpointed, Log, Base
<1>2. HeadIdsInv'
  BY <1>1 DEF FInv, HeadIdsInv
<1>3. LogIdsInv'
  <2> SUFFICES ASSUME NEW n \in 1 .. Len(Log), Untorn(Log, n), Log[n].op = "upsert",
                      NEW id \in 0 .. Log[n].id - 1
               PROVE  \/ id < Checkpointed.nextId
                      \/ id \in UpsertedUpTo(Log, n - 1) \cup doubtful'
    BY <1>1 DEF LogIdsInv
  <2>1. QED
    BY DEF FInv, LogIdsInv
<1>4. QED
  BY <1>1, <1>2, <1>3

FaultsGrow ==
  faults' \in Seq({"fail", "tear", "late"}) /\ (Clean' => Clean)

LEMMA FRearrangeStep ==
  ASSUME FInv, up, ~InFlight, task.at # "retire",
         UNCHANGED <<up, generation, persisted, disk, doubtful>>, Observe, FaultsGrow,
         Rearranged(mem, mem'), SegmentsKept(mem, mem'),
         NewVersions(mem, mem', doubtful), \A s \in mem'.working : s.rows # {},
         TaskInv', ~InFlight', task'.at \notin {"retire", "head"}
  PROVE  FInv'
<1>1. UNCHANGED <<wal, synced, head, versions, segFiles>>
  BY DEF disk
<1>2. FilesInv' /\ SegmentsInv' /\ FrozenInv'
  BY <1>1, FilesUntouched
<1>3. /\ HeadIdsInv' /\ LogIdsInv'
      /\ Checkpointed' = Checkpointed /\ Log' = Log /\ Base' = Base
  BY <1>1, DoubtGrows
<1>4. /\ CollectionShape(mem') /\ HistoryShape(mem'.vs)
      /\ mem'.app \cup WorkingRows(mem') = mem.app \cup WorkingRows(mem)
      /\ mem'.dels = mem.dels /\ mem'.nextId = mem.nextId
  BY DEF SegmentsKept, Rearranged
<1>5. FShapes'
  BY <1>1, <1>4 DEF FInv, FShapes, FaultsGrow
<1>6. GenerationsInv'
  BY <1>1, <1>3 DEF FInv, GenerationsInv, ActiveWal
<1>7. FBatchInv'
  BY DEF FBatchInv
<1>8. MemoryIdsInv'
  <2>1. Pending' = Pending
    BY DEF Pending
  <2>2. QED
    BY <1>4, <2>1 DEF FInv, MemoryIdsInv
<1>9. AllocatorInv'
  BY <1>3, <1>4 DEF FInv, AllocatorInv
<1>10. CleanInv'
  <2>1. Done' = Done
    BY <1>3 DEF Done
  <2>2. task'.at # "apply"
    BY DEF InFlight
  <2>3. QED
    BY <1>1, <1>3, <1>4, <2>1, <2>2 DEF FInv, CleanInv, FaultsGrow
<1>11. QED
  BY <1>2, <1>3, <1>5, <1>6, <1>7, <1>8, <1>9, <1>10 DEF FInv

(* A store with the same manifests.                                        *)
LEMMA SamePointers ==
  ASSUME NEW m, CollectionShape(m), RegistryOK(m), NEW r, Rearranged(m, r),
         HistoryShape(r.vs), r.vs.commits = m.vs.commits, NEW doubt
  PROVE  SegmentsKept(m, r) /\ NewVersions(m, r, doubt)
<1>1. Versions(r.vs) = Versions(m.vs) /\ AllReferenced(r.vs) = AllReferenced(m.vs)
  BY DEF Versions, AllReferenced
<1>2. QED
  BY <1>1 DEF SegmentsKept, NewVersions, Rearranged

(* A call that begins, or that an error ends, with nothing changed yet.    *)
LEMMA FTaskStep ==
  ASSUME FInv, up, ~InFlight, task.at # "retire",
         UNCHANGED <<up, mem, generation, persisted, disk, doubtful>>, Observe, FaultsGrow,
         task'.at \in {"idle", "commit"}
  PROVE  FInv'
<1>1. CollectionShape(mem) /\ RegistryOK(mem) /\ HistoryShape(mem.vs)
  BY DEF FInv, FShapes, FilesInv
<1>2. Rearranged(mem, mem)
  BY <1>1 DEF Rearranged, CollectionShape
<1>3. SegmentsKept(mem, mem) /\ NewVersions(mem, mem, doubtful)
  BY <1>1, <1>2, SamePointers
<1>4. TaskInv' /\ ~InFlight'
  BY DEF TaskInv, InFlight
<1>5. \A s \in mem.working : s.rows # {}
  BY DEF FInv, MemoryIdsInv
<1>6. QED
  BY <1>2, <1>3, <1>4, <1>5, FRearrangeStep

LEMMA FPointerStep ==
  ASSUME FInv, Observe, FaultsGrow, UNCHANGED doubtful,
         Ready("tag") \/ Ready("branch"), NEW name, NEW v,
         \/ mem' = [mem EXCEPT !.vs = SetTag(@, name, v)]
         \/ mem' = [mem EXCEPT !.vs = SetBranch(@, name, v)],
         task' = Persist(mem'),
         UNCHANGED <<up, generation, persisted, disk, crashes>>
  PROVE  FInv'
<1>1. up /\ ~InFlight /\ task.at = "idle"
  BY DEF Ready, Idle, InFlight
<1>2. CollectionShape(mem) /\ RegistryOK(mem) /\ HistoryShape(mem.vs) /\ StoreShape(mem.vs)
  BY <1>1 DEF FInv, FShapes, FilesInv, CollectionShape
<1>3. PICK vs : /\ StoreShape(vs) /\ vs.commits = mem.vs.commits
                /\ vs.head = mem.vs.head /\ vs.next = mem.vs.next
                /\ mem' = [mem EXCEPT !.vs = vs]
  <2>1. /\ StoreShape(SetTag(mem.vs, name, v))
        /\ SetTag(mem.vs, name, v).commits = mem.vs.commits
        /\ SetTag(mem.vs, name, v).head = mem.vs.head
        /\ SetTag(mem.vs, name, v).next = mem.vs.next
    BY <1>2 DEF SetTag, StoreShape
  <2>2. /\ StoreShape(SetBranch(mem.vs, name, v))
        /\ SetBranch(mem.vs, name, v).commits = mem.vs.commits
        /\ SetBranch(mem.vs, name, v).head = mem.vs.head
        /\ SetBranch(mem.vs, name, v).next = mem.vs.next
    BY <1>2 DEF SetBranch, StoreShape
  <2>3. QED
    BY <2>1, <2>2
<1>4. AllReferenced(vs) = AllReferenced(mem.vs)
  BY <1>3 DEF AllReferenced, Versions
<1>5. Rearranged(mem, mem')
  BY <1>2, <1>3, <1>4, NewStoreRearranges
<1>6. mem'.vs = vs /\ mem'.working = mem.working
  BY <1>2, <1>3 DEF CollectionShape
<1>7. HistoryShape(mem'.vs)
  BY <1>2, <1>3, <1>6 DEF HistoryShape, Versions
<1>8. SegmentsKept(mem, mem') /\ NewVersions(mem, mem', doubtful)
  BY <1>2, <1>3, <1>5, <1>6, <1>7, SamePointers
<1>9. task' = [at |-> "segments", todo |-> SegmentIdsToPersist(mem')]
  BY DEF Persist
<1>10. TaskInv' /\ ~InFlight'
  BY <1>9 DEF TaskInv, InFlight
<1>11. \A s \in mem'.working : s.rows # {}
  BY <1>1, <1>6 DEF FInv, MemoryIdsInv
<1>12. QED
  BY <1>1, <1>5, <1>8, <1>9, <1>10, <1>11, FRearrangeStep

(* Sealing and merging make no empty segment.                              *)
LEMMA NoEmptySegment ==
  ASSUME NEW m, \A s \in m.working : s.rows # {}
  PROVE  /\ CollectionShape(m) => \A s \in Seal(m).working : s.rows # {}
         /\ CollectionShape(m) /\ CanCompact(m) =>
              \A s \in CompactWorking(m).working : s.rows # {}
<1>1. ASSUME CollectionShape(m)
      PROVE  \A s \in Seal(m).working : s.rows # {}
  <2>1. CASE m.app = {}
    BY <2>1 DEF Seal
  <2>2. CASE m.app # {}
    <3>1. Seal(m).working = m.working \cup {Segment(m.nextSeg, m.app)}
      BY <1>1, <2>2 DEF Seal, CollectionShape
    <3>2. QED
      BY <2>2, <3>1 DEF Segment
  <2>3. QED
    BY <2>1, <2>2
<1>2. ASSUME CollectionShape(m), CanCompact(m)
      PROVE  \A s \in CompactWorking(m).working : s.rows # {}
  <2>1. CompactWorking(m).working = {Segment(m.nextSeg, WorkingRows(m))}
    BY <1>2 DEF CompactWorking, CollectionShape
  <2>2. m.working # {}
    BY <1>2, FS_EmptySet DEF CanCompact
  <2>3. WorkingRows(m) # {}
    BY <2>2 DEF WorkingRows
  <2>4. QED
    BY <2>1, <2>3 DEF Segment
<1>3. QED
  BY <1>1, <1>2

LEMMA FStartCheckpoint ==
  ASSUME FInv, up, task = Idle, NEW m, Rearranged(mem, m), m.vs = mem.vs,
         \A s \in m.working : s.rows # {}, StartCheckpoint(m),
         UNCHANGED <<up, generation, persisted, disk, crashes, doubtful>>,
         Observe, FaultsGrow
  PROVE  FInv'
<1>1. CollectionShape(m) /\ RegistryOK(m) /\ CollectionShape(mem) /\ RegistryOK(mem)
  BY DEF Rearranged, FInv, FShapes, FilesInv
<1>2. Rearranged(m, Seal(m)) /\ Seal(m).app = {} /\ Seal(m).vs = m.vs
  BY <1>1, SealRearranges
<1>3. CollectionShape(Seal(m))
  BY <1>2 DEF Rearranged
<1>4. Rearranged(mem, mem') /\ mem'.app = {} /\ mem'.vs = mem.vs
  BY <1>1, <1>2, <1>3, RearrangedTwice DEF StartCheckpoint
<1>5. task' = [at |-> "checkpoint",
               todo |-> SegmentIdsToPersist(mem') \cap DOMAIN mem'.segments]
  BY DEF StartCheckpoint
<1>6. SegmentIdsToPersist(mem') \subseteq DOMAIN mem'.segments
  BY <1>4 DEF Rearranged, RegistryOK
<1>7. TaskInv' /\ ~InFlight'
  BY <1>4, <1>5, <1>6 DEF TaskInv, InFlight
<1>8. SegmentsKept(mem, mem') /\ NewVersions(mem, mem', doubtful)
  BY <1>1, <1>4, SamePointers DEF FInv, FShapes
<1>9. \A s \in mem'.working : s.rows # {}
  BY <1>1, NoEmptySegment DEF StartCheckpoint
<1>10. ~InFlight /\ task.at # "retire"
  BY DEF Idle, InFlight
<1>11. QED
  BY <1>4, <1>5, <1>7, <1>8, <1>9, <1>10, FRearrangeStep

LEMMA FCheckpointStep ==
  ASSUME FInv, Checkpoint \/ Compact, Observe, FaultsGrow, UNCHANGED doubtful
  PROVE  FInv'
<1>1. up /\ task = Idle
  BY DEF Checkpoint, Compact, Ready
<1>2. CollectionShape(mem) /\ RegistryOK(mem) /\ \A s \in mem.working : s.rows # {}
  BY <1>1 DEF FInv, FShapes, FilesInv, MemoryIdsInv
<1>3. CASE Checkpoint
  <2>1. Rearranged(mem, mem)
    BY <1>2 DEF Rearranged, CollectionShape
  <2>2. QED
    BY <1>1, <1>2, <1>3, <2>1, FStartCheckpoint DEF Checkpoint
<1>4. CASE Compact
  <2>1. Rearranged(mem, CompactWorking(mem)) /\ CompactWorking(mem).vs = mem.vs
    BY <1>2, CompactRearranges
  <2>2. \A s \in CompactWorking(mem).working : s.rows # {}
    BY <1>2, <1>4, NoEmptySegment DEF Compact
  <2>3. QED
    BY <1>1, <1>4, <2>1, <2>2, FStartCheckpoint DEF Compact
<1>5. QED
  BY <1>3, <1>4

(* commit(): one more version, of the sealed working set.                  *)
LEMMA CommitDetail ==
  ASSUME NEW m, CollectionShape(m), RegistryOK(m), HistoryShape(m.vs), NEW tag,
         NEW r, r = CommitWorking(m, tag)
  PROVE  /\ Rearranged(m, r) /\ SegmentsKept(m, r)
         /\ r.app = {} /\ r.working = Seal(m).working
         /\ Versions(r.vs) = Versions(m.vs) \cup {m.vs.next}
         /\ r.vs.commits[m.vs.next]
              = Manifest(m.vs.head, {Reference(s) : s \in r.working}, r.dels)
<1> DEFINE sealed == Seal(m)
           references == {Reference(s) : s \in sealed.working}
           vs == CommitTo(sealed.vs, references, sealed.dels, tag)
           new == m.vs.next
<1>1. Rearranged(m, r) /\ Rearranged(m, sealed) /\ sealed.app = {} /\ sealed.vs = m.vs
  BY CommitRearranges, SealRearranges
<1>2. /\ r.vs = vs /\ r.app = {} /\ r.working = sealed.working /\ r.dels = sealed.dels
      /\ r.segments = sealed.segments
  <2>1. sealed = [app |-> sealed.app, working |-> sealed.working,
                  segments |-> sealed.segments, dels |-> sealed.dels,
                  payloads |-> sealed.payloads, vs |-> sealed.vs,
                  nextId |-> sealed.nextId, nextSeg |-> sealed.nextSeg]
    BY <1>1 DEF Rearranged, CollectionShape
  <2>2. r = [sealed EXCEPT !.vs = vs]
    BY DEF CommitWorking
  <2> HIDE DEF sealed, vs
  <2>3. QED
    BY <1>1, <2>1, <2>2
<1>3. new \in Nat /\ new \notin Versions(m.vs)
  BY DEF HistoryShape
<1>4. /\ vs.next = new + 1 /\ vs.head = new
      /\ Versions(vs) = Versions(m.vs) \cup {new}
      /\ vs.commits[new] = Manifest(m.vs.head, references, sealed.dels)
      /\ \A v \in Versions(m.vs) : vs.commits[v] = m.vs.commits[v]
  BY <1>1, <1>3 DEF CommitTo, Versions
<1>5. SegmentIds(vs.commits[new]) = WorkingIds(r)
  <2>1. \A s : Reference(s).id = s.id
    BY DEF Reference
  <2>2. {s.id : s \in references} = {s.id : s \in sealed.working}
    BY <2>1
  <2> HIDE DEF references, vs, sealed, new
  <2>3. vs.commits[new].segments = references
    BY <1>4 DEF Manifest
  <2>4. QED
    BY <1>2, <2>2, <2>3 DEF SegmentIds, WorkingIds
<1> HIDE DEF sealed, references, vs, new
<1>6. HistoryShape(r.vs)
  <2>1. ASSUME NEW v \in Versions(vs)
        PROVE  /\ v \in Nat /\ v < vs.next
               /\ vs.head \in Versions(vs) /\ v <= vs.head
    <3>1. v \in Versions(m.vs) => v \in Nat /\ v < new
      BY DEF HistoryShape, new
    <3>2. QED
      BY <3>1, <1>3, <1>4
  <2>2. vs.next \in Nat
    BY <1>3, <1>4
  <2>3. QED
    BY <1>2, <2>1, <2>2 DEF HistoryShape
<1>7. AllReferenced(r.vs) \subseteq AllReferenced(m.vs) \cup WorkingIds(r)
  BY <1>2, <1>4, <1>5 DEF AllReferenced
<1>8. SegmentsKept(m, r)
  BY <1>1, <1>2, <1>4, <1>6, <1>7 DEF SegmentsKept, Rearranged
<1>9. QED
  BY <1>1, <1>2, <1>4, <1>8 DEF sealed, references, new

(* The id range of a segment: its rows and ids in between.                 *)
LEMMA RangeOfRows ==
  ASSUME NEW rows \in SUBSET Nat, rows # {}, NEW n \in Nat, \A id \in rows : id < n
  PROVE  /\ rows \subseteq Min(rows) .. Max(rows)
         /\ Min(rows) .. Max(rows) \subseteq 0 .. n - 1
<1>1. Min(rows) \in rows /\ \A y \in rows : Min(rows) <= y
  BY MinInSet
<1>2. Max(rows) \in rows /\ \A y \in rows : y <= Max(rows)
  <2>1. \A y \in rows : y <= n
    OBVIOUS
  <2>2. QED
    BY <2>1, MaxInSet
<1>3. Min(rows) \in Nat /\ Max(rows) \in Nat /\ Max(rows) < n
  BY <1>1, <1>2
<1>4. QED
  BY <1>1, <1>2, <1>3

(* The ranges of a working set that all allocated ids but those in doubt   *)
(* are rows of.                                                            *)
LEMMA RangesCover ==
  ASSUME NEW m, CollectionShape(m), RegistryOK(m), NEW doubt, NEW parent, NEW dels,
         \A s \in m.working : s.rows # {},
         \A id \in WorkingRows(m) : id < m.nextId,
         \A id \in 0 .. m.nextId - 1 : id \in WorkingRows(m) \cup doubt
  PROVE  SameBut(doubt,
                 LiveIds(Manifest(parent, {Reference(s) : s \in m.working}, dels)),
                 WorkingRows(m) \ dels)
<1> DEFINE references == {Reference(s) : s \in m.working}
           ranges == UNION {q.lo .. q.hi : q \in references}
<1>1. m.nextId \in Nat /\ WorkingRows(m) \subseteq Nat
  BY WorkingRowsType DEF CollectionShape
<1>2. ASSUME NEW s \in m.working
      PROVE  /\ s.rows \subseteq Min(s.rows) .. Max(s.rows)
             /\ Min(s.rows) .. Max(s.rows) \subseteq 0 .. m.nextId - 1
  <2>1. s.rows \subseteq WorkingRows(m) /\ s.rows # {}
    BY DEF WorkingRows
  <2>2. QED
    BY <1>1, <2>1, RangeOfRows
<1>3. \A s : Reference(s).lo = Min(s.rows) /\ Reference(s).hi = Max(s.rows)
  BY DEF Reference
<1>4. ASSUME NEW id \in WorkingRows(m)
      PROVE  id \in ranges
  <2>1. PICK s \in m.working : id \in s.rows
    BY DEF WorkingRows
  <2>2. id \in Reference(s).lo .. Reference(s).hi /\ Reference(s) \in references
    BY <1>2, <1>3, <2>1
  <2>3. QED
    BY <2>2
<1>5. ASSUME NEW id \in ranges
      PROVE  id \in WorkingRows(m) \cup doubt
  <2>1. PICK q \in references : id \in q.lo .. q.hi
    OBVIOUS
  <2>2. PICK s \in m.working : q = Reference(s)
    OBVIOUS
  <2>3. id \in Min(s.rows) .. Max(s.rows)
    BY <1>3, <2>1, <2>2
  <2>4. QED
    BY <1>2, <2>3
<1> HIDE DEF ranges
<1>6. LiveIds(Manifest(parent, references, dels)) = ranges \ dels
  BY DEF LiveIds, Manifest, ranges
<1>7. QED
  BY <1>4, <1>5, <1>6 DEF SameBut

LEMMA FCommitStep ==
  ASSUME FInv, Commit, Observe, FaultsGrow, UNCHANGED doubtful
  PROVE  FInv'
<1>1. /\ up /\ ~InFlight /\ task.at = "commit"
      /\ mem' = CommitWorking(mem, task.tag) /\ task' = Persist(mem')
      /\ UNCHANGED <<up, generation, persisted, disk, crashes>>
  BY DEF Commit, InFlight
<1>2. /\ CollectionShape(mem) /\ RegistryOK(mem) /\ HistoryShape(mem.vs)
      /\ \A s \in mem.working : s.rows # {}
      /\ \A id \in mem.app \cup WorkingRows(mem) : id < mem.nextId
      /\ \A id \in 0 .. mem.nextId - 1 :
           id \in mem.app \cup WorkingRows(mem) \cup Upserted(Pending) \cup doubtful
  BY <1>1 DEF FInv, FShapes, FilesInv, MemoryIdsInv
<1>3. PICK r : r = mem'
  OBVIOUS
<1> DEFINE new == mem.vs.next
<1>4. /\ Rearranged(mem, r) /\ SegmentsKept(mem, r)
      /\ r.app = {} /\ r.working = Seal(mem).working
      /\ Versions(r.vs) = Versions(mem.vs) \cup {new}
      /\ r.vs.commits[new]
           = Manifest(mem.vs.head, {Reference(s) : s \in r.working}, r.dels)
  BY <1>1, <1>2, <1>3, CommitDetail
<1>5. /\ CollectionShape(r) /\ RegistryOK(r) /\ r.nextId = mem.nextId
      /\ WorkingRows(r) = mem.app \cup WorkingRows(mem)
  BY <1>4 DEF Rearranged
<1>6. \A s \in r.working : s.rows # {}
  BY <1>2, <1>4, NoEmptySegment
<1>7. Upserted(Pending) = {}
  BY <1>1 DEF Pending, Upserted, IdsOf
<1>8. SameBut(doubtful, LiveIds(r.vs.commits[new]), WorkingRows(r) \ r.dels)
  <2>1. /\ \A id \in WorkingRows(r) : id < r.nextId
        /\ \A id \in 0 .. r.nextId - 1 : id \in WorkingRows(r) \cup doubtful
    BY <1>2, <1>5, <1>7
  <2>2. QED
    BY <1>4, <1>5, <1>6, <2>1, RangesCover
<1>9. Live(r) = WorkingRows(r) \ r.dels
  BY <1>4 DEF Live
<1>10. LiveAt(r, new) = Live(r)
  <2>1. \A s : Reference(s).id = s.id
    BY DEF Reference
  <2>2. SegmentIds(r.vs.commits[new]) = WorkingIds(r) /\ r.vs.commits[new].deletions = r.dels
    <3>1. {s.id : s \in {Reference(t) : t \in r.working}} = {s.id : s \in r.working}
      BY <2>1
    <3>2. PICK manifest : manifest = r.vs.commits[new]
      OBVIOUS
    <3>3. /\ manifest.segments = {Reference(s) : s \in r.working}
          /\ manifest.deletions = r.dels
      BY <1>4, <3>2 DEF Manifest
    <3>4. QED
      BY <3>1, <3>2, <3>3 DEF SegmentIds, WorkingIds
  <2>3. \A s \in r.working : s.id \in DOMAIN r.segments /\ r.segments[s.id] = s.rows
    BY <1>5 DEF RegistryOK
  <2>4. WorkingIds(r) \cap DOMAIN r.segments = WorkingIds(r)
    BY <2>3 DEF WorkingIds
  <2>5. UNION {r.segments[i] : i \in WorkingIds(r)} = WorkingRows(r)
    BY <2>3 DEF WorkingIds, WorkingRows
  <2>6. QED
    BY <1>9, <2>2, <2>4, <2>5 DEF LiveAt
<1>11. NewVersions(mem, r, doubtful)
  BY <1>4, <1>8, <1>9, <1>10 DEF NewVersions
<1>12. task' = [at |-> "segments", todo |-> SegmentIdsToPersist(mem')]
  BY <1>1 DEF Persist
<1>13. TaskInv' /\ ~InFlight'
  BY <1>12 DEF TaskInv, InFlight
<1>14. QED
  BY <1>1, <1>3, <1>4, <1>6, <1>11, <1>12, <1>13, FRearrangeStep

-----------------------------------------------------------------------------
(***************************************************************************)
(* Steps that write files.                                                 *)
(***************************************************************************)

(* A collection that stays as it is.                                       *)
LEMMA StandsStill ==
  ASSUME FInv, up, NEW doubt
  PROVE  SegmentsKept(mem, mem) /\ NewVersions(mem, mem, doubt)
<1>1. CollectionShape(mem) /\ RegistryOK(mem) /\ HistoryShape(mem.vs)
  BY DEF FInv, FShapes, FilesInv
<1>2. Rearranged(mem, mem)
  BY <1>1 DEF Rearranged, CollectionShape
<1>3. QED
  BY <1>1, <1>2, SamePointers

(* Where the ids of segments that must be stored come from.                *)
LEMMA SegmentIdsKnown ==
  ASSUME FInv, up, NEW i \in SegmentIdsToPersist(mem)
  PROVE  /\ i \in Nat /\ i \in DOMAIN mem.segments
         /\ i < mem.nextSeg \/ i \in tainted
<1>1. i \in DOMAIN mem.segments /\ DOMAIN mem.segments \subseteq Nat
  BY DEF FInv, FShapes, CollectionShape, FilesInv, RegistryOK
<1>2. i \in WorkingIds(mem) => i < mem.nextSeg
  BY DEF FInv, FilesInv, RegistryOK, WorkingIds
<1>3. i \in AllReferenced(mem.vs) => i < mem.nextSeg \/ i \in tainted
  BY DEF FInv, SegmentsInv
<1>4. QED
  BY <1>1, <1>2, <1>3 DEF SegmentIdsToPersist

(* A segment file gets the rows of the registered segment.                 *)
LEMMA FStoreEffect ==
  ASSUME FInv, NEW i \in DOMAIN mem.segments, StoreSegment(i), mem' = mem
  PROVE  /\ DOMAIN segFiles' = DOMAIN segFiles \cup {i}
         /\ Stored(i)'
         /\ \A j : Stored(j) => Stored(j)'
         /\ segFiles' \in [DOMAIN segFiles' -> SUBSET Nat]
<1>1. /\ segFiles \in [DOMAIN segFiles -> SUBSET Nat]
      /\ mem.segments[i] \in SUBSET Nat
  BY DEF FInv, FShapes, CollectionShape
<1>2. QED
  BY <1>1 DEF StoreSegment, Stored

(* Writing a segment file, whether or not the call goes on.                *)
LEMMA FStoreStep ==
  ASSUME FInv, up, ~InFlight, task.at # "retire",
         NEW i \in SegmentIdsToPersist(mem), StoreSegment(i),
         persisted \subseteq persisted', persisted' \subseteq persisted \cup {i},
         UNCHANGED <<up, mem, generation, wal, synced, head, versions, doubtful>>,
         Observe, FaultsGrow,
         TaskInv', ~InFlight', task'.at \notin {"retire", "head"}
  PROVE  FInv'
<1>1. /\ i \in Nat /\ i \in DOMAIN mem.segments
      /\ i < mem.nextSeg \/ i \in tainted
  BY SegmentIdsKnown
<1>2. /\ DOMAIN segFiles' = DOMAIN segFiles \cup {i}
      /\ Stored(i)'
      /\ \A j : Stored(j) => Stored(j)'
      /\ segFiles' \in [DOMAIN segFiles' -> SUBSET Nat]
  BY <1>1, FStoreEffect
<1>3. /\ Checkpointed' = Checkpointed /\ Log' = Log
      /\ LoadedSegments' = LoadedSegments /\ StoredStore' = StoredStore
  BY DEF Checkpointed, Log, LoadedSegments, StoredStore
<1>4. \A j \in Checkpointed.working : segFiles'[j] = segFiles[j]
  <2>1. \A j \in Checkpointed.working : Stored(j) /\ Stored(j)'
    BY <1>2 DEF FInv, FilesInv
  <2>2. QED
    BY <2>1 DEF Stored
<1>5. Base' = Base
  BY <1>3, <1>4 DEF Base
<1>6. FrozenInv' /\ tainted' = tainted
  <2>1. \A v \in Versions(StoredStore') : v \in Versions(mem'.vs)
    BY <1>3 DEF FInv, SegmentsInv
  <2>2. QED
    BY <2>1, StandsStill, FrozenKept
<1>7. FShapes'
  BY <1>1, <1>2 DEF FInv, FShapes, FaultsGrow
<1>8. GenerationsInv'
  BY <1>3 DEF FInv, GenerationsInv, ActiveWal
<1>9. FBatchInv'
  BY DEF FBatchInv
<1>10. FilesInv'
  BY <1>2, <1>3 DEF FInv, FilesInv
<1>11. HeadIdsInv' /\ LogIdsInv'
  BY <1>3, <1>4, <1>5 DEF FInv, HeadIdsInv, LogIdsInv
<1>12. MemoryIdsInv'
  <2>1. Pending' = Pending
    BY DEF Pending
  <2>2. QED
    BY <2>1 DEF FInv, MemoryIdsInv
<1>13. AllocatorInv'
  BY <1>3 DEF FInv, AllocatorInv
<1>14. SegmentsInv'
  BY <1>1, <1>2, <1>3, <1>6 DEF FInv, SegmentsInv
<1>15. CleanInv'
  <2>1. Done' = Done
    BY <1>3 DEF Done
  <2>2. task'.at # "apply"
    BY DEF InFlight
  <2>3. QED
    BY <1>3, <1>5, <2>1, <2>2 DEF FInv, CleanInv, FaultsGrow
<1>16. QED
  BY <1>6, <1>7, <1>8, <1>9, <1>10, <1>11, <1>12, <1>13, <1>14, <1>15 DEF FInv

(* The first segment that persist_versions has yet to write.               *)
LEMMA NextToWrite ==
  ASSUME FInv, up, task.at = "segments", ToWrite # {}
  PROVE  Min(ToWrite) \in SegmentIdsToPersist(mem) /\ ~InFlight
<1>1. ToWrite \in SUBSET Nat
  BY DEF ToWrite, FInv, FShapes, CollectionShape
<1>2. Min(ToWrite) \in task.todo
  BY <1>1, MinInSet DEF ToWrite
<1>3. QED
  BY <1>2 DEF FInv, TaskInv, InFlight

LEMMA FPersistSegmentStep ==
  ASSUME FInv, PersistSegment, Observe, FaultsGrow, UNCHANGED doubtful
  PROVE  FInv'
<1>1. up /\ task.at = "segments" /\ ToWrite # {}
  BY DEF PersistSegment
<1>2. Min(ToWrite) \in SegmentIdsToPersist(mem) /\ ~InFlight
  BY <1>1, NextToWrite
<1>3. TaskInv' /\ ~InFlight' /\ task'.at = "segments"
  BY <1>1 DEF PersistSegment, FInv, TaskInv, InFlight
<1>4. QED
  BY <1>1, <1>2, <1>3, FStoreStep DEF PersistSegment

(* The first segment that a checkpoint has yet to write.                   *)
LEMMA NextInCheckpoint ==
  ASSUME FInv, up, task.at = "checkpoint", task.todo # {}
  PROVE  /\ Min(task.todo) \in task.todo /\ ~InFlight
         /\ Min(task.todo) \in SegmentIdsToPersist(mem)
         /\ task = [at |-> "checkpoint", todo |-> task.todo]
<1>1. /\ task.todo \subseteq SegmentIdsToPersist(mem) \cap DOMAIN mem.segments
      /\ task = [at |-> "checkpoint", todo |-> task.todo]
  BY DEF FInv, TaskInv
<1>2. task.todo \in SUBSET Nat
  BY <1>1 DEF FInv, FShapes, CollectionShape
<1>3. Min(task.todo) \in task.todo
  BY <1>2, MinInSet
<1>4. QED
  BY <1>1, <1>3 DEF InFlight

LEMMA FCheckpointSegmentStep ==
  ASSUME FInv, CheckpointSegment, Observe, FaultsGrow, UNCHANGED doubtful
  PROVE  FInv'
<1>1. up /\ task.at = "checkpoint" /\ task.todo # {} /\ UNCHANGED <<up, mem>>
  BY DEF CheckpointSegment
<1>2. PICK i \in task.todo : i = Min(task.todo)
  BY <1>1, NextInCheckpoint
<1>3. /\ i \in SegmentIdsToPersist(mem) /\ ~InFlight
      /\ task = [at |-> "checkpoint", todo |-> task.todo]
  BY <1>1, <1>2, NextInCheckpoint
<1>4. task' = [at |-> "checkpoint", todo |-> task.todo \ {i}]
  BY <1>2, <1>3 DEF CheckpointSegment
<1>5. StoreSegment(i) /\ persisted' = persisted \cup {i}
  BY <1>2 DEF CheckpointSegment
<1>6. Stored(i)' /\ \A j : Stored(j) => Stored(j)'
  <2>1. i \in DOMAIN mem.segments
    BY <1>1, <1>3, SegmentIdsKnown
  <2>2. QED
    BY <1>1, <1>5, <2>1, FStoreEffect
<1>7. TaskInv'
  <2>1. /\ task'.at = "checkpoint" /\ task'.todo = task.todo \ {i}
        /\ task'.todo \subseteq SegmentIdsToPersist(mem) \cap DOMAIN mem.segments
        /\ mem.app = {}
    BY <1>1, <1>4 DEF FInv, TaskInv
  <2>2. ASSUME NEW j \in SegmentIdsToPersist(mem), j \notin task'.todo
        PROVE  Stored(j)'
    <3>1. j = i \/ j \notin task.todo
      BY <2>1, <2>2
    <3>2. QED
      BY <1>1, <1>6, <3>1 DEF FInv, TaskInv
  <2>3. QED
    BY <1>1, <1>4, <2>1, <2>2 DEF TaskInv
<1>8. ~InFlight' /\ task'.at = "checkpoint"
  BY <1>4 DEF InFlight
<1>9. QED
  BY <1>1, <1>3, <1>5, <1>7, <1>8, FStoreStep DEF CheckpointSegment

LEMMA FFailCheckpointStep ==
  ASSUME FInv, FailCheckpoint, Observe, FaultsGrow
  PROVE  FInv'
<1>1. /\ up /\ task.at = "checkpoint" /\ task' = Idle
      /\ UNCHANGED <<up, mem, generation, persisted, wal, synced, head, versions, doubtful>>
  BY DEF FailCheckpoint, Fault
<1>2. ~InFlight /\ TaskInv' /\ ~InFlight' /\ task'.at = "idle"
  BY <1>1 DEF InFlight, TaskInv, Idle
<1>3. CASE UNCHANGED segFiles
  BY <1>1, <1>2, <1>3, FTaskStep DEF disk
<1>4. CASE task.todo # {} /\ StoreSegment(Min(task.todo))
  <2>1. Min(task.todo) \in SegmentIdsToPersist(mem)
    BY <1>1, <1>4, NextInCheckpoint
  <2>2. QED
    BY <1>1, <1>2, <1>4, <2>1, FStoreStep
<1>5. QED
  BY <1>3, <1>4 DEF FailCheckpoint

(* The versions file is written when every segment it names is there.      *)
LEMMA FVersionsStep ==
  ASSUME FInv, up, task.at = "segments", ToWrite = {}, versions' = mem.vs, task' = Idle,
         UNCHANGED <<up, mem, generation, persisted, wal, synced, head, segFiles, doubtful>>,
         Observe, FaultsGrow
  PROVE  FInv'
<1>1. Checkpointed' = Checkpointed /\ Log' = Log /\ Base' = Base
  BY DEF Checkpointed, Log, Base
<1>2. Versions(EmptyStore) = {} /\ AllReferenced(EmptyStore) = {}
  BY DEF AllReferenced, Versions, EmptyStore
<1>3. StoredStore' = mem.vs \/ StoredStore' = EmptyStore
  BY DEF StoredStore
<1>4. AllReferenced(StoredStore') \subseteq persisted
  <2>1. SegmentIdsToPersist(mem) \subseteq persisted
    BY DEF FInv, TaskInv, FilesInv, RegistryOK, ToWrite
  <2>2. QED
    BY <1>2, <1>3, <2>1 DEF SegmentIdsToPersist
<1>5. \A v \in Versions(StoredStore') :
        v \in Versions(mem.vs) /\ mem.vs.commits[v] = StoredStore'.commits[v]
  BY <1>2, <1>3
<1>6. FrozenInv' /\ tainted' = tainted
  BY <1>5, StandsStill, FrozenKept
<1>7. FShapes'
  <2>1. StoreShape(mem.vs) /\ HistoryShape(mem.vs)
    BY DEF FInv, FShapes, CollectionShape
  <2>2. QED
    BY <2>1 DEF FInv, FShapes, FaultsGrow
<1>8. ~InFlight /\ ~InFlight' /\ task'.at = "idle" /\ task.at # "retire"
  BY DEF InFlight, Idle
<1>9. GenerationsInv'
  BY <1>1, <1>8 DEF FInv, GenerationsInv, ActiveWal
<1>10. FBatchInv' /\ TaskInv'
  BY <1>8 DEF FBatchInv, TaskInv
<1>11. FilesInv'
  <2>1. LoadedSegments' \subseteq DOMAIN segFiles
    BY <1>1, <1>4 DEF FInv, FilesInv, LoadedSegments
  <2>2. QED
    BY <1>1, <2>1 DEF FInv, FilesInv, Stored
<1>12. HeadIdsInv' /\ LogIdsInv'
  BY <1>1 DEF FInv, HeadIdsInv, LogIdsInv
<1>13. MemoryIdsInv'
  <2>1. Pending' = Pending
    BY <1>8 DEF Pending
  <2>2. QED
    BY <2>1 DEF FInv, MemoryIdsInv
<1>14. AllocatorInv'
  BY <1>1, <1>8 DEF FInv, AllocatorInv
<1>15. SegmentsInv'
  BY <1>1, <1>4, <1>5, <1>6 DEF FInv, SegmentsInv, Stored
<1>16. CleanInv'
  <2>1. Done' = Done
    BY <1>1, <1>8 DEF Done
  <2>2. QED
    BY <1>1, <1>8, <2>1 DEF FInv, CleanInv, FaultsGrow
<1>17. QED
  BY <1>6, <1>7, <1>9, <1>10, <1>11, <1>12, <1>13, <1>14, <1>15, <1>16 DEF FInv

LEMMA FPersistVersionsStep ==
  ASSUME FInv, PersistVersions \/ FailPersist, Observe, FaultsGrow, UNCHANGED doubtful
  PROVE  FInv'
<1>1. CASE PersistVersions
  BY <1>1, FVersionsStep DEF PersistVersions
<1>2. CASE FailPersist
  <2>1. /\ up /\ task.at = "segments" /\ task' = Idle
        /\ UNCHANGED <<up, mem, generation, persisted, wal, synced, head, doubtful>>
    BY <1>2 DEF FailPersist, Fault
  <2>2. ~InFlight /\ TaskInv' /\ ~InFlight' /\ task'.at = "idle"
    BY <2>1 DEF InFlight, TaskInv, Idle
  <2>3. CASE UNCHANGED <<segFiles, versions>>
    BY <2>1, <2>2, <2>3, FTaskStep DEF disk
  <2>4. CASE ToWrite # {} /\ StoreSegment(Min(ToWrite)) /\ UNCHANGED versions
    <3>1. Min(ToWrite) \in SegmentIdsToPersist(mem)
      BY <2>1, <2>4, NextToWrite
    <3>2. QED
      BY <2>1, <2>2, <2>4, <3>1, FStoreStep
  <2>5. CASE ToWrite = {} /\ versions' = mem.vs /\ UNCHANGED segFiles
    BY <2>1, <2>5, FVersionsStep
  <2>6. QED
    BY <1>2, <2>3, <2>4, <2>5 DEF FailPersist
<1>3. QED
  BY <1>1, <1>2

(* The next generation's log is there before HEAD names it, empty.         *)
LEMMA FCheckpointLogStep ==
  ASSUME FInv, CheckpointLog, Observe, FaultsGrow, UNCHANGED doubtful
  PROVE  FInv'
<1>1. /\ up /\ task.at = "checkpoint" /\ task.todo = {} /\ task' = [at |-> "head"]
      /\ wal' = [g \in DOMAIN wal \cup {generation + 1} |->
                   IF g \in DOMAIN wal THEN wal[g] ELSE <<>>]
      /\ UNCHANGED <<up, mem, generation, persisted, synced, head, versions, segFiles>>
  BY DEF CheckpointLog
<1>2. /\ generation \in Nat /\ generation \in DOMAIN wal
      /\ Checkpointed.generation \in DOMAIN wal
      /\ wal \in [DOMAIN wal -> Seq(FaultyRecords)] /\ DOMAIN wal \subseteq Nat
  BY <1>1 DEF FInv, FShapes, GenerationsInv
<1>3. /\ DOMAIN wal' = DOMAIN wal \cup {generation + 1}
      /\ \A g \in DOMAIN wal : wal'[g] = wal[g]
      /\ \A g \in DOMAIN wal' \ DOMAIN wal : wal'[g] = <<>>
  BY <1>1
<1>4. wal' \in [DOMAIN wal' -> Seq(FaultyRecords)]
  <2>1. <<>> \in Seq(FaultyRecords)
    OBVIOUS
  <2>2. \A g \in DOMAIN wal' : wal'[g] \in Seq(FaultyRecords)
    BY <1>2, <1>3, <2>1
  <2>3. wal' = [g \in DOMAIN wal' |-> wal'[g]]
    BY <1>1
  <2>4. QED
    BY <2>2, <2>3
<1>5. /\ Checkpointed' = Checkpointed /\ Base' = Base /\ LoadedSegments' = LoadedSegments
      /\ StoredStore' = StoredStore
  BY <1>1 DEF Checkpointed, Base, LoadedSegments, StoredStore
<1>6. Log' = Log /\ ActiveWal' = ActiveWal
  BY <1>1, <1>2, <1>3, <1>5 DEF Log, ActiveWal
<1>7. ~InFlight /\ ~InFlight'
  BY <1>1 DEF InFlight
<1>8. FShapes'
  BY <1>1, <1>2, <1>3, <1>4 DEF FInv, FShapes, FaultsGrow
<1>9. GenerationsInv'
  <2>1. \A g \in DOMAIN wal' : g > Checkpointed.generation => wal'[g] = <<>>
    BY <1>3 DEF FInv, GenerationsInv
  <2>2. QED
    BY <1>1, <1>2, <1>3, <1>5, <1>6, <2>1 DEF FInv, GenerationsInv
<1>10. FBatchInv'
  BY <1>7 DEF FBatchInv
<1>11. FilesInv'
  BY <1>1, <1>5 DEF FInv, FilesInv, Stored
<1>12. TaskInv'
  BY <1>1 DEF FInv, TaskInv, Stored
<1>13. HeadIdsInv' /\ LogIdsInv'
  BY <1>1, <1>5, <1>6 DEF FInv, HeadIdsInv, LogIdsInv
<1>14. MemoryIdsInv'
  <2>1. Pending' = Pending
    BY <1>7 DEF Pending
  <2>2. QED
    BY <1>1, <2>1 DEF FInv, MemoryIdsInv
<1>15. AllocatorInv'
  BY <1>1, <1>5, <1>6 DEF FInv, AllocatorInv
<1>16. FrozenInv' /\ tainted' = tainted
  <2>1. \A v \in Versions(StoredStore') : v \in Versions(mem'.vs)
    BY <1>1, <1>5 DEF FInv, SegmentsInv
  <2>2. QED
    BY <1>1, <2>1, StandsStill, FrozenKept
<1>17. SegmentsInv'
  BY <1>1, <1>5, <1>16 DEF FInv, SegmentsInv, Stored
<1>18. CleanInv'
  <2>1. Done' = Done
    BY <1>1, <1>6, <1>7 DEF Done
  <2>2. <<>> \in Seq(LogRecords)
    OBVIOUS
  <2>3. Clean => \A g \in DOMAIN wal' : wal'[g] \in Seq(LogRecords)
    BY <1>3, <2>2 DEF FInv, CleanInv
  <2>4. task.at # "retire" /\ task'.at \notin {"retire", "apply"}
    BY <1>1
  <2>5. QED
    BY <1>1, <1>5, <1>6, <2>1, <2>3, <2>4 DEF FInv, CleanInv, FaultsGrow
<1>19. QED
  BY <1>8, <1>9, <1>10, <1>11, <1>12, <1>13, <1>14, <1>15, <1>16, <1>17, <1>18 DEF FInv

(* HEAD moves to the collection in memory, everything of which is in a     *)
(* segment file, and to an empty log; the call may end here with an error. *)
LEMMA FHeadStep ==
  ASSUME FInv, up, task.at = "head", head' = CheckpointHead(mem, generation + 1),
         UNCHANGED <<up, mem, generation, persisted, wal, synced, versions, segFiles,
                     doubtful>>,
         task' = [at |-> "retire"] \/ (task' = Idle /\ ~Clean'),
         Observe, FaultsGrow
  PROVE  FInv'
<1>1. CollectionShape(mem) /\ RegistryOK(mem)
  BY DEF FInv, FShapes, FilesInv
<1>2. /\ mem.app = {}
      /\ \A i \in SegmentIdsToPersist(mem) : Stored(i)
      /\ SegmentIdsToPersist(mem) \subseteq DOMAIN mem.segments
  BY <1>1 DEF FInv, TaskInv, RegistryOK
<1>3. /\ generation \in Nat /\ generation \in DOMAIN wal
      /\ generation + 1 \in DOMAIN wal
      /\ Checkpointed.generation \in {generation, generation + 1}
      /\ Checkpointed.generation = generation + 1 => Log = <<>>
  BY DEF FInv, FShapes, GenerationsInv
<1>4. wal[generation + 1] = <<>>
  BY <1>3 DEF FInv, GenerationsInv, Log
<1>5. /\ WorkingIds(mem) \subseteq SegmentIdsToPersist(mem)
      /\ AllReferenced(mem.vs) \subseteq SegmentIdsToPersist(mem)
      /\ SegmentIdsToPersist(mem) \in SUBSET Nat
  BY <1>1, <1>2 DEF SegmentIdsToPersist, CollectionShape
<1>6. head' \in Heads
  BY <1>1, <1>2, <1>3, <1>5 DEF CheckpointHead, Heads, CollectionShape
<1>7. Checkpointed' = head'
  BY <1>6, NoneIsNoHead DEF Checkpointed
<1>8. /\ Checkpointed'.generation = generation + 1
      /\ Checkpointed'.working = WorkingIds(mem)
      /\ Checkpointed'.all = SegmentIdsToPersist(mem)
      /\ Checkpointed'.nextId = mem.nextId /\ Checkpointed'.nextSeg = mem.nextSeg
      /\ Checkpointed'.dels = mem.dels
  BY <1>2, <1>7 DEF CheckpointHead
<1>9. Log' = <<>> /\ ActiveWal' = ActiveWal /\ StoredStore' = StoredStore
  BY <1>4, <1>8 DEF Log, ActiveWal, StoredStore
<1>10. ~InFlight /\ ~InFlight'
  BY DEF InFlight, Idle
<1>11. Done' = 0 /\ Upserted(Pending) = {} /\ Upserted(Pending') = {}
  BY <1>9, <1>10 DEF Done, Pending, Upserted, IdsOf
<1>12. Base' = WorkingRows(mem)
  <2>1. \A s \in mem.working : s.id \in WorkingIds(mem) /\ segFiles[s.id] = s.rows
    BY <1>1, <1>2, <1>5 DEF WorkingIds, RegistryOK, Stored
  <2>2. {segFiles[i] : i \in WorkingIds(mem)} = {s.rows : s \in mem.working}
    BY <2>1 DEF WorkingIds
  <2>3. QED
    BY <1>8, <2>2 DEF Base, WorkingRows
<1>13. FShapes'
  BY <1>6 DEF FInv, FShapes, FaultsGrow
<1>14. GenerationsInv'
  <2>1. \A g \in DOMAIN wal : g > generation + 1 => wal[g] = <<>>
    BY <1>3 DEF FInv, GenerationsInv, FShapes
  <2>2. synced <= Len(ActiveWal)
    BY DEF FInv, GenerationsInv
  <2>3. task'.at # "head"
    BY DEF Idle
  <2>4. QED
    BY <1>3, <1>8, <1>9, <2>1, <2>2, <2>3 DEF GenerationsInv
<1>15. FBatchInv' /\ TaskInv'
  BY <1>10 DEF FBatchInv, TaskInv, Idle
<1>16. FilesInv'
  <2>1. LoadedSegments' \subseteq DOMAIN segFiles
    <3>1. AllReferenced(StoredStore') \subseteq DOMAIN segFiles
      BY <1>9 DEF FInv, FilesInv, LoadedSegments
    <3>2. QED
      BY <1>2, <1>5, <1>8, <3>1 DEF LoadedSegments, Stored
  <2>2. \A i \in Checkpointed'.working : i < mem.nextSeg
    BY <1>1, <1>8 DEF RegistryOK, WorkingIds
  <2>3. \A i \in Checkpointed'.working : i \in DOMAIN mem.segments /\ Stored(i)'
    BY <1>2, <1>5, <1>8 DEF Stored
  <2>4. mem.nextSeg <= mem.nextSeg /\ persisted \subseteq DOMAIN segFiles
    BY <1>1 DEF CollectionShape, FInv, FilesInv
  <2>5. QED
    BY <1>1, <1>8, <2>1, <2>2, <2>3, <2>4 DEF FilesInv
<1>17. HeadIdsInv'
  <2>1. \A s \in mem.working : s.rows # {} /\ segFiles[s.id] = s.rows
    BY <1>1, <1>2, <1>5 DEF FInv, MemoryIdsInv, RegistryOK, Stored, WorkingIds
  <2>2. \A i \in WorkingIds(mem) : segFiles[i] # {}
    BY <2>1 DEF WorkingIds
  <2>3. /\ \A id \in WorkingRows(mem) : id < mem.nextId
        /\ \A id \in 0 .. mem.nextId - 1 : id \in WorkingRows(mem) \cup doubtful
    BY <1>2, <1>11 DEF FInv, MemoryIdsInv
  <2>4. QED
    BY <1>8, <1>12, <2>2, <2>3 DEF HeadIdsInv
<1>18. LogIdsInv'
  BY <1>9 DEF LogIdsInv
<1>19. MemoryIdsInv'
  BY <1>11 DEF FInv, MemoryIdsInv
<1>20. AllocatorInv'
  <2>1. mem'.nextId = Checkpointed'.nextId /\ mem.nextId \in Nat
    BY <1>1, <1>8 DEF CollectionShape
  <2>2. \A id \in 0 .. mem'.nextId - 1 : id < Checkpointed'.nextId
    BY <1>8, <2>1
  <2>3. QED
    BY <2>2 DEF AllocatorInv
<1>21. FrozenInv' /\ tainted' = tainted
  <2>1. \A v \in Versions(StoredStore') : v \in Versions(mem'.vs)
    BY <1>9 DEF FInv, SegmentsInv
  <2>2. QED
    BY <2>1, StandsStill, FrozenKept
<1>22. SegmentsInv'
  <2>1. \A i \in SegmentIdsToPersist(mem) : i < mem.nextSeg \/ i \in tainted
    BY SegmentIdsKnown
  <2>2. QED
    BY <1>8, <1>9, <1>21, <2>1 DEF FInv, SegmentsInv, Stored
<1>23. CleanInv'
  <2>1. ASSUME Clean'
        PROVE  /\ Clean /\ task' = [at |-> "retire"]
               /\ \A g \in DOMAIN wal : wal[g] \in Seq(LogRecords)
    BY <2>1 DEF FInv, CleanInv, FaultsGrow
  <2>2. /\ UpsertedUpTo(Log', Done') = {}
        /\ TombstonedUpTo(Base', Log', Done') = {}
    BY <1>11 DEF UpsertedUpTo, TombstonedUpTo
  <2>3. /\ SameBut(doubtful, mem.app \cup WorkingRows(mem), WorkingRows(mem))
        /\ SameBut(doubtful, mem.dels, mem.dels)
    BY <1>2 DEF SameBut
  <2>4. \A i \in synced + 1 .. Done' : FALSE
    BY <1>11 DEF FInv, FShapes
  <2>5. QED
    BY <1>8, <1>12, <2>1, <2>2, <2>3, <2>4 DEF CleanInv
<1>24. QED
  BY <1>13, <1>14, <1>15, <1>16, <1>17, <1>18, <1>19, <1>20, <1>21, <1>22, <1>23 DEF FInv

(* Writes move to the log that HEAD names, whether or not the old one goes. *)
LEMMA FRetireStep ==
  ASSUME FInv, RetireLog \/ KeepRetiredLog, Observe, FaultsGrow, UNCHANGED doubtful
  PROVE  FInv'
<1>1. /\ up /\ task.at = "retire" /\ task' = Idle
      /\ generation' = generation + 1
      /\ synced' = Len(wal[generation + 1])
      /\ UNCHANGED <<up, mem, persisted, head, versions, segFiles>>
  BY DEF RetireLog, KeepRetiredLog, Fault
<1>2. /\ generation \in Nat /\ generation + 1 = Checkpointed.generation
      /\ generation \in DOMAIN wal /\ generation + 1 \in DOMAIN wal
      /\ wal \in [DOMAIN wal -> Seq(FaultyRecords)] /\ DOMAIN wal \subseteq Nat
  BY <1>1 DEF FInv, FShapes, GenerationsInv
<1>3. Log = wal[generation + 1] /\ Log = <<>>
  BY <1>1, <1>2 DEF FInv, GenerationsInv, Log
<1>4. /\ DOMAIN wal' \subseteq DOMAIN wal
      /\ \A g \in DOMAIN wal' : wal'[g] = wal[g]
      /\ generation + 1 \in DOMAIN wal'
      /\ wal' \in [DOMAIN wal' -> Seq(FaultyRecords)]
  <2>1. CASE RetireLog
    <3>1. wal' = [g \in DOMAIN wal \ {generation} |-> wal[g]]
      BY <2>1 DEF RetireLog
    <3>2. QED
      BY <1>2, <3>1
  <2>2. CASE KeepRetiredLog
    BY <1>2, <2>2 DEF KeepRetiredLog
  <2>3. QED
    BY <2>1, <2>2
<1>5. /\ Checkpointed' = Checkpointed /\ Base' = Base /\ LoadedSegments' = LoadedSegments
      /\ StoredStore' = StoredStore
  BY <1>1 DEF Checkpointed, Base, LoadedSegments, StoredStore
<1>6. Log' = Log /\ ActiveWal' = <<>> /\ synced' = 0
  BY <1>1, <1>2, <1>3, <1>4, <1>5 DEF Log, ActiveWal
<1>7. ~InFlight /\ ~InFlight'
  BY <1>1 DEF InFlight, Idle
<1>8. FShapes'
  BY <1>1, <1>2, <1>4, <1>6 DEF FInv, FShapes, FaultsGrow
<1>9. GenerationsInv'
  <2>1. \A g \in DOMAIN wal' : g > Checkpointed.generation => wal'[g] = <<>>
    BY <1>4 DEF FInv, GenerationsInv
  <2>2. QED
    BY <1>1, <1>2, <1>4, <1>5, <1>6, <2>1 DEF GenerationsInv, Idle
<1>10. FBatchInv' /\ TaskInv'
  BY <1>1, <1>7 DEF FBatchInv, TaskInv, Idle
<1>11. FilesInv'
  BY <1>1, <1>5 DEF FInv, FilesInv, Stored
<1>12. HeadIdsInv' /\ LogIdsInv'
  BY <1>1, <1>5, <1>6 DEF FInv, HeadIdsInv, LogIdsInv
<1>13. MemoryIdsInv'
  <2>1. Pending' = Pending
    BY <1>7 DEF Pending
  <2>2. QED
    BY <1>1, <2>1 DEF FInv, MemoryIdsInv
<1>14. AllocatorInv'
  BY <1>1, <1>5, <1>6 DEF FInv, AllocatorInv
<1>15. FrozenInv' /\ tainted' = tainted
  <2>1. \A v \in Versions(StoredStore') : v \in Versions(mem'.vs)
    BY <1>1, <1>5 DEF FInv, SegmentsInv
  <2>2. QED
    BY <1>1, <2>1, StandsStill, FrozenKept
<1>16. SegmentsInv'
  BY <1>1, <1>5, <1>15 DEF FInv, SegmentsInv, Stored
<1>17. CleanInv'
  <2>1. Done = 0 /\ Done' = 0
    BY <1>3, <1>6, <1>7 DEF Done
  <2>2. Clean => \A g \in DOMAIN wal' : wal'[g] \in Seq(LogRecords)
    BY <1>4 DEF FInv, CleanInv
  <2>3. task'.at # "apply"
    BY <1>1 DEF Idle
  <2>4. \A i \in synced' + 1 .. Done' : FALSE
    BY <1>6, <2>1
  <2>5. QED
    BY <1>1, <1>2, <1>5, <1>6, <2>1, <2>2, <2>3, <2>4 DEF FInv, CleanInv, FaultsGrow
<1>18. QED
  BY <1>8, <1>9, <1>10, <1>11, <1>12, <1>13, <1>14, <1>15, <1>16, <1>17 DEF FInv

-----------------------------------------------------------------------------
(***************************************************************************)
(* Writes.                                                                 *)
(***************************************************************************)

(* What more records add to a log.                                         *)
Extends(new, log, recs) ==
  /\ new \in Seq(FaultyRecords) /\ Len(new) = Len(log) + Len(recs)
  /\ \A i \in 1 .. Len(log) : new[i] = log[i]
  /\ \A i \in 1 .. Len(recs) : new[Len(log) + i] = recs[i]

AddsTo(new, log, recs, base) ==
  /\ \A n \in 0 .. Len(log) :
       /\ UpsertedUpTo(new, n) = UpsertedUpTo(log, n)
       /\ TombstonedUpTo(base, new, n) = TombstonedUpTo(base, log, n)
  /\ \A j \in 0 .. Len(recs) :
       /\ UpsertedUpTo(new, Len(log) + j)
            = UpsertedUpTo(log, Len(log)) \cup UpsertedUpTo(recs, j)
       /\ TombstonedUpTo(base, log, Len(log))
            \subseteq TombstonedUpTo(base, new, Len(log) + j)
       /\ TombstonedUpTo(base, new, Len(log) + j)
            \subseteq TombstonedUpTo(base, log, Len(log)) \cup {recs[i].id : i \in 1 .. j}

(* Logs with the same first n records read the same up to there.           *)
SameRecords(s, t, n) == \A i \in 1 .. n : s[i] = t[i]

ReadsSame(s, t, n) ==
  /\ UpsertedUpTo(s, n) = UpsertedUpTo(t, n)
  /\ \A base : TombstonedUpTo(base, s, n) = TombstonedUpTo(base, t, n)

LEMMA SameReading ==
  ASSUME NEW s, NEW t, NEW n \in Nat, SameRecords(s, t, n)
  PROVE  ReadsSame(s, t, n)
<1>1. \A i \in 1 .. n : s[i] = t[i]
  BY DEF SameRecords
<1>2. /\ UpsertedUpTo(s, n) = UpsertedUpTo(t, n)
      /\ \A base : TombstonedUpTo(base, s, n) = TombstonedUpTo(base, t, n)
  BY <1>1, SamePrefix
<1>3. QED
  BY <1>2 DEF ReadsSame

LEMMA GrownLog ==
  ASSUME NEW log \in Seq(FaultyRecords), NEW recs \in Seq(FaultyRecords),
         NEW new, new = log \o recs, NEW base
  PROVE  Extends(new, log, recs) /\ AddsTo(new, log, recs, base)
<1>1. /\ new \in Seq(FaultyRecords) /\ Len(new) = Len(log) + Len(recs)
      /\ Len(log) \in Nat /\ Len(recs) \in Nat
      /\ \A i \in 1 .. Len(log) : new[i] = log[i]
      /\ \A i \in 1 .. Len(recs) : new[Len(log) + i] = recs[i]
  BY ConcatProperties
<1>2. ASSUME NEW n \in 0 .. Len(log)
      PROVE  /\ UpsertedUpTo(new, n) = UpsertedUpTo(log, n)
             /\ TombstonedUpTo(base, new, n) = TombstonedUpTo(base, log, n)
  <2>1. n \in Nat /\ SameRecords(new, log, n)
    BY <1>1 DEF SameRecords
  <2>2. ReadsSame(new, log, n)
    BY <2>1, SameReading
  <2>3. QED
    BY <2>2 DEF ReadsSame
<1>3. ASSUME NEW j \in 0 .. Len(recs), NEW i \in 1 .. Len(log) + j, i \notin 1 .. Len(log)
      PROVE  i - Len(log) \in 1 .. j /\ new[i] = recs[i - Len(log)]
  <2>1. i - Len(log) \in 1 .. j /\ i - Len(log) \in 1 .. Len(recs)
    BY <1>1, <1>3
  <2>2. new[Len(log) + (i - Len(log))] = recs[i - Len(log)]
    BY <1>1, <2>1
  <2>3. Len(log) + (i - Len(log)) = i
    BY <1>1
  <2>4. QED
    BY <2>1, <2>2, <2>3
<1>4. ASSUME NEW j \in 0 .. Len(recs)
      PROVE  UpsertedUpTo(new, Len(log) + j)
               = UpsertedUpTo(log, Len(log)) \cup UpsertedUpTo(recs, j)
  <2>1. UpsertedUpTo(new, Len(log) + j)
          \subseteq UpsertedUpTo(log, Len(log)) \cup UpsertedUpTo(recs, j)
    BY <1>1, <1>3 DEF UpsertedUpTo
  <2>2. \A i \in 1 .. Len(log) : i \in 1 .. Len(log) + j /\ new[i] = log[i]
    BY <1>1
  <2>3. UpsertedUpTo(log, Len(log)) \subseteq UpsertedUpTo(new, Len(log) + j)
    BY <2>2 DEF UpsertedUpTo
  <2>4. \A i \in 1 .. j : /\ Len(log) + i \in 1 .. Len(log) + j
                          /\ new[Len(log) + i] = recs[i]
    BY <1>1
  <2>5. UpsertedUpTo(recs, j) \subseteq UpsertedUpTo(new, Len(log) + j)
    BY <2>4 DEF UpsertedUpTo
  <2>6. QED
    BY <2>1, <2>3, <2>5
<1>5. ASSUME NEW j \in 0 .. Len(recs)
      PROVE  /\ TombstonedUpTo(base, log, Len(log))
                  \subseteq TombstonedUpTo(base, new, Len(log) + j)
             /\ TombstonedUpTo(base, new, Len(log) + j)
                  \subseteq TombstonedUpTo(base, log, Len(log))
                              \cup {recs[i].id : i \in 1 .. j}
  <2>1. TombstonedUpTo(base, new, Len(log)) = TombstonedUpTo(base, log, Len(log))
    BY <1>1, <1>2
  <2>2. 1 .. Len(log) \subseteq 1 .. Len(log) + j
    BY <1>1
  <2>3. TombstonedUpTo(base, new, Len(log)) \subseteq TombstonedUpTo(base, new, Len(log) + j)
    BY <2>2 DEF TombstonedUpTo
  <2>4. TombstonedUpTo(base, new, Len(log) + j)
          \subseteq TombstonedUpTo(base, new, Len(log)) \cup {recs[i].id : i \in 1 .. j}
    BY <1>3 DEF TombstonedUpTo
  <2>5. QED
    BY <2>1, <2>3, <2>4
<1>6. QED
  BY <1>1, <1>2, <1>4, <1>5 DEF Extends, AddsTo

(* Ids that the allocator gives away change nothing else.                  *)
LEMMA IdsTaken ==
  ASSUME NEW m, CollectionShape(m), RegistryOK(m), HistoryShape(m.vs), NEW n \in Nat,
         NEW r, r = [m EXCEPT !.nextId = @ + n], NEW doubt
  PROVE  /\ r.app = m.app /\ WorkingRows(r) = WorkingRows(m) /\ r.working = m.working
         /\ r.dels = m.dels /\ r.nextId = m.nextId + n /\ r.vs = m.vs
         /\ SegmentsKept(m, r) /\ NewVersions(m, r, doubt)
<1>1. r = [app |-> m.app, working |-> m.working, segments |-> m.segments,
           dels |-> m.dels, payloads |-> m.payloads, vs |-> m.vs,
           nextId |-> m.nextId + n, nextSeg |-> m.nextSeg]
  BY DEF CollectionShape
<1>2. /\ r.app = m.app /\ r.working = m.working /\ r.segments = m.segments
      /\ r.dels = m.dels /\ r.payloads = m.payloads /\ r.vs = m.vs
      /\ r.nextId = m.nextId + n /\ r.nextSeg = m.nextSeg
  BY <1>1
<1>3. CollectionShape(r)
  BY <1>1, <1>2 DEF CollectionShape
<1>4. WorkingIds(r) = WorkingIds(m) /\ WorkingRows(r) = WorkingRows(m)
  BY <1>2 DEF WorkingIds, WorkingRows
<1>5. RegistryOK(r)
  BY <1>2, <1>4 DEF RegistryOK, SegmentIdsToPersist
<1>6. m.nextSeg <= m.nextSeg
  BY DEF CollectionShape
<1>7. SegmentsKept(m, r)
  BY <1>2, <1>3, <1>5, <1>6 DEF SegmentsKept
<1>8. NewVersions(m, r, doubt)
  BY <1>2 DEF NewVersions
<1>9. QED
  BY <1>2, <1>4, <1>7, <1>8

(* The ids a batch takes, in the order of its records.                     *)
TakesIds(batch, k, first, n) ==
  /\ batch \in Seq(LogRecords) /\ Len(batch) = k + n /\ DeletesFirst(batch)
  /\ \A i \in 1 .. k + n : batch[i].op = "upsert" <=> i > k
  /\ \A i \in 1 .. k + n : i > k => batch[i].id = first + (i - k - 1)
  /\ \A j \in 0 .. k + n : UpsertedUpTo(batch, j) = first .. first + (j - k) - 1

LEMMA BatchIds ==
  ASSUME NEW k \in Nat, NEW deletes \in [1 .. k -> Ids],
         NEW first \in Nat, NEW n \in Nat, n > 0 => first + n <= MaxIds,
         NEW batch, batch = Batch(deletes, first, n)
  PROVE  TakesIds(batch, k, first, n)
<1>1. batch \in Seq(LogRecords) /\ Len(batch) = k + n /\ DeletesFirst(batch)
  BY BatchShape DEF DeletesFirst
<1>2. Len(deletes) = k
  OBVIOUS
<1>3. batch = [i \in 1 .. k + n |->
                 IF i <= k THEN Record("delete", deletes[i])
                           ELSE Record("upsert", first + (i - k - 1))]
  BY <1>2 DEF Batch
<1>4. /\ \A i \in 1 .. k + n : batch[i].op = "upsert" <=> i > k
      /\ \A i \in 1 .. k + n : i > k => batch[i].id = first + (i - k - 1)
  BY <1>3 DEF Record
<1>5. ASSUME NEW j \in 0 .. k + n
      PROVE  UpsertedUpTo(batch, j) = first .. first + (j - k) - 1
  <2>1. ASSUME NEW id \in UpsertedUpTo(batch, j)
        PROVE  id \in first .. first + (j - k) - 1
    <3>1. PICK i \in 1 .. j : batch[i].op = "upsert" /\ batch[i].id = id
      BY DEF UpsertedUpTo
    <3>2. i \in 1 .. k + n /\ i > k
      BY <1>4, <3>1
    <3>3. id = first + (i - k - 1)
      BY <1>4, <3>1, <3>2
    <3>4. QED
      BY <3>2, <3>3
  <2>2. ASSUME NEW id \in first .. first + (j - k) - 1
        PROVE  id \in UpsertedUpTo(batch, j)
    <3>1. PICK i \in 1 .. j : i = id - first + k + 1
      OBVIOUS
    <3>2. i \in 1 .. k + n /\ i > k /\ first + (i - k - 1) = id
      BY <3>1
    <3>3. batch[i].op = "upsert" /\ batch[i].id = id
      BY <1>4, <3>2
    <3>4. QED
      BY <3>3 DEF UpsertedUpTo
  <2>3. QED
    BY <2>1, <2>2
<1>6. QED
  BY <1>1, <1>4, <1>5 DEF TakesIds

(* Records are appended to the log that writes go to, and n ids are taken. *)
(* The records are a batch in flight, or what an error left of one, whose  *)
(* ids are then in doubt.                                                  *)
Appended(recs, n) ==
  /\ recs \in Seq(FaultyRecords)
  /\ wal' = [wal EXCEPT ![generation] = @ \o recs]
  /\ mem' = [mem EXCEPT !.nextId = @ + n]
  /\ UNCHANGED <<up, generation, persisted, synced, head, versions, segFiles>>

(* An id below one that a record takes is taken before it or in doubt.     *)
InOrder(recs, n) ==
  /\ \A j \in 1 .. Len(recs) : Untorn(recs, j) /\ recs[j].op = "upsert" =>
       \A id \in mem.nextId .. recs[j].id - 1 :
         id \in UpsertedUpTo(recs, j - 1) \cup doubtful'
  /\ Untorn(recs, Len(recs)) =>
       \A id \in mem.nextId .. mem.nextId + n - 1 :
         id \in UpsertedUpTo(recs, Len(recs)) \cup doubtful'

InFlightWith(recs, n) ==
  /\ task' = [at |-> "flush", batch |-> recs, commit |-> task'.commit]
  /\ recs \in Seq(LogRecords) /\ DeletesFirst(recs)
  /\ \A id \in Upserted(recs) : id < mem.nextId + n

GivenUp(recs) ==
  /\ task' = Idle
  /\ Clean' => recs \in Seq(LogRecords)
  /\ \A i \in 1 .. Len(recs) : recs[i] # Torn => recs[i].id \in doubtful'

LEMMA FAppendStep ==
  ASSUME FInv, up, task = Idle, NEW recs, NEW n \in Nat, Appended(recs, n),
         doubtful \subseteq doubtful', InOrder(recs, n),
         InFlightWith(recs, n) \/ GivenUp(recs),
         \A id \in mem.nextId .. mem.nextId + n - 1 :
           id \in Upserted(Pending') \cup doubtful',
         Observe, FaultsGrow
  PROVE  FInv'
<1>1. /\ recs \in Seq(FaultyRecords) /\ wal' = [wal EXCEPT ![generation] = @ \o recs]
      /\ mem' = [mem EXCEPT !.nextId = @ + n]
      /\ UNCHANGED <<up, generation, persisted, synced, head, versions, segFiles>>
  BY DEF Appended
<1>2. CollectionShape(mem) /\ RegistryOK(mem) /\ HistoryShape(mem.vs) /\ mem.nextId \in Nat
  BY DEF FInv, FShapes, FilesInv, CollectionShape
<1>3. /\ mem'.app = mem.app /\ WorkingRows(mem') = WorkingRows(mem)
      /\ mem'.working = mem.working /\ mem'.dels = mem.dels
      /\ mem'.nextId = mem.nextId + n /\ mem'.vs = mem.vs
      /\ SegmentsKept(mem, mem') /\ NewVersions(mem, mem', doubtful')
  <2>1. PICK r : r = mem'
    OBVIOUS
  <2>2. PICK doubt : doubt = doubtful'
    OBVIOUS
  <2>3. r = [mem EXCEPT !.nextId = @ + n]
    BY <1>1, <2>1
  <2>4. /\ r.app = mem.app /\ WorkingRows(r) = WorkingRows(mem)
        /\ r.working = mem.working /\ r.dels = mem.dels
        /\ r.nextId = mem.nextId + n /\ r.vs = mem.vs
        /\ SegmentsKept(mem, r) /\ NewVersions(mem, r, doubt)
    BY <1>2, <2>3, IdsTaken
  <2>5. QED
    BY <2>1, <2>2, <2>4
<1>4. FilesInv' /\ SegmentsInv' /\ FrozenInv'
  BY <1>1, <1>3, FilesUntouched
<1>5. Checkpointed' = Checkpointed /\ Base' = Base
  BY <1>1 DEF Checkpointed, Base
<1>6. /\ generation \in DOMAIN wal /\ Checkpointed.generation \in DOMAIN wal
      /\ Checkpointed.generation \in {generation, generation + 1}
      /\ Checkpointed.generation # generation => Log = <<>>
      /\ wal \in [DOMAIN wal -> Seq(FaultyRecords)] /\ DOMAIN wal \subseteq Nat
      /\ generation \in Nat /\ synced \in Nat /\ synced <= Len(ActiveWal)
  BY DEF FInv, FShapes, GenerationsInv
<1>7. /\ ActiveWal \in Seq(FaultyRecords) /\ ActiveWal' = ActiveWal \o recs
      /\ DOMAIN wal' = DOMAIN wal
      /\ \A g \in DOMAIN wal \ {generation} : wal'[g] = wal[g]
  BY <1>1, <1>6 DEF ActiveWal
<1>8. Extends(ActiveWal', ActiveWal, recs) /\ AddsTo(ActiveWal', ActiveWal, recs, Base)
  <2>1. PICK old \in Seq(FaultyRecords) : old = ActiveWal
    BY <1>7
  <2>2. PICK new, base : new = ActiveWal' /\ base = Base
    OBVIOUS
  <2>3. new = old \o recs /\ recs \in Seq(FaultyRecords)
    BY <1>1, <1>7, <2>1, <2>2
  <2>4. Extends(new, old, recs) /\ AddsTo(new, old, recs, base)
    BY <2>3, GrownLog
  <2>5. QED
    BY <2>1, <2>2, <2>4
<1>8a. /\ ActiveWal' \in Seq(FaultyRecords)
       /\ Len(ActiveWal') = Len(ActiveWal) + Len(recs)
       /\ Len(ActiveWal) \in Nat /\ Len(recs) \in Nat
       /\ \A i \in 1 .. Len(ActiveWal) : ActiveWal'[i] = ActiveWal[i]
       /\ \A i \in 1 .. Len(recs) : ActiveWal'[Len(ActiveWal) + i] = recs[i]
  BY <1>1, <1>7, <1>8 DEF Extends
<1>9. Log' = IF Checkpointed.generation = generation THEN ActiveWal' ELSE <<>>
  BY <1>1, <1>5, <1>6, <1>7 DEF Log, ActiveWal
<1>10. task'.at \in {"idle", "flush"} /\ task.at = "idle"
  BY DEF InFlightWith, GivenUp, Idle
<1>11. FShapes'
  <2>1. wal' \in [DOMAIN wal' -> Seq(FaultyRecords)]
    BY <1>1, <1>6, <1>7, <1>8a DEF ActiveWal
  <2>2. CollectionShape(mem') /\ HistoryShape(mem'.vs)
    BY <1>3 DEF SegmentsKept
  <2>3. QED
    BY <1>1, <1>7, <2>1, <2>2 DEF FInv, FShapes, FaultsGrow
<1>12. GenerationsInv'
  <2>1. \A g \in DOMAIN wal' : g > Checkpointed.generation => wal'[g] = <<>>
    BY <1>6, <1>7 DEF FInv, GenerationsInv
  <2>2. synced <= Len(ActiveWal')
    BY <1>6, <1>8a
  <2>3. QED
    BY <1>1, <1>5, <1>6, <1>7, <1>9, <1>10, <2>1, <2>2 DEF GenerationsInv
<1>13. FBatchInv'
  <2>1. CASE InFlightWith(recs, n)
    <3>1. /\ Len(recs) <= Len(ActiveWal')
          /\ EndsWith(ActiveWal', Len(ActiveWal') - Len(recs), recs)
      BY <1>8a DEF EndsWith
    <3>2. QED
      BY <1>3, <2>1, <3>1 DEF InFlightWith, FBatchInv
  <2>2. CASE GivenUp(recs)
    BY <2>2 DEF GivenUp, FBatchInv, InFlight, Idle
  <2>3. QED
    BY <2>1, <2>2
<1>14. TaskInv'
  BY <1>10 DEF TaskInv
<1>15. HeadIdsInv'
  BY <1>1, <1>5 DEF FInv, HeadIdsInv
<1>16. MemoryIdsInv'
  <2>1. \A id \in mem.app \cup WorkingRows(mem) : id < mem.nextId + n
    <3>1. \A id \in mem.app \cup WorkingRows(mem) : id < mem.nextId /\ id \in Nat
      BY <1>2, WorkingRowsType DEF FInv, MemoryIdsInv, CollectionShape
    <3>2. QED
      BY <1>2, <3>1
  <2>2. Upserted(Pending) = {}
    BY DEF Pending, InFlight, Idle, Upserted, IdsOf
  <2>3. ASSUME NEW id \in 0 .. mem.nextId + n - 1
        PROVE  id \in mem.app \cup WorkingRows(mem) \cup Upserted(Pending') \cup doubtful'
    <3>1. CASE id < mem.nextId
      <4>1. id \in 0 .. mem.nextId - 1
        BY <1>2, <3>1
      <4>2. QED
        BY <2>2, <4>1 DEF FInv, MemoryIdsInv
    <3>2. CASE id >= mem.nextId
      <4>1. id \in mem.nextId .. mem.nextId + n - 1
        BY <1>2, <3>2
      <4>2. QED
        BY <4>1
    <3>3. QED
      BY <1>2, <3>1, <3>2
  <2>4. \A s \in mem.working : s.rows # {}
    BY DEF FInv, MemoryIdsInv
  <2>5. mem'.app \cup WorkingRows(mem') = mem.app \cup WorkingRows(mem)
    BY <1>3
  <2>6. mem'.nextId = mem.nextId + n /\ mem'.working = mem.working
    BY <1>3
  <2>7. /\ \A s \in mem'.working : s.rows # {}
        /\ \A id \in mem'.app \cup WorkingRows(mem') : id < mem'.nextId
    BY <2>1, <2>4, <2>5, <2>6
  <2>8. ASSUME NEW id \in 0 .. mem'.nextId - 1
        PROVE  id \in mem'.app \cup WorkingRows(mem') \cup Upserted(Pending') \cup doubtful'
    <3>1. id \in 0 .. mem.nextId + n - 1
      BY <1>2, <2>6
    <3>2. QED
      BY <2>3, <2>5, <3>1
  <2>9. QED
    BY <2>7, <2>8 DEF MemoryIdsInv
<1>17. ASSUME Checkpointed.generation = generation, Untorn(ActiveWal, Len(ActiveWal)),
              NEW j \in 0 .. Len(recs), NEW id \in Nat,
              id < mem.nextId \/ id \in UpsertedUpTo(recs, j) \cup doubtful'
       PROVE  \/ id < Checkpointed.nextId
              \/ id \in UpsertedUpTo(ActiveWal', Len(ActiveWal) + j) \cup doubtful'
  <2>1. UpsertedUpTo(ActiveWal', Len(ActiveWal) + j)
          = UpsertedUpTo(ActiveWal, Len(ActiveWal)) \cup UpsertedUpTo(recs, j)
    BY <1>8 DEF AddsTo
  <2>2. CASE id < mem.nextId
    <3>1. id \in 0 .. mem.nextId - 1
      BY <1>2, <2>2
    <3>2. Log = ActiveWal
      BY <1>17 DEF Log, ActiveWal
    <3>3. \/ id < Checkpointed.nextId
          \/ id \in UpsertedUpTo(ActiveWal, Len(ActiveWal)) \cup doubtful
      BY <1>17, <3>1, <3>2 DEF FInv, AllocatorInv
    <3>4. QED
      BY <2>1, <3>3
  <2>3. QED
    BY <1>17, <2>1, <2>2
<1>18. ASSUME NEW m \in 1 .. Len(ActiveWal'), Untorn(ActiveWal', m)
       PROVE  /\ m <= Len(ActiveWal) => Untorn(ActiveWal, m)
              /\ m > Len(ActiveWal) => /\ Untorn(ActiveWal, Len(ActiveWal))
                                       /\ Untorn(recs, m - Len(ActiveWal))
  <2>1. CASE m <= Len(ActiveWal)
    BY <1>8a, <1>18, <2>1 DEF Untorn
  <2>2. CASE m > Len(ActiveWal)
    <3>1. \A i \in 1 .. Len(ActiveWal) : i \in 1 .. m
      BY <1>8a, <2>2
    <3>2. \A i \in 1 .. m - Len(ActiveWal) :
            Len(ActiveWal) + i \in 1 .. m /\ i \in 1 .. Len(recs)
      BY <1>8a, <2>2
    <3>3. QED
      BY <1>8a, <1>18, <2>2, <3>1, <3>2 DEF Untorn
  <2>3. QED
    BY <1>8a, <2>1, <2>2
<1>19. LogIdsInv'
  <2> SUFFICES ASSUME NEW m \in 1 .. Len(Log'), Untorn(Log', m), Log'[m].op = "upsert",
                      NEW id \in 0 .. Log'[m].id - 1
               PROVE  \/ id < Checkpointed.nextId
                      \/ id \in UpsertedUpTo(Log', m - 1) \cup doubtful'
    BY <1>5 DEF LogIdsInv
  <2>1. Checkpointed.generation = generation /\ Log' = ActiveWal' /\ Log = ActiveWal
    BY <1>9 DEF Log, ActiveWal
  <2>2. m \in 1 .. Len(ActiveWal') /\ Untorn(ActiveWal', m)
    BY <2>1
  <2>3. CASE m <= Len(ActiveWal)
    <3>1. m \in 1 .. Len(Log) /\ Log[m] = Log'[m] /\ Untorn(Log, m)
      BY <1>8a, <1>18, <2>1, <2>2, <2>3
    <3>2. \/ id < Checkpointed.nextId
          \/ id \in UpsertedUpTo(Log, m - 1) \cup doubtful
      BY <3>1 DEF FInv, LogIdsInv
    <3>3. m - 1 \in 0 .. Len(ActiveWal)
      BY <1>8a, <2>3
    <3>4. UpsertedUpTo(ActiveWal', m - 1) = UpsertedUpTo(ActiveWal, m - 1)
      BY <1>8, <3>3 DEF AddsTo
    <3>5. QED
      BY <2>1, <3>2, <3>4
  <2>4. CASE m > Len(ActiveWal)
    <3>1. PICK j \in 1 .. Len(recs) : m = Len(ActiveWal) + j
      <4>1. m - Len(ActiveWal) \in 1 .. Len(recs)
        BY <1>8a, <2>2, <2>4
      <4>2. m = Len(ActiveWal) + (m - Len(ActiveWal))
        BY <1>8a
      <4>3. QED
        BY <4>1, <4>2
    <3>2. Log'[m] = recs[j] /\ j = m - Len(ActiveWal)
      BY <1>8a, <2>1, <3>1
    <3>3. Untorn(ActiveWal, Len(ActiveWal)) /\ Untorn(recs, j)
      BY <1>18, <2>2, <2>4, <3>2
    <3>4. recs[j].id \in Nat
      <4>1. recs[j] \in FaultyRecords /\ recs[j].op = "upsert"
        BY <1>1, <3>2
      <4>2. QED
        BY <4>1 DEF FaultyRecords, LogRecords, Ids, Torn, Record
    <3>5. id < mem.nextId \/ id \in UpsertedUpTo(recs, j - 1) \cup doubtful'
      <4>1. id < mem.nextId \/ id \in mem.nextId .. recs[j].id - 1
        BY <1>2, <3>2, <3>4
      <4>2. QED
        BY <3>2, <3>3, <4>1 DEF InOrder
    <3>6. j - 1 \in 0 .. Len(recs) /\ id \in Nat /\ Len(ActiveWal) + (j - 1) = m - 1
      BY <1>8a, <3>1
    <3>7. \/ id < Checkpointed.nextId
          \/ id \in UpsertedUpTo(ActiveWal', Len(ActiveWal) + (j - 1)) \cup doubtful'
      BY <1>17, <2>1, <3>3, <3>5, <3>6
    <3>8. QED
      BY <2>1, <3>6, <3>7
  <2>5. QED
    BY <1>8a, <2>2, <2>3, <2>4
<1>20. AllocatorInv'
  <2> SUFFICES ASSUME Checkpointed.generation = generation, Untorn(Log', Len(Log')),
                      NEW id \in 0 .. mem.nextId + n - 1
               PROVE  \/ id < Checkpointed.nextId
                      \/ id \in UpsertedUpTo(Log', Len(Log')) \cup doubtful'
    <3>1. /\ Checkpointed'.generation = Checkpointed.generation
          /\ generation' = generation /\ Checkpointed'.nextId = Checkpointed.nextId
          /\ mem'.nextId = mem.nextId + n /\ task'.at # "retire"
      BY <1>1, <1>3, <1>5, <1>10
    <3>2. 0 .. mem'.nextId - 1 = 0 .. mem.nextId + n - 1
      BY <1>2, <3>1
    <3>3. QED
      BY <3>1, <3>2 DEF AllocatorInv
  <2>1. Log' = ActiveWal'
    BY <1>9
  <2>2. Untorn(ActiveWal, Len(ActiveWal)) /\ Untorn(recs, Len(recs))
    <3>1. \A i \in 1 .. Len(ActiveWal) : i \in 1 .. Len(ActiveWal')
      BY <1>8a
    <3>2. \A i \in 1 .. Len(recs) : Len(ActiveWal) + i \in 1 .. Len(ActiveWal')
      BY <1>8a
    <3>3. QED
      BY <1>8a, <2>1, <3>1, <3>2 DEF Untorn
  <2>3. id < mem.nextId \/ id \in UpsertedUpTo(recs, Len(recs)) \cup doubtful'
    <3>1. id < mem.nextId \/ id \in mem.nextId .. mem.nextId + n - 1
      BY <1>2
    <3>2. QED
      BY <2>2, <3>1 DEF InOrder
  <2>4. Len(recs) \in 0 .. Len(recs) /\ id \in Nat
    BY <1>8a
  <2>5. QED
    BY <1>8a, <1>17, <2>1, <2>2, <2>3, <2>4
<1>21. CleanInv'
  <2> SUFFICES ASSUME Clean'
               PROVE  /\ \A g \in DOMAIN wal' : wal'[g] \in Seq(LogRecords)
                      /\ Checkpointed.generation = generation
                      /\ \A i \in synced + 1 .. Done' : Log'[i].id \in doubtful'
                      /\ SameBut(doubtful', mem.app \cup WorkingRows(mem),
                                 Base \cup UpsertedUpTo(Log', Done'))
                      /\ SameBut(doubtful', mem.dels,
                                 Checkpointed.dels \cup TombstonedUpTo(Base, Log', Done'))
    BY <1>1, <1>3, <1>5, <1>10 DEF CleanInv
  <2>1. /\ \A g \in DOMAIN wal : wal[g] \in Seq(LogRecords)
        /\ Checkpointed.generation = generation
        /\ \A i \in synced + 1 .. Done : Log[i].id \in doubtful
        /\ SameBut(doubtful, mem.app \cup WorkingRows(mem),
                   Base \cup UpsertedUpTo(Log, Done))
        /\ SameBut(doubtful, mem.dels,
                   Checkpointed.dels \cup TombstonedUpTo(Base, Log, Done))
    BY <1>10 DEF FaultsGrow, FInv, CleanInv
  <2>2. Log = ActiveWal /\ Log' = ActiveWal' /\ Done = Len(ActiveWal)
    BY <1>9, <2>1 DEF Log, ActiveWal, Done, InFlight, Idle
  <2>3. recs \in Seq(LogRecords)
    BY DEF InFlightWith, GivenUp
  <2>4. \A g \in DOMAIN wal' : wal'[g] \in Seq(LogRecords)
    <3>1. ActiveWal' \in Seq(LogRecords)
      BY <1>6, <1>7, <2>1, <2>3, ConcatProperties DEF ActiveWal
    <3>2. QED
      BY <1>1, <1>7, <2>1, <3>1 DEF ActiveWal
  <2>5. CASE InFlightWith(recs, n)
    <3>1. Done' = Len(ActiveWal)
      <4>1. up' /\ InFlight' /\ task'.batch = recs
        BY <1>1, <2>5 DEF InFlightWith, InFlight
      <4>2. QED
        BY <1>8a, <2>2, <4>1 DEF Done
    <3>2. /\ UpsertedUpTo(Log', Done') = UpsertedUpTo(Log, Done)
          /\ TombstonedUpTo(Base, Log', Done') = TombstonedUpTo(Base, Log, Done)
      <4>1. Len(ActiveWal) \in 0 .. Len(ActiveWal)
        BY <1>8a
      <4>2. QED
        BY <1>8, <2>2, <3>1, <4>1 DEF AddsTo
    <3>3. \A i \in synced + 1 .. Done' : Log'[i] = Log[i]
      BY <1>6, <1>8a, <2>2, <3>1
    <3>4. QED
      BY <2>1, <2>2, <2>4, <3>1, <3>2, <3>3 DEF SameBut
  <2>6. CASE GivenUp(recs)
    <3>1. Done' = Len(ActiveWal) + Len(recs)
      BY <1>8a, <2>2, <2>6 DEF GivenUp, Done, InFlight, Idle
    <3>2. \A i \in 1 .. Len(recs) : recs[i].id \in doubtful'
      <4>1. \A i \in 1 .. Len(recs) : recs[i] # Torn
        BY <2>3 DEF LogRecords, Torn, Record
      <4>2. QED
        BY <2>6, <4>1 DEF GivenUp
    <3>3. ASSUME NEW i \in synced + 1 .. Done'
          PROVE  Log'[i].id \in doubtful'
      <4>1. CASE i <= Len(ActiveWal)
        <5>1. i \in synced + 1 .. Done /\ i \in 1 .. Len(ActiveWal)
          BY <1>6, <2>2, <4>1
        <5>2. QED
          BY <1>8a, <2>1, <2>2, <5>1
      <4>2. CASE i > Len(ActiveWal)
        <5>1. PICK j \in 1 .. Len(recs) : i = Len(ActiveWal) + j
          <6>1. i - Len(ActiveWal) \in 1 .. Len(recs)
            BY <1>6, <1>8a, <3>1, <4>2
          <6>2. i = Len(ActiveWal) + (i - Len(ActiveWal))
            BY <1>6, <1>8a
          <6>3. QED
            BY <6>1, <6>2
        <5>2. QED
          BY <1>8a, <2>2, <3>2, <5>1
      <4>3. QED
        BY <1>6, <1>8a, <4>1, <4>2
    <3>4. {recs[i].id : i \in 1 .. Len(recs)} \subseteq doubtful'
      BY <3>2
    <3>5. UpsertedUpTo(recs, Len(recs)) \subseteq doubtful'
      BY <3>4 DEF UpsertedUpTo
    <3>6. UpsertedUpTo(Log', Done') = UpsertedUpTo(Log, Done) \cup UpsertedUpTo(recs, Len(recs))
      <4>1. Len(recs) \in 0 .. Len(recs)
        BY <1>8a
      <4>2. QED
        BY <1>8, <2>2, <3>1, <4>1 DEF AddsTo
    <3>7. /\ TombstonedUpTo(Base, Log, Done) \subseteq TombstonedUpTo(Base, Log', Done')
          /\ TombstonedUpTo(Base, Log', Done')
               \subseteq TombstonedUpTo(Base, Log, Done) \cup doubtful'
      <4>1. Len(recs) \in 0 .. Len(recs)
        BY <1>8a
      <4>2. /\ TombstonedUpTo(Base, ActiveWal, Len(ActiveWal))
                 \subseteq TombstonedUpTo(Base, ActiveWal', Len(ActiveWal) + Len(recs))
            /\ TombstonedUpTo(Base, ActiveWal', Len(ActiveWal) + Len(recs))
                 \subseteq TombstonedUpTo(Base, ActiveWal, Len(ActiveWal))
                             \cup {recs[i].id : i \in 1 .. Len(recs)}
        BY <1>8, <4>1 DEF AddsTo
      <4>3. QED
        BY <2>2, <3>1, <3>4, <4>2
    <3>8. SameBut(doubtful', mem.app \cup WorkingRows(mem),
                  Base \cup UpsertedUpTo(Log', Done'))
      BY <2>1, <3>5, <3>6 DEF SameBut
    <3>9. SameBut(doubtful', mem.dels,
                  Checkpointed.dels \cup TombstonedUpTo(Base, Log', Done'))
      BY <2>1, <3>7 DEF SameBut
    <3>10. QED
      BY <2>1, <2>4, <3>3, <3>8, <3>9
  <2>7. QED
    BY <2>5, <2>6
<1>22. QED
  BY <1>4, <1>11, <1>12, <1>13, <1>14, <1>15, <1>16, <1>19, <1>20, <1>21 DEF FInv

(* An upsert of a batch comes after all ids below its own.                 *)
LEMMA BatchInOrder ==
  ASSUME NEW k \in Nat, NEW n \in Nat, NEW batch, NEW first \in Nat,
         TakesIds(batch, k, first, n), NEW j \in 1 .. k + n, batch[j].op = "upsert"
  PROVE  first .. batch[j].id - 1 = UpsertedUpTo(batch, j - 1)
<1>1. batch[j].id = first + (j - k - 1)
  BY DEF TakesIds
<1>2. j - 1 \in 0 .. k + n /\ first + (j - k - 1) - 1 = first + ((j - 1) - k) - 1
  OBVIOUS
<1>3. UpsertedUpTo(batch, j - 1) = first .. first + ((j - 1) - k) - 1
  BY <1>2 DEF TakesIds
<1>4. QED
  BY <1>1, <1>2, <1>3

LEMMA FLogBatchStep ==
  ASSUME FInv, up, task = Idle,
         NEW k \in Nat, NEW deletes \in [1 .. k -> Ids], NEW n \in Nat, NEW commit,
         n > 0 => mem.nextId + n <= MaxIds, LogBatch(n, deletes, commit),
         Observe, FaultsGrow, UNCHANGED doubtful
  PROVE  FInv'
<1>1. PICK batch : batch = Batch(deletes, mem.nextId, n)
  OBVIOUS
<1>2. /\ task' = [at |-> "flush", batch |-> batch, commit |-> commit]
      /\ wal' = [wal EXCEPT ![generation] = @ \o batch]
      /\ mem' = [mem EXCEPT !.nextId = @ + n]
      /\ UNCHANGED <<up, generation, persisted, synced, head, versions, segFiles>>
  BY <1>1 DEF LogBatch
<1>3. PICK first \in Nat : first = mem.nextId
  BY DEF FInv, FShapes, CollectionShape
<1>4. TakesIds(batch, k, first, n)
  <2>1. (n > 0 => first + n <= MaxIds) /\ batch = Batch(deletes, first, n)
    BY <1>1, <1>3
  <2>2. QED
    BY <2>1, BatchIds
<1>5. UpsertedUpTo(batch, k + n) = first .. first + n - 1
  <2>1. k + n \in 0 .. k + n /\ first + ((k + n) - k) - 1 = first + n - 1
    OBVIOUS
  <2>2. QED
    BY <1>4, <2>1 DEF TakesIds
<1>6. Upserted(batch) = first .. first + n - 1
  <2>1. Len(batch) \in 0 .. Len(batch) /\ SubSeq(batch, 1, Len(batch)) = batch
    BY <1>4, SubSeqFull DEF TakesIds
  <2>2. Upserted(SubSeq(batch, 1, Len(batch))) = UpsertedUpTo(batch, Len(batch))
    BY <1>4, <2>1, PrefixOfLog DEF TakesIds
  <2>3. QED
    BY <1>4, <1>5, <2>1, <2>2 DEF TakesIds
<1>7. batch \in Seq(FaultyRecords)
  BY <1>4 DEF FaultyRecords, TakesIds
<1>8. Appended(batch, n)
  BY <1>2, <1>7 DEF Appended
<1>9. InOrder(batch, n)
  <2>1. ASSUME NEW j \in 1 .. Len(batch), batch[j].op = "upsert"
        PROVE  mem.nextId .. batch[j].id - 1 = UpsertedUpTo(batch, j - 1)
    <3>1. first .. batch[j].id - 1 = UpsertedUpTo(batch, j - 1)
      <4>1. Len(batch) = k + n
        BY <1>4 DEF TakesIds
      <4>2. QED
        BY <1>4, <2>1, <4>1, BatchInOrder
    <3>2. QED
      BY <1>3, <3>1
  <2>2. mem.nextId .. mem.nextId + n - 1 = UpsertedUpTo(batch, Len(batch))
    BY <1>3, <1>4, <1>5 DEF TakesIds
  <2>3. QED
    BY <2>1, <2>2 DEF InOrder
<1>10. InFlightWith(batch, n)
  <2>1. \A id \in Upserted(batch) : id < mem.nextId + n
    BY <1>3, <1>6
  <2>2. QED
    BY <1>2, <1>4, <2>1 DEF InFlightWith, TakesIds
<1>11. Pending' = batch
  BY <1>2 DEF Pending, InFlight
<1>12. \A id \in mem.nextId .. mem.nextId + n - 1 : id \in Upserted(Pending')
  BY <1>3, <1>6, <1>11
<1>13. QED
  BY <1>8, <1>9, <1>10, <1>12, FAppendStep

LEMMA FWriteStep ==
  ASSUME FInv, Observe, FaultsGrow, UNCHANGED doubtful,
         \/ \E n \in 0 .. MaxBatch, deletes \in DeleteLists, commit \in BOOLEAN :
              WriteBatch(n, deletes, commit)
         \/ \E id \in Ids : DeletePoint(id)
  PROVE  FInv'
<1>1. ASSUME NEW n \in 0 .. MaxBatch, NEW deletes \in DeleteLists, NEW commit \in BOOLEAN,
             WriteBatch(n, deletes, commit)
      PROVE  FInv'
  <2>1. PICK k \in 0 .. MaxBatch : deletes \in [1 .. k -> Ids]
    BY DEF DeleteLists
  <2>2. k \in Nat /\ n \in Nat
    BY BoundsAssumption
  <2>3. up /\ task = Idle /\ mem.nextId + n <= MaxIds /\ LogBatch(n, deletes, commit)
    BY <1>1 DEF WriteBatch, Ready
  <2>4. QED
    BY <2>1, <2>2, <2>3, FLogBatchStep
<1>2. ASSUME NEW id \in Ids, DeletePoint(id)
      PROVE  FInv'
  <2>1. up /\ task = Idle /\ LogBatch(0, <<id>>, FALSE)
    BY <1>2 DEF DeletePoint, Ready
  <2>2. PICK deletes : deletes = <<id>>
    OBVIOUS
  <2>3. PICK k \in Nat, n \in Nat : k = 1 /\ n = 0
    OBVIOUS
  <2>4. <<id>> \in [1 .. 1 -> Ids]
    OBVIOUS
  <2>5. deletes \in [1 .. k -> Ids]
    BY <2>2, <2>3, <2>4
  <2>6. LogBatch(n, deletes, FALSE)
    BY <2>1, <2>2, <2>3
  <2>7. n > 0 => mem.nextId + n <= MaxIds
    BY <2>3
  <2>8. QED
    BY <2>1, <2>5, <2>6, <2>7, FLogBatchStep
<1>3. QED
  BY <1>1, <1>2

(* What an append that fails at record q leaves in the log.                *)
Leaves(recs, batch, q, torn) ==
  /\ recs \in Seq(FaultyRecords) /\ Len(recs) \in {q - 1, q}
  /\ \A i \in 1 .. q - 1 : recs[i] = batch[i]
  /\ Len(recs) = q => recs[q] = Torn
  /\ ~torn => recs \in Seq(LogRecords)

LEMMA PartLogged ==
  ASSUME NEW batch \in Seq(LogRecords), NEW q \in 1 .. Len(batch), NEW torn \in BOOLEAN,
         NEW recs,
         recs = SubSeq(batch, 1, q - 1) \o (IF torn THEN <<Torn>> ELSE <<>>)
  PROVE  Leaves(recs, batch, q, torn)
<1> DEFINE part == SubSeq(batch, 1, q - 1)
           rest == IF torn THEN <<Torn>> ELSE <<>>
<1>1. q - 1 \in 0 .. Len(batch) /\ q \in Nat
  OBVIOUS
<1>2. /\ part \in Seq(LogRecords) /\ Len(part) = q - 1
      /\ \A i \in 1 .. q - 1 : part[i] = batch[i]
  BY <1>1, PrefixOfLog
<1>3. part \in Seq(FaultyRecords)
  BY <1>2 DEF FaultyRecords
<1>4. CASE torn
  <2>1. rest = <<Torn>> /\ Torn \in FaultyRecords
    BY <1>4 DEF FaultyRecords
  <2>2. rest \in Seq(FaultyRecords) /\ Len(rest) = 1 /\ rest[1] = Torn
    BY <2>1
  <2> HIDE DEF part, rest
  <2>3. /\ part \o rest \in Seq(FaultyRecords) /\ Len(part \o rest) = q
        /\ \A i \in 1 .. q - 1 : (part \o rest)[i] = part[i]
        /\ (part \o rest)[q] = Torn
    <3>1. PICK p, r : p = part /\ r = rest
      OBVIOUS
    <3>2. /\ p \in Seq(FaultyRecords) /\ r \in Seq(FaultyRecords)
          /\ Len(p) = q - 1 /\ Len(r) = 1
      BY <1>2, <1>3, <2>2, <3>1
    <3>3. /\ p \o r \in Seq(FaultyRecords) /\ Len(p \o r) = Len(p) + Len(r)
          /\ \A i \in 1 .. Len(p) : (p \o r)[i] = p[i]
          /\ \A i \in 1 .. Len(r) : (p \o r)[Len(p) + i] = r[i]
      <4>1. /\ p \o r \in Seq(FaultyRecords) /\ Len(p \o r) = Len(p) + Len(r)
            /\ \A i \in 1 .. Len(p) + Len(r) :
                 (p \o r)[i] = IF i <= Len(p) THEN p[i] ELSE r[i - Len(p)]
        BY <3>2, ConcatProperties
      <4>2. Len(p) \in Nat /\ Len(r) \in Nat
        BY <3>2
      <4>3. ASSUME NEW i \in 1 .. Len(r)
            PROVE  (p \o r)[Len(p) + i] = r[i]
        <5>1. /\ Len(p) + i \in 1 .. Len(p) + Len(r) /\ ~(Len(p) + i <= Len(p))
              /\ (Len(p) + i) - Len(p) = i
          BY <4>2
        <5>2. QED
          BY <4>1, <5>1
      <4>4. QED
        BY <4>1, <4>2, <4>3
    <3>4. q = Len(p) + 1 /\ 1 \in 1 .. Len(r)
      BY <1>1, <3>2
    <3>5. QED
      BY <1>1, <2>2, <3>1, <3>2, <3>3, <3>4
  <2>4. QED
    BY <1>1, <1>2, <1>4, <2>3 DEF part, rest, Leaves
<1>5. CASE ~torn
  <2>1. recs = part
    BY <1>2, <1>5
  <2> HIDE DEF part
  <2>2. Len(recs) # q
    BY <1>1, <1>2, <2>1
  <2>3. QED
    BY <1>2, <1>3, <1>5, <2>1, <2>2 DEF Leaves
<1>6. QED
  BY <1>4, <1>5

LEMMA FFailAppendStep ==
  ASSUME FInv, NEW n \in 0 .. MaxBatch, NEW deletes \in DeleteLists, NEW torn \in BOOLEAN,
         FailAppend(n, deletes, torn), Observe
  PROVE  FInv'
<1>1. /\ up /\ task = Idle /\ n \in Nat /\ mem.nextId + n <= MaxIds
      /\ UNCHANGED <<up, generation, persisted, task, synced, head, versions, segFiles>>
  BY BoundsAssumption DEF FailAppend, Ready
<1>2. PICK k \in Nat : deletes \in [1 .. k -> Ids]
  <2>1. PICK k \in 0 .. MaxBatch : deletes \in [1 .. k -> Ids]
    BY DEF DeleteLists
  <2>2. k \in Nat
    BY BoundsAssumption
  <2>3. QED
    BY <2>1, <2>2
<1>3. PICK first \in Nat : first = mem.nextId
  BY <1>1 DEF FInv, FShapes, CollectionShape
<1>4. PICK batch : batch = Batch(deletes, first, n)
  OBVIOUS
<1>5. TakesIds(batch, k, first, n)
  BY <1>1, <1>2, <1>3, <1>4, BatchIds
<1>6. batch \in Seq(LogRecords) /\ Len(batch) = k + n /\ Len(deletes) = k
  BY <1>2, <1>5 DEF TakesIds
<1>7. PICK q \in 1 .. Len(batch) :
        LET logged == SubSeq(batch, 1, q - 1) \o (IF torn THEN <<Torn>> ELSE <<>>)
        IN  /\ wal' = [wal EXCEPT ![generation] = @ \o logged]
            /\ mem' = [mem EXCEPT !.nextId = @ + Max({0, q - Len(deletes)})]
            /\ doubtful' = doubtful \cup Deleted(SubSeq(batch, 1, q))
                                    \cup Upserted(SubSeq(batch, 1, q))
  BY <1>3, <1>4 DEF FailAppend
<1>8. PICK recs :
        recs = SubSeq(batch, 1, q - 1) \o (IF torn THEN <<Torn>> ELSE <<>>)
  OBVIOUS
<1>9. PICK m : m = Max({0, q - k})
  OBVIOUS
<1>10. /\ wal' = [wal EXCEPT ![generation] = @ \o recs]
       /\ mem' = [mem EXCEPT !.nextId = @ + m]
       /\ doubtful' = doubtful \cup Deleted(SubSeq(batch, 1, q))
                               \cup Upserted(SubSeq(batch, 1, q))
  BY <1>6, <1>7, <1>8, <1>9
<1>11. q \in Nat /\ m = IF q > k THEN q - k ELSE 0
  <2>1. q \in Nat
    BY <1>6
  <2>2. CASE q > k
    <3>1. q - k \in Nat
      BY <2>1, <2>2
    <3>2. \A x \in {0, q - k} : (\A y \in {0, q - k} : x >= y) <=> x = q - k
      BY <2>1, <2>2
    <3>3. QED
      BY <1>9, <2>1, <2>2, <3>2 DEF Max
  <2>3. CASE ~(q > k)
    <3>1. \A x \in {0, q - k} : (\A y \in {0, q - k} : x >= y) => x = 0
      BY <2>1, <2>3
    <3>2. \A y \in {0, q - k} : 0 >= y
      BY <2>1, <2>3
    <3>3. QED
      BY <1>9, <2>1, <2>3, <3>1, <3>2 DEF Max
  <2>4. QED
    BY <2>2, <2>3
<1>12. m \in Nat
  BY <1>11
<1>13. /\ recs \in Seq(FaultyRecords) /\ Len(recs) \in {q - 1, q}
       /\ \A i \in 1 .. q - 1 : recs[i] = batch[i]
       /\ Len(recs) = q => recs[q] = Torn
       /\ ~torn => recs \in Seq(LogRecords)
  <2>1. Leaves(recs, batch, q, torn)
    BY <1>6, <1>8, PartLogged
  <2>2. QED
    BY <2>1 DEF Leaves
<1>14. UpsertedUpTo(batch, q) = mem.nextId .. mem.nextId + m - 1
  <2>1. UpsertedUpTo(batch, q) = first .. first + (q - k) - 1
    BY <1>5, <1>6, <1>11 DEF TakesIds
  <2>2. CASE q > k
    BY <1>3, <1>11, <2>1, <2>2
  <2>3. CASE ~(q > k)
    BY <1>3, <1>11, <2>1, <2>3
  <2>4. QED
    BY <2>2, <2>3
<1>15. /\ Upserted(SubSeq(batch, 1, q)) = UpsertedUpTo(batch, q)
       /\ \A i \in 1 .. q : batch[i].id \in doubtful'
  <2>1. q \in 0 .. Len(batch)
    BY <1>6
  <2>2. /\ SubSeq(batch, 1, q) \in Seq(LogRecords) /\ Len(SubSeq(batch, 1, q)) = q
        /\ \A i \in 1 .. q : SubSeq(batch, 1, q)[i] = batch[i]
        /\ Upserted(SubSeq(batch, 1, q)) = UpsertedUpTo(batch, q)
    BY <1>6, <2>1, PrefixOfLog
  <2>3. ASSUME NEW i \in 1 .. q
        PROVE  batch[i].id \in doubtful'
    <3>1. PICK part : part = SubSeq(batch, 1, q)
      OBVIOUS
    <3>2. i \in DOMAIN part /\ part[i] = batch[i] /\ part[i] \in LogRecords
      BY <1>11, <2>2, <3>1
    <3>3. part[i].op = "upsert" \/ part[i].op = "delete"
      BY <3>2 DEF LogRecords
    <3>4. part[i].id \in Upserted(part) \cup Deleted(part)
      BY <3>2, <3>3 DEF Upserted, Deleted, IdsOf
    <3>5. QED
      BY <1>10, <3>1, <3>2, <3>4
  <2>4. QED
    BY <2>2, <2>3
<1>16. faults' = Append(faults, IF torn THEN "tear" ELSE "fail")
  BY DEF FailAppend, Fault
<1>17. FaultsGrow /\ (Clean' => ~torn)
  <2>1. PICK kind \in {"fail", "tear", "late"} : kind = IF torn THEN "tear" ELSE "fail"
    OBVIOUS
  <2>2. FShapes /\ faults' = Append(faults, kind)
    BY <1>16, <2>1 DEF FInv
  <2>3. /\ faults' \in Seq({"fail", "tear", "late"})
        /\ Clean' => Clean /\ kind = "fail"
    BY <2>2, FaultAdded
  <2>4. QED
    BY <2>1, <2>3 DEF FaultsGrow
<1>18. Appended(recs, m)
  BY <1>1, <1>10, <1>13 DEF Appended
<1>19. InOrder(recs, m)
  <2>1. ASSUME NEW j \in 1 .. Len(recs), Untorn(recs, j), recs[j].op = "upsert",
               NEW id \in mem.nextId .. recs[j].id - 1
        PROVE  id \in UpsertedUpTo(recs, j - 1)
    <3>1. j <= q - 1
      <4>1. j \in 1 .. j
        BY <1>11
      <4>2. j # q
        BY <1>13, <2>1, <4>1 DEF Untorn
      <4>3. QED
        BY <1>11, <1>13, <4>2
    <3>2. j \in 1 .. k + n /\ recs[j] = batch[j] /\ batch[j].op = "upsert"
      <4>1. j \in 1 .. q - 1
        BY <1>11, <1>13, <3>1
      <4>2. j \in 1 .. k + n
        <5>1. q \in 1 .. k + n
          BY <1>6
        <5>2. QED
          BY <1>1, <1>11, <4>1, <5>1
      <4>3. QED
        BY <1>13, <2>1, <4>1, <4>2
    <3>3. first .. batch[j].id - 1 = UpsertedUpTo(batch, j - 1)
      <4>1. n \in Nat /\ j \in 1 .. k + n /\ batch[j].op = "upsert"
        BY <1>1, <3>2
      <4>2. QED
        BY <1>5, <4>1, BatchInOrder
    <3>4. j - 1 \in Nat /\ \A i \in 1 .. j - 1 : recs[i] = batch[i]
      <4>1. j \in Nat
        BY <1>6, <3>2
      <4>2. \A i \in 1 .. j - 1 : i \in 1 .. q - 1
        BY <1>11, <3>1, <4>1
      <4>3. j - 1 \in Nat
        BY <3>2, <4>1
      <4>4. QED
        BY <1>13, <4>2, <4>3
    <3>5. UpsertedUpTo(recs, j - 1) = UpsertedUpTo(batch, j - 1)
      BY <3>4, SamePrefix
    <3>6. QED
      BY <1>3, <2>1, <3>2, <3>3, <3>5
  <2>2. \A id \in mem.nextId .. mem.nextId + m - 1 : id \in doubtful'
    BY <1>10, <1>14, <1>15
  <2>3. QED
    BY <2>1, <2>2 DEF InOrder
<1>20. GivenUp(recs)
  <2>1. ASSUME NEW i \in 1 .. Len(recs), recs[i] # Torn
        PROVE  recs[i].id \in doubtful'
    <3>1. i \in 1 .. q /\ recs[i] = batch[i]
      <4>1. i # q
        BY <1>13, <2>1
      <4>2. i \in 1 .. q - 1
        <5>1. Len(recs) \in {q - 1, q}
          BY <1>13
        <5>2. QED
          BY <1>11, <4>1, <5>1
      <4>3. QED
        BY <1>11, <1>13, <4>2
    <3>2. QED
      BY <1>15, <3>1
  <2>2. QED
    BY <1>1, <1>13, <1>17, <2>1 DEF GivenUp
<1>21. \A id \in mem.nextId .. mem.nextId + m - 1 : id \in doubtful'
  BY <1>10, <1>14, <1>15
<1>22. doubtful \subseteq doubtful'
  BY <1>10
<1>23. QED
  BY <1>1, <1>12, <1>17, <1>18, <1>19, <1>20, <1>21, <1>22, FAppendStep

(* The batch in flight, seen by the log that holds it.                     *)
LEMMA BatchOfLog ==
  ASSUME FInv, up, InFlight, Clean
  PROVE  /\ ActiveWal = Log /\ Len(Log) \in Nat /\ Done \in Nat
         /\ Len(task.batch) \in Nat /\ Done + Len(task.batch) = Len(Log)
         /\ \A i \in 1 .. Len(task.batch) : Log[Done + i] = task.batch[i]
         /\ UpsertedUpTo(Log, Len(Log)) = UpsertedUpTo(Log, Done) \cup Upserted(task.batch)
         /\ TombstonedUpTo(Base, Log, Len(Log))
              = TombstonedUpTo(Base, Log, Done)
                  \cup (Deleted(task.batch) \cap (Base \cup UpsertedUpTo(Log, Done)))
<1>1. PICK batch : batch = task.batch
  OBVIOUS
<1>2. PICK base : base = Base
  OBVIOUS
<1>3. /\ Checkpointed.generation = generation /\ Checkpointed.generation \in DOMAIN wal
      /\ wal[generation] \in Seq(LogRecords)
  BY DEF FInv, CleanInv, GenerationsInv, InFlight
<1>4. ActiveWal = Log
  BY <1>3 DEF ActiveWal, Log
<1>5. PICK log \in Seq(LogRecords) : log = Log
  BY <1>3 DEF Log
<1>6. /\ batch \in Seq(LogRecords) /\ DeletesFirst(batch) /\ Len(batch) <= Len(log)
      /\ EndsWith(log, Len(log) - Len(batch), batch)
  BY <1>1, <1>4, <1>5 DEF FInv, FBatchInv
<1>7. PICK n \in Nat : n = Len(log) - Len(batch)
  BY <1>6
<1>8. Done = n
  BY <1>1, <1>5, <1>7 DEF Done
<1>9. /\ EndsWith(log, n, batch) /\ Len(batch) \in 0 .. Len(batch)
      /\ n + Len(batch) = Len(log)
      /\ \A i \in 1 .. Len(batch) : log[n + i] = batch[i]
  BY <1>6, <1>7 DEF EndsWith
<1>10. PICK j \in 0 .. Len(batch) : j = Len(batch)
  BY <1>9
<1>11. /\ UpsertedUpTo(log, n + j) = UpsertedUpTo(log, n) \cup UpsertedUpTo(batch, j)
       /\ TombstonedUpTo(base, log, n + j)
            = TombstonedUpTo(base, log, n)
                \cup (Deleted(SubSeq(batch, 1, j)) \cap (base \cup UpsertedUpTo(log, n)))
  BY <1>6, <1>9, PartOfBatch
<1>12. SubSeq(batch, 1, j) = batch
  BY <1>6, <1>10, SubSeqFull
<1>13. Upserted(batch) = UpsertedUpTo(batch, j)
  <2>1. Upserted(SubSeq(batch, 1, j)) = UpsertedUpTo(batch, j)
    BY <1>6, PrefixOfLog
  <2>2. QED
    BY <1>12, <2>1
<1>14. n + j = Len(log)
  BY <1>9, <1>10
<1>15. /\ UpsertedUpTo(log, Len(log)) = UpsertedUpTo(log, n) \cup Upserted(batch)
       /\ TombstonedUpTo(base, log, Len(log))
            = TombstonedUpTo(base, log, n)
                \cup (Deleted(batch) \cap (base \cup UpsertedUpTo(log, n)))
  BY <1>11, <1>12, <1>13, <1>14
<1>16. Len(log) \in Nat /\ Len(batch) \in Nat
  BY <1>6
<1>17. QED
  BY <1>1, <1>2, <1>4, <1>5, <1>8, <1>9, <1>15, <1>16

(* The ids of a batch are what it deletes and inserts.                     *)
LEMMA IdsOfBatch ==
  ASSUME NEW batch \in Seq(LogRecords), NEW i \in 1 .. Len(batch)
  PROVE  batch[i].id \in Deleted(batch) \cup Upserted(batch)
<1>1. i \in DOMAIN batch /\ batch[i] \in LogRecords
  OBVIOUS
<1>2. batch[i].op = "upsert" \/ batch[i].op = "delete"
  BY <1>1 DEF LogRecords
<1>3. QED
  BY <1>1, <1>2 DEF Deleted, Upserted, IdsOf

LEMMA FFlushStep ==
  ASSUME FInv, Flush, Observe, FaultsGrow, UNCHANGED doubtful
  PROVE  FInv'
<1>1. /\ up /\ task.at = "flush" /\ InFlight /\ synced' = Len(wal[generation])
      /\ task' = [task EXCEPT !.at = "apply"]
      /\ UNCHANGED <<up, mem, generation, persisted, wal, head, versions, segFiles>>
  BY DEF Flush, InFlight
<1>2. task' = [at |-> "apply", batch |-> task.batch, commit |-> task.commit]
  BY <1>1 DEF FInv, FBatchInv
<1>3. Checkpointed' = Checkpointed /\ Log' = Log /\ Base' = Base /\ ActiveWal' = ActiveWal
  BY <1>1 DEF Checkpointed, Log, Base, ActiveWal
<1>4. InFlight' /\ Done' = Done /\ Pending' = Pending
  BY <1>1, <1>2, <1>3 DEF Done, Pending, InFlight
<1>5. ActiveWal \in Seq(FaultyRecords) /\ synced' = Len(ActiveWal)
  BY <1>1 DEF FInv, FShapes, GenerationsInv, ActiveWal
<1>6. synced' \in Nat /\ synced' <= Len(ActiveWal)
  BY <1>5
<1>7. FilesInv' /\ SegmentsInv' /\ FrozenInv'
  BY <1>1, StandsStill, FilesUntouched
<1>8. FShapes'
  BY <1>1, <1>6 DEF FInv, FShapes, FaultsGrow
<1>9. GenerationsInv'
  BY <1>1, <1>2, <1>3, <1>6 DEF FInv, GenerationsInv
<1>10. FBatchInv'
  BY <1>1, <1>2, <1>3, <1>4 DEF FInv, FBatchInv
<1>11. TaskInv'
  BY <1>2 DEF TaskInv
<1>12. HeadIdsInv' /\ LogIdsInv'
  BY <1>1, DoubtGrows
<1>13. MemoryIdsInv'
  BY <1>1, <1>4 DEF FInv, MemoryIdsInv
<1>14. AllocatorInv'
  BY <1>1, <1>2, <1>3 DEF FInv, AllocatorInv
<1>15. CleanInv'
  <2>1. ASSUME Clean'
        PROVE  /\ Checkpointed.generation = generation /\ synced' = Len(Log)
               /\ \A i \in synced' + 1 .. Done : FALSE
    <3>1. Clean /\ Checkpointed.generation = generation
      BY <1>1, <2>1 DEF FaultsGrow, FInv, CleanInv
    <3>2. /\ ActiveWal = Log /\ Done \in Nat /\ Len(task.batch) \in Nat
          /\ Done + Len(task.batch) = Len(Log)
      BY <1>1, <3>1, BatchOfLog
    <3>3. QED
      BY <1>5, <3>1, <3>2
  <2>2. QED
    BY <1>1, <1>2, <1>3, <1>4, <2>1 DEF FInv, CleanInv, FaultsGrow
<1>16. QED
  BY <1>7, <1>8, <1>9, <1>10, <1>11, <1>12, <1>13, <1>14, <1>15 DEF FInv

(* A batch that was logged and whose flush failed leaves its ids in doubt. *)
LEMMA FFailFlushStep ==
  ASSUME FInv, FailFlush, Observe, FaultsGrow
  PROVE  FInv'
<1>1. /\ up /\ task.at = "flush" /\ InFlight /\ task' = Idle
      /\ doubtful' = doubtful \cup Deleted(task.batch) \cup Upserted(task.batch)
      /\ UNCHANGED <<up, mem, generation, persisted, wal, synced, head, versions, segFiles>>
  BY DEF FailFlush, Fault, InFlight, disk
<1>2. Checkpointed' = Checkpointed /\ Log' = Log /\ Base' = Base /\ ActiveWal' = ActiveWal
  BY <1>1 DEF Checkpointed, Log, Base, ActiveWal
<1>3. ~InFlight' /\ Done' = Len(Log) /\ task'.at = "idle"
  BY <1>1, <1>2 DEF Done, InFlight, Idle
<1>4. Pending = task.batch
  BY <1>1 DEF Pending
<1>5. FilesInv' /\ SegmentsInv' /\ FrozenInv'
  BY <1>1, StandsStill, FilesUntouched
<1>6. FShapes'
  BY <1>1 DEF FInv, FShapes, FaultsGrow
<1>7. GenerationsInv'
  BY <1>1, <1>2, <1>3 DEF FInv, GenerationsInv
<1>8. FBatchInv' /\ TaskInv'
  BY <1>3 DEF FBatchInv, TaskInv
<1>9. HeadIdsInv' /\ LogIdsInv'
  BY <1>1, DoubtGrows
<1>10. MemoryIdsInv'
  BY <1>1, <1>4 DEF FInv, MemoryIdsInv
<1>11. AllocatorInv'
  BY <1>1, <1>2, <1>3 DEF FInv, AllocatorInv
<1>12. CleanInv'
  <2> SUFFICES ASSUME Clean
               PROVE  /\ Checkpointed.generation = generation
                      /\ \A i \in synced + 1 .. Len(Log) : Log[i].id \in doubtful'
                      /\ SameBut(doubtful', mem.app \cup WorkingRows(mem),
                                 Base \cup UpsertedUpTo(Log, Len(Log)))
                      /\ SameBut(doubtful', mem.dels,
                                 Checkpointed.dels
                                   \cup TombstonedUpTo(Base, Log, Len(Log)))
    BY <1>1, <1>2, <1>3 DEF FInv, CleanInv, FaultsGrow
  <2>1. /\ Checkpointed.generation = generation /\ synced \in Nat
        /\ \A i \in synced + 1 .. Done : Log[i].id \in doubtful
        /\ SameBut(doubtful, mem.app \cup WorkingRows(mem),
                   Base \cup UpsertedUpTo(Log, Done))
        /\ SameBut(doubtful, mem.dels,
                   Checkpointed.dels \cup TombstonedUpTo(Base, Log, Done))
    BY <1>1 DEF FInv, CleanInv, FShapes
  <2>2. /\ Len(Log) \in Nat /\ Done \in Nat
        /\ Len(task.batch) \in Nat /\ Done + Len(task.batch) = Len(Log)
        /\ \A i \in 1 .. Len(task.batch) : Log[Done + i] = task.batch[i]
    BY <1>1, BatchOfLog
  <2>3. /\ UpsertedUpTo(Log, Len(Log)) = UpsertedUpTo(Log, Done) \cup Upserted(task.batch)
        /\ TombstonedUpTo(Base, Log, Len(Log))
             = TombstonedUpTo(Base, Log, Done)
                 \cup (Deleted(task.batch) \cap (Base \cup UpsertedUpTo(Log, Done)))
    BY <1>1, BatchOfLog
  <2>4. ASSUME NEW i \in synced + 1 .. Len(Log)
        PROVE  Log[i].id \in doubtful'
    <3>1. CASE i <= Done
      <4>1. i \in synced + 1 .. Done
        BY <2>1, <2>2, <3>1
      <4>2. QED
        BY <1>1, <2>1, <4>1
    <3>2. CASE i > Done
      <4>1. PICK batch \in Seq(LogRecords) : batch = task.batch
        BY <1>1 DEF FInv, FBatchInv
      <4>2. PICK j \in 1 .. Len(batch) : i = Done + j
        <5>1. i - Done \in 1 .. Len(batch) /\ i = Done + (i - Done)
          BY <2>1, <2>2, <3>2, <4>1
        <5>2. QED
          BY <5>1
      <4>3. batch[j].id \in Deleted(batch) \cup Upserted(batch)
        BY IdsOfBatch
      <4>4. QED
        BY <1>1, <2>2, <4>1, <4>2, <4>3
    <3>3. QED
      BY <2>1, <2>2, <3>1, <3>2
  <2>5. SameBut(doubtful', mem.app \cup WorkingRows(mem),
                Base \cup UpsertedUpTo(Log, Len(Log)))
    BY <1>1, <2>1, <2>3 DEF SameBut
  <2>6. SameBut(doubtful', mem.dels,
                Checkpointed.dels \cup TombstonedUpTo(Base, Log, Len(Log)))
    BY <1>1, <2>1, <2>3 DEF SameBut
  <2>7. QED
    BY <2>1, <2>4, <2>5, <2>6
<1>13. QED
  BY <1>5, <1>6, <1>7, <1>8, <1>9, <1>10, <1>11, <1>12 DEF FInv

(* Applying the batch: rows and tombstones that log and memory share.      *)
LEMMA FApplyStep ==
  ASSUME FInv, Apply, Observe, FaultsGrow, UNCHANGED doubtful
  PROVE  FInv'
<1>1. /\ up /\ task.at = "apply" /\ InFlight
      /\ mem' = Insert(Delete(mem, Deleted(task.batch)), Upserted(task.batch))
      /\ task' = IF task.commit THEN [at |-> "commit", tag |-> None] ELSE Idle
      /\ UNCHANGED <<up, generation, persisted, wal, synced, head, versions, segFiles>>
  BY DEF Apply, disk, InFlight
<1>2. PICK upserts : upserts = Upserted(task.batch)
  OBVIOUS
<1>3. PICK deletes : deletes = Deleted(task.batch)
  OBVIOUS
<1>4. CollectionShape(mem) /\ RegistryOK(mem) /\ HistoryShape(mem.vs)
  BY <1>1 DEF FInv, FShapes, FilesInv
<1>5. upserts \in SUBSET Nat /\ \A id \in upserts : id < mem.nextId
  <2>1. task.batch \in Seq(LogRecords) /\ \A id \in upserts : id < mem.nextId
    BY <1>1, <1>2 DEF FInv, FBatchInv
  <2>2. \A i \in DOMAIN task.batch : task.batch[i] \in LogRecords
    BY <2>1
  <2>3. upserts \subseteq Nat
    BY <1>2, <2>2 DEF Upserted, IdsOf, LogRecords, Ids
  <2>4. QED
    BY <2>1, <2>3
<1>6. mem' = [app |-> mem.app \cup upserts, working |-> mem.working,
              segments |-> mem.segments,
              dels |-> mem.dels \cup (deletes \cap (mem.app \cup WorkingRows(mem))),
              payloads |-> mem.payloads \cup upserts, vs |-> mem.vs,
              nextId |-> mem.nextId, nextSeg |-> mem.nextSeg]
  <2>1. PICK m : m = mem
    OBVIOUS
  <2>2. CollectionShape(m) /\ \A id \in upserts : id < m.nextId
    BY <1>4, <1>5, <2>1
  <2>3. mem' = Insert(Delete(m, deletes), upserts)
    BY <1>1, <1>2, <1>3, <2>1
  <2>4. QED
    BY <1>5, <2>1, <2>2, <2>3, WriteEffect
<1>7. /\ mem'.app = mem.app \cup upserts /\ mem'.working = mem.working
      /\ mem'.segments = mem.segments /\ mem'.vs = mem.vs
      /\ mem'.dels = mem.dels \cup (deletes \cap (mem.app \cup WorkingRows(mem)))
      /\ mem'.payloads = mem.payloads \cup upserts
      /\ mem'.nextId = mem.nextId /\ mem'.nextSeg = mem.nextSeg
  BY <1>6
<1>8. WorkingRows(mem') = WorkingRows(mem) /\ WorkingIds(mem') = WorkingIds(mem)
  BY <1>7 DEF WorkingRows, WorkingIds
<1>9. CollectionShape(mem') /\ RegistryOK(mem')
  <2>1. mem.app \cup WorkingRows(mem) \subseteq Nat
    BY <1>4, WorkingRowsType DEF CollectionShape
  <2>2. CollectionShape(mem')
    BY <1>4, <1>5, <1>6, <1>7, <2>1 DEF CollectionShape
  <2>3. RegistryOK(mem')
    BY <1>4, <1>7, <1>8 DEF RegistryOK, SegmentIdsToPersist
  <2>4. QED
    BY <2>2, <2>3
<1>10. SegmentsKept(mem, mem') /\ NewVersions(mem, mem', doubtful')
  <2>1. mem.nextSeg <= mem.nextSeg
    BY <1>4 DEF CollectionShape
  <2>2. SegmentsKept(mem, mem')
    BY <1>4, <1>7, <1>9, <2>1 DEF SegmentsKept
  <2>3. NewVersions(mem, mem', doubtful')
    BY <1>7 DEF NewVersions
  <2>4. QED
    BY <2>2, <2>3
<1>11. /\ Checkpointed' = Checkpointed /\ Log' = Log /\ Base' = Base
       /\ ActiveWal' = ActiveWal
  BY <1>1 DEF Checkpointed, Log, Base, ActiveWal
<1>12. ~InFlight' /\ Done' = Len(Log) /\ task'.at \in {"commit", "idle"}
  BY <1>1, <1>11 DEF Done, InFlight, Idle
<1>13. Pending = task.batch
  BY <1>1 DEF Pending
<1>14. FilesInv' /\ SegmentsInv' /\ FrozenInv'
  BY <1>1, <1>10, FilesUntouched
<1>15. FShapes'
  BY <1>1, <1>7, <1>9, <1>4 DEF FInv, FShapes, FaultsGrow
<1>16. GenerationsInv'
  BY <1>1, <1>11, <1>12 DEF FInv, GenerationsInv
<1>17. FBatchInv' /\ TaskInv'
  BY <1>12 DEF FBatchInv, TaskInv
<1>18. HeadIdsInv' /\ LogIdsInv'
  BY <1>1, DoubtGrows
<1>19. MemoryIdsInv'
  <2>1. \A id \in mem'.app \cup WorkingRows(mem') : id < mem'.nextId
    BY <1>1, <1>5, <1>7, <1>8 DEF FInv, MemoryIdsInv
  <2>2. ASSUME NEW id \in 0 .. mem.nextId - 1
        PROVE  id \in mem'.app \cup WorkingRows(mem') \cup doubtful
    BY <1>1, <1>2, <1>7, <1>8, <1>13 DEF FInv, MemoryIdsInv
  <2>3. QED
    BY <1>1, <1>7, <2>1, <2>2 DEF FInv, MemoryIdsInv
<1>20. AllocatorInv'
  BY <1>1, <1>7, <1>11, <1>12 DEF FInv, AllocatorInv
<1>21. CleanInv'
  <2> SUFFICES ASSUME Clean
               PROVE  /\ Checkpointed.generation = generation
                      /\ \A i \in synced + 1 .. Len(Log) : FALSE
                      /\ SameBut(doubtful, mem'.app \cup WorkingRows(mem'),
                                 Base \cup UpsertedUpTo(Log, Len(Log)))
                      /\ SameBut(doubtful, mem'.dels,
                                 Checkpointed.dels
                                   \cup TombstonedUpTo(Base, Log, Len(Log)))
    BY <1>1, <1>11, <1>12 DEF FInv, CleanInv, FaultsGrow
  <2>1. /\ Checkpointed.generation = generation /\ synced = Len(Log)
        /\ SameBut(doubtful, mem.app \cup WorkingRows(mem),
                   Base \cup UpsertedUpTo(Log, Done))
        /\ SameBut(doubtful, mem.dels,
                   Checkpointed.dels \cup TombstonedUpTo(Base, Log, Done))
    BY <1>1 DEF FInv, CleanInv
  <2>2. /\ Len(Log) \in Nat
        /\ UpsertedUpTo(Log, Len(Log)) = UpsertedUpTo(Log, Done) \cup upserts
        /\ TombstonedUpTo(Base, Log, Len(Log))
             = TombstonedUpTo(Base, Log, Done)
                 \cup (deletes \cap (Base \cup UpsertedUpTo(Log, Done)))
    BY <1>1, <1>2, <1>3, BatchOfLog
  <2>3. SameBut(doubtful, mem'.app \cup WorkingRows(mem'),
                Base \cup UpsertedUpTo(Log, Len(Log)))
    BY <1>7, <1>8, <2>1, <2>2 DEF SameBut
  <2>4. SameBut(doubtful, mem'.dels,
                Checkpointed.dels \cup TombstonedUpTo(Base, Log, Len(Log)))
    BY <1>7, <2>1, <2>2 DEF SameBut
  <2>5. \A i \in synced + 1 .. Len(Log) : FALSE
    BY <2>1, <2>2
  <2>6. QED
    BY <2>1, <2>3, <2>4, <2>5
<1>22. QED
  BY <1>14, <1>15, <1>16, <1>17, <1>18, <1>19, <1>20, <1>21 DEF FInv

-----------------------------------------------------------------------------
(***************************************************************************)
(* Stops and recovery.                                                     *)
(***************************************************************************)

(* The first n records of any log.                                         *)
PrefixOf(part, log, n) ==
  /\ part \in Seq(FaultyRecords) /\ Len(part) = n
  /\ \A i \in 1 .. n : part[i] = log[i]
  /\ Upserted(part) = UpsertedUpTo(log, n)
  /\ \A base : Tombstoned(base, part) = TombstonedUpTo(base, log, n)

LEMMA FaultyPrefix ==
  ASSUME NEW log \in Seq(FaultyRecords), NEW n \in 0 .. Len(log),
         NEW part, part = SubSeq(log, 1, n)
  PROVE  PrefixOf(part, log, n)
<1>1. \A i \in 1 .. n : log[i] \in FaultyRecords
  OBVIOUS
<1>2. /\ part \in Seq(FaultyRecords) /\ Len(part) = n
      /\ \A i \in 1 .. n : part[i] = log[i]
  BY <1>1, SubSeqProperties
<1>3. DOMAIN part = 1 .. n
  BY <1>2
<1>4. Upserted(part) = UpsertedUpTo(part, n)
  BY <1>3 DEF Upserted, IdsOf, UpsertedUpTo
<1>5. \A base : Tombstoned(base, part) = TombstonedUpTo(base, part, n)
  BY <1>3 DEF Tombstoned, TombstonedUpTo
<1>6. n \in Nat
  OBVIOUS
<1>7. ReadsSame(part, log, n)
  <2>1. SameRecords(part, log, n)
    BY <1>2 DEF SameRecords
  <2>2. QED
    BY <1>6, <2>1, SameReading
<1>8. QED
  BY <1>2, <1>4, <1>5, <1>7 DEF PrefixOf, ReadsSame

(* A prefix of HEAD's log says of ids what the log said of them.           *)
LEMMA FPrefixIds ==
  ASSUME FInv, NEW k \in 0 .. Len(Log), NEW part, PrefixOf(part, Log, k),
         NEW n \in 1 .. k, Untorn(part, n), part[n].op = "upsert",
         NEW id \in 0 .. part[n].id - 1
  PROVE  id < Checkpointed.nextId \/ id \in UpsertedUpTo(part, n - 1) \cup doubtful
<1>1. PICK log \in Seq(FaultyRecords) : log = Log
  BY DEF FInv, FShapes, GenerationsInv, Log
<1>2. \A i \in 1 .. k : part[i] = Log[i]
  BY DEF PrefixOf
<1>3. n \in 1 .. Len(Log) /\ n \in Nat /\ n - 1 \in Nat /\ 1 .. n \subseteq 1 .. k
  BY <1>1
<1>4. Untorn(Log, n) /\ Log[n].op = "upsert" /\ id \in 0 .. Log[n].id - 1
  BY <1>2, <1>3 DEF Untorn
<1>5. id < Checkpointed.nextId \/ id \in UpsertedUpTo(Log, n - 1) \cup doubtful
  BY <1>3, <1>4 DEF FInv, LogIdsInv
<1>6. UpsertedUpTo(part, n - 1) = UpsertedUpTo(Log, n - 1)
  <2>1. \A i \in 1 .. n - 1 : part[i] = Log[i]
    BY <1>2, <1>3
  <2>2. QED
    BY <1>3, <2>1, SamePrefix
<1>7. QED
  BY <1>5, <1>6

(* What a version of the file held is in its segments' files.              *)
LEMMA FileOfVersion ==
  ASSUME FInv, NEW v, v \in Versions(StoredStore),
         SegmentIds(StoredStore.commits[v]) \cap tainted = {}
  PROVE  frozen[v] = FileAt(v)
<1> DEFINE ids == SegmentIds(StoredStore.commits[v])
<1>1. CASE ~up
  BY <1>1 DEF FInv, FrozenInv, Current
<1>2. CASE up
  <2>1. /\ v \in Versions(mem.vs) /\ mem.vs.commits[v] = StoredStore.commits[v]
        /\ Current = mem.vs
    BY <1>2 DEF FInv, SegmentsInv, Current
  <2>2. frozen[v] = LiveAt(mem, v)
    BY <1>2, <2>1 DEF FInv, FrozenInv
  <2>3. ASSUME NEW i \in ids
        PROVE  i \in DOMAIN mem.segments /\ segFiles[i] = mem.segments[i]
    <3>1. i \in AllReferenced(StoredStore)
      BY DEF AllReferenced
    <3>2. i \in persisted \ tainted
      BY <1>2, <3>1 DEF FInv, SegmentsInv
    <3>3. QED
      BY <1>2, <3>2 DEF FInv, SegmentsInv, Stored
  <2> HIDE DEF ids
  <2>4. ids \cap DOMAIN mem.segments = ids
    BY <2>3
  <2>5. {mem.segments[i] : i \in ids} = {segFiles[i] : i \in ids}
    BY <2>3
  <2>6. LiveAt(mem, v) = (UNION {mem.segments[i] : i \in ids})
                           \ StoredStore.commits[v].deletions
    BY <2>1, <2>4 DEF LiveAt, ids
  <2>7. FileAt(v) = (UNION {segFiles[i] : i \in ids}) \ StoredStore.commits[v].deletions
    BY DEF FileAt, ids
  <2>8. QED
    BY <2>2, <2>5, <2>6, <2>7
<1>3. QED
  BY <1>1, <1>2

LEMMA FCrashStep ==
  ASSUME FInv, Crash, Observe, FaultsGrow, UNCHANGED doubtful
  PROVE  FInv'
<1>1. PICK k \in synced .. Len(ActiveWal) :
        wal' = [wal EXCEPT ![generation] = SubSeq(@, 1, k)] /\ synced' = k
  BY DEF Crash, ActiveWal
<1>2. /\ up /\ up' = FALSE /\ mem' = EmptyCollection /\ generation' = 0
      /\ persisted' = {} /\ task' = Idle
      /\ UNCHANGED <<head, versions, segFiles>>
  BY DEF Crash
<1>3. /\ generation \in Nat /\ generation \in DOMAIN wal /\ synced \in Nat
      /\ wal \in [DOMAIN wal -> Seq(FaultyRecords)] /\ DOMAIN wal \subseteq Nat
      /\ Checkpointed.generation \in DOMAIN wal
      /\ Checkpointed.generation \in {generation, generation + 1}
  BY <1>2 DEF FInv, FShapes, GenerationsInv
<1>4. ActiveWal \in Seq(FaultyRecords) /\ k \in Nat /\ k \in 0 .. Len(ActiveWal)
  <2>1. ActiveWal \in Seq(FaultyRecords)
    BY <1>3 DEF ActiveWal
  <2>2. Len(ActiveWal) \in Nat
    BY <2>1
  <2>3. QED
    BY <1>3, <2>1, <2>2
<1>5. PICK part : part = SubSeq(ActiveWal, 1, k)
  OBVIOUS
<1>6. PrefixOf(part, ActiveWal, k)
  <2>1. PICK log \in Seq(FaultyRecords) : log = ActiveWal
    BY <1>4
  <2>2. k \in 0 .. Len(log) /\ part = SubSeq(log, 1, k)
    BY <1>4, <1>5, <2>1
  <2>3. PrefixOf(part, log, k)
    BY <2>2, FaultyPrefix
  <2>4. QED
    BY <2>1, <2>3
<1>7. part \in Seq(FaultyRecords) /\ Len(part) = k
  BY <1>6 DEF PrefixOf
<1>8. /\ DOMAIN wal' = DOMAIN wal /\ wal'[generation] = part
      /\ \A g \in DOMAIN wal \ {generation} : wal'[g] = wal[g]
  BY <1>1, <1>3, <1>5 DEF ActiveWal
<1>9. wal' \in [DOMAIN wal' -> Seq(FaultyRecords)]
  BY <1>1, <1>3, <1>5, <1>7, <1>8 DEF ActiveWal
<1>10. /\ Checkpointed' = Checkpointed /\ Base' = Base /\ StoredStore' = StoredStore
       /\ LoadedSegments' = LoadedSegments
  BY <1>2 DEF Checkpointed, Base, LoadedSegments, StoredStore
<1>11. FShapes'
  <2>1. CollectionShape(EmptyCollection)
    BY DEF CollectionShape, EmptyCollection, StoreShape, EmptyStore
  <2>2. HistoryShape(EmptyCollection.vs)
    BY DEF HistoryShape, EmptyCollection, EmptyStore, Versions
  <2>3. QED
    BY <1>1, <1>2, <1>3, <1>4, <1>8, <1>9, <2>1, <2>2 DEF FInv, FShapes, FaultsGrow
<1>12. GenerationsInv'
  <2>1. ASSUME NEW g \in DOMAIN wal, g > Checkpointed.generation
        PROVE  wal'[g] = <<>>
    <3>1. g # generation
      BY <1>3, <2>1
    <3>2. QED
      BY <1>8, <2>1, <3>1 DEF FInv, GenerationsInv
  <2>2. QED
    BY <1>2, <1>3, <1>8, <1>10, <2>1 DEF GenerationsInv
<1>13. FBatchInv' /\ TaskInv' /\ MemoryIdsInv' /\ AllocatorInv'
  BY <1>2 DEF FBatchInv, TaskInv, MemoryIdsInv, AllocatorInv
<1>14. FilesInv'
  BY <1>2, <1>10 DEF FInv, FilesInv
<1>15. HeadIdsInv'
  BY <1>2, <1>10 DEF FInv, HeadIdsInv
<1>16. LogIdsInv'
  <2>1. CASE generation = Checkpointed.generation
    <3>1. Log' = part /\ Log = ActiveWal
      BY <1>8, <1>10, <2>1 DEF Log, ActiveWal
    <3>2. ASSUME NEW n \in 1 .. Len(part), Untorn(part, n), part[n].op = "upsert",
                 NEW id \in 0 .. part[n].id - 1
          PROVE  id < Checkpointed.nextId \/ id \in UpsertedUpTo(part, n - 1) \cup doubtful
      <4>1. k \in 0 .. Len(Log) /\ PrefixOf(part, Log, k) /\ n \in 1 .. k
        BY <1>4, <1>6, <1>7, <3>1
      <4>2. QED
        BY <3>2, <4>1, FPrefixIds
    <3>3. QED
      BY <1>10, <3>1, <3>2 DEF LogIdsInv
  <2>2. CASE generation # Checkpointed.generation
    <3>1. Log' = Log
      BY <1>3, <1>8, <1>10, <2>2 DEF Log
    <3>2. QED
      BY <1>10, <3>1 DEF FInv, LogIdsInv
  <2>3. QED
    BY <2>1, <2>2
<1>17. /\ Known' = Versions(StoredStore) /\ Versions(StoredStore) \subseteq Known
       /\ frozen' = [v \in Versions(StoredStore) |-> frozen[v]]
       /\ tainted' = tainted \cup HandedBack
  <2>1. Known' = Versions(StoredStore) /\ Versions(StoredStore) \subseteq Known
    BY <1>2, <1>10 DEF Known
  <2>2. QED
    BY <1>2, <2>1 DEF Observe
<1>18. SegmentsInv'
  <2>1. Checkpointed.nextSeg \in Nat /\ AllReferenced(StoredStore) \subseteq Nat
    <3>1. Checkpointed.nextSeg \in Nat
      BY HeadType DEF FInv, Heads
    <3>2. QED
      BY <3>1 DEF FInv, FilesInv, FShapes, LoadedSegments
  <2>2. ASSUME NEW i \in AllReferenced(StoredStore)
        PROVE  i < Checkpointed.nextSeg \/ i \in tainted'
    BY <1>17, <2>1 DEF HandedBack
  <2>3. QED
    BY <1>2, <1>10, <1>17, <2>2 DEF FInv, SegmentsInv
<1>19. FrozenInv'
  <2>1. Current = mem.vs /\ Current' = StoredStore
    BY <1>2, <1>10 DEF Current
  <2>2. ASSUME NEW v \in Versions(StoredStore)
        PROVE  /\ SameBut(doubtful, LiveIds(StoredStore.commits[v]), frozen'[v])
               /\ SegmentIds(StoredStore.commits[v]) \cap tainted' = {} =>
                    frozen'[v] = FileAt(v)
    <3>1. v \in Versions(mem.vs) /\ mem.vs.commits[v] = StoredStore.commits[v]
      BY <1>2 DEF FInv, SegmentsInv
    <3>2. frozen'[v] = frozen[v]
      BY <1>17
    <3>3. SameBut(doubtful, LiveIds(StoredStore.commits[v]), frozen[v])
      BY <2>1, <3>1 DEF FInv, FrozenInv
    <3>4. ASSUME SegmentIds(StoredStore.commits[v]) \cap tainted' = {}
          PROVE  frozen[v] = FileAt(v)
      <4>1. SegmentIds(StoredStore.commits[v]) \cap tainted = {}
        BY <1>17, <3>4
      <4>2. QED
        BY <4>1, FileOfVersion
    <3>5. QED
      BY <3>2, <3>3, <3>4
  <2>3. \A v : FileAt(v)' = FileAt(v)
    BY <1>2, <1>10 DEF FileAt
  <2>4. DOMAIN frozen' = Versions(StoredStore)
    BY <1>17
  <2>5. QED
    BY <1>2, <2>1, <2>2, <2>3, <2>4 DEF FrozenInv
<1>20. CleanInv'
  <2>1. ASSUME Clean', NEW g \in DOMAIN wal
        PROVE  wal'[g] \in Seq(LogRecords)
    <3>1. \A h \in DOMAIN wal : wal[h] \in Seq(LogRecords)
      BY <2>1 DEF FaultsGrow, FInv, CleanInv
    <3>2. CASE g = generation
      <4>1. PICK log \in Seq(LogRecords) : log = ActiveWal
        BY <1>3, <3>1 DEF ActiveWal
      <4>2. k \in 0 .. Len(log)
        BY <1>4, <4>1
      <4>3. SubSeq(log, 1, k) \in Seq(LogRecords)
        BY <4>2, PrefixOfLog
      <4>4. QED
        BY <1>5, <1>8, <3>2, <4>1, <4>3
    <3>3. QED
      BY <1>8, <3>1, <3>2
  <2>2. QED
    BY <1>2, <1>8, <2>1 DEF CleanInv
<1>21. QED
  BY <1>11, <1>12, <1>13, <1>14, <1>15, <1>16, <1>18, <1>19, <1>20 DEF FInv

(* What open() reads of a log: the records before the first torn one.      *)
LEMMA ValidPrefix ==
  ASSUME NEW log \in Seq(FaultyRecords)
  PROVE  \E k \in 0 .. Len(log) :
           /\ Valid(log) = SubSeq(log, 1, k) /\ Untorn(log, k)
           /\ Valid(log) \in Seq(LogRecords)
           /\ PrefixOf(Valid(log), log, k)
<1> DEFINE stops == {Len(log)} \cup {i - 1 : i \in {j \in DOMAIN log : log[j] = Torn}}
<1>1. Len(log) \in Nat /\ DOMAIN log = 1 .. Len(log)
  OBVIOUS
<1>2. stops \in SUBSET Nat /\ stops # {}
  BY <1>1
<1>3. PICK k : k = Min(stops)
  OBVIOUS
<1>4. k \in stops /\ \A y \in stops : k <= y
  <2>1. PICK S : S = stops
    OBVIOUS
  <2>2. Min(S) \in S /\ \A y \in S : Min(S) <= y
    BY <1>2, <2>1, MinInSet
  <2>3. QED
    BY <1>3, <2>1, <2>2
<1>5. k \in Nat /\ k <= Len(log)
  BY <1>1, <1>2, <1>4
<1>6. Untorn(log, k)
  <2>1. ASSUME NEW i \in 1 .. k, log[i] = Torn
        PROVE  FALSE
    <3>1. i \in DOMAIN log
      BY <1>1, <1>5
    <3>2. i - 1 \in stops
      BY <2>1, <3>1
    <3>3. k <= i - 1
      BY <1>4, <3>2
    <3>4. QED
      BY <1>5, <3>3
  <2>2. QED
    BY <2>1 DEF Untorn
<1>7. Valid(log) = SubSeq(log, 1, k)
  BY <1>3 DEF Valid
<1>8. k \in 0 .. Len(log)
  BY <1>1, <1>5
<1>9. PICK part : part = Valid(log)
  OBVIOUS
<1>10. PrefixOf(part, log, k)
  BY <1>7, <1>8, <1>9, FaultyPrefix
<1>11. part \in Seq(LogRecords)
  <2>1. part \in Seq(FaultyRecords) /\ Len(part) = k /\ \A i \in 1 .. k : part[i] = log[i]
    BY <1>10 DEF PrefixOf
  <2>2. ASSUME NEW i \in 1 .. Len(part)
        PROVE  part[i] \in LogRecords
    <3>1. part[i] \in FaultyRecords /\ part[i] # Torn
      BY <1>6, <2>1 DEF Untorn
    <3>2. QED
      BY <3>1 DEF FaultyRecords
  <2>3. part = [i \in 1 .. Len(part) |-> part[i]] /\ Len(part) \in Nat
    BY <2>1
  <2>4. part \in [1 .. Len(part) -> LogRecords]
    BY <2>2, <2>3
  <2>5. QED
    BY <2>3, <2>4
<1>12. QED
  BY <1>6, <1>7, <1>8, <1>9, <1>10, <1>11

(* What open() makes of HEAD, versions and the records log.                *)
RecoveredFrom(r, log) ==
  /\ CollectionShape(r) /\ RegistryOK(r) /\ HistoryShape(r.vs)
  /\ \A s \in r.working : s.rows # {}
  /\ r.app = Upserted(log) /\ WorkingRows(r) = Base
  /\ r.dels = Checkpointed.dels \cup Tombstoned(Base, log)
  /\ r.segments = [i \in LoadedSegments |-> segFiles[i]]
  /\ r.vs = StoredStore /\ r.nextSeg = Checkpointed.nextSeg
  /\ r.nextId \in Nat /\ Checkpointed.nextId <= r.nextId
  /\ \A id \in Upserted(log) : id \in Nat /\ id < r.nextId
  /\ r.nextId = Checkpointed.nextId \/ \E id \in Upserted(log) : r.nextId = id + 1

(* A tombstone that replay makes is over a row.                            *)
LEMMA TombstonesOverRows ==
  ASSUME NEW base, NEW log \in Seq(LogRecords)
  PROVE  Tombstoned(base, log) \subseteq base \cup Upserted(log)
<1> SUFFICES ASSUME NEW j \in DOMAIN log, NEW k \in 1 .. j - 1,
                    log[k] = Record("upsert", log[j].id)
             PROVE  log[j].id \in Upserted(log)
  BY DEF Tombstoned
<1>1. DOMAIN log = 1 .. Len(log) /\ Len(log) \in Nat
  OBVIOUS
<1>2. k \in DOMAIN log
  BY <1>1
<1>3. log[k].op = "upsert" /\ log[k].id = log[j].id
  BY DEF Record
<1>4. QED
  BY <1>2, <1>3 DEF Upserted, IdsOf

LEMMA FRecovered ==
  ASSUME FInv, NEW log \in Seq(LogRecords), NEW r, r = Recover(log)
  PROVE  RecoveredFrom(r, log)
<1> DEFINE working == {Segment(i, segFiles[i]) : i \in Checkpointed.working}
           past == {Checkpointed.nextId} \cup {i + 1 : i \in Upserted(log)}
<1>1. Upserted(log) \subseteq Ids
  <2>1. \A i \in DOMAIN log : log[i] \in LogRecords
    OBVIOUS
  <2>2. QED
    BY <2>1 DEF Upserted, IdsOf, LogRecords
<1>2. {s.rows : s \in working} = {segFiles[i] : i \in Checkpointed.working}
  <2>1. \A i : Segment(i, segFiles[i]).rows = segFiles[i]
    BY DEF Segment
  <2>2. QED
    BY <2>1
<1>3. UNION {s.rows : s \in working} = Base
  BY <1>2 DEF Base
<1>4. r = [app |-> Upserted(log), working |-> working,
           segments |-> [i \in LoadedSegments |-> segFiles[i]],
           dels |-> Checkpointed.dels \cup Tombstoned(Base, log),
           payloads |-> Checkpointed.payloads \cup Upserted(log),
           vs |-> StoredStore, nextId |-> Max(past), nextSeg |-> Checkpointed.nextSeg]
  BY <1>3 DEF Recover
<1>5. /\ Checkpointed.nextId \in Nat /\ Checkpointed.nextSeg \in Nat
      /\ Checkpointed.dels \subseteq Nat /\ Checkpointed.payloads \subseteq Nat
      /\ Checkpointed.working \subseteq Nat
      /\ StoreShape(StoredStore) /\ HistoryShape(StoredStore)
  BY HeadType DEF FInv, Heads
<1>6. Upserted(log) \subseteq Nat
  BY <1>1 DEF Ids
<1>7. Max(past) \in past /\ \A y \in past : y <= Max(past)
  <2>1. past \in SUBSET Nat /\ past # {}
    BY <1>5, <1>6
  <2>2. PICK b \in Nat : b = Checkpointed.nextId + MaxIds
    BY <1>5, BoundsAssumption
  <2>3. \A x \in past : x <= b
    BY <1>1, <1>5, <2>2, BoundsAssumption DEF Ids
  <2>4. PICK S : S = past
    OBVIOUS
  <2>5. Max(S) \in S /\ \A y \in S : y <= Max(S)
    BY <2>1, <2>3, <2>4, MaxInSet
  <2>6. QED
    BY <2>4, <2>5
<1>8. /\ Max(past) \in Nat /\ Checkpointed.nextId <= Max(past)
      /\ \A id \in Upserted(log) : id \in Nat /\ id < Max(past)
      /\ Max(past) = Checkpointed.nextId \/ \E id \in Upserted(log) : Max(past) = id + 1
  <2>1. Max(past) \in Nat
    BY <1>5, <1>6, <1>7
  <2>2. ASSUME NEW id \in Upserted(log)
        PROVE  id \in Nat /\ id < Max(past)
    <3>1. id + 1 <= Max(past) /\ id \in Nat
      BY <1>6, <1>7
    <3>2. QED
      BY <2>1, <3>1
  <2>3. QED
    BY <1>7, <2>1, <2>2
<1> HIDE DEF past
<1>9. /\ LoadedSegments \subseteq DOMAIN segFiles /\ LoadedSegments \subseteq Nat
      /\ Checkpointed.working \subseteq LoadedSegments
      /\ AllReferenced(StoredStore) \subseteq LoadedSegments
      /\ segFiles \in [DOMAIN segFiles -> SUBSET Nat]
  BY DEF LoadedSegments, FInv, FilesInv, FShapes
<1>10. Tombstoned(Base, log) \subseteq Nat
  <2>1. Base \subseteq Nat
    BY <1>9 DEF Base
  <2>2. Tombstoned(Base, log) \subseteq Base \cup Upserted(log)
    BY TombstonesOverRows
  <2>3. QED
    BY <1>6, <2>1, <2>2
<1>11. WorkingRows(r) = Base /\ WorkingIds(r) = Checkpointed.working
  <2>1. r.working = working
    BY <1>4
  <2>2. {s.id : s \in working} = Checkpointed.working
    <3>1. ASSUME NEW i \in Checkpointed.working
          PROVE  i \in {s.id : s \in working}
      <4>1. Segment(i, segFiles[i]) \in working /\ Segment(i, segFiles[i]).id = i
        BY DEF Segment
      <4>2. QED
        BY <4>1
    <3>2. ASSUME NEW s \in working
          PROVE  s.id \in Checkpointed.working
      BY DEF Segment
    <3> HIDE DEF working
    <3>3. QED
      BY <3>1, <3>2
  <2>3. QED
    BY <1>3, <2>1, <2>2 DEF WorkingRows, WorkingIds
<1>12. CollectionShape(r)
  <2>1. [i \in LoadedSegments |-> segFiles[i]] \in [LoadedSegments -> SUBSET Nat]
    BY <1>9
  <2>2. /\ Checkpointed.dels \cup Tombstoned(Base, log) \subseteq Nat
        /\ Checkpointed.payloads \cup Upserted(log) \subseteq Nat
    BY <1>5, <1>6, <1>10
  <2> HIDE DEF working
  <2>3. r = [app |-> r.app, working |-> r.working, segments |-> r.segments,
             dels |-> r.dels, payloads |-> r.payloads, vs |-> r.vs,
             nextId |-> r.nextId, nextSeg |-> r.nextSeg]
    BY <1>4
  <2>4. /\ r.segments = [i \in LoadedSegments |-> segFiles[i]]
        /\ DOMAIN r.segments = LoadedSegments
        /\ r.app \subseteq Nat /\ r.dels \subseteq Nat /\ r.payloads \subseteq Nat
        /\ r.nextId \in Nat /\ r.nextSeg \in Nat /\ StoreShape(r.vs)
    BY <1>4, <1>5, <1>6, <1>8, <2>2
  <2>5. QED
    BY <1>9, <2>1, <2>3, <2>4 DEF CollectionShape
<1>13. ASSUME NEW s \in working
       PROVE  /\ s.id < Checkpointed.nextSeg /\ s.id \in LoadedSegments
              /\ segFiles[s.id] = s.rows /\ s.rows # {}
  <2>1. PICK i \in Checkpointed.working : s = Segment(i, segFiles[i])
    OBVIOUS
  <2>2. s.id = i /\ s.rows = segFiles[i]
    BY <2>1 DEF Segment
  <2>3. i < Checkpointed.nextSeg /\ segFiles[i] # {}
    BY DEF FInv, FilesInv, HeadIdsInv
  <2>4. QED
    BY <1>9, <2>2, <2>3
<1> HIDE DEF working
<1>14. RegistryOK(r)
  <2>1. SegmentIdsToPersist(r) \subseteq DOMAIN r.segments
    <3>1. r.vs = StoredStore /\ DOMAIN r.segments = LoadedSegments
      BY <1>4
    <3>2. QED
      BY <1>9, <1>11, <3>1 DEF SegmentIdsToPersist
  <2>2. ASSUME NEW s \in r.working
        PROVE  s.id < r.nextSeg /\ s.id \in DOMAIN r.segments /\ r.segments[s.id] = s.rows
    BY <1>4, <1>13
  <2>3. QED
    BY <2>1, <2>2 DEF RegistryOK
<1>15. \A s \in r.working : s.rows # {}
  BY <1>4, <1>13
<1>16. QED
  BY <1>4, <1>5, <1>8, <1>11, <1>12, <1>14, <1>15 DEF RecoveredFrom

(* Every id below the recovered allocator is HEAD's, the log's or in doubt. *)
LEMMA FRecoveredIds ==
  ASSUME FInv, NEW k \in 0 .. Len(Log), NEW log \in Seq(LogRecords),
         PrefixOf(log, Log, k), Untorn(Log, k), NEW r, RecoveredFrom(r, log),
         NEW id \in 0 .. r.nextId - 1
  PROVE  id < Checkpointed.nextId \/ id \in Upserted(log) \cup doubtful
<1>1. Len(log) = k /\ DOMAIN log = 1 .. k /\ \A i \in 1 .. k : log[i] = Log[i]
  BY DEF PrefixOf
<1>2. CASE r.nextId = Checkpointed.nextId
  <2>1. id \in Nat /\ id < r.nextId
    BY DEF RecoveredFrom
  <2>2. QED
    BY <1>2, <2>1
<1>3. CASE r.nextId # Checkpointed.nextId
  <2>1. PICK last \in Upserted(log) : r.nextId = last + 1
    BY <1>3 DEF RecoveredFrom
  <2>2. last \in Nat
    BY DEF RecoveredFrom
  <2>3. PICK n \in 1 .. k : log[n].op = "upsert" /\ log[n].id = last
    BY <1>1 DEF Upserted, IdsOf
  <2>4. CASE id = last
    BY <2>4
  <2>5. CASE id # last
    <3>1. id \in 0 .. log[n].id - 1
      BY <2>1, <2>2, <2>3, <2>5
    <3>2. Untorn(log, n)
      <4>1. Len(log) \in Nat /\ k \in Nat
        BY <1>1
      <4>2. 1 .. n \subseteq 1 .. k
        BY <4>1
      <4>3. QED
        BY <1>1, <4>2 DEF Untorn
    <3>3. id < Checkpointed.nextId \/ id \in UpsertedUpTo(log, n - 1) \cup doubtful
      BY <2>3, <3>1, <3>2, FPrefixIds
    <3>4. UpsertedUpTo(log, n - 1) \subseteq Upserted(log)
      <4>1. Len(log) \in Nat /\ k \in Nat
        BY <1>1
      <4>2. 1 .. n - 1 \subseteq DOMAIN log
        BY <1>1, <4>1
      <4>3. QED
        BY <4>2 DEF UpsertedUpTo, Upserted, IdsOf
    <3>5. QED
      BY <3>3, <3>4
  <2>6. QED
    BY <2>4, <2>5
<1>4. QED
  BY <1>2, <1>3

(* A recovered collection reads versions from the segment files.           *)
LEMMA RecoveredVersion ==
  ASSUME NEW r, r.segments = [i \in LoadedSegments |-> segFiles[i]], r.vs = StoredStore,
         NEW v, v \in Versions(StoredStore)
  PROVE  LiveAt(r, v) = FileAt(v)
<1> DEFINE ids == SegmentIds(StoredStore.commits[v])
<1>1. ids \subseteq LoadedSegments
  BY DEF LoadedSegments, AllReferenced
<1>2. ids \cap DOMAIN r.segments = ids
  BY <1>1
<1>3. \A i \in ids : r.segments[i] = segFiles[i]
  BY <1>1
<1> HIDE DEF ids
<1>4. {r.segments[i] : i \in ids} = {segFiles[i] : i \in ids}
  BY <1>3
<1>5. LiveAt(r, v) = (UNION {r.segments[i] : i \in ids}) \ StoredStore.commits[v].deletions
  BY <1>2 DEF LiveAt, ids
<1>6. FileAt(v) = (UNION {segFiles[i] : i \in ids}) \ StoredStore.commits[v].deletions
  BY DEF FileAt, ids
<1>7. QED
  BY <1>4, <1>5, <1>6

LEMMA FOpenStep ==
  ASSUME FInv, Open, Observe, FaultsGrow, UNCHANGED doubtful
  PROVE  FInv'
<1>1. /\ ~up /\ up' /\ up' = TRUE /\ mem' = Recover(ActiveLog)
      /\ generation' = Checkpointed.generation /\ persisted' = LoadedSegments
      /\ wal' = [g \in DOMAIN wal \cup {generation'} |->
                   IF g = generation' THEN ActiveLog ELSE wal[g]]
      /\ synced' = Len(ActiveLog)
      /\ UNCHANGED <<task, head, versions, segFiles>>
  BY DEF Open
<1>2. /\ task = Idle /\ Checkpointed.generation \in DOMAIN wal
      /\ wal \in [DOMAIN wal -> Seq(FaultyRecords)] /\ DOMAIN wal \subseteq Nat
      /\ Checkpointed.generation \in Nat
  BY <1>1, HeadType DEF FInv, GenerationsInv, FShapes, Heads
<1>3. PICK part : part = ActiveLog
  OBVIOUS
<1>4. PICK k \in 0 .. Len(Log) :
        /\ Untorn(Log, k) /\ part \in Seq(LogRecords) /\ PrefixOf(part, Log, k)
  <2>1. PICK log \in Seq(FaultyRecords) : log = Log
    BY <1>2 DEF Log
  <2>2. PICK k \in 0 .. Len(log) :
          Untorn(log, k) /\ Valid(log) \in Seq(LogRecords) /\ PrefixOf(Valid(log), log, k)
    BY ValidPrefix
  <2>3. part = Valid(log)
    BY <1>2, <1>3, <2>1 DEF ActiveLog, Log
  <2>4. QED
    BY <2>1, <2>2, <2>3
<1>5. part \in Seq(FaultyRecords) /\ Len(part) = k /\ Len(part) \in Nat
  BY <1>4 DEF PrefixOf
<1>6. /\ DOMAIN wal' = DOMAIN wal /\ wal'[Checkpointed.generation] = part
      /\ \A g \in DOMAIN wal \ {Checkpointed.generation} : wal'[g] = wal[g]
  BY <1>1, <1>2, <1>3
<1>7. wal' \in [DOMAIN wal' -> Seq(FaultyRecords)]
  BY <1>1, <1>2, <1>3, <1>5, <1>6
<1>8. /\ Checkpointed' = Checkpointed /\ Base' = Base /\ LoadedSegments' = LoadedSegments
      /\ StoredStore' = StoredStore
  BY <1>1 DEF Checkpointed, Base, LoadedSegments, StoredStore
<1>9. Log' = part /\ ActiveWal' = part /\ synced' = Len(part)
  BY <1>1, <1>3, <1>6, <1>8 DEF Log, ActiveWal
<1>10. ~InFlight' /\ Done' = Len(part) /\ Pending' = <<>> /\ task' = Idle /\ task'.at = "idle"
  BY <1>1, <1>2, <1>9 DEF Done, Pending, InFlight, Idle
<1>11. PICK r : r = Recover(part)
  OBVIOUS
<1>12. mem' = r /\ RecoveredFrom(r, part)
  BY <1>1, <1>3, <1>4, <1>11, FRecovered
<1>13. /\ CollectionShape(mem') /\ RegistryOK(mem') /\ HistoryShape(mem'.vs)
       /\ \A s \in mem'.working : s.rows # {}
       /\ mem'.app = Upserted(part) /\ WorkingRows(mem') = Base
       /\ mem'.dels = Checkpointed.dels \cup Tombstoned(Base, part)
       /\ mem'.segments = [i \in LoadedSegments |-> segFiles[i]]
       /\ mem'.vs = StoredStore /\ mem'.nextSeg = Checkpointed.nextSeg
       /\ mem'.nextId \in Nat /\ Checkpointed.nextId <= mem'.nextId
       /\ \A id \in Upserted(part) : id \in Nat /\ id < mem'.nextId
  BY <1>12 DEF RecoveredFrom
<1>14. ASSUME NEW id \in 0 .. mem'.nextId - 1
       PROVE  id < Checkpointed.nextId \/ id \in Upserted(part) \cup doubtful
  <2>1. id \in 0 .. r.nextId - 1
    BY <1>12
  <2>2. QED
    BY <1>4, <1>12, <2>1, FRecoveredIds
<1>15. /\ Upserted(part) = UpsertedUpTo(part, Len(part))
       /\ Tombstoned(Base, part) = TombstonedUpTo(Base, part, Len(part))
  <2>1. PICK n \in 0 .. Len(part) : n = Len(part)
    BY <1>5
  <2>2. PICK base : base = Base
    OBVIOUS
  <2>3. SubSeq(part, 1, n) = part
    BY <1>4, <2>1, SubSeqFull
  <2>4. /\ Upserted(SubSeq(part, 1, n)) = UpsertedUpTo(part, n)
        /\ Tombstoned(base, SubSeq(part, 1, n)) = TombstonedUpTo(base, part, n)
    BY <1>4, PrefixOfLog
  <2>5. QED
    BY <2>1, <2>2, <2>3, <2>4
<1>16. FShapes'
  BY <1>1, <1>2, <1>5, <1>6, <1>7, <1>9, <1>13 DEF FInv, FShapes, FaultsGrow
<1>17. GenerationsInv'
  <2>1. ASSUME NEW g \in DOMAIN wal, g > Checkpointed.generation
        PROVE  wal'[g] = <<>>
    <3>1. g # Checkpointed.generation
      BY <1>2, <2>1
    <3>2. QED
      BY <1>6, <2>1, <3>1 DEF FInv, GenerationsInv
  <2>2. synced' <= Len(ActiveWal')
    BY <1>5, <1>9
  <2>3. QED
    BY <1>1, <1>2, <1>6, <1>8, <1>10, <2>1, <2>2 DEF GenerationsInv
<1>18. FBatchInv' /\ TaskInv'
  BY <1>10 DEF FBatchInv, TaskInv
<1>19. LoadedSegments \subseteq DOMAIN segFiles /\ Checkpointed.working \subseteq LoadedSegments
  BY DEF FInv, FilesInv, LoadedSegments
<1>20. DOMAIN mem'.segments = LoadedSegments /\ \A i \in LoadedSegments : Stored(i)'
  BY <1>1, <1>13, <1>19 DEF Stored
<1>21. FilesInv'
  <2>1. Checkpointed.nextSeg <= mem'.nextSeg
    BY <1>13, HeadType DEF FInv, Heads
  <2>2. QED
    BY <1>1, <1>8, <1>13, <1>19, <1>20, <2>1 DEF FInv, FilesInv
<1>22. HeadIdsInv'
  BY <1>1, <1>8 DEF FInv, HeadIdsInv
<1>23. LogIdsInv'
  <2>1. ASSUME NEW n \in 1 .. Len(part), Untorn(part, n), part[n].op = "upsert",
               NEW id \in 0 .. part[n].id - 1
        PROVE  id < Checkpointed.nextId \/ id \in UpsertedUpTo(part, n - 1) \cup doubtful
    BY <1>4, <1>5, <2>1, FPrefixIds
  <2>2. QED
    BY <1>8, <1>9, <2>1 DEF LogIdsInv
<1>24. MemoryIdsInv'
  <2>1. \A id \in Base : id \in Nat /\ id < mem'.nextId
    <3>1. \A id \in Base : id < Checkpointed.nextId
      BY DEF FInv, HeadIdsInv
    <3>2. Base \subseteq Nat
      BY <1>19 DEF Base, FInv, FShapes
    <3>3. Checkpointed.nextId \in Nat
      BY HeadType DEF FInv, Heads
    <3>4. mem'.nextId \in Nat /\ Checkpointed.nextId <= mem'.nextId
      BY <1>13
    <3>5. ASSUME NEW id \in Base
          PROVE  id \in Nat /\ id < mem'.nextId
      <4>1. id \in Nat /\ id < Checkpointed.nextId
        BY <3>1, <3>2
      <4>2. QED
        BY <3>3, <3>4, <4>1
    <3>6. QED
      BY <3>5
  <2>2. ASSUME NEW id \in 0 .. mem'.nextId - 1
        PROVE  id \in mem'.app \cup WorkingRows(mem') \cup doubtful
    <3>1. CASE id < Checkpointed.nextId
      <4>1. id \in 0 .. Checkpointed.nextId - 1
        <5>1. Checkpointed.nextId \in Nat
          BY HeadType DEF FInv, Heads
        <5>2. QED
          BY <1>13, <3>1, <5>1
      <4>2. id \in Base \cup doubtful
        BY <4>1 DEF FInv, HeadIdsInv
      <4>3. QED
        BY <1>13, <4>2
    <3>2. CASE id \in Upserted(part) \cup doubtful
      BY <1>13, <3>2
    <3>3. QED
      BY <1>14, <3>1, <3>2
  <2>3. QED
    BY <1>1, <1>13, <2>1, <2>2 DEF MemoryIdsInv
<1>25. AllocatorInv'
  BY <1>1, <1>8, <1>9, <1>14, <1>15 DEF AllocatorInv
<1>26. tainted' = tainted /\ frozen' = [v \in Versions(StoredStore) |-> frozen[v]]
  <2>1. Known = Versions(StoredStore) /\ Known' = Versions(StoredStore)
    BY <1>1, <1>8, <1>13 DEF Known
  <2>2. QED
    BY <1>1, <2>1 DEF Observe
<1>27. SegmentsInv'
  <2>1. ASSUME NEW i \in LoadedSegments
        PROVE  i < Checkpointed.nextSeg \/ i \in tainted
    BY <1>1 DEF LoadedSegments, FInv, FilesInv, SegmentsInv
  <2>2. AllReferenced(StoredStore) \subseteq LoadedSegments
    BY DEF LoadedSegments
  <2>3. ASSUME NEW i \in persisted' \ tainted
        PROVE  i < mem'.nextSeg /\ i \in DOMAIN mem'.segments /\ Stored(i)'
    BY <1>1, <1>13, <1>20, <2>1
  <2>4. \A i \in AllReferenced(mem'.vs) : i < mem'.nextSeg \/ i \in tainted
    BY <1>13, <2>1, <2>2
  <2>5. QED
    BY <1>1, <1>8, <1>13, <1>26, <2>2, <2>3, <2>4 DEF FInv, SegmentsInv
<1>28. FrozenInv'
  <2>1. Current = StoredStore /\ Current' = StoredStore
    BY <1>1, <1>13 DEF Current
  <2>2. ASSUME NEW v \in Versions(StoredStore)
        PROVE  LiveAt(mem', v) = FileAt(v)
    <3>1. PICK m : m = mem'
      OBVIOUS
    <3>2. m.segments = [i \in LoadedSegments |-> segFiles[i]] /\ m.vs = StoredStore
      BY <1>13, <3>1
    <3>3. QED
      BY <3>1, <3>2, RecoveredVersion
  <2>3. DOMAIN frozen = Versions(StoredStore)
    BY <2>1 DEF FInv, FrozenInv
  <2>4. ASSUME NEW v \in Versions(StoredStore)
        PROVE  /\ SameBut(doubtful, LiveIds(StoredStore.commits[v]), frozen[v])
               /\ SegmentIds(StoredStore.commits[v]) \cap tainted = {} =>
                    frozen[v] = FileAt(v)
    BY <1>1, <2>1 DEF FInv, FrozenInv
  <2>5. QED
    BY <1>1, <1>26, <2>1, <2>2, <2>3, <2>4 DEF FrozenInv
<1>29. CleanInv'
  <2>1. ASSUME Clean', NEW g \in DOMAIN wal
        PROVE  wal'[g] \in Seq(LogRecords)
    <3>1. wal[g] \in Seq(LogRecords)
      BY <2>1 DEF FaultsGrow, FInv, CleanInv
    <3>2. QED
      BY <1>4, <1>6, <3>1
  <2>2. \A i \in synced' + 1 .. Done' : FALSE
    BY <1>5, <1>9, <1>10
  <2>3. \A s : SameBut(doubtful, s, s)
    BY DEF SameBut
  <2>4. /\ mem'.app \cup WorkingRows(mem') = Base' \cup UpsertedUpTo(Log', Done')
        /\ mem'.dels = Checkpointed'.dels \cup TombstonedUpTo(Base', Log', Done')
    BY <1>8, <1>9, <1>10, <1>13, <1>15
  <2>5. QED
    BY <1>1, <1>6, <1>8, <1>10, <2>1, <2>2, <2>3, <2>4 DEF CleanInv
<1>30. QED
  BY <1>16, <1>17, <1>18, <1>21, <1>22, <1>23, <1>24, <1>25, <1>27, <1>28, <1>29 DEF FInv

-----------------------------------------------------------------------------
(***************************************************************************)
(* Theorems.                                                               *)
(***************************************************************************)
LEMMA FInitInv ==
  ASSUME FInit
  PROVE  FInv
<1>1. /\ up = TRUE /\ mem = EmptyCollection /\ generation = 0 /\ persisted = {}
      /\ task = [at |-> "idle"] /\ task.at = "idle"
      /\ wal = [g \in {0} |-> <<>>] /\ synced = 0 /\ head = None /\ versions = None
      /\ segFiles = [i \in {} |-> {}]
      /\ frozen = [v \in {} |-> {}] /\ tainted = {} /\ doubtful = {} /\ faults = <<>>
  BY DEF FInit, HInit, Init, Idle
<1>2. /\ CollectionShape(mem) /\ HistoryShape(mem.vs)
      /\ mem.app = {} /\ WorkingRows(mem) = {} /\ mem.dels = {}
      /\ DOMAIN mem.segments = {} /\ mem.working = {} /\ SegmentIdsToPersist(mem) = {}
      /\ mem.nextId = 0 /\ mem.nextSeg = 0 /\ Versions(mem.vs) = {}
      /\ AllReferenced(mem.vs) = {}
  BY <1>1 DEF EmptyCollection, CollectionShape, StoreShape, EmptyStore, WorkingRows,
              SegmentIdsToPersist, WorkingIds, AllReferenced, Versions, HistoryShape
<1>3. /\ Checkpointed = NoCheckpoint /\ Log = <<>> /\ Done = 0 /\ ActiveWal = <<>>
      /\ LoadedSegments = {} /\ Base = {} /\ Len(Log) = 0
      /\ AllReferenced(StoredStore) = {} /\ Versions(StoredStore) = {}
  BY <1>1 DEF Checkpointed, NoCheckpoint, Log, Done, InFlight, LoadedSegments, StoredStore,
              AllReferenced, Versions, EmptyStore, Base, ActiveWal
<1>4. /\ UpsertedUpTo(Log, 0) = {}
      /\ \A base : TombstonedUpTo(base, Log, 0) = {}
  BY DEF UpsertedUpTo, TombstonedUpTo
<1>5. <<>> \in Seq(FaultyRecords) /\ <<>> \in Seq(LogRecords) /\ Len(<<>>) = 0
      /\ <<>> \in Seq({"fail", "tear", "late"})
  OBVIOUS
<1>6. /\ DOMAIN wal = {0} /\ wal[0] = <<>> /\ wal \in [DOMAIN wal -> Seq(FaultyRecords)]
      /\ DOMAIN segFiles = {} /\ segFiles \in [DOMAIN segFiles -> SUBSET Nat]
  BY <1>1, <1>5
<1>7. FShapes
  BY <1>1, <1>2, <1>5, <1>6 DEF FShapes
<1>8. GenerationsInv
  BY <1>1, <1>3, <1>5, <1>6 DEF GenerationsInv, NoCheckpoint
<1>9. FBatchInv /\ TaskInv
  BY <1>1 DEF FBatchInv, TaskInv, InFlight
<1>10. FilesInv
  BY <1>1, <1>2, <1>3 DEF FilesInv, RegistryOK, NoCheckpoint
<1>11. HeadIdsInv /\ LogIdsInv
  BY <1>3 DEF HeadIdsInv, LogIdsInv, NoCheckpoint
<1>12. MemoryIdsInv /\ AllocatorInv
  BY <1>2 DEF MemoryIdsInv, AllocatorInv
<1>13. SegmentsInv
  BY <1>1, <1>2, <1>3 DEF SegmentsInv, NoCheckpoint
<1>14. FrozenInv
  <2>1. Current = mem.vs
    BY <1>1 DEF Current
  <2>2. DOMAIN frozen = {}
    BY <1>1
  <2>3. QED
    BY <1>2, <2>1, <2>2 DEF FrozenInv
<1>15. CleanInv
  <2>1. \A s : SameBut(doubtful, s, s)
    BY DEF SameBut
  <2>2. /\ mem.app \cup WorkingRows(mem) = Base \cup UpsertedUpTo(Log, Done)
        /\ mem.dels = Checkpointed.dels \cup TombstonedUpTo(Base, Log, Done)
    BY <1>2, <1>3, <1>4 DEF NoCheckpoint
  <2>3. \A i \in synced + 1 .. Done : FALSE
    BY <1>1, <1>3
  <2>4. QED
    BY <1>1, <1>3, <1>5, <1>6, <2>1, <2>2, <2>3 DEF CleanInv, NoCheckpoint
<1>16. QED
  BY <1>7, <1>8, <1>9, <1>10, <1>11, <1>12, <1>13, <1>14, <1>15 DEF FInv

LEMMA FStutter ==
  ASSUME FInv, UNCHANGED <<vars, historyVars, faultVars>>
  PROVE  FInv'
<1>1. UNCHANGED <<up, mem, generation, persisted, task, wal, synced, head, versions,
                  segFiles, frozen, tainted, doubtful, faults>>
  BY DEF vars, disk, historyVars, faultVars
<1>2. /\ Checkpointed' = Checkpointed /\ Log' = Log /\ Base' = Base
      /\ LoadedSegments' = LoadedSegments /\ StoredStore' = StoredStore
      /\ ActiveWal' = ActiveWal /\ Current' = Current /\ Clean' = Clean
      /\ InFlight' = InFlight /\ Done' = Done /\ Pending' = Pending
  BY <1>1 DEF Checkpointed, Log, Base, LoadedSegments, StoredStore, ActiveWal, Current,
              Clean, InFlight, Done, Pending
<1>3. FShapes' /\ GenerationsInv' /\ FBatchInv'
  BY <1>1, <1>2 DEF FInv, FShapes, GenerationsInv, FBatchInv
<1>4. FilesInv' /\ TaskInv' /\ SegmentsInv'
  BY <1>1, <1>2 DEF FInv, FilesInv, TaskInv, SegmentsInv, Stored
<1>5. HeadIdsInv' /\ LogIdsInv' /\ MemoryIdsInv' /\ AllocatorInv'
  BY <1>1, <1>2 DEF FInv, HeadIdsInv, LogIdsInv, MemoryIdsInv, AllocatorInv
<1>6. FrozenInv' /\ CleanInv'
  <2>1. \A v : FileAt(v)' = FileAt(v)
    BY <1>1, <1>2 DEF FileAt
  <2>2. FrozenInv'
    BY <1>1, <1>2, <2>1 DEF FInv, FrozenInv
  <2>3. CleanInv'
    BY <1>1, <1>2 DEF FInv, CleanInv
  <2>4. QED
    BY <2>2, <2>3
<1>7. QED
  BY <1>3, <1>4, <1>5, <1>6 DEF FInv

(* The calls and stops of Durable, with nothing failing.                   *)
LEMMA FHealthyStep ==
  ASSUME KeepsHistory, FInv, HNext, UNCHANGED faultVars
  PROVE  FInv'
<1>1. UNCHANGED doubtful /\ UNCHANGED faults /\ Observe
  BY DEF HNext, faultVars
<1>2. FaultsGrow
  BY <1>1 DEF FaultsGrow, FInv, FShapes, Clean
<1>3. ASSUME \/ \E n \in 0 .. MaxBatch, deletes \in DeleteLists, commit \in BOOLEAN :
                  WriteBatch(n, deletes, commit)
             \/ \E id \in Ids : DeletePoint(id)
      PROVE  FInv'
  BY <1>1, <1>2, <1>3, FWriteStep
<1>4. CASE Flush
  BY <1>1, <1>2, <1>4, FFlushStep
<1>5. CASE Apply
  BY <1>1, <1>2, <1>5, FApplyStep
<1>6. ASSUME NEW tag, CallCommit(tag)
      PROVE  FInv'
  <2>1. /\ up /\ ~InFlight /\ task.at # "retire" /\ task'.at = "commit"
        /\ UNCHANGED <<up, mem, generation, persisted, disk>>
    BY <1>6 DEF CallCommit, Ready, Idle, InFlight
  <2>2. QED
    BY <1>1, <1>2, <2>1, FTaskStep
<1>7. CASE Commit
  BY <1>1, <1>2, <1>7, FCommitStep
<1>8. ASSUME NEW v, Restore(v)
      PROVE  FInv'
  BY <1>8 DEF Restore, Ready, KeepsHistory
<1>9. ASSUME NEW name, NEW v, CreateTag(name, v) \/ CreateBranch(name, v)
      PROVE  FInv'
  <2>1. CASE CreateTag(name, v)
    BY <1>1, <1>2, <2>1, FPointerStep DEF CreateTag
  <2>2. CASE CreateBranch(name, v)
    BY <1>1, <1>2, <2>2, FPointerStep DEF CreateBranch
  <2>3. QED
    BY <1>9, <2>1, <2>2
<1>10. CASE PersistSegment
  BY <1>1, <1>2, <1>10, FPersistSegmentStep
<1>11. CASE PersistVersions
  BY <1>1, <1>2, <1>11, FPersistVersionsStep
<1>12. CASE Checkpoint \/ Compact
  BY <1>1, <1>2, <1>12, FCheckpointStep
<1>13. CASE CheckpointSegment
  BY <1>1, <1>2, <1>13, FCheckpointSegmentStep
<1>14. CASE CheckpointLog
  BY <1>1, <1>2, <1>14, FCheckpointLogStep
<1>15. CASE SwapHead
  BY <1>1, <1>2, <1>15, FHeadStep DEF SwapHead
<1>16. CASE RetireLog
  BY <1>1, <1>2, <1>16, FRetireStep
<1>17. ASSUME NEW rules, Gc(rules)
       PROVE  FInv'
  BY <1>17 DEF Gc, Ready, KeepsHistory
<1>18. CASE RemoveSegment \/ GcPersist
  BY <1>18 DEF RemoveSegment, GcPersist, FInv, TaskInv
<1>19. CASE Read
  <2>1. /\ up /\ ~InFlight /\ task.at # "retire" /\ task'.at = "idle"
        /\ UNCHANGED <<up, mem, generation, persisted, disk>>
    BY <1>19 DEF Read, Idle, InFlight, vars
  <2>2. QED
    BY <1>1, <1>2, <2>1, FTaskStep
<1>20. CASE Crash
  BY <1>1, <1>2, <1>20, FCrashStep
<1>21. CASE Open
  BY <1>1, <1>2, <1>21, FOpenStep
<1>22. QED
  BY <1>3, <1>4, <1>5, <1>6, <1>7, <1>8, <1>9, <1>10, <1>11, <1>12, <1>13, <1>14, <1>15,
     <1>16, <1>17, <1>18, <1>19, <1>20, <1>21 DEF HNext, Next

(* The effects that fail.                                                  *)
LEMMA FFaultStep ==
  ASSUME FInv, Observe,
         \/ \E n \in 0 .. MaxBatch, deletes \in DeleteLists, torn \in BOOLEAN :
              FailAppend(n, deletes, torn)
         \/ FailFlush \/ FailPersist \/ FailCheckpoint \/ FailHead \/ FailHeadLate
         \/ KeepRetiredLog
  PROVE  FInv'
<1>1. ASSUME NEW kind \in {"fail", "tear", "late"}, Fault(kind)
      PROVE  FaultsGrow /\ (Clean' => kind = "fail")
  <2>1. FShapes /\ faults' = Append(faults, kind)
    BY <1>1 DEF Fault, FInv
  <2>2. QED
    BY <2>1, FaultAdded DEF FaultsGrow
<1>2. ASSUME NEW n \in 0 .. MaxBatch, NEW deletes \in DeleteLists, NEW torn \in BOOLEAN,
             FailAppend(n, deletes, torn)
      PROVE  FInv'
  BY <1>2, FFailAppendStep
<1>3. CASE FailFlush
  BY <1>1, <1>3, FFailFlushStep DEF FailFlush
<1>4. CASE FailPersist
  BY <1>1, <1>4, FPersistVersionsStep DEF FailPersist
<1>5. CASE FailCheckpoint
  BY <1>1, <1>5, FFailCheckpointStep DEF FailCheckpoint
<1>6. CASE FailHead
  <2>1. /\ up /\ ~InFlight /\ task.at # "retire" /\ task'.at = "idle" /\ FaultsGrow
        /\ UNCHANGED <<up, mem, generation, persisted, disk, doubtful>>
    BY <1>1, <1>6 DEF FailHead, Fault, Idle, InFlight
  <2>2. QED
    BY <2>1, FTaskStep
<1>7. CASE FailHeadLate
  <2>1. /\ up /\ task.at = "head" /\ head' = CheckpointHead(mem, generation + 1)
        /\ task' = Idle
        /\ UNCHANGED <<up, mem, generation, persisted, wal, synced, versions, segFiles,
                       doubtful>>
    BY <1>7 DEF FailHeadLate, Fault
  <2>2. FaultsGrow /\ ~Clean'
    BY <1>1, <1>7 DEF FailHeadLate
  <2>3. QED
    BY <2>1, <2>2, FHeadStep
<1>8. CASE KeepRetiredLog
  BY <1>1, <1>8, FRetireStep DEF KeepRetiredLog
<1>9. QED
  BY <1>2, <1>3, <1>4, <1>5, <1>6, <1>7, <1>8

(* Whatever calls are made, whatever fails and wherever the machine stops: *)
(* HEAD, versions, the segment files and the registry fit together, every  *)
(* allocated id is accounted for, and memory is what HEAD and the log say  *)
(* as long as every fault was a clean one.                                 *)
THEOREM FaultsInvariant ==
  ASSUME KeepsHistory
  PROVE  FSpec => []FInv
<1>1. FInit => FInv
  BY FInitInv
<1>2. FInv /\ [FNext]_<<vars, historyVars, faultVars>> => FInv'
  <2> SUFFICES ASSUME FInv, [FNext]_<<vars, historyVars, faultVars>>
               PROVE  FInv'
    OBVIOUS
  <2>1. CASE UNCHANGED <<vars, historyVars, faultVars>>
    BY <2>1, FStutter
  <2>2. CASE HNext /\ UNCHANGED faultVars
    BY <2>2, FHealthyStep
  <2>3. CASE FNext /\ ~(HNext /\ UNCHANGED faultVars)
    BY <2>3, FFaultStep DEF FNext
  <2>4. QED
    BY <2>1, <2>2, <2>3
<1>3. QED
  BY <1>1, <1>2, PTL DEF FSpec

(* A failing effect never leaves HEAD or versions naming a segment without *)
(* a file: after any faults and any stop the collection opens.             *)
THEOREM OpensWhateverFails ==
  ASSUME KeepsHistory
  PROVE  FSpec => []CanAlwaysOpen
<1>1. FInv => CanAlwaysOpen
  BY DEF FInv, FilesInv, CanAlwaysOpen, OpenSucceeds
<1>2. QED
  BY <1>1, FaultsInvariant, PTL

(* What is left of a log that loses its records beyond the first k.        *)
LEMMA CutLog ==
  ASSUME NEW log \in Seq(LogRecords), NEW k \in 0 .. Len(log), NEW base, NEW ids,
         \A i \in k + 1 .. Len(log) : log[i].id \in ids
  PROVE  /\ SameBut(ids, UpsertedUpTo(log, k), UpsertedUpTo(log, Len(log)))
         /\ SameBut(ids, TombstonedUpTo(base, log, k), TombstonedUpTo(base, log, Len(log)))
<1>1. 1 .. k \subseteq 1 .. Len(log)
  OBVIOUS
<1>2. \A i \in 1 .. Len(log) : i \in 1 .. k \/ i \in k + 1 .. Len(log)
  OBVIOUS
<1>3. /\ UpsertedUpTo(log, k) \subseteq UpsertedUpTo(log, Len(log))
      /\ UpsertedUpTo(log, Len(log)) \subseteq UpsertedUpTo(log, k) \cup ids
  BY <1>1, <1>2 DEF UpsertedUpTo
<1>4. TombstonedUpTo(base, log, k) \subseteq TombstonedUpTo(base, log, Len(log))
  BY <1>1 DEF TombstonedUpTo
<1>5. TombstonedUpTo(base, log, Len(log)) \subseteq TombstonedUpTo(base, log, k) \cup ids
  BY <1>2 DEF TombstonedUpTo
<1>6. QED
  BY <1>3, <1>4, <1>5 DEF SameBut

(* With clean faults only, a stop loses records of failed writes.          *)
LEMMA CleanSurvivors ==
  ASSUME FInv, Clean, up, ~InFlight, NEW log \in SurvivingLogs
  PROVE  /\ Log \in Seq(LogRecords)
         /\ \E k \in 0 .. Len(Log) :
              /\ log = SubSeq(Log, 1, k)
              /\ \A i \in k + 1 .. Len(Log) : Log[i].id \in doubtful
<1>1. /\ Checkpointed.generation \in DOMAIN wal
      /\ \A g \in DOMAIN wal : wal[g] \in Seq(LogRecords)
      /\ synced \in Nat /\ Done = Len(Log)
      /\ \A i \in synced + 1 .. Done : Log[i].id \in doubtful
  BY DEF FInv, FShapes, GenerationsInv, CleanInv, Done
<1>2. PICK whole \in Seq(LogRecords) : whole = Log
  BY <1>1 DEF Log
<1>3. CASE generation = Checkpointed.generation
  <2>1. wal[generation] = whole
    BY <1>2, <1>3 DEF Log
  <2>2. PICK k \in synced .. Len(whole) : log = Valid(SubSeq(whole, 1, k))
    BY <1>3, <2>1 DEF SurvivingLogs
  <2>3. k \in 0 .. Len(whole) /\ \A i \in k + 1 .. Len(whole) : i \in synced + 1 .. Len(whole)
    BY <1>1, <2>2
  <2>4. SubSeq(whole, 1, k) \in Seq(LogRecords)
    BY <2>3, PrefixOfLog
  <2>5. PICK part \in Seq(LogRecords) : part = SubSeq(whole, 1, k)
    BY <2>4
  <2>6. Valid(part) = part
    BY ValidLog
  <2>7. QED
    BY <1>1, <1>2, <2>2, <2>3, <2>5, <2>6
<1>4. CASE generation # Checkpointed.generation
  <2>1. log = Valid(whole)
    BY <1>1, <1>2, <1>4 DEF SurvivingLogs, ActiveLog, Log
  <2>2. Valid(whole) = whole /\ SubSeq(whole, 1, Len(whole)) = whole
    BY ValidLog, SubSeqFull
  <2>3. Len(whole) \in 0 .. Len(whole) /\ \A i \in Len(whole) + 1 .. Len(whole) : FALSE
    OBVIOUS
  <2>4. QED
    BY <1>2, <2>1, <2>2, <2>3
<1>5. QED
  BY <1>3, <1>4

(* "Any acked write survives a crash", and so it does after any number of  *)
(* clean faults: a fsync, a segment, a versions file, a log or a removal   *)
(* that fails, or a HEAD that was not renamed, costs no acked write.       *)
THEOREM AckedSurvivesCleanFaults ==
  ASSUME KeepsHistory
  PROVE  FSpec => []AckedDespiteCleanFaults
<1>1. FInv => AckedDespiteCleanFaults
  <2> SUFFICES ASSUME FInv, Clean, up, ~InFlight, NEW log \in SurvivingLogs
               PROVE  SameBut(doubtful, Live(Recover(log)), Live(mem))
    BY DEF AckedDespiteCleanFaults, AckedDespiteFaults, Clean, SameBut
  <2>1. PICK whole \in Seq(LogRecords) : whole = Log
    BY CleanSurvivors
  <2>2. PICK base, doubt : base = Base /\ doubt = doubtful
    OBVIOUS
  <2>3. PICK k \in 0 .. Len(whole) :
          /\ log = SubSeq(whole, 1, k)
          /\ \A i \in k + 1 .. Len(whole) : whole[i].id \in doubtful
    BY <2>1, CleanSurvivors
  <2>4. /\ log \in Seq(LogRecords) /\ Upserted(log) = UpsertedUpTo(whole, k)
        /\ Tombstoned(base, log) = TombstonedUpTo(base, whole, k)
    BY <2>3, PrefixOfLog
  <2>5. PICK r : r = Recover(log)
    OBVIOUS
  <2>6. RecoveredFrom(r, log)
    BY <2>4, <2>5, FRecovered
  <2>7. /\ r.app \cup WorkingRows(r) = base \cup UpsertedUpTo(whole, k)
        /\ r.dels = Checkpointed.dels \cup TombstonedUpTo(base, whole, k)
    BY <2>2, <2>4, <2>6 DEF RecoveredFrom
  <2>8. /\ SameBut(doubtful, mem.app \cup WorkingRows(mem),
                   base \cup UpsertedUpTo(whole, Len(whole)))
        /\ SameBut(doubtful, mem.dels,
                   Checkpointed.dels \cup TombstonedUpTo(base, whole, Len(whole)))
    BY <2>1, <2>2 DEF FInv, CleanInv, Done
  <2>9. /\ SameBut(doubt, UpsertedUpTo(whole, k), UpsertedUpTo(whole, Len(whole)))
        /\ SameBut(doubt, TombstonedUpTo(base, whole, k),
                   TombstonedUpTo(base, whole, Len(whole)))
    <3>1. \A i \in k + 1 .. Len(whole) : whole[i].id \in doubt
      BY <2>2, <2>3
    <3>2. QED
      BY <3>1, CutLog
  <2>10. SameBut(doubtful, r.app \cup WorkingRows(r), mem.app \cup WorkingRows(mem))
    BY <2>2, <2>7, <2>8, <2>9 DEF SameBut
  <2>11. SameBut(doubtful, r.dels, mem.dels)
    BY <2>2, <2>7, <2>8, <2>9 DEF SameBut
  <2>12. SameBut(doubtful, Live(r), Live(mem))
    BY <2>10, <2>11 DEF SameBut, Live
  <2>13. QED
    BY <2>5, <2>12
<1>2. QED
  BY <1>1, FaultsInvariant, PTL

(* Versions are immutable snapshots through seals, checkpoints,            *)
(* compactions, stops, recoveries and failing effects: each reads back as  *)
(* it was committed as long as no crash handed back its segments' ids, and *)
(* diff tells any two apart by what they held, give or take ids that       *)
(* failed writes took.                                                     *)
THEOREM VersionsStayIntact ==
  ASSUME KeepsHistory
  PROVE  FSpec => []VersionsIntact
<1>1. FInv => VersionsIntact
  <2> SUFFICES ASSUME FInv
               PROVE  VersionsIntact
    OBVIOUS
  <2>1. ASSUME NEW v \in Intact
        PROVE  ReadsBack(v)
    <3>1. SegmentIds(ManifestOf(v)) \cap tainted = {}
      BY DEF Intact
    <3>2. ASSUME up, v \in Versions(mem.vs)
          PROVE  LiveAt(mem, v) = frozen[v]
      BY <3>1, <3>2 DEF ManifestOf, FInv, FrozenInv, Current
    <3>3. ASSUME v \in Versions(StoredStore)
          PROVE  LiveAt(Recover(ActiveLog), v) = frozen[v]
      <4>1. SegmentIds(StoredStore.commits[v]) \cap tainted = {}
        BY <3>1, <3>3 DEF ManifestOf, FInv, SegmentsInv
      <4>2. frozen[v] = FileAt(v)
        BY <3>3, <4>1, FileOfVersion
      <4>3. PICK r : r = Recover(ActiveLog)
        OBVIOUS
      <4>4. r.segments = [i \in LoadedSegments |-> segFiles[i]] /\ r.vs = StoredStore
        BY <4>3 DEF Recover
      <4>5. LiveAt(r, v) = FileAt(v)
        BY <3>3, <4>4, RecoveredVersion
      <4>6. QED
        BY <4>2, <4>3, <4>5
    <3>4. QED
      BY <3>2, <3>3 DEF ReadsBack
  <2>2. ASSUME up, NEW from \in Versions(mem.vs), NEW to \in Versions(mem.vs)
        PROVE  LET diff == Diff(mem.vs, from, to) IN
               /\ SameBut(doubtful, diff.added, frozen[to] \ frozen[from])
               /\ SameBut(doubtful, diff.removed, frozen[from] \ frozen[to])
    <3>1. /\ SameBut(doubtful, LiveIds(mem.vs.commits[from]), frozen[from])
          /\ SameBut(doubtful, LiveIds(mem.vs.commits[to]), frozen[to])
      BY <2>2 DEF FInv, FrozenInv, Current
    <3>2. PICK a, b : a = LiveIds(mem.vs.commits[from]) /\ b = LiveIds(mem.vs.commits[to])
      OBVIOUS
    <3>3. Diff(mem.vs, from, to).added = b \ a /\ Diff(mem.vs, from, to).removed = a \ b
      BY <3>2 DEF Diff
    <3>4. /\ SameBut(doubtful, b \ a, frozen[to] \ frozen[from])
          /\ SameBut(doubtful, a \ b, frozen[from] \ frozen[to])
      BY <3>1, <3>2 DEF SameBut
    <3>5. QED
      BY <3>3, <3>4
  <2>3. QED
    BY <2>1, <2>2 DEF VersionsIntact
<1>2. QED
  BY <1>1, FaultsInvariant, PTL

=============================================================================
