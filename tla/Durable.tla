------------------------------- MODULE Durable -------------------------------
(***************************************************************************)
(* One DurableCollection (durable.rs): an in-memory collection in front of *)
(* a directory holding a write-ahead log per generation, the checkpoint    *)
(* pointer HEAD, the file versions and one file per sealed segment.  One   *)
(* call runs at a time; between any two of its effects on the directory    *)
(* the machine may stop.  The module asks what is left after it does.      *)
(***************************************************************************)
EXTENDS CollectionOps, Sequences

CONSTANTS
  Operations,    \* the calls this instance makes, and "crash"
  Rules,         \* retention rules gc is called with
  MaxIds, MaxSegments, MaxVersions, MaxGenerations, MaxLog, MaxBatch, MaxCrashes

ASSUME BoundsAssumption ==
  {MaxIds, MaxSegments, MaxVersions, MaxGenerations, MaxLog, MaxBatch, MaxCrashes}
    \subseteq Nat

(* What HEAD holds, other than None.                                       *)
Heads ==
  [generation : Nat, working : SUBSET Nat, all : SUBSET Nat, nextId : Nat,
   nextSeg : Nat, dels : SUBSET Nat, payloads : SUBSET Nat]

ASSUME NoneIsNoHead == None \notin Heads

VARIABLES
  up,            \* the collection is open
  mem,           \* the Collection
  generation,    \* WalState.generation
  persisted,     \* persisted_segments: ids open() loaded or a write stored
  task,          \* the running call: what is left of it
  wal,           \* generation -> records in wal.{generation}.log
  synced,        \* how many records of the active log fsync has covered
  head,          \* contents of HEAD, None before the first checkpoint
  versions,      \* contents of the file versions, None before the first commit
  segFiles,      \* id -> rows, the files segments/{id}.seg
  crashes        \* how often the machine stopped

disk == <<wal, synced, head, versions, segFiles>>
vars == <<up, mem, generation, persisted, task, disk, crashes>>

-----------------------------------------------------------------------------
(***************************************************************************)
(* Log records.                                                            *)
(***************************************************************************)
Ids == 0 .. MaxIds - 1

Record(op, id) == [op |-> op, id |-> id]

(* What a record whose write stopped half-way leaves.  read_records stops  *)
(* at it, so it also hides every record after it.                          *)
Torn == Record("torn", None)

Valid(log) ==
  SubSeq(log, 1, Min({Len(log)} \cup {i - 1 : i \in {j \in DOMAIN log : log[j] = Torn}}))

(* A batch: the deletes in the caller's order, then n upserts, which get   *)
(* the ids from first on.                                                  *)
Batch(deletes, first, n) ==
  [i \in 1 .. Len(deletes) + n |->
     IF i <= Len(deletes) THEN Record("delete", deletes[i])
                          ELSE Record("upsert", first + (i - Len(deletes) - 1))]

IdsOf(op, log) == {log[i].id : i \in {j \in DOMAIN log : log[j].op = op}}

Upserted(log) == IdsOf("upsert", log)
Deleted(log)  == IdsOf("delete", log)

(* Deletes that apply_op applies: Collection::delete ignores an id it does *)
(* not hold yet.                                                           *)
Tombstoned(base, log) ==
  {log[i].id : i \in {j \in DOMAIN log :
     /\ log[j].op = "delete"
     /\ \/ log[j].id \in base
        \/ \E k \in 1 .. j - 1 : log[k] = Record("upsert", log[j].id)}}

-----------------------------------------------------------------------------
(***************************************************************************)
(* Recovery: the collection DurableCollection::open rebuilds when HEAD,    *)
(* versions and the segment files are as they are and the log of HEAD's    *)
(* generation holds the records log.                                       *)
(***************************************************************************)
NoCheckpoint ==
  [generation |-> 0, working |-> {}, all |-> {}, nextId |-> 0, nextSeg |-> 0,
   dels |-> {}, payloads |-> {}]

Checkpointed == IF head = None THEN NoCheckpoint ELSE head
StoredStore  == IF versions = None THEN EmptyStore ELSE versions

ActiveLog ==
  IF Checkpointed.generation \in DOMAIN wal
  THEN Valid(wal[Checkpointed.generation])
  ELSE <<>>

LoadedSegments ==
  Checkpointed.all \cup Checkpointed.working \cup AllReferenced(StoredStore)

(* Every file open() asks SegmentStore::load for exists; otherwise it      *)
(* returns an error and the collection cannot be opened.                   *)
OpenSucceeds == LoadedSegments \subseteq DOMAIN segFiles

(* Faulty variant: HEAD's tombstones are not restored.                     *)
RecoverWithoutTombstones(log) ==
  LET working == {Segment(i, segFiles[i]) : i \in Checkpointed.working}
      base    == UNION {s.rows : s \in working}
  IN  [app |-> Upserted(log), working |-> working,
       segments |-> [i \in LoadedSegments |-> segFiles[i]],
       dels |-> Tombstoned(base, log),
       payloads |-> Checkpointed.payloads \cup Upserted(log),
       vs |-> StoredStore,
       nextId |-> Max({Checkpointed.nextId} \cup {i + 1 : i \in Upserted(log)}),
       nextSeg |-> Checkpointed.nextSeg]

(* Faulty variant: replay does not move the allocator past the ids it      *)
(* inserts.                                                                *)
RecoverKeepsAllocator(log) ==
  [RecoverWithoutTombstones(log) EXCEPT
     !.dels = @ \cup Checkpointed.dels, !.nextId = Checkpointed.nextId]

Recover(log) ==
  LET working == {Segment(i, segFiles[i]) : i \in Checkpointed.working}
      base    == UNION {s.rows : s \in working}
  IN  [app |-> Upserted(log),
       working |-> working,
       segments |-> [i \in LoadedSegments |-> segFiles[i]],
       dels |-> Checkpointed.dels \cup Tombstoned(base, log),
       payloads |-> Checkpointed.payloads \cup Upserted(log),
       vs |-> StoredStore,
       nextId |-> Max({Checkpointed.nextId} \cup {i + 1 : i \in Upserted(log)}),
       nextSeg |-> Checkpointed.nextSeg]

(* The logs a stop can leave: fsynced records stay, of the others any      *)
(* prefix, since a torn record ends the log.                               *)
SurvivingLogs ==
  IF up /\ generation = Checkpointed.generation
  THEN {Valid(SubSeq(wal[generation], 1, k)) : k \in synced .. Len(wal[generation])}
  ELSE {ActiveLog}

-----------------------------------------------------------------------------
(***************************************************************************)
(* Calls.  task.at names the next effect of the running call.              *)
(***************************************************************************)
Idle == [at |-> "idle"]

Init ==
  /\ up = TRUE
  /\ mem = EmptyCollection
  /\ generation = 0
  /\ persisted = {}
  /\ task = Idle
  /\ wal = [g \in {0} |-> <<>>]
  /\ synced = 0
  /\ head = None
  /\ versions = None
  /\ segFiles = [i \in {} |-> {}]
  /\ crashes = 0

Ready(operation) == up /\ task = Idle /\ operation \in Operations

RoomToSeal   == mem.app = {} \/ mem.nextSeg < MaxSegments
RoomToCommit == mem.vs.next < MaxVersions /\ RoomToSeal

(* write_batch, first half: deletes then upserts are appended to the log;  *)
(* upserts take their ids from the allocator as they are logged.           *)
LogBatch(n, deletes, commit) ==
  LET batch == Batch(deletes, mem.nextId, n)
  IN  /\ Len(wal[generation]) + Len(batch) <= MaxLog
      /\ wal' = [wal EXCEPT ![generation] = @ \o batch]
      /\ mem' = [mem EXCEPT !.nextId = @ + n]
      /\ task' = [at |-> "flush", batch |-> batch, commit |-> commit]
      /\ UNCHANGED <<up, generation, persisted, synced, head, versions, segFiles,
                     crashes>>

(* What a caller may ask to be deleted: any ids, one more than once as well. *)
DeleteLists == UNION {[1 .. k -> Ids] : k \in 0 .. MaxBatch}

(* commit is TRUE for the caller's explicit commit and for the auto-commit *)
(* policy firing: both seal, commit and persist before the call returns.   *)
WriteBatch(n, deletes, commit) ==
  /\ Ready("write")
  /\ n + Len(deletes) \in 1 .. MaxBatch
  /\ mem.nextId + n <= MaxIds
  /\ commit => "commit" \in Operations /\ mem.vs.next < MaxVersions
                 /\ mem.nextSeg < MaxSegments
  /\ LogBatch(n, deletes, commit)

DeletePoint(id) ==
  /\ Ready("delete")
  /\ LogBatch(0, <<id>>, FALSE)

(* Faulty variant: the batch is applied and acked without the fsync.       *)
FlushNothing ==
  /\ up /\ task.at = "flush"
  /\ task' = [task EXCEPT !.at = "apply"]
  /\ UNCHANGED <<up, mem, generation, persisted, disk, crashes>>

Flush ==
  /\ up /\ task.at = "flush"
  /\ synced' = Len(wal[generation])
  /\ task' = [task EXCEPT !.at = "apply"]
  /\ UNCHANGED <<up, mem, generation, persisted, wal, head, versions, segFiles,
                 crashes>>

Apply ==
  /\ up /\ task.at = "apply"
  /\ mem' = Insert(Delete(mem, Deleted(task.batch)), Upserted(task.batch))
  /\ task' = IF task.commit THEN [at |-> "commit", tag |-> None] ELSE Idle
  /\ UNCHANGED <<up, generation, persisted, disk, crashes>>

(* persist_versions is what is left of every call that moved the DAG.      *)
Persist(m) == [at |-> "segments", todo |-> SegmentIdsToPersist(m)]

CallCommit(tag) ==
  /\ Ready("commit") /\ RoomToCommit
  /\ task' = [at |-> "commit", tag |-> tag]
  /\ UNCHANGED <<up, mem, generation, persisted, disk, crashes>>

Commit ==
  /\ up /\ task.at = "commit"
  /\ mem' = CommitWorking(mem, task.tag)
  /\ task' = Persist(mem')
  /\ UNCHANGED <<up, generation, persisted, disk, crashes>>

Restore(v) ==
  /\ Ready("restore")
  /\ v \in Versions(mem.vs)
  /\ mem.vs.next < MaxVersions
  /\ mem' = RestoreTo(mem, v)
  /\ task' = Persist(mem')
  /\ UNCHANGED <<up, generation, persisted, disk, crashes>>

CreateTag(name, v) ==
  /\ Ready("tag")
  /\ v \in Versions(mem.vs)
  /\ mem' = [mem EXCEPT !.vs = SetTag(@, name, v)]
  /\ task' = Persist(mem')
  /\ UNCHANGED <<up, generation, persisted, disk, crashes>>

CreateBranch(name, v) ==
  /\ Ready("branch")
  /\ v \in Versions(mem.vs)
  /\ mem' = [mem EXCEPT !.vs = SetBranch(@, name, v)]
  /\ task' = Persist(mem')
  /\ UNCHANGED <<up, generation, persisted, disk, crashes>>

(***************************************************************************)
(* persist_versions: segment files not yet on disk, in ascending order,    *)
(* then the versions file.                                                 *)
(***************************************************************************)
ToWrite == {i \in task.todo : i \notin persisted /\ i \in DOMAIN mem.segments}

StoreSegment(i) == segFiles' = [j \in DOMAIN segFiles \cup {i} |->
                                  IF j = i THEN mem.segments[i] ELSE segFiles[j]]

PersistSegment ==
  /\ up /\ task.at = "segments" /\ ToWrite # {}
  /\ StoreSegment(Min(ToWrite))
  /\ persisted' = persisted \cup {Min(ToWrite)}
  /\ UNCHANGED <<up, mem, generation, task, wal, synced, head, versions, crashes>>

PersistVersions ==
  /\ up /\ task.at = "segments" /\ ToWrite = {}
  /\ versions' = mem.vs
  /\ task' = Idle
  /\ UNCHANGED <<up, mem, generation, persisted, wal, synced, head, segFiles, crashes>>

(***************************************************************************)
(* checkpoint: seal; write every segment of the working set and of any     *)
(* version, also those already on disk; create the next log; swap HEAD;    *)
(* switch to the next log and remove the old one.                          *)
(***************************************************************************)
RoomToCheckpoint == generation < MaxGenerations /\ RoomToSeal

StartCheckpoint(m) ==
  /\ mem' = Seal(m)
  /\ task' = [at |-> "checkpoint",
              todo |-> SegmentIdsToPersist(mem') \cap DOMAIN mem'.segments]

Checkpoint ==
  /\ Ready("checkpoint") /\ RoomToCheckpoint
  /\ StartCheckpoint(mem)
  /\ UNCHANGED <<up, generation, persisted, disk, crashes>>

(* compact: nothing to do with at most one segment, else merge and         *)
(* checkpoint.                                                             *)
Compact ==
  /\ Ready("compact") /\ CanCompact(mem)
  /\ generation < MaxGenerations
  /\ mem.nextSeg + (IF mem.app = {} THEN 1 ELSE 2) <= MaxSegments
  /\ StartCheckpoint(CompactWorking(mem))
  /\ UNCHANGED <<up, generation, persisted, disk, crashes>>

CheckpointSegment ==
  /\ up /\ task.at = "checkpoint" /\ task.todo # {}
  /\ StoreSegment(Min(task.todo))
  /\ persisted' = persisted \cup {Min(task.todo)}
  /\ task' = [task EXCEPT !.todo = @ \ {Min(@)}]
  /\ UNCHANGED <<up, mem, generation, wal, synced, head, versions, crashes>>

CheckpointLog ==
  /\ up /\ task.at = "checkpoint" /\ task.todo = {}
  /\ wal' = [g \in DOMAIN wal \cup {generation + 1} |->
               IF g \in DOMAIN wal THEN wal[g] ELSE <<>>]
  /\ task' = [at |-> "head"]
  /\ UNCHANGED <<up, mem, generation, persisted, synced, head, versions, segFiles,
                 crashes>>

(* Faulty variants: HEAD forgets the tombstones; HEAD still names the old  *)
(* generation; HEAD keeps payloads of live points only.                    *)
HeadWithoutTombstones(m, g) ==
  [generation |-> g, working |-> WorkingIds(m),
   all |-> SegmentIdsToPersist(m) \cap DOMAIN m.segments,
   nextId |-> m.nextId, nextSeg |-> m.nextSeg, dels |-> {}, payloads |-> m.payloads]

HeadOfOldGeneration(m, g) ==
  [HeadWithoutTombstones(m, g) EXCEPT !.dels = m.dels, !.generation = g - 1]

HeadWithLivePayloads(m, g) ==
  [HeadWithoutTombstones(m, g) EXCEPT !.dels = m.dels, !.payloads = @ \cap Live(m)]

CheckpointHead(m, g) ==
  [generation |-> g,
   working    |-> WorkingIds(m),
   all        |-> SegmentIdsToPersist(m) \cap DOMAIN m.segments,
   nextId     |-> m.nextId,
   nextSeg    |-> m.nextSeg,
   dels       |-> m.dels,
   payloads   |-> m.payloads]

SwapHead ==
  /\ up /\ task.at = "head"
  /\ head' = CheckpointHead(mem, generation + 1)
  /\ task' = [at |-> "retire"]
  /\ UNCHANGED <<up, mem, generation, persisted, wal, synced, versions, segFiles,
                 crashes>>

RetireLog ==
  /\ up /\ task.at = "retire"
  /\ wal' = [g \in DOMAIN wal \ {generation} |-> wal[g]]
  /\ generation' = generation + 1
  /\ synced' = Len(wal[generation + 1])
  /\ task' = Idle
  /\ UNCHANGED <<up, mem, persisted, head, versions, segFiles, crashes>>

(***************************************************************************)
(* gc: drop versions and orphan segments in memory, remove their files one *)
(* by one, persist the DAG.                                                *)
(***************************************************************************)
Gc(rules) ==
  /\ Ready("gc")
  /\ mem' = CollectGarbage(mem, rules)
  /\ task' = [at |-> "remove", todo |-> DroppedSegments(mem, rules)]
  /\ UNCHANGED <<up, generation, persisted, disk, crashes>>

RemoveSegment ==
  /\ up /\ task.at = "remove" /\ task.todo # {}
  /\ LET i == Min(task.todo)
     IN  /\ segFiles' = [j \in DOMAIN segFiles \ {i} |-> segFiles[j]]
         /\ persisted' = persisted \ {i}
         /\ task' = [task EXCEPT !.todo = @ \ {i}]
  /\ UNCHANGED <<up, mem, generation, wal, synced, head, versions, crashes>>

GcPersist ==
  /\ up /\ task.at = "remove" /\ task.todo = {}
  /\ task' = Persist(mem)
  /\ UNCHANGED <<up, mem, generation, persisted, disk, crashes>>

(* search, scroll, get_point and the other reads: always possible on an    *)
(* open collection, so that a deadlock is a collection that cannot open.   *)
Read == up /\ task = Idle /\ UNCHANGED vars

(***************************************************************************)
(* The machine stops: memory is gone, the log keeps its fsynced records    *)
(* and some prefix of the rest.  What survives is then durable.            *)
(***************************************************************************)
Crash ==
  /\ up /\ "crash" \in Operations /\ crashes < MaxCrashes
  /\ \E k \in synced .. Len(wal[generation]) :
       /\ wal' = [wal EXCEPT ![generation] = SubSeq(@, 1, k)]
       /\ synced' = k
  /\ up' = FALSE
  /\ mem' = EmptyCollection
  /\ generation' = 0
  /\ persisted' = {}
  /\ task' = Idle
  /\ crashes' = crashes + 1
  /\ UNCHANGED <<head, versions, segFiles>>

Open ==
  /\ ~up
  /\ OpenSucceeds
  /\ up' = TRUE
  /\ mem' = Recover(ActiveLog)
  /\ generation' = Checkpointed.generation
  /\ persisted' = LoadedSegments
  /\ wal' = [g \in DOMAIN wal \cup {generation'} |->
               IF g = generation' THEN ActiveLog ELSE wal[g]]
  /\ synced' = Len(ActiveLog)
  /\ UNCHANGED <<task, head, versions, segFiles, crashes>>

Next ==
  \/ \E n \in 0 .. MaxBatch, deletes \in DeleteLists, commit \in BOOLEAN :
       WriteBatch(n, deletes, commit)
  \/ \E id \in Ids : DeletePoint(id)
  \/ Flush \/ Apply
  \/ \E tag \in TagNames \cup {None} : CallCommit(tag)
  \/ Commit
  \/ \E v \in 0 .. MaxVersions : Restore(v)
  \/ \E name \in TagNames, v \in 0 .. MaxVersions : CreateTag(name, v)
  \/ \E name \in BranchNames, v \in 0 .. MaxVersions : CreateBranch(name, v)
  \/ PersistSegment \/ PersistVersions
  \/ Checkpoint \/ Compact
  \/ CheckpointSegment \/ CheckpointLog \/ SwapHead \/ RetireLog
  \/ \E rules \in Rules : Gc(rules)
  \/ RemoveSegment \/ GcPersist
  \/ Read
  \/ Crash \/ Open

Spec == Init /\ [][Next]_vars

-----------------------------------------------------------------------------

Segments == [id : 0 .. MaxSegments - 1, rows : SUBSET Ids]

(* Every variable holds what the code's types say, and a running call only *)
(* keeps ids that exist.                                                   *)
TypeOK ==
  /\ up \in BOOLEAN
  /\ mem.app \subseteq Ids /\ mem.dels \subseteq Ids /\ mem.payloads \subseteq Ids
  /\ mem.working \subseteq Segments
  /\ \A i \in DOMAIN mem.segments : Segment(i, mem.segments[i]) \in Segments
  /\ mem.nextId \in 0 .. MaxIds /\ mem.nextSeg \in 0 .. MaxSegments
  /\ generation \in 0 .. MaxGenerations
  /\ persisted \subseteq 0 .. MaxSegments - 1
  /\ task.at \in {"idle", "flush", "apply", "commit", "segments", "checkpoint",
                  "head", "retire", "remove"}
  /\ \A g \in DOMAIN wal : wal[g] \in Seq([op : {"upsert", "delete"}, id : Ids] \cup {Torn})
  /\ synced \in 0 .. MaxLog
  /\ up => generation \in DOMAIN wal /\ synced <= Len(wal[generation])
  /\ \A i \in DOMAIN segFiles : Segment(i, segFiles[i]) \in Segments
  /\ crashes \in 0 .. MaxCrashes

InFlight == task.at \in {"flush", "apply"}

(* "Any acked write survives a crash": whenever no batch is being logged,  *)
(* stopping now and opening again gives exactly the live points of the     *)
(* collection in memory, in the middle of a commit, a checkpoint or a      *)
(* compaction as well.                                                     *)
AckedSurvives ==
  up /\ ~InFlight => \A log \in SurvivingLogs : Live(Recover(log)) = Live(mem)

(* Opening never meets a missing segment file: HEAD and versions are only  *)
(* written once the files they name are there, and no file they name goes. *)
CanAlwaysOpen == OpenSucceeds

(* A global id names one vector for ever: wherever the machine stops, the  *)
(* recovered allocator is past every id some row, tombstone or segment     *)
(* file still uses.                                                        *)
UsedIds ==
  mem.app \cup mem.dels \cup WorkingRows(mem)
    \cup UNION {segFiles[i] : i \in DOMAIN segFiles}

IdsNeverReused ==
  /\ up => \A id \in UsedIds : id < mem.nextId
  /\ \A log \in SurvivingLogs, id \in UsedIds : id < Recover(log).nextId

(* Payloads live beside the segments, not in them; recovery still finds    *)
(* one for each row of the working set and of every version it loads.      *)
PayloadsRecovered ==
  \A log \in SurvivingLogs :
    LET m == Recover(log)
    IN  m.app \cup UNION {m.segments[i] : i \in DOMAIN m.segments} \subseteq m.payloads

(* len() subtracts counts, so it is the number of live points only as long *)
(* as no row is held twice and every tombstone is over a row still held.   *)
LenExact == LenOf(mem) = Cardinality(Live(mem))

(* Segments the version DAG or the working set names are in the registry,  *)
(* so search_at and restore, which skip unknown ids, never lose rows.      *)
ReferencedRegistered == SegmentIdsToPersist(mem) \subseteq DOMAIN mem.segments

-----------------------------------------------------------------------------
(***************************************************************************)
(* Abstract views.  AckedStore sees the live points across crashes;        *)
(* Timeline sees the live points and what each retained version holds.     *)
(***************************************************************************)
Content == Live(IF up THEN mem ELSE Recover(ActiveLog))

Pending == IF up /\ InFlight THEN task.batch ELSE <<>>

Acked == INSTANCE AckedStore WITH
  content <- Content, pending <- Pending, stable <- up /\ task.at = "apply"

(* The collection with its log, checkpoints and compactions behaves as a   *)
(* plain set of points that a write changes once it is acked and a crash   *)
(* only by a prefix of the one write that was not.                         *)
ImplementsAckedStore == Acked!Spec

Time == INSTANCE Timeline WITH
  content <- Live(mem), history <- [v \in Versions(mem.vs) |-> LiveAt(mem, v)]

(* While the process runs, versions are snapshots: sealing, checkpoints,   *)
(* compaction and later writes never show in them, restore brings one      *)
(* back, and GC only forgets whole versions, never the newest.             *)
ImplementsTimeline == Time!Spec
=============================================================================
