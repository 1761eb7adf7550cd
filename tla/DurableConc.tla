---------------------------- MODULE DurableConc ----------------------------
(***************************************************************************)
(* One DurableCollection used by several threads, as the server uses it:   *)
(* clients write and commit, a maintenance thread compacts and             *)
(* checkpoints, readers search.  Each call is split where another thread   *)
(* can run: between two locks, atomic swaps or files.  Only write_batch    *)
(* and checkpoint hold the log's mutex; commit, compact and                *)
(* persist_versions do not.  A stop is not a step here: Reopened says what *)
(* one would leave.                                                        *)
(***************************************************************************)
EXTENDS CollectionOps

CONSTANTS
  Clients, Maintainers, Readers,
  Recovered,     \* sealed segments of one row each that open() found
  Deletable,     \* ids that delete is called with
  MaxIds, MaxSegments, MaxVersions, MaxBatch,
  ClientCalls, MaintainerCalls, ReaderCalls   \* how often a thread calls

ASSUME ThreadsAssumption ==
  /\ {Recovered, MaxIds, MaxSegments, MaxVersions, MaxBatch, ClientCalls,
      MaintainerCalls, ReaderCalls} \subseteq Nat
  /\ None \notin Clients \cup Maintainers \cup Readers

VARIABLES
  mem,        \* the Collection
  owner,      \* the thread in the log's mutex
  log,        \* upserts and deletes in the active log
  head,       \* HEAD: the working set, the ids of all it lists, tombstones
  versions,   \* the version store in the file versions
  files,      \* ids of the segment files
  task,       \* what is left of each thread's call
  calls,      \* how many calls each thread may still make

  (* History: what callers were told, and what each race has cost.         *)
  acked,      \* points whose upsert returned and whose delete was not called
  erased,     \* points whose delete returned
  returned,   \* versions whose commit returned
  races

disk    == <<log, head, versions, files>>
history == <<acked, erased, returned, races>>
vars    == <<mem, owner, disk, task, calls, history>>

Threads == Clients \cup Maintainers \cup Readers
Ids     == 0 .. MaxIds - 1
Rows(segments) == UNION {s.rows : s \in segments}

Idle == [at |-> "idle"]

(* Rows a seal has taken out of the appendable and not yet published.      *)
Moving == UNION {task[t].sealed.rows : t \in {u \in Threads :
                   task[u].at = "publish"}}

NoRaces ==
  [overwritten |-> {},  \* rows of a segment published while compact merged
   missed      |-> {},  \* deletes that met their row on the move
   unfolded    |-> {},  \* rows on the move when a checkpoint retired their log
   clobbered   |-> {}]  \* versions an older snapshot took out of the file

OldIds      == 0 .. Recovered - 1
OldSegments == {Segment(i, {i}) : i \in OldIds}

(* A collection that was just opened on a checkpoint.                      *)
Init ==
  /\ mem = [EmptyCollection EXCEPT
              !.working = OldSegments, !.segments = [i \in OldIds |-> {i}],
              !.payloads = OldIds, !.nextId = Recovered, !.nextSeg = Recovered]
  /\ owner = None
  /\ log = [upserts |-> {}, deletes |-> {}]
  /\ head = [working |-> OldSegments, all |-> OldIds, dels |-> {}]
  /\ versions = EmptyStore
  /\ files = OldIds
  /\ task = [t \in Threads |-> Idle]
  /\ calls = [t \in Threads |-> CASE t \in Clients     -> ClientCalls
                               [] t \in Maintainers -> MaintainerCalls
                               [] t \in Readers     -> ReaderCalls]
  /\ acked = OldIds /\ erased = {} /\ returned = {} /\ races = NoRaces

At(t, label)  == task[t].at = label
Goto(t, step) == task' = [task EXCEPT ![t] = step] /\ UNCHANGED calls
Lock(t)       == owner = None /\ owner' = t

(* The first step of a call.                                               *)
Call(t, step) ==
  /\ At(t, "idle") /\ calls[t] > 0
  /\ calls' = [calls EXCEPT ![t] = @ - 1]
  /\ task' = [task EXCEPT ![t] = step]

-----------------------------------------------------------------------------
(***************************************************************************)
(* write_batch and delete.  Under the mutex: the batch is logged and       *)
(* fsynced, then applied to memory one operation after the other.          *)
(***************************************************************************)
WriteBatch(t, n, deletes, commit) ==
  /\ n + Cardinality(deletes) \in 1 .. MaxBatch
  /\ mem.nextId + n <= MaxIds
  /\ deletes \subseteq acked \cap Deletable
  /\ Lock(t)
  /\ LET upserts == mem.nextId .. mem.nextId + n - 1
     IN  /\ mem' = [mem EXCEPT !.nextId = @ + n]
         /\ log' = [upserts |-> log.upserts \cup upserts,
                    deletes |-> log.deletes \cup deletes]
         /\ Call(t, [at |-> "apply", upserts |-> upserts, deletes |-> deletes,
                     new |-> upserts, old |-> deletes, commit |-> commit])
  /\ acked' = acked \ deletes
  /\ UNCHANGED <<head, versions, files, erased, returned, races>>

(* Faulty variant: the appendable is not looked at.                        *)
ApplyDeleteSealedOnly(t) ==
  /\ At(t, "apply") /\ task[t].deletes # {}
  /\ LET id == Min(task[t].deletes)
     IN  /\ mem' = [mem EXCEPT !.dels = @ \cup ({id} \cap WorkingRows(mem))]
         /\ races' = [races EXCEPT !.missed = @ \cup ({id} \cap Moving)]
         /\ Goto(t, [task[t] EXCEPT !.deletes = @ \ {id}])
  /\ UNCHANGED <<owner, disk, acked, erased, returned>>

(* Collection::delete looks in the appendable and then in the working set; *)
(* a row a seal is moving is in neither.                                   *)
ApplyDelete(t) ==
  /\ At(t, "apply") /\ task[t].deletes # {}
  /\ LET id == Min(task[t].deletes)
     IN  /\ mem' = Delete(mem, {id})
         /\ races' = [races EXCEPT !.missed = @ \cup ({id} \cap Moving)]
         /\ Goto(t, [task[t] EXCEPT !.deletes = @ \ {id}])
  /\ UNCHANGED <<owner, disk, acked, erased, returned>>

ApplyUpsert(t) ==
  /\ At(t, "apply") /\ task[t].deletes = {} /\ task[t].upserts # {}
  /\ LET id == Min(task[t].upserts)
     IN  /\ mem' = Insert(mem, {id})
         /\ Goto(t, [task[t] EXCEPT !.upserts = @ \ {id}])
  /\ UNCHANGED <<owner, disk, history>>

(* What a commit has to contain when it starts, its own batch included;    *)
(* explicit when it is the one a batch asks for.                           *)
CommitCall(new, old, explicit) ==
  [at |-> "seal",
   then |-> [at |-> "load", explicit |-> explicit,
             due |-> acked \cup new, gone |-> erased \cup old]]

(* Faulty variant: the mutex is released before a batch's own commit.      *)
FinishWriteReleasing(t, auto) ==
  /\ At(t, "apply") /\ task[t].deletes = {} /\ task[t].upserts = {}
  /\ auto => ~task[t].commit
  /\ acked' = acked \cup task[t].new
  /\ erased' = erased \cup task[t].old
  /\ owner' = None
  /\ Goto(t, IF task[t].commit \/ auto
             THEN CommitCall(task[t].new, task[t].old, task[t].commit) ELSE Idle)
  /\ UNCHANGED <<mem, disk, returned, races>>

(* An explicit commit runs before the mutex is released; the auto-commit   *)
(* policy (module Triggers) may start one after it is.                      *)
FinishWrite(t, auto) ==
  /\ At(t, "apply") /\ task[t].deletes = {} /\ task[t].upserts = {}
  /\ auto => ~task[t].commit
  /\ acked' = acked \cup task[t].new
  /\ erased' = erased \cup task[t].old
  /\ owner' = IF task[t].commit THEN owner ELSE None
  /\ Goto(t, IF task[t].commit \/ auto
             THEN CommitCall(task[t].new, task[t].old, task[t].commit) ELSE Idle)
  /\ UNCHANGED <<mem, disk, returned, races>>

Commit(t) ==
  /\ Call(t, CommitCall({}, {}, FALSE))
  /\ UNCHANGED <<mem, owner, disk, history>>

-----------------------------------------------------------------------------
(***************************************************************************)
(* seal: the appendable's lock is released before the segment is built,    *)
(* registered and published.                                               *)
(***************************************************************************)
SealTake(t) ==
  /\ At(t, "seal")
  /\ IF mem.app = {}
     THEN Goto(t, task[t].then) /\ UNCHANGED mem
     ELSE /\ mem.nextSeg < MaxSegments
          /\ mem' = [mem EXCEPT !.app = {}, !.nextSeg = @ + 1]
          /\ Goto(t, [at |-> "publish", sealed |-> Segment(mem.nextSeg, mem.app),
                      then |-> task[t].then])
  /\ UNCHANGED <<owner, disk, history>>

SealPublish(t) ==
  /\ At(t, "publish")
  /\ mem' = [mem EXCEPT !.segments = Register(mem, task[t].sealed),
                         !.working = @ \cup {task[t].sealed}]
  /\ Goto(t, task[t].then)
  /\ UNCHANGED <<owner, disk, history>>

-----------------------------------------------------------------------------
(***************************************************************************)
(* commit: the segments are read first; the tombstones are read and the    *)
(* version store is locked and written last; persist_versions follows.     *)
(***************************************************************************)
CommitLoad(t) ==
  /\ At(t, "load")
  /\ Goto(t, [at |-> "version", working |-> mem.working, moving |-> Moving,
              explicit |-> task[t].explicit, due |-> task[t].due,
              gone |-> task[t].gone])
  /\ UNCHANGED <<mem, owner, disk, history>>

(* Faulty variant: the version is not persisted.                           *)
CommitVersionInMemory(t) ==
  /\ At(t, "version")
  /\ mem.vs.next < MaxVersions
  /\ mem' = [mem EXCEPT !.vs =
               CommitTo(@, {Reference(s) : s \in task[t].working}, mem.dels, None)]
  /\ returned' = returned \cup {mem.vs.next}
  /\ owner' = IF owner = t THEN None ELSE owner
  /\ Goto(t, Idle)
  /\ UNCHANGED <<disk, acked, erased, races>>

CommitVersion(t) ==
  /\ At(t, "version")
  /\ mem.vs.next < MaxVersions
  /\ mem' = [mem EXCEPT !.vs =
               CommitTo(@, {Reference(s) : s \in task[t].working}, mem.dels, None)]
  /\ Goto(t, [at |-> "persist", version |-> mem.vs.next])
  /\ UNCHANGED <<owner, disk, history>>

(* persist_versions: segment files, then a copy of the version store under *)
(* its mutex, then the file versions from the copy.                        *)
PersistSegments(t) ==
  /\ At(t, "persist")
  /\ files' = files \cup (SegmentIdsToPersist(mem) \cap DOMAIN mem.segments)
  /\ Goto(t, [at |-> "copy", version |-> task[t].version])
  /\ UNCHANGED <<mem, owner, log, head, versions, history>>

PersistCopy(t) ==
  /\ At(t, "copy")
  /\ Goto(t, [at |-> "store", version |-> task[t].version, copy |-> mem.vs])
  /\ UNCHANGED <<mem, owner, disk, history>>

PersistVersions(t) ==
  /\ At(t, "store")
  /\ versions' = task[t].copy
  /\ races' = [races EXCEPT !.clobbered = @ \cup (Versions(versions) \ Versions(versions'))]
  /\ returned' = returned \cup {task[t].version}
  /\ owner' = IF owner = t THEN None ELSE owner
  /\ Goto(t, Idle)
  /\ UNCHANGED <<mem, log, head, files, acked, erased>>

-----------------------------------------------------------------------------
(***************************************************************************)
(* compact: the working set is read, merged and replaced with no lock      *)
(* held.  checkpoint: under the log's mutex.                               *)
(***************************************************************************)
CompactLoad(t) ==
  /\ CanCompact(mem)
  /\ Call(t, [at |-> "merge", loaded |-> mem.working])
  /\ UNCHANGED <<mem, owner, disk, history>>

CompactReplace(t) ==
  /\ At(t, "merge")
  /\ mem.nextSeg < MaxSegments
  /\ LET merged == Segment(mem.nextSeg, Rows(task[t].loaded))
     IN  mem' = [mem EXCEPT !.nextSeg = @ + 1, !.segments = Register(mem, merged),
                            !.working = {merged}]
  /\ races' = [races EXCEPT !.overwritten = @ \cup Rows(mem.working \ task[t].loaded)]
  /\ Goto(t, [at |-> "lock"])
  /\ UNCHANGED <<owner, disk, acked, erased, returned>>

(* Faulty variant: the appendable is not sealed first.                     *)
CheckpointUnsealed(t) ==
  /\ Lock(t)
  /\ LET step == [at |-> "collect"]
     IN  Call(t, step) \/ (At(t, "lock") /\ Goto(t, step))
  /\ UNCHANGED <<mem, disk, history>>

Checkpoint(t) ==
  /\ Lock(t)
  /\ LET step == [at |-> "seal", then |-> [at |-> "collect"]]
     IN  Call(t, step) \/ (At(t, "lock") /\ Goto(t, step))
  /\ UNCHANGED <<mem, disk, history>>

(* Faulty variant: only the segments of versions are written.              *)
CheckpointVersionFiles(t) ==
  /\ At(t, "collect")
  /\ LET all == AllReferenced(mem.vs) \cap DOMAIN mem.segments
     IN  /\ files' = files \cup all
         /\ Goto(t, [at |-> "head", working |-> mem.working, all |-> all,
                     moving |-> Moving])
  /\ UNCHANGED <<mem, owner, log, head, versions, history>>

CheckpointFiles(t) ==
  /\ At(t, "collect")
  /\ LET all == SegmentIdsToPersist(mem) \cap DOMAIN mem.segments
     IN  /\ files' = files \cup all
         /\ Goto(t, [at |-> "head", working |-> mem.working, all |-> all,
                     moving |-> Moving])
  /\ UNCHANGED <<mem, owner, log, head, versions, history>>

CheckpointHead(t) ==
  /\ At(t, "head")
  /\ head' = [working |-> task[t].working, all |-> task[t].all, dels |-> mem.dels]
  /\ log' = [upserts |-> {}, deletes |-> {}]
  /\ races' = [races EXCEPT !.unfolded = task[t].moving]
  /\ owner' = None
  /\ Goto(t, Idle)
  /\ UNCHANGED <<mem, versions, files, acked, erased, returned>>

-----------------------------------------------------------------------------
(***************************************************************************)
(* search, and scroll of the live points: tombstones, then the working     *)
(* set, then the appendable, each at its own moment.                       *)
(***************************************************************************)
SearchStart(t) ==
  /\ Call(t, [at |-> "working", dels |-> mem.dels, due |-> acked, gone |-> erased,
              before |-> WorkingRows(mem)])
  /\ UNCHANGED <<mem, owner, disk, history>>

SearchWorking(t) ==
  /\ At(t, "working")
  /\ Goto(t, [at |-> "appendable", dels |-> task[t].dels, due |-> task[t].due,
              gone |-> task[t].gone, before |-> task[t].before,
              found |-> WorkingRows(mem) \ task[t].dels])
  /\ UNCHANGED <<mem, owner, disk, history>>

Answer(t, found) ==
  [at |-> "answer", due |-> task[t].due, gone |-> task[t].gone,
   before |-> task[t].before, after |-> mem.app, found |-> found]

(* Faulty variant: tombstones are not applied to the appendable.           *)
SearchAppendableDeleted(t) ==
  /\ At(t, "appendable")
  /\ Goto(t, Answer(t, task[t].found \cup mem.app))
  /\ UNCHANGED <<mem, owner, disk, history>>

SearchAppendable(t) ==
  /\ At(t, "appendable")
  /\ Goto(t, Answer(t, task[t].found \cup (mem.app \ task[t].dels)))
  /\ UNCHANGED <<mem, owner, disk, history>>

SearchAnswer(t) ==
  /\ At(t, "answer")
  /\ Goto(t, Idle)
  /\ UNCHANGED <<mem, owner, disk, history>>

-----------------------------------------------------------------------------

CommitStep(t) ==
  \/ CommitLoad(t) \/ CommitVersion(t)
  \/ PersistSegments(t) \/ PersistCopy(t) \/ PersistVersions(t)

SealStep(t) == SealTake(t) \/ SealPublish(t)

ClientStep(t) ==
  \/ \E n \in 0 .. 1, deletes \in SUBSET Ids, commit \in BOOLEAN :
       WriteBatch(t, n, deletes, commit)
  \/ ApplyDelete(t) \/ ApplyUpsert(t)
  \/ \E auto \in BOOLEAN : FinishWrite(t, auto)
  \/ Commit(t)
  \/ SealStep(t) \/ CommitStep(t)

MaintainerStep(t) ==
  \/ CompactLoad(t) \/ CompactReplace(t)
  \/ Checkpoint(t) \/ SealStep(t) \/ CheckpointFiles(t) \/ CheckpointHead(t)

ReaderStep(t) ==
  SearchStart(t) \/ SearchWorking(t) \/ SearchAppendable(t) \/ SearchAnswer(t)

Next ==
  \/ \E t \in Clients : ClientStep(t)
  \/ \E t \in Maintainers : MaintainerStep(t)
  \/ \E t \in Readers : ReaderStep(t)

Spec == Init /\ [][Next]_vars

-----------------------------------------------------------------------------

(* If the machine stopped now: open() loads every segment that HEAD or the *)
(* file versions names and returns an error when one of them has no file;  *)
(* when it succeeds, the rows of HEAD's working set and of the log are     *)
(* back, less the tombstones of both.                                      *)
Named == {s.id : s \in head.working} \cup head.all \cup AllReferenced(versions)
Opens == Named \subseteq files

Reopened ==
  IF Opens THEN (Rows(head.working) \cup log.upserts) \ (head.dels \cup log.deletes)
  ELSE {}

(* Every thread is at a label of its calls, and the mutex is held exactly  *)
(* by a thread in a write, a batch's own commit or a checkpoint.           *)
TypeOK ==
  /\ mem.app \cup mem.dels \cup mem.payloads \cup WorkingRows(mem) \subseteq Ids
  /\ mem.nextId \in 0 .. MaxIds /\ mem.nextSeg \in 0 .. MaxSegments
  /\ mem.vs.next \in 0 .. MaxVersions
  /\ files \subseteq 0 .. MaxSegments - 1
  /\ owner \in {None} \cup Clients \cup Maintainers
  /\ \A t \in Threads :
       task[t].at \in {"idle", "apply", "seal", "publish", "load", "version",
                      "persist", "copy", "store", "merge", "lock", "collect", "head",
                      "working", "appendable", "answer"}
  /\ owner # None => ~At(owner, "idle")
  /\ \A t \in Threads : task[t].at \in {"apply", "collect", "head"} => owner = t

(* In memory: every point that was written is live, or a seal is moving    *)
(* it, or a compaction overwrote the segment that held it; no point whose  *)
(* delete returned is live, unless a seal was moving it when the delete    *)
(* looked for it.                                                          *)
MemoryExact ==
  /\ acked \subseteq Live(mem) \cup Moving \cup races.overwritten
  /\ erased \cap Live(mem) \subseteq races.missed

(* On disk: the same for what open() rebuilds, at every moment at which it *)
(* succeeds (NamedFilesComing says when it does not).  Only rows that were *)
(* on the move when the last checkpoint collected the segments, or         *)
(* overwritten before it, are missing.                                     *)
DiskExact ==
  Opens =>
    /\ acked \subseteq Reopened \cup races.unfolded \cup races.overwritten
    /\ erased \cap Reopened \subseteq races.missed

(* "Any acked write survives a crash": whenever open() succeeds, it        *)
(* rebuilds every acked row, with no exception.                            *)
AckedSurvives == Opens => acked \subseteq Reopened

(* A version contains what was written before its commit was called, and  *)
(* no row deleted before is live in it.  The commit a batch asks for, made *)
(* under the log's mutex, shows exactly the batch and what was written     *)
(* before it.  Three things are excepted.  Rows that another thread's seal *)
(* was moving when the segments were read are missing, even rows of the    *)
(* batch itself, which durable.rs:327 and 381 leave out of account; so are *)
(* rows that a compaction overwrote; and rows that a delete met on the     *)
(* move are shown.                                                         *)
CommitCovers ==
  \A t \in Threads : At(t, "version") =>
    LET shown == Rows(task[t].working) \ mem.dels
        away  == task[t].moving \cup races.overwritten
    IN  /\ task[t].due \subseteq Rows(task[t].working) \cup away \cup mem.dels
        /\ task[t].gone \cap shown \subseteq races.missed
        /\ task[t].explicit =>
             /\ task[t].due \subseteq shown \cup away
             /\ shown \subseteq task[t].due \cup races.missed

(* A search finds every point written before it began: one that was in a   *)
(* sealed segment then, always; one in the appendable, unless a seal took  *)
(* it during the search.  It finds no point deleted before it began.       *)
SearchExact ==
  \A t \in Readers : At(t, "answer") =>
    LET missing == task[t].due \ task[t].found
    IN  /\ missing \cap (task[t].before \cup task[t].after) \subseteq races.overwritten
        /\ task[t].found \cap task[t].gone \subseteq races.missed

(* open() fails only between two steps of overlapping commits: one copied  *)
(* the other's version before that one wrote its segments.  It is about to *)
(* write them, and each named segment without a file is there to be        *)
(* written.                                                                *)
NamedFilesComing ==
  ~Opens =>
    /\ \E t \in Clients : At(t, "persist")
    /\ Named \ files \subseteq SegmentIdsToPersist(mem) \cap DOMAIN mem.segments

(* A version whose commit returned is in the file versions, unless another *)
(* thread overwrote the file with an older copy.                           *)
ReturnedVersionsStored == returned \subseteq Versions(versions) \cup races.clobbered
=============================================================================
