-------------------------- MODULE DurableConcProofs --------------------------
(***************************************************************************)
(* Theorems about DurableConc for any number of clients, readers, calls,   *)
(* ids, segments and versions.  Compaction reads the working set and       *)
(* replaces it later, so two at a time could bring back what the other     *)
(* took out; the server has one maintenance loop.                          *)
(***************************************************************************)
EXTENDS DurableConc, FiniteSetTheorems, TLAPS

OneMaintainer == \A s, t \in Maintainers : s = t

(***************************************************************************)
(* The inductive invariant.  Present are the rows that memory holds        *)
(* somewhere; a row leaves it only with a segment that a compaction        *)
(* overwrites.                                                             *)
(***************************************************************************)
Settled == WorkingRows(mem) \cup Moving
Present == mem.app \cup Settled

SegmentIdsOf(segments) == {s.id : s \in segments}

Shapes ==
  /\ mem = [app |-> mem.app, working |-> mem.working, segments |-> mem.segments,
            dels |-> mem.dels, payloads |-> mem.payloads, vs |-> mem.vs,
            nextId |-> mem.nextId, nextSeg |-> mem.nextSeg]
  /\ races = [overwritten |-> races.overwritten, missed |-> races.missed,
              unfolded |-> races.unfolded, clobbered |-> races.clobbered]
  /\ task = [t \in Threads |-> task[t]]
  /\ mem.nextId \in Nat

(* Ids that were written or deleted are below the allocator.               *)
IdsInv ==
  acked \cup erased \cup mem.dels \cup head.dels \cup log.deletes
    \subseteq 0 .. mem.nextId - 1

(* Memory against what callers were told.                                  *)
RowsInv ==
  /\ acked \cap mem.dels = {}
  /\ acked \subseteq Present \cup races.overwritten
  /\ erased \cap Present \subseteq mem.dels \cup races.missed

(* Memory holds no row that nobody wrote: it is known to callers, or in a  *)
(* batch that is being applied.                                            *)
KnownInv ==
  \A id \in Present :
    \/ id \in acked \cup erased
    \/ \E u \in Threads : At(u, "apply") /\ id \in task[u].new \cup task[u].old

(* The disk against what callers were told.                                *)
DiskInv ==
  /\ acked \cap (head.dels \cup log.deletes) = {}
  /\ acked \subseteq Rows(head.working) \cup log.upserts
                       \cup races.unfolded \cup races.overwritten
  /\ erased \cap (Rows(head.working) \cup log.upserts)
       \subseteq head.dels \cup log.deletes \cup races.missed

(* Segments: what is worked on or named by a version is registered; what   *)
(* HEAD or a version names has its file, or a commit is about to write it. *)
FilesInv ==
  /\ WorkingIds(mem) \cup AllReferenced(mem.vs) \subseteq DOMAIN mem.segments
  /\ mem.vs.next \in Nat /\ Versions(mem.vs) \subseteq 0 .. mem.vs.next - 1
  /\ AllReferenced(versions) \subseteq AllReferenced(mem.vs)
  /\ SegmentIdsOf(head.working) \cup head.all \subseteq files
  /\ AllReferenced(mem.vs) \subseteq files \/ \E t \in Clients : At(t, "persist")
  /\ returned \subseteq Versions(versions) \cup races.clobbered

(***************************************************************************)
(* What each thread knows at its label.                                    *)
(***************************************************************************)

(* A batch under the mutex: its ids are new, its deletes are logged, and   *)
(* what it has applied so far is in memory.                                *)
Applying(t) ==
  At(t, "apply") =>
    /\ owner = t
    /\ task[t] = [at |-> "apply", upserts |-> task[t].upserts,
                  deletes |-> task[t].deletes, new |-> task[t].new,
                  old |-> task[t].old, commit |-> task[t].commit]
    /\ task[t].new \cup task[t].old \subseteq 0 .. mem.nextId - 1
    /\ task[t].upserts \subseteq task[t].new /\ task[t].deletes \subseteq task[t].old
    /\ task[t].new \subseteq log.upserts /\ task[t].old \subseteq log.deletes
    /\ task[t].new \cap (acked \cup erased \cup mem.dels \cup head.dels
                           \cup log.deletes) = {}
    /\ task[t].new \ task[t].upserts \subseteq Present \cup races.overwritten
    /\ (task[t].old \ task[t].deletes) \cap Present \subseteq mem.dels \cup races.missed

(* The commit a batch asks for keeps the mutex, so that nothing is written *)
(* or deleted beside it: what it is due to show stays what was acked.      *)
Explicit(t, step) ==
  step.explicit => owner = t /\ step.due = acked /\ step.gone = erased

(* A seal for a commit moves the rows the commit is due to contain; one    *)
(* for a checkpoint runs under the mutex and leaves the appendable empty.  *)
Sealing(t) ==
  /\ At(t, "seal") \/ At(t, "publish") => task[t].then.at \in {"load", "collect"}
  /\ At(t, "seal") /\ task[t].then.at = "load" =>
       /\ t \in Clients
       /\ task[t].then.due \subseteq Present \cup races.overwritten
       /\ task[t].then.gone \subseteq erased
       /\ Explicit(t, task[t].then)
  /\ At(t, "publish") /\ task[t].then.at = "load" =>
       /\ t \in Clients
       /\ task[t].then.due \subseteq Settled \cup races.overwritten
       /\ task[t].then.gone \subseteq erased
       /\ Explicit(t, task[t].then)
  /\ At(t, "seal") /\ task[t].then.at = "collect" => owner = t
  /\ At(t, "publish") /\ task[t].then.at = "collect" => owner = t /\ mem.app = {}

Committing(t) ==
  /\ At(t, "load") =>
       /\ t \in Clients
       /\ task[t].due \subseteq Settled \cup races.overwritten
       /\ task[t].gone \subseteq erased
       /\ Explicit(t, task[t])
  /\ At(t, "version") =>
       /\ t \in Clients
       /\ task[t].due \subseteq Rows(task[t].working) \cup task[t].moving
                                  \cup races.overwritten
       /\ task[t].gone \cap Rows(task[t].working) \subseteq mem.dels \cup races.missed
       /\ SegmentIdsOf(task[t].working) \subseteq DOMAIN mem.segments
       /\ Explicit(t, task[t])
       /\ task[t].explicit => Rows(task[t].working) \subseteq acked \cup erased
  /\ At(t, "persist") \/ At(t, "copy") => task[t].version \in Versions(mem.vs)
  /\ At(t, "store") =>
       /\ task[t].version \in Versions(task[t].copy)
       /\ AllReferenced(task[t].copy) \subseteq AllReferenced(mem.vs)

Maintaining(t) ==
  /\ At(t, "merge") => t \in Maintainers /\ task[t].loaded \subseteq mem.working
  /\ At(t, "collect") => owner = t /\ mem.app = {}
  /\ At(t, "head") =>
       /\ owner = t
       /\ acked \subseteq Rows(task[t].working) \cup task[t].moving
                            \cup races.overwritten
       /\ erased \cap Rows(task[t].working) \subseteq mem.dels \cup races.missed
       /\ SegmentIdsOf(task[t].working) \cup task[t].all \subseteq files

(* A search knows the tombstones of its start: they hide every point       *)
(* deleted before it and none that was live.                               *)
Searching(t) ==
  /\ At(t, "working") \/ At(t, "appendable") =>
       /\ task[t].due \cap task[t].dels = {}
       /\ task[t].gone \subseteq erased
       /\ task[t].gone \cap Present \subseteq task[t].dels \cup races.missed
  /\ At(t, "working") =>
       task[t].before \subseteq WorkingRows(mem) \cup races.overwritten
  /\ At(t, "appendable") =>
       /\ task[t].due \cap task[t].before \subseteq task[t].found \cup races.overwritten
       /\ task[t].found \cap task[t].gone \subseteq races.missed
  /\ At(t, "answer") =>
       /\ (task[t].due \ task[t].found) \cap (task[t].before \cup task[t].after)
            \subseteq races.overwritten
       /\ task[t].found \cap task[t].gone \subseteq races.missed

ThreadInv(t) ==
  Applying(t) /\ Sealing(t) /\ Committing(t) /\ Maintaining(t) /\ Searching(t)

IInv ==
  /\ Shapes /\ IdsInv /\ RowsInv /\ KnownInv /\ DiskInv /\ FilesInv
  /\ \A t \in Threads : ThreadInv(t)

-----------------------------------------------------------------------------
(***************************************************************************)
(* Operators.                                                              *)
(***************************************************************************)

(* Min, with which a batch is applied in ascending order, picks an element. *)
LEMMA MinInSet ==
  ASSUME NEW S \in SUBSET Nat, S # {}
  PROVE  Min(S) \in S
<1> DEFINE T == {0 .. x : x \in S}
<1>1. T \subseteq FiniteSubsetsOf(Nat) /\ T # {}
  <2>1. \A x \in S : IsFiniteSet(0 .. x)
    BY FS_Interval
  <2>2. \A x \in S : 0 .. x \in SUBSET Nat
    OBVIOUS
  <2>3. QED
    BY <2>1, <2>2 DEF FiniteSubsetsOf
<1>2. PICK s \in T : \A u \in T : ~(<<u, s>> \in StrictSubsetOrdering(Nat))
  BY <1>1, FS_StrictSubsetOrderingWellFounded, WFMin
<1>3. PICK x \in S : s = 0 .. x
  OBVIOUS
<1>4. \A y \in S : x <= y
  <2> SUFFICES ASSUME NEW y \in S, y < x PROVE FALSE
    OBVIOUS
  <2>1. 0 .. y \subseteq 0 .. x /\ x \in 0 .. x /\ x \notin 0 .. y
    OBVIOUS
  <2>2. <<0 .. y, s>> \in StrictSubsetOrdering(Nat)
    BY <2>1, <1>3 DEF StrictSubsetOrdering
  <2>3. QED
    BY <2>2, <1>2
<1>5. QED
  BY <1>4 DEF Min

(* Inserting a row with an allocated id leaves the allocator alone.        *)
LEMMA InsertAllocated ==
  ASSUME NEW m, m.nextId \in Nat, NEW id \in 0 .. m.nextId - 1,
         m = [app |-> m.app, working |-> m.working, segments |-> m.segments,
              dels |-> m.dels, payloads |-> m.payloads, vs |-> m.vs,
              nextId |-> m.nextId, nextSeg |-> m.nextSeg]
  PROVE  Insert(m, {id}) =
           [app |-> m.app \cup {id}, working |-> m.working, segments |-> m.segments,
            dels |-> m.dels, payloads |-> m.payloads \cup {id}, vs |-> m.vs,
            nextId |-> m.nextId, nextSeg |-> m.nextSeg]
<1> DEFINE S == {m.nextId} \cup {i + 1 : i \in {id}}
<1>1. S = {m.nextId, id + 1}
  OBVIOUS
<1>2. Max(S) = m.nextId
  <2>1. \A x \in S : m.nextId >= x
    BY <1>1
  <2>2. \A x \in S : (\A y \in S : x >= y) => x = m.nextId
    BY <1>1
  <2>3. QED
    BY <1>1, <2>1, <2>2 DEF Max
<1>3. Insert(m, {id}) = [m EXCEPT !.app = @ \cup {id}, !.payloads = @ \cup {id},
                                  !.nextId = m.nextId]
  BY <1>2 DEF Insert
<1>4. QED
  BY <1>3

(* A commit adds a version that names the given segments.                  *)
LEMMA CommitAdds ==
  ASSUME NEW s, NEW segments, NEW dels,
         s.next \in Nat, Versions(s) \subseteq 0 .. s.next - 1
  PROVE  LET new == CommitTo(s, {Reference(g) : g \in segments}, dels, None)
         IN  /\ new.next = s.next + 1
             /\ Versions(new) = Versions(s) \cup {s.next}
             /\ AllReferenced(new) = AllReferenced(s) \cup SegmentIdsOf(segments)
<1> DEFINE new == CommitTo(s, {Reference(g) : g \in segments}, dels, None)
<1>1. /\ new.next = s.next + 1
      /\ Versions(new) = Versions(s) \cup {s.next}
      /\ \A v \in Versions(s) : new.commits[v] = s.commits[v]
      /\ SegmentIds(new.commits[s.next]) = SegmentIdsOf(segments)
  <2>1. s.next \notin Versions(s)
    OBVIOUS
  <2>2. new.commits = [v \in Versions(s) \cup {s.next} |->
                         IF v = s.next
                         THEN Manifest(s.head, {Reference(g) : g \in segments}, dels)
                         ELSE s.commits[v]]
    BY DEF CommitTo
  <2>3. SegmentIds(Manifest(s.head, {Reference(g) : g \in segments}, dels))
          = SegmentIdsOf(segments)
    <3> DEFINE refs == {Reference(g) : g \in segments}
    <3>1. \A g \in segments : Reference(g).id = g.id
      BY DEF Reference
    <3>2. {r.id : r \in refs} = {g.id : g \in segments}
      <4> HIDE DEF refs
      <4>1. \A r \in refs : \E g \in segments : r = Reference(g)
        BY DEF refs
      <4>2. \A g \in segments : Reference(g) \in refs
        BY DEF refs
      <4>3. QED
        BY <3>1, <4>1, <4>2
    <3>3. Manifest(s.head, refs, dels).segments = refs
      BY DEF Manifest
    <3>4. QED
      BY <3>2, <3>3 DEF SegmentIds, SegmentIdsOf
  <2>4. new.next = s.next + 1
    BY DEF CommitTo
  <2>5. Versions(new) = Versions(s) \cup {s.next}
    BY <2>2 DEF Versions
  <2>6. QED
    BY <2>1, <2>2, <2>3, <2>4, <2>5
<1>2. AllReferenced(new) = AllReferenced(s) \cup SegmentIdsOf(segments)
  BY <1>1 DEF AllReferenced
<1>3. QED
  BY <1>1, <1>2

(* Registering a segment.                                                  *)
LEMMA RegisterAdds ==
  ASSUME NEW m, NEW s
  PROVE  DOMAIN Register(m, s) = DOMAIN m.segments \cup {s.id}
BY DEF Register

-----------------------------------------------------------------------------
(***************************************************************************)
(* One thread's step, as the others see it.                                *)
(***************************************************************************)

(* What grows, what stays as long as another thread holds the mutex, and   *)
(* where rows may go.                                                      *)
Grows(t) ==
  /\ \A u \in Threads \ {t} : task'[u] = task[u]
  /\ erased \subseteq erased' /\ mem.dels \subseteq mem'.dels
  /\ races.overwritten \subseteq races'.overwritten /\ races.missed \subseteq races'.missed
  /\ WorkingRows(mem) \subseteq WorkingRows(mem)' \cup races'.overwritten
  /\ Settled \subseteq Settled' \cup races'.overwritten
  /\ Present \subseteq Present' \cup races'.overwritten
  /\ Present' \cap erased \subseteq Present
  /\ DOMAIN mem.segments \subseteq DOMAIN mem'.segments /\ files \subseteq files'
  /\ Versions(mem.vs) \subseteq Versions(mem.vs)'
  /\ AllReferenced(mem.vs) \subseteq AllReferenced(mem.vs)'
  /\ mem.working \subseteq mem'.working \/ (t \in Maintainers /\ At(t, "merge"))
  /\ owner \notin {None, t} =>
       /\ owner' = owner /\ mem'.nextId = mem.nextId
       /\ acked' = acked /\ erased' = erased /\ mem'.dels = mem.dels
       /\ log' = log /\ head' = head
       /\ mem'.app \subseteq mem.app /\ Present' \subseteq Present

(* No thread's step spoils what another one knows.                         *)
LEMMA OthersKeep ==
  ASSUME NEW t \in Threads, NEW u \in Threads \ {t},
         OneMaintainer, Grows(t), ThreadInv(u)
  PROVE  ThreadInv(u)'
<1>1. task'[u] = task[u] /\ u # None /\ u # t
  BY ThreadsAssumption DEF Grows, Threads
<1>2. Applying(u)'
  <2> SUFFICES ASSUME At(u, "apply")'
               PROVE  Applying(u)'
    BY DEF Applying
  <2>1. At(u, "apply") /\ owner = u /\ owner \notin {None, t}
    BY <1>1 DEF At, ThreadInv, Applying
  <2>2. task[u].new \ task[u].upserts \subseteq Present' \cup races'.overwritten
    BY <2>1 DEF ThreadInv, Applying, Grows
  <2>3. (task[u].old \ task[u].deletes) \cap Present' \subseteq mem'.dels \cup races'.missed
    BY <2>1 DEF ThreadInv, Applying, Grows
  <2>4. /\ owner' = owner /\ mem'.nextId = mem.nextId /\ acked' = acked
        /\ erased' = erased /\ mem'.dels = mem.dels /\ log' = log /\ head' = head
    BY <2>1 DEF Grows
  <2>5. QED
    BY <1>1, <2>1, <2>2, <2>3, <2>4 DEF ThreadInv, Applying
<1>3. Sealing(u)'
  BY <1>1 DEF ThreadInv, Sealing, Explicit, Grows, At
<1>4. Committing(u)'
  BY <1>1 DEF ThreadInv, Committing, Explicit, Grows, At
<1>5. Maintaining(u)'
  <2>1. At(u, "merge") => u \in Maintainers /\ task[u].loaded \subseteq mem'.working
    BY <1>1 DEF ThreadInv, Maintaining, Grows, OneMaintainer
  <2>2. At(u, "collect") => owner' = u /\ mem'.app = {}
    BY <1>1 DEF ThreadInv, Maintaining, Grows
  <2>3. At(u, "head") =>
          /\ owner' = u
          /\ acked' \subseteq Rows(task[u].working) \cup task[u].moving
                               \cup races'.overwritten
          /\ erased' \cap Rows(task[u].working) \subseteq mem'.dels \cup races'.missed
          /\ SegmentIdsOf(task[u].working) \cup task[u].all \subseteq files'
    BY <1>1 DEF ThreadInv, Maintaining, Grows
  <2>4. QED
    BY <1>1, <2>1, <2>2, <2>3 DEF Maintaining, At
<1>6. Searching(u)'
  BY <1>1 DEF ThreadInv, Searching, Grows, At
<1>7. QED
  BY <1>2, <1>3, <1>4, <1>5, <1>6 DEF ThreadInv

(* What a thread's own step does to the rows on the move.                  *)
LEMMA OnTheMove ==
  ASSUME NEW t \in Threads, NEW step, task = [u \in Threads |-> task[u]],
         task' = [task EXCEPT ![t] = step]
  PROVE  /\ task' = [u \in Threads |-> task'[u]]
         /\ task'[t] = step
         /\ \A u \in Threads \ {t} : task'[u] = task[u]
         /\ ~At(t, "publish") /\ step.at # "publish" => Moving' = Moving
         /\ ~At(t, "publish") /\ step.at = "publish" =>
              Moving' = Moving \cup step.sealed.rows
         /\ At(t, "publish") /\ step.at # "publish" =>
              Moving = Moving' \cup task[t].sealed.rows
<1>1. /\ task' = [u \in Threads |-> task'[u]]
      /\ task'[t] = step
      /\ \A u \in Threads \ {t} : task'[u] = task[u]
  OBVIOUS
<1> DEFINE Others == {u \in Threads \ {t} : task[u].at = "publish"}
           rest   == UNION {task[u].sealed.rows : u \in Others}
<1>2. {u \in Threads : task[u].at = "publish"}
        = IF At(t, "publish") THEN Others \cup {t} ELSE Others
  BY DEF At
<1>3. {u \in Threads : task'[u].at = "publish"}
        = IF step.at = "publish" THEN Others \cup {t} ELSE Others
  BY <1>1
<1>4. \A u \in Others : task'[u] = task[u]
  BY <1>1
<1>5. Moving = IF At(t, "publish") THEN rest \cup task[t].sealed.rows ELSE rest
  <2> HIDE DEF Others
  <2>1. CASE At(t, "publish")
    BY <2>1, <1>2 DEF Moving
  <2>2. CASE ~At(t, "publish")
    BY <2>2, <1>2 DEF Moving
  <2>3. QED
    BY <2>1, <2>2
<1>6. Moving' = IF step.at = "publish" THEN rest \cup step.sealed.rows ELSE rest
  <2>1. rest = UNION {task'[u].sealed.rows : u \in Others}
    BY <1>4
  <2> HIDE DEF Others, rest
  <2>2. Moving' = UNION {task'[u].sealed.rows : u \in {v \in Threads : task'[v].at = "publish"}}
    BY DEF Moving
  <2>3. CASE step.at = "publish"
    BY <2>1, <2>2, <2>3, <1>3, <1>1
  <2>4. CASE step.at # "publish"
    BY <2>1, <2>2, <2>4, <1>3
  <2>5. QED
    BY <2>3, <2>4
<1>7. QED
  BY <1>1, <1>5, <1>6

Common == Shapes /\ IdsInv /\ RowsInv /\ KnownInv /\ DiskInv /\ FilesInv

(* A thread that applies no batch brings no unknown row.                   *)
LEMMA KnownKeeps ==
  ASSUME NEW t \in Threads, KnownInv, ~At(t, "apply"),
         \A u \in Threads \ {t} : task'[u] = task[u],
         Present' \subseteq Present, acked \cup erased \subseteq acked' \cup erased'
  PROVE  KnownInv'
<1> SUFFICES ASSUME NEW id \in Present', id \notin acked' \cup erased'
             PROVE  \E u \in Threads :
                      At(u, "apply")' /\ id \in task'[u].new \cup task'[u].old
  BY DEF KnownInv
<1>1. PICK u \in Threads : At(u, "apply") /\ id \in task[u].new \cup task[u].old
  BY DEF KnownInv
<1>2. u # t /\ task'[u] = task[u]
  BY <1>1
<1>3. QED
  BY <1>1, <1>2 DEF At

Good(t) == Grows(t) /\ Common' /\ ThreadInv(t)'

(* A step that changes neither the collection nor the disk.                *)
LEMMA QuietStep ==
  ASSUME NEW t \in Threads, NEW step, Common,
         task' = [task EXCEPT ![t] = step], UNCHANGED <<mem, disk, history>>,
         ~At(t, "publish"), step.at # "publish", ~At(t, "persist"), ~At(t, "apply"),
         owner \notin {None, t} => owner' = owner
  PROVE  /\ Grows(t) /\ Common' /\ task'[t] = step
         /\ Present' = Present /\ Settled' = Settled
         /\ UNCHANGED <<log, head, versions, files, acked, erased, returned, races>>
<1>1. /\ task' = [u \in Threads |-> task'[u]]
      /\ task'[t] = step
      /\ \A u \in Threads \ {t} : task'[u] = task[u]
      /\ Moving' = Moving
  BY OnTheMove DEF Common, Shapes
<1>2. UNCHANGED <<log, head, versions, files, acked, erased, returned, races>>
  BY DEF disk, history
<1>3. Settled' = Settled /\ Present' = Present /\ WorkingRows(mem)' = WorkingRows(mem)
  BY <1>1 DEF Settled, Present, WorkingRows
<1>4. /\ Versions(mem.vs)' = Versions(mem.vs)
      /\ AllReferenced(mem.vs)' = AllReferenced(mem.vs)
  OBVIOUS
<1>5. Grows(t)
  BY <1>1, <1>2, <1>3, <1>4 DEF Grows
<1>6. Shapes' /\ IdsInv' /\ RowsInv' /\ DiskInv'
  BY <1>1, <1>2, <1>3 DEF Common, Shapes, IdsInv, RowsInv, DiskInv
<1>7. FilesInv'
  <2>1. \A u \in Threads : At(u, "persist") => At(u, "persist")'
    BY <1>1 DEF At
  <2>2. QED
    BY <2>1, <1>2 DEF Common, FilesInv, Threads
<1>8. KnownInv'
  BY <1>1, <1>2, <1>3, KnownKeeps DEF Common
<1>9. QED
  BY <1>1, <1>2, <1>3, <1>5, <1>6, <1>7, <1>8 DEF Common

-----------------------------------------------------------------------------
(***************************************************************************)
(* The steps that change nothing shared: calls that begin, reads.          *)
(***************************************************************************)

LEMMA CommitBegins ==
  ASSUME NEW t \in Clients, Common, Commit(t)
  PROVE  Good(t)
<1> DEFINE step == CommitCall({}, {}, FALSE)
<1>1. t \in Threads /\ step.at = "seal" /\ At(t, "idle")
  BY DEF Threads, CommitCall, Commit, Call
<1>2. task' = [task EXCEPT ![t] = step] /\ UNCHANGED <<mem, owner, disk, history>>
  BY DEF Commit, Call
<1>3. /\ Grows(t) /\ Common' /\ task'[t] = step /\ Present' = Present
      /\ UNCHANGED <<acked, erased, races>>
  <2> HIDE DEF step
  <2>1. QED
    BY <1>1, <1>2, QuietStep DEF At
<1>4. /\ step.then.at = "load" /\ step.then.due = acked /\ step.then.gone = erased
      /\ step.then.explicit = FALSE
  BY DEF CommitCall
<1> HIDE DEF step
<1>5. ThreadInv(t)'
  BY <1>1, <1>3, <1>4 DEF ThreadInv, Applying, Sealing, Committing, Explicit,
     Maintaining, Searching, At, Common, RowsInv
<1>6. QED
  BY <1>3, <1>5 DEF Good

LEMMA CommitLoadStep ==
  ASSUME NEW t \in Threads, Common, CommitLoad(t),
         \A u \in Threads : ThreadInv(u)
  PROVE  Good(t)
<1> DEFINE step == [at |-> "version", working |-> mem.working, moving |-> Moving,
                    explicit |-> task[t].explicit, due |-> task[t].due,
                    gone |-> task[t].gone]
<1>1. task' = [task EXCEPT ![t] = step] /\ UNCHANGED <<mem, owner, disk, history>>
      /\ At(t, "load")
  BY DEF CommitLoad, Goto
<1>2. step.at = "version"
  OBVIOUS
<1>3. /\ Grows(t) /\ Common' /\ task'[t] = step /\ Present' = Present
      /\ UNCHANGED <<acked, erased, races>>
  <2> HIDE DEF step
  <2>1. QED
    BY <1>1, <1>2, QuietStep DEF At
<1>4. /\ Rows(step.working) = WorkingRows(mem) /\ step.moving = Moving
      /\ step.due = task[t].due /\ step.gone = task[t].gone
      /\ SegmentIdsOf(step.working) = WorkingIds(mem)
      /\ step.explicit = task[t].explicit
  BY DEF Rows, WorkingRows, SegmentIdsOf, WorkingIds
<1> HIDE DEF step
<1>5. /\ t \in Clients
      /\ step.due \subseteq WorkingRows(mem) \cup Moving \cup races.overwritten
      /\ step.gone \subseteq erased
      /\ Explicit(t, step)
  BY <1>1, <1>4 DEF ThreadInv, Committing, Explicit, Settled
<1>6. step.gone \cap Rows(step.working) \subseteq mem.dels \cup races.missed
  BY <1>4, <1>5 DEF Common, RowsInv, Present, Settled
<1>7. SegmentIdsOf(step.working) \subseteq DOMAIN mem.segments
  BY <1>4 DEF Common, FilesInv
<1>8. step.explicit => Rows(step.working) \subseteq acked \cup erased
  <2> SUFFICES ASSUME step.explicit
               PROVE  Rows(step.working) \subseteq acked \cup erased
    OBVIOUS
  <2>1. owner = t
    BY <1>5 DEF Explicit
  <2>2. \A u \in Threads : ~At(u, "apply")
    BY <1>1, <2>1 DEF ThreadInv, Applying, At
  <2>3. Present \subseteq acked \cup erased
    BY <2>2 DEF Common, KnownInv
  <2>4. QED
    BY <1>4, <2>3 DEF Present, Settled
<1>9. owner' = owner
  BY <1>1
<1>10. ThreadInv(t)'
  BY <1>1, <1>2, <1>3, <1>4, <1>5, <1>6, <1>7, <1>8, <1>9 DEF ThreadInv,
     Applying, Sealing, Committing, Explicit, Maintaining, Searching, At
<1>11. QED
  BY <1>3, <1>10 DEF Good

LEMMA PersistCopyStep ==
  ASSUME NEW t \in Threads, Common, ThreadInv(t), PersistCopy(t)
  PROVE  Good(t)
<1> DEFINE step == [at |-> "store", version |-> task[t].version, copy |-> mem.vs]
<1>1. /\ task' = [task EXCEPT ![t] = step] /\ UNCHANGED <<mem, owner, disk, history>>
      /\ At(t, "copy")
  BY DEF PersistCopy, Goto
<1>2. step.at = "store" /\ step.version = task[t].version /\ step.copy = mem.vs
  OBVIOUS
<1> HIDE DEF step
<1>3. Grows(t) /\ Common' /\ task'[t] = step
  BY <1>1, <1>2, QuietStep DEF At
<1>4. step.version \in Versions(step.copy)
  BY <1>1, <1>2 DEF ThreadInv, Committing
<1>5. ThreadInv(t)'
  BY <1>1, <1>2, <1>3, <1>4 DEF ThreadInv, Applying, Sealing, Committing,
     Explicit, Maintaining, Searching, At
<1>6. QED
  BY <1>3, <1>5 DEF Good

LEMMA CompactLoadStep ==
  ASSUME NEW t \in Maintainers, Common, CompactLoad(t)
  PROVE  Good(t)
<1> DEFINE step == [at |-> "merge", loaded |-> mem.working]
<1>1. /\ task' = [task EXCEPT ![t] = step] /\ UNCHANGED <<mem, owner, disk, history>>
      /\ At(t, "idle") /\ t \in Threads
  BY DEF CompactLoad, Call, Threads
<1>2. step.at = "merge" /\ step.loaded = mem.working
  OBVIOUS
<1> HIDE DEF step
<1>3. Grows(t) /\ Common' /\ task'[t] = step
  BY <1>1, <1>2, QuietStep DEF At
<1>4. ThreadInv(t)'
  BY <1>1, <1>2, <1>3 DEF ThreadInv, Applying, Sealing, Committing, Explicit,
     Maintaining, Searching, At
<1>5. QED
  BY <1>3, <1>4 DEF Good

LEMMA CheckpointStep ==
  ASSUME NEW t \in Maintainers, Common, Checkpoint(t)
  PROVE  Good(t)
<1> DEFINE step == [at |-> "seal", then |-> [at |-> "collect"]]
<1>1. /\ task' = [task EXCEPT ![t] = step] /\ UNCHANGED <<mem, disk, history>>
      /\ At(t, "idle") \/ At(t, "lock")
      /\ owner = None /\ owner' = t /\ t \in Threads
  BY DEF Checkpoint, Call, Goto, Lock, Threads
<1>2. step.at = "seal" /\ step.then.at = "collect"
  OBVIOUS
<1> HIDE DEF step
<1>3. Grows(t) /\ Common' /\ task'[t] = step
  BY <1>1, <1>2, QuietStep DEF At
<1>4. ThreadInv(t)'
  BY <1>1, <1>2, <1>3 DEF ThreadInv, Applying, Sealing, Committing, Explicit,
     Maintaining, Searching, At
<1>5. QED
  BY <1>3, <1>4 DEF Good

LEMMA SearchStartStep ==
  ASSUME NEW t \in Readers, Common, SearchStart(t)
  PROVE  Good(t)
<1> DEFINE step == [at |-> "working", dels |-> mem.dels, due |-> acked, gone |-> erased,
                    before |-> WorkingRows(mem)]
<1>1. /\ task' = [task EXCEPT ![t] = step] /\ UNCHANGED <<mem, owner, disk, history>>
      /\ At(t, "idle") /\ t \in Threads
  BY DEF SearchStart, Call, Threads
<1>2. /\ step.at = "working" /\ step.dels = mem.dels /\ step.due = acked
      /\ step.gone = erased /\ step.before = WorkingRows(mem)
  OBVIOUS
<1> HIDE DEF step
<1>3. /\ Grows(t) /\ Common' /\ task'[t] = step /\ Present' = Present
      /\ UNCHANGED <<acked, erased, races>>
  BY <1>1, <1>2, QuietStep DEF At
<1>4. /\ step.due \cap step.dels = {}
      /\ step.gone \cap Present \subseteq step.dels \cup races.missed
  BY <1>2 DEF Common, RowsInv
<1>5. ThreadInv(t)'
  BY <1>1, <1>2, <1>3, <1>4 DEF ThreadInv, Applying, Sealing, Committing,
     Explicit, Maintaining, Searching, At
<1>6. QED
  BY <1>3, <1>5 DEF Good

LEMMA SearchWorkingStep ==
  ASSUME NEW t \in Threads, Common, ThreadInv(t), SearchWorking(t)
  PROVE  Good(t)
<1> DEFINE step == [at |-> "appendable", dels |-> task[t].dels, due |-> task[t].due,
                    gone |-> task[t].gone, before |-> task[t].before,
                    found |-> WorkingRows(mem) \ task[t].dels]
<1>1. /\ task' = [task EXCEPT ![t] = step] /\ UNCHANGED <<mem, owner, disk, history>>
      /\ At(t, "working")
  BY DEF SearchWorking, Goto
<1>2. /\ step.at = "appendable" /\ step.dels = task[t].dels /\ step.due = task[t].due
      /\ step.gone = task[t].gone /\ step.before = task[t].before
      /\ step.found = WorkingRows(mem) \ task[t].dels
  OBVIOUS
<1> HIDE DEF step
<1>3. /\ Grows(t) /\ Common' /\ task'[t] = step /\ Present' = Present
      /\ UNCHANGED <<acked, erased, races>>
  BY <1>1, <1>2, QuietStep DEF At
<1>4. /\ step.due \cap step.dels = {}
      /\ step.gone \subseteq erased
      /\ step.gone \cap Present \subseteq step.dels \cup races.missed
      /\ step.before \subseteq WorkingRows(mem) \cup races.overwritten
  BY <1>1, <1>2 DEF ThreadInv, Searching
<1>5. step.due \cap step.before \subseteq step.found \cup races.overwritten
  BY <1>2, <1>4
<1>6. step.found \cap step.gone \subseteq races.missed
  BY <1>2, <1>4 DEF Present, Settled
<1>7. ThreadInv(t)'
  BY <1>1, <1>2, <1>3, <1>4, <1>5, <1>6 DEF ThreadInv, Applying, Sealing,
     Committing, Explicit, Maintaining, Searching, At
<1>8. QED
  BY <1>3, <1>7 DEF Good

LEMMA SearchAppendableStep ==
  ASSUME NEW t \in Threads, Common, ThreadInv(t), SearchAppendable(t)
  PROVE  Good(t)
<1> DEFINE step == Answer(t, task[t].found \cup (mem.app \ task[t].dels))
<1>1. /\ task' = [task EXCEPT ![t] = step] /\ UNCHANGED <<mem, owner, disk, history>>
      /\ At(t, "appendable")
  BY DEF SearchAppendable, Goto
<1>2. /\ step.at = "answer" /\ step.due = task[t].due /\ step.gone = task[t].gone
      /\ step.before = task[t].before /\ step.after = mem.app
      /\ step.found = task[t].found \cup (mem.app \ task[t].dels)
  BY DEF Answer
<1> HIDE DEF step
<1>3. /\ Grows(t) /\ Common' /\ task'[t] = step /\ UNCHANGED <<acked, erased, races>>
  BY <1>1, <1>2, QuietStep DEF At
<1>4. /\ task[t].due \cap task[t].dels = {}
      /\ task[t].gone \cap Present \subseteq task[t].dels \cup races.missed
      /\ task[t].due \cap task[t].before \subseteq task[t].found \cup races.overwritten
      /\ task[t].found \cap task[t].gone \subseteq races.missed
  BY <1>1 DEF ThreadInv, Searching
<1>5. (step.due \ step.found) \cap (step.before \cup step.after) \subseteq races.overwritten
  BY <1>2, <1>4
<1>6. step.found \cap step.gone \subseteq races.missed
  BY <1>2, <1>4 DEF Present
<1>7. ThreadInv(t)'
  BY <1>1, <1>2, <1>3, <1>5, <1>6 DEF ThreadInv, Applying, Sealing,
     Committing, Explicit, Maintaining, Searching, At
<1>8. QED
  BY <1>3, <1>7 DEF Good

LEMMA SearchAnswerStep ==
  ASSUME NEW t \in Threads, Common, SearchAnswer(t)
  PROVE  Good(t)
<1>1. /\ task' = [task EXCEPT ![t] = Idle] /\ UNCHANGED <<mem, owner, disk, history>>
      /\ At(t, "answer")
  BY DEF SearchAnswer, Goto
<1>2. Idle.at = "idle"
  BY DEF Idle
<1>3. Grows(t) /\ Common' /\ task'[t] = Idle
  BY <1>1, <1>2, QuietStep DEF At
<1>4. ThreadInv(t)'
  BY <1>2, <1>3 DEF ThreadInv, Applying, Sealing, Committing, Explicit,
     Maintaining, Searching, At
<1>5. QED
  BY <1>3, <1>4 DEF Good

-----------------------------------------------------------------------------
(***************************************************************************)
(* Batches.                                                                *)
(***************************************************************************)
LEMMA WriteBatchStep ==
  ASSUME NEW t \in Clients, NEW n \in Nat, NEW deletes \in SUBSET Ids,
         NEW commit \in BOOLEAN, Common, WriteBatch(t, n, deletes, commit)
  PROVE  Good(t)
<1> DEFINE upserts == mem.nextId .. mem.nextId + n - 1
           step == [at |-> "apply", upserts |-> upserts, deletes |-> deletes,
                    new |-> upserts, old |-> deletes, commit |-> commit]
<1>1. /\ t \in Threads /\ At(t, "idle")
      /\ deletes \subseteq acked /\ owner = None /\ owner' = t
      /\ mem' = [mem EXCEPT !.nextId = @ + n]
      /\ log' = [upserts |-> log.upserts \cup upserts,
                 deletes |-> log.deletes \cup deletes]
      /\ task' = [task EXCEPT ![t] = step]
      /\ acked' = acked \ deletes
      /\ UNCHANGED <<head, versions, files, erased, returned, races>>
  BY DEF WriteBatch, Call, Lock, Threads
<1>2. /\ mem' = [app |-> mem.app, working |-> mem.working, segments |-> mem.segments,
                 dels |-> mem.dels, payloads |-> mem.payloads, vs |-> mem.vs,
                 nextId |-> mem.nextId + n, nextSeg |-> mem.nextSeg]
      /\ mem.nextId \in Nat
  BY <1>1 DEF Common, Shapes
<1>3. upserts \cap (0 .. mem.nextId - 1) = {} /\ upserts \subseteq 0 .. mem.nextId + n - 1
      /\ 0 .. mem.nextId - 1 \subseteq 0 .. mem.nextId + n - 1
  BY <1>2
<1>4. /\ step.at = "apply" /\ step.upserts = upserts /\ step.deletes = deletes
      /\ step.new = upserts /\ step.old = deletes
      /\ step = [at |-> "apply", upserts |-> step.upserts, deletes |-> step.deletes,
                 new |-> step.new, old |-> step.old, commit |-> step.commit]
  OBVIOUS
<1> HIDE DEF step, upserts
<1>5. /\ task' = [u \in Threads |-> task'[u]] /\ task'[t] = step /\ Moving' = Moving
      /\ \A u \in Threads \ {t} : task'[u] = task[u]
  BY <1>1, <1>4, OnTheMove DEF Common, Shapes, At
<1>6. Settled' = Settled /\ Present' = Present /\ WorkingRows(mem)' = WorkingRows(mem)
  BY <1>2, <1>5 DEF Settled, Present, WorkingRows
<1>7. WorkingIds(mem)' = WorkingIds(mem)
  BY <1>2 DEF WorkingIds
<1>8. /\ Versions(mem.vs)' = Versions(mem.vs)
      /\ AllReferenced(mem.vs)' = AllReferenced(mem.vs)
      /\ AllReferenced(versions)' = AllReferenced(versions)
      /\ Versions(versions)' = Versions(versions)
  BY <1>1, <1>2
<1>9. Grows(t)
  BY <1>1, <1>2, <1>5, <1>6, <1>8 DEF Grows
<1>10. Shapes'
  BY <1>1, <1>2, <1>5 DEF Common, Shapes
<1>11. IdsInv'
  BY <1>1, <1>2, <1>3 DEF Common, IdsInv
<1>12. RowsInv'
  BY <1>1, <1>2, <1>6 DEF Common, RowsInv
<1>13. DiskInv'
  <2>1. upserts \cap erased = {}
    BY <1>3 DEF Common, IdsInv
  <2>2. log'.upserts = log.upserts \cup upserts /\ log'.deletes = log.deletes \cup deletes
    BY <1>1
  <2>3. QED
    BY <1>1, <2>1, <2>2 DEF Common, DiskInv
<1>14. FilesInv'
  <2>1. \A u \in Threads : At(u, "persist") => At(u, "persist")'
    BY <1>1, <1>5 DEF At
  <2>2. QED
    BY <2>1, <1>1, <1>2, <1>7, <1>8 DEF Common, FilesInv, Threads
<1>15. Applying(t)'
  <2>1. upserts \cap (acked' \cup erased' \cup mem'.dels \cup head'.dels \cup log'.deletes) = {}
    BY <1>1, <1>2, <1>3 DEF Common, IdsInv
  <2>2. deletes \subseteq 0 .. mem'.nextId - 1
    BY <1>1, <1>2, <1>3 DEF Common, IdsInv
  <2>3. upserts \subseteq 0 .. mem'.nextId - 1
    BY <1>2, <1>3
  <2>4. QED
    BY <1>1, <1>4, <1>5, <2>1, <2>2, <2>3 DEF Applying
<1>16. ThreadInv(t)'
  BY <1>4, <1>5, <1>15 DEF ThreadInv, Sealing, Committing, Explicit,
     Maintaining, Searching, At
<1>17. KnownInv'
  <2> SUFFICES ASSUME NEW id \in Present', id \notin acked' \cup erased'
               PROVE  \E u \in Threads :
                        At(u, "apply")' /\ id \in task'[u].new \cup task'[u].old
    BY DEF KnownInv
  <2>1. CASE id \in acked
    BY <1>1, <1>4, <1>5, <2>1 DEF At
  <2>2. CASE id \notin acked
    <3>1. PICK u \in Threads : At(u, "apply") /\ id \in task[u].new \cup task[u].old
      BY <1>1, <1>6, <2>2 DEF Common, KnownInv
    <3>2. u # t
      BY <1>1, <3>1 DEF At
    <3>3. QED
      BY <1>5, <3>1, <3>2 DEF At
  <2>3. QED
    BY <2>1, <2>2
<1>18. QED
  BY <1>9, <1>10, <1>11, <1>12, <1>13, <1>14, <1>16, <1>17 DEF Good, Common

LEMMA ApplyDeleteStep ==
  ASSUME NEW t \in Threads, Common, ThreadInv(t), ApplyDelete(t)
  PROVE  Good(t)
<1> DEFINE id == Min(task[t].deletes)
           step == [task[t] EXCEPT !.deletes = @ \ {id}]
           buried == {id} \cap (mem.app \cup WorkingRows(mem))
<1>1. /\ At(t, "apply") /\ task[t].deletes # {}
      /\ mem' = [mem EXCEPT !.dels = @ \cup buried]
      /\ races' = [races EXCEPT !.missed = @ \cup ({id} \cap Moving)]
      /\ task' = [task EXCEPT ![t] = step]
      /\ UNCHANGED <<owner, log, head, versions, files, acked, erased, returned>>
  BY DEF ApplyDelete, Delete, Goto, disk
<1>2. Applying(t) /\ owner = t
  BY <1>1 DEF ThreadInv, Applying
<1>3. id \in task[t].deletes
  <2>1. task[t].deletes \in SUBSET Nat
    BY <1>1, <1>2 DEF Applying
  <2>2. QED
    BY <1>1, <2>1, MinInSet
<1> HIDE DEF id
<1>4. mem' = [app |-> mem.app, working |-> mem.working, segments |-> mem.segments,
              dels |-> mem.dels \cup buried, payloads |-> mem.payloads, vs |-> mem.vs,
              nextId |-> mem.nextId, nextSeg |-> mem.nextSeg]
  BY <1>1 DEF Common, Shapes
<1>5. races' = [overwritten |-> races.overwritten,
                missed |-> races.missed \cup ({id} \cap Moving),
                unfolded |-> races.unfolded, clobbered |-> races.clobbered]
  BY <1>1 DEF Common, Shapes
<1>6. /\ step.at = "apply" /\ step.upserts = task[t].upserts
      /\ step.deletes = task[t].deletes \ {id}
      /\ step.new = task[t].new /\ step.old = task[t].old
      /\ step = [at |-> "apply", upserts |-> step.upserts, deletes |-> step.deletes,
                 new |-> step.new, old |-> step.old, commit |-> step.commit]
  <2>1. \A u, d, n, o, c :
          [[at |-> "apply", upserts |-> u, deletes |-> d, new |-> n, old |-> o,
            commit |-> c] EXCEPT !.deletes = @ \ {id}]
            = [at |-> "apply", upserts |-> u, deletes |-> d \ {id}, new |-> n,
               old |-> o, commit |-> c]
    OBVIOUS
  <2>2. task[t] = [at |-> "apply", upserts |-> task[t].upserts,
                   deletes |-> task[t].deletes, new |-> task[t].new,
                   old |-> task[t].old, commit |-> task[t].commit]
    BY <1>1, <1>2 DEF Applying
  <2>3. step = [at |-> "apply", upserts |-> task[t].upserts,
                deletes |-> task[t].deletes \ {id}, new |-> task[t].new,
                old |-> task[t].old, commit |-> task[t].commit]
    BY <2>1, <2>2
  <2>4. QED
    BY <2>3
<1> HIDE DEF step
<1>7. /\ task' = [u \in Threads |-> task'[u]] /\ task'[t] = step /\ Moving' = Moving
      /\ \A u \in Threads \ {t} : task'[u] = task[u]
  BY <1>1, <1>6, OnTheMove DEF Common, Shapes, At
<1>8. Settled' = Settled /\ Present' = Present /\ WorkingRows(mem)' = WorkingRows(mem)
  BY <1>4, <1>7 DEF Settled, Present, WorkingRows
<1>9. WorkingIds(mem)' = WorkingIds(mem)
  BY <1>4 DEF WorkingIds
<1>10. /\ Versions(mem.vs)' = Versions(mem.vs)
       /\ AllReferenced(mem.vs)' = AllReferenced(mem.vs)
       /\ AllReferenced(versions)' = AllReferenced(versions)
       /\ Versions(versions)' = Versions(versions)
  BY <1>1, <1>4
<1>11. Grows(t)
  BY <1>1, <1>2, <1>4, <1>5, <1>7, <1>8, <1>10 DEF Grows
<1>12. /\ id \in task[t].old /\ id \in log.deletes /\ id \in 0 .. mem.nextId - 1
       /\ id \notin task[t].new
  BY <1>1, <1>2, <1>3 DEF Applying
<1>13. Shapes'
  BY <1>4, <1>5, <1>7 DEF Common, Shapes
<1>14. IdsInv'
  BY <1>1, <1>4, <1>12 DEF Common, IdsInv
<1>15. RowsInv'
  <2>1. id \notin acked
    BY <1>12 DEF Common, DiskInv
  <2>2. QED
    BY <1>1, <1>4, <1>5, <1>8, <2>1 DEF Common, RowsInv
<1>16. DiskInv'
  BY <1>1, <1>5 DEF Common, DiskInv
<1>17. FilesInv'
  <2>1. \A u \in Threads : At(u, "persist") => At(u, "persist")'
    BY <1>1, <1>7 DEF At
  <2>2. QED
    BY <2>1, <1>1, <1>4, <1>5, <1>9, <1>10 DEF Common, FilesInv, Threads
<1>18. Applying(t)'
  <2>1. task[t].new \cap (acked' \cup erased' \cup mem'.dels \cup head'.dels
                            \cup log'.deletes) = {}
    BY <1>1, <1>2, <1>4, <1>12 DEF Applying
  <2>2. (task[t].old \ step.deletes) \cap Present' \subseteq mem'.dels \cup races'.missed
    <3>1. (task[t].old \ task[t].deletes) \cap Present \subseteq mem.dels \cup races.missed
      BY <1>1, <1>2 DEF Applying
    <3>2. {id} \cap Present \subseteq mem'.dels \cup races'.missed
      BY <1>4, <1>5 DEF Present, Settled
    <3>3. QED
      BY <1>4, <1>5, <1>6, <1>8, <3>1, <3>2
  <2>3. task[t].new \ step.upserts \subseteq Present' \cup races'.overwritten
    BY <1>1, <1>2, <1>5, <1>6, <1>8 DEF Applying
  <2>4. /\ task[t].new \cup task[t].old \subseteq 0 .. mem'.nextId - 1
        /\ step.upserts \subseteq task[t].new /\ step.deletes \subseteq task[t].old
        /\ task[t].new \subseteq log'.upserts /\ task[t].old \subseteq log'.deletes
    BY <1>1, <1>2, <1>4, <1>6 DEF Applying
  <2>5. QED
    BY <1>1, <1>2, <1>6, <1>7, <2>1, <2>2, <2>3, <2>4 DEF Applying
<1>19. ThreadInv(t)'
  BY <1>6, <1>7, <1>18 DEF ThreadInv, Sealing, Committing, Explicit,
     Maintaining, Searching, At
<1>20. KnownInv'
  BY <1>1, <1>6, <1>7, <1>8 DEF Common, KnownInv, At
<1>21. QED
  BY <1>11, <1>13, <1>14, <1>15, <1>16, <1>17, <1>19, <1>20 DEF Good, Common

LEMMA ApplyUpsertStep ==
  ASSUME NEW t \in Threads, Common, ThreadInv(t), ApplyUpsert(t)
  PROVE  Good(t)
<1> DEFINE id == Min(task[t].upserts)
           step == [task[t] EXCEPT !.upserts = @ \ {id}]
<1>0. mem' = Insert(mem, {id})
  BY DEF ApplyUpsert
<1>1. /\ At(t, "apply") /\ task[t].upserts # {}
      /\ task' = [task EXCEPT ![t] = step]
      /\ UNCHANGED <<owner, log, head, versions, files, acked, erased, returned, races>>
  BY DEF ApplyUpsert, Goto, disk, history
<1>2. Applying(t) /\ owner = t
  BY <1>1 DEF ThreadInv, Applying
<1>3. id \in task[t].upserts
  <2>1. task[t].upserts \in SUBSET Nat
    BY <1>1, <1>2 DEF Applying
  <2>2. QED
    BY <1>1, <2>1, MinInSet
<1> HIDE DEF id
<1>4. /\ id \in task[t].new /\ id \in log.upserts /\ id \in 0 .. mem.nextId - 1
      /\ id \notin erased /\ id \notin task[t].old
  BY <1>1, <1>2, <1>3 DEF Applying
<1>5. mem' = [app |-> mem.app \cup {id}, working |-> mem.working,
              segments |-> mem.segments, dels |-> mem.dels,
              payloads |-> mem.payloads \cup {id}, vs |-> mem.vs,
              nextId |-> mem.nextId, nextSeg |-> mem.nextSeg]
  BY <1>0, <1>4, InsertAllocated DEF Common, Shapes
<1>6. /\ step.at = "apply" /\ step.upserts = task[t].upserts \ {id}
      /\ step.deletes = task[t].deletes
      /\ step.new = task[t].new /\ step.old = task[t].old
      /\ step = [at |-> "apply", upserts |-> step.upserts, deletes |-> step.deletes,
                 new |-> step.new, old |-> step.old, commit |-> step.commit]
  <2>1. \A u, d, n, o, c :
          [[at |-> "apply", upserts |-> u, deletes |-> d, new |-> n, old |-> o,
            commit |-> c] EXCEPT !.upserts = @ \ {id}]
            = [at |-> "apply", upserts |-> u \ {id}, deletes |-> d, new |-> n,
               old |-> o, commit |-> c]
    OBVIOUS
  <2>2. task[t] = [at |-> "apply", upserts |-> task[t].upserts,
                   deletes |-> task[t].deletes, new |-> task[t].new,
                   old |-> task[t].old, commit |-> task[t].commit]
    BY <1>1, <1>2 DEF Applying
  <2>3. step = [at |-> "apply", upserts |-> task[t].upserts \ {id},
                deletes |-> task[t].deletes, new |-> task[t].new,
                old |-> task[t].old, commit |-> task[t].commit]
    BY <2>1, <2>2
  <2>4. QED
    BY <2>3
<1> HIDE DEF step
<1>7. /\ task' = [u \in Threads |-> task'[u]] /\ task'[t] = step /\ Moving' = Moving
      /\ \A u \in Threads \ {t} : task'[u] = task[u]
  BY <1>1, <1>6, OnTheMove DEF Common, Shapes, At
<1>8. /\ Settled' = Settled /\ Present' = Present \cup {id}
      /\ WorkingRows(mem)' = WorkingRows(mem)
  BY <1>5, <1>7 DEF Settled, Present, WorkingRows
<1>9. WorkingIds(mem)' = WorkingIds(mem)
  BY <1>5 DEF WorkingIds
<1>10. /\ Versions(mem.vs)' = Versions(mem.vs)
       /\ AllReferenced(mem.vs)' = AllReferenced(mem.vs)
       /\ AllReferenced(versions)' = AllReferenced(versions)
       /\ Versions(versions)' = Versions(versions)
  BY <1>1, <1>5
<1>11. Grows(t)
  BY <1>1, <1>2, <1>4, <1>5, <1>7, <1>8, <1>10 DEF Grows
<1>12. Shapes'
  BY <1>1, <1>5, <1>7 DEF Common, Shapes
<1>13. IdsInv' /\ RowsInv' /\ DiskInv'
  BY <1>1, <1>4, <1>5, <1>8 DEF Common, IdsInv, RowsInv, DiskInv
<1>14. FilesInv'
  <2>1. \A u \in Threads : At(u, "persist") => At(u, "persist")'
    BY <1>1, <1>7 DEF At
  <2>2. QED
    BY <2>1, <1>1, <1>5, <1>9, <1>10 DEF Common, FilesInv, Threads
<1>15. Applying(t)'
  <2>1. (task[t].old \ step.deletes) \cap Present' \subseteq mem'.dels \cup races'.missed
    BY <1>1, <1>2, <1>4, <1>5, <1>6, <1>8 DEF Applying
  <2>2. task[t].new \ step.upserts \subseteq Present' \cup races'.overwritten
    BY <1>1, <1>2, <1>6, <1>8 DEF Applying
  <2>3. /\ task[t].new \cup task[t].old \subseteq 0 .. mem'.nextId - 1
        /\ step.upserts \subseteq task[t].new /\ step.deletes \subseteq task[t].old
        /\ task[t].new \subseteq log'.upserts /\ task[t].old \subseteq log'.deletes
        /\ task[t].new \cap (acked' \cup erased' \cup mem'.dels \cup head'.dels
                               \cup log'.deletes) = {}
    BY <1>1, <1>2, <1>5, <1>6 DEF Applying
  <2>4. QED
    BY <1>1, <1>2, <1>6, <1>7, <2>1, <2>2, <2>3 DEF Applying
<1>16. ThreadInv(t)'
  BY <1>6, <1>7, <1>15 DEF ThreadInv, Sealing, Committing, Explicit,
     Maintaining, Searching, At
<1>17. KnownInv'
  <2>1. At(t, "apply")' /\ id \in task'[t].new
    BY <1>4, <1>6, <1>7 DEF At
  <2>2. \A u \in Threads : At(u, "apply") =>
          At(u, "apply")' /\ task'[u].new = task[u].new /\ task'[u].old = task[u].old
    BY <1>6, <1>7 DEF At
  <2>3. QED
    BY <1>1, <1>8, <2>1, <2>2 DEF Common, KnownInv
<1>18. QED
  BY <1>11, <1>12, <1>13, <1>14, <1>16, <1>17 DEF Good, Common

LEMMA FinishWriteStep ==
  ASSUME NEW t \in Clients, NEW auto \in BOOLEAN, Common, ThreadInv(t),
         FinishWrite(t, auto)
  PROVE  Good(t)
<1> DEFINE step == IF task[t].commit \/ auto
                   THEN CommitCall(task[t].new, task[t].old, task[t].commit) ELSE Idle
<1>1. /\ At(t, "apply") /\ task[t].deletes = {} /\ task[t].upserts = {} /\ t \in Threads
      /\ acked' = acked \cup task[t].new
      /\ erased' = erased \cup task[t].old
      /\ owner' = IF task[t].commit THEN owner ELSE None
      /\ task' = [task EXCEPT ![t] = step]
      /\ UNCHANGED <<mem, log, head, versions, files, returned, races>>
  BY DEF FinishWrite, Goto, disk, Threads
<1>2. /\ owner = t
      /\ task[t].new \cup task[t].old \subseteq 0 .. mem.nextId - 1
      /\ task[t].new \subseteq log.upserts /\ task[t].old \subseteq log.deletes
      /\ task[t].new \cap (acked \cup erased \cup mem.dels \cup head.dels
                             \cup log.deletes) = {}
      /\ task[t].new \subseteq Present \cup races.overwritten
      /\ task[t].old \cap Present \subseteq mem.dels \cup races.missed
  BY <1>1 DEF ThreadInv, Applying
<1>3. \/ step.at = "idle"
      \/ /\ step.at = "seal" /\ step.then.at = "load"
         /\ step.then.due = acked' /\ step.then.gone = erased'
         /\ step.then.explicit = task[t].commit
  BY <1>1 DEF CommitCall, Idle
<1> HIDE DEF step
<1>4. /\ task' = [u \in Threads |-> task'[u]] /\ task'[t] = step /\ Moving' = Moving
      /\ \A u \in Threads \ {t} : task'[u] = task[u]
  BY <1>1, <1>3, OnTheMove DEF Common, Shapes, At
<1>5. Settled' = Settled /\ Present' = Present /\ WorkingRows(mem)' = WorkingRows(mem)
  BY <1>1, <1>4 DEF Settled, Present, WorkingRows
<1>6. /\ Versions(mem.vs)' = Versions(mem.vs)
      /\ AllReferenced(mem.vs)' = AllReferenced(mem.vs)
  BY <1>1
<1>7. Grows(t)
  BY <1>1, <1>2, <1>4, <1>5, <1>6 DEF Grows
<1>8. Shapes'
  BY <1>1, <1>4 DEF Common, Shapes
<1>9. IdsInv' /\ RowsInv' /\ DiskInv'
  BY <1>1, <1>2, <1>5 DEF Common, IdsInv, RowsInv, DiskInv
<1>10. FilesInv'
  <2>1. \A u \in Threads : At(u, "persist") => At(u, "persist")'
    BY <1>1, <1>4 DEF At
  <2>2. QED
    BY <2>1, <1>1 DEF Common, FilesInv, Threads
<1>11. ThreadInv(t)'
  BY <1>1, <1>2, <1>3, <1>4, <1>9 DEF ThreadInv, Applying, Sealing,
     Committing, Explicit, Maintaining, Searching, At, RowsInv
<1>12. KnownInv'
  <2> SUFFICES ASSUME NEW id \in Present', id \notin acked' \cup erased'
               PROVE  \E u \in Threads :
                        At(u, "apply")' /\ id \in task'[u].new \cup task'[u].old
    BY DEF KnownInv
  <2>1. PICK u \in Threads : At(u, "apply") /\ id \in task[u].new \cup task[u].old
    BY <1>1, <1>5 DEF Common, KnownInv
  <2>2. u # t
    BY <1>1, <2>1
  <2>3. QED
    BY <1>4, <2>1, <2>2 DEF At
<1>13. QED
  BY <1>7, <1>8, <1>9, <1>10, <1>11, <1>12 DEF Good, Common

-----------------------------------------------------------------------------
(***************************************************************************)
(* Seals.                                                                  *)
(***************************************************************************)
LEMMA SealTakeStep ==
  ASSUME NEW t \in Threads, Common, ThreadInv(t), SealTake(t)
  PROVE  Good(t)
<1>1. /\ At(t, "seal") /\ task[t].then.at \in {"load", "collect"}
      /\ UNCHANGED <<owner, disk, history>>
  BY DEF SealTake, ThreadInv, Sealing
<1>2. /\ task[t].then.at = "load" =>
           /\ t \in Clients
           /\ task[t].then.due \subseteq Present \cup races.overwritten
           /\ task[t].then.gone \subseteq erased
           /\ Explicit(t, task[t].then)
      /\ task[t].then.at = "collect" => owner = t
  BY <1>1 DEF ThreadInv, Sealing
<1>3. CASE mem.app = {}
  <2>1. task' = [task EXCEPT ![t] = task[t].then] /\ mem' = mem
    BY <1>3 DEF SealTake, Goto
  <2>2. /\ Grows(t) /\ Common' /\ task'[t] = task[t].then /\ Settled' = Settled
        /\ UNCHANGED <<acked, erased, races, owner>>
    BY <1>1, <2>1, QuietStep DEF At
  <2>3. Present = Settled
    BY <1>3 DEF Present
  <2>4. ThreadInv(t)'
    BY <1>1, <1>2, <1>3, <2>1, <2>2, <2>3 DEF ThreadInv, Applying, Sealing,
       Committing, Explicit, Maintaining, Searching, At
  <2>5. QED
    BY <2>2, <2>4 DEF Good
<1>4. CASE mem.app # {}
  <2> DEFINE step == [at |-> "publish", sealed |-> Segment(mem.nextSeg, mem.app),
                      then |-> task[t].then]
  <2>1. /\ mem' = [mem EXCEPT !.app = {}, !.nextSeg = @ + 1]
        /\ task' = [task EXCEPT ![t] = step]
    BY <1>4 DEF SealTake, Goto
  <2>2. step.at = "publish" /\ step.sealed.rows = mem.app /\ step.then = task[t].then
    BY DEF Segment
  <2> HIDE DEF step
  <2>3. /\ UNCHANGED <<owner, log, head, versions, files, acked, erased, returned, races>>
    BY <1>1 DEF disk, history
  <2>4. mem' = [app |-> {}, working |-> mem.working, segments |-> mem.segments,
                dels |-> mem.dels, payloads |-> mem.payloads, vs |-> mem.vs,
                nextId |-> mem.nextId, nextSeg |-> mem.nextSeg + 1]
    BY <2>1 DEF Common, Shapes
  <2>5. /\ task' = [u \in Threads |-> task'[u]] /\ task'[t] = step
        /\ Moving' = Moving \cup mem.app
        /\ \A u \in Threads \ {t} : task'[u] = task[u]
    BY <1>1, <2>1, <2>2, OnTheMove DEF Common, Shapes, At
  <2>6. /\ Settled' = Settled \cup mem.app /\ Present' = Present /\ Settled' = Present
        /\ WorkingRows(mem)' = WorkingRows(mem)
    BY <2>4, <2>5 DEF Settled, Present, WorkingRows
  <2>7. WorkingIds(mem)' = WorkingIds(mem)
    BY <2>4 DEF WorkingIds
  <2>8. /\ Versions(mem.vs)' = Versions(mem.vs)
        /\ AllReferenced(mem.vs)' = AllReferenced(mem.vs)
        /\ AllReferenced(versions)' = AllReferenced(versions)
        /\ Versions(versions)' = Versions(versions)
    BY <2>3, <2>4
  <2>9. Grows(t)
    BY <2>3, <2>4, <2>5, <2>6, <2>8 DEF Grows
  <2>10. Shapes' /\ IdsInv' /\ RowsInv' /\ DiskInv'
    BY <2>3, <2>4, <2>5, <2>6 DEF Common, Shapes, IdsInv, RowsInv, DiskInv
  <2>11. FilesInv'
    <3>1. \A u \in Threads : At(u, "persist") => At(u, "persist")'
      BY <1>1, <2>5 DEF At
    <3>2. QED
      BY <3>1, <2>3, <2>4, <2>7, <2>8 DEF Common, FilesInv, Threads
  <2>12. ThreadInv(t)'
    BY <1>1, <1>2, <2>2, <2>3, <2>4, <2>5, <2>6 DEF ThreadInv, Applying,
       Sealing, Committing, Explicit, Maintaining, Searching, At
  <2>13. KnownInv'
    BY <1>1, <2>3, <2>5, <2>6, KnownKeeps DEF Common, At
  <2>14. QED
    BY <2>9, <2>10, <2>11, <2>12, <2>13 DEF Good, Common
<1>5. QED
  BY <1>3, <1>4

LEMMA SealPublishStep ==
  ASSUME NEW t \in Threads, Common, ThreadInv(t), SealPublish(t)
  PROVE  Good(t)
<1> DEFINE sealed == task[t].sealed
<1>1. /\ At(t, "publish") /\ task[t].then.at \in {"load", "collect"}
      /\ mem' = [mem EXCEPT !.segments = Register(mem, sealed), !.working = @ \cup {sealed}]
      /\ task' = [task EXCEPT ![t] = task[t].then]
      /\ UNCHANGED <<owner, log, head, versions, files, acked, erased, returned, races>>
  BY DEF SealPublish, Goto, ThreadInv, Sealing, disk, history
<1>2. /\ task[t].then.at = "load" =>
           /\ t \in Clients
           /\ task[t].then.due \subseteq Settled \cup races.overwritten
           /\ task[t].then.gone \subseteq erased
           /\ Explicit(t, task[t].then)
      /\ task[t].then.at = "collect" => owner = t /\ mem.app = {}
  BY <1>1 DEF ThreadInv, Sealing
<1>3. mem' = [app |-> mem.app, working |-> mem.working \cup {sealed},
              segments |-> Register(mem, sealed), dels |-> mem.dels,
              payloads |-> mem.payloads, vs |-> mem.vs, nextId |-> mem.nextId,
              nextSeg |-> mem.nextSeg]
  BY <1>1 DEF Common, Shapes
<1>4. /\ task' = [u \in Threads |-> task'[u]] /\ task'[t] = task[t].then
      /\ Moving = Moving' \cup sealed.rows
      /\ \A u \in Threads \ {t} : task'[u] = task[u]
  BY <1>1, OnTheMove DEF Common, Shapes
<1>5. WorkingRows(mem)' = WorkingRows(mem) \cup sealed.rows
  BY <1>3 DEF WorkingRows
<1>6. Settled' = Settled /\ Present' = Present
  BY <1>3, <1>4, <1>5 DEF Settled, Present
<1>7. WorkingIds(mem)' = WorkingIds(mem) \cup {sealed.id}
  BY <1>3 DEF WorkingIds
<1>8. DOMAIN mem'.segments = DOMAIN mem.segments \cup {sealed.id}
  BY <1>3, RegisterAdds
<1>9. /\ Versions(mem.vs)' = Versions(mem.vs)
      /\ AllReferenced(mem.vs)' = AllReferenced(mem.vs)
      /\ AllReferenced(versions)' = AllReferenced(versions)
      /\ Versions(versions)' = Versions(versions)
  BY <1>1, <1>3
<1>10. Grows(t)
  BY <1>1, <1>3, <1>4, <1>5, <1>6, <1>8, <1>9 DEF Grows
<1>11. Shapes'
  BY <1>1, <1>3, <1>4 DEF Common, Shapes
<1>12. IdsInv' /\ RowsInv' /\ DiskInv'
  BY <1>1, <1>3, <1>6 DEF Common, IdsInv, RowsInv, DiskInv
<1>13. FilesInv'
  <2>1. \A u \in Threads : At(u, "persist") => At(u, "persist")'
    BY <1>1, <1>4 DEF At
  <2>2. WorkingIds(mem)' \cup AllReferenced(mem.vs)' \subseteq DOMAIN mem'.segments
    BY <1>7, <1>8, <1>9 DEF Common, FilesInv
  <2>3. QED
    BY <2>1, <2>2, <1>1, <1>3, <1>9 DEF Common, FilesInv, Threads
<1>14. ThreadInv(t)'
  BY <1>1, <1>2, <1>3, <1>4, <1>6 DEF ThreadInv, Applying, Sealing,
     Committing, Explicit, Maintaining, Searching, At
<1>15. KnownInv'
  BY <1>1, <1>4, <1>6, KnownKeeps DEF Common, At
<1>16. QED
  BY <1>10, <1>11, <1>12, <1>13, <1>14, <1>15 DEF Good, Common

-----------------------------------------------------------------------------
(***************************************************************************)
(* Commits.                                                                *)
(***************************************************************************)
LEMMA CommitVersionStep ==
  ASSUME NEW t \in Threads, Common, ThreadInv(t), CommitVersion(t)
  PROVE  Good(t)
<1> DEFINE next == CommitTo(mem.vs, {Reference(s) : s \in task[t].working}, mem.dels, None)
           step == [at |-> "persist", version |-> mem.vs.next]
<1>1. /\ At(t, "version")
      /\ mem' = [mem EXCEPT !.vs = next]
      /\ task' = [task EXCEPT ![t] = step]
      /\ UNCHANGED <<owner, log, head, versions, files, acked, erased, returned, races>>
  BY DEF CommitVersion, Goto, disk, history
<1>2. t \in Clients /\ SegmentIdsOf(task[t].working) \subseteq DOMAIN mem.segments
  BY <1>1 DEF ThreadInv, Committing
<1>3. /\ next.next = mem.vs.next + 1
      /\ Versions(next) = Versions(mem.vs) \cup {mem.vs.next}
      /\ AllReferenced(next) = AllReferenced(mem.vs) \cup SegmentIdsOf(task[t].working)
  BY CommitAdds DEF Common, FilesInv
<1> HIDE DEF next
<1>4. mem' = [app |-> mem.app, working |-> mem.working, segments |-> mem.segments,
              dels |-> mem.dels, payloads |-> mem.payloads, vs |-> next,
              nextId |-> mem.nextId, nextSeg |-> mem.nextSeg]
  BY <1>1 DEF Common, Shapes
<1>5. step.at = "persist" /\ step.version = mem.vs.next
  OBVIOUS
<1> HIDE DEF step
<1>6. /\ task' = [u \in Threads |-> task'[u]] /\ task'[t] = step /\ Moving' = Moving
      /\ \A u \in Threads \ {t} : task'[u] = task[u]
  BY <1>1, <1>5, OnTheMove DEF Common, Shapes, At
<1>7. Settled' = Settled /\ Present' = Present /\ WorkingRows(mem)' = WorkingRows(mem)
  BY <1>4, <1>6 DEF Settled, Present, WorkingRows
<1>8. WorkingIds(mem)' = WorkingIds(mem)
  BY <1>4 DEF WorkingIds
<1>9. /\ Versions(mem.vs)' = Versions(mem.vs) \cup {mem.vs.next}
      /\ AllReferenced(mem.vs)' = AllReferenced(mem.vs) \cup SegmentIdsOf(task[t].working)
      /\ mem'.vs.next = mem.vs.next + 1
      /\ AllReferenced(versions)' = AllReferenced(versions)
      /\ Versions(versions)' = Versions(versions)
  BY <1>1, <1>3, <1>4
<1>10. Grows(t)
  BY <1>1, <1>4, <1>6, <1>7, <1>9 DEF Grows
<1>11. Shapes' /\ IdsInv' /\ RowsInv' /\ DiskInv'
  BY <1>1, <1>4, <1>6, <1>7 DEF Common, Shapes, IdsInv, RowsInv, DiskInv
<1>12. FilesInv'
  <2>1. \E u \in Clients : At(u, "persist")'
    BY <1>2, <1>5, <1>6 DEF At
  <2>2. WorkingIds(mem)' \cup AllReferenced(mem.vs)' \subseteq DOMAIN mem'.segments
    BY <1>2, <1>4, <1>8, <1>9 DEF Common, FilesInv
  <2>3. mem'.vs.next \in Nat /\ Versions(mem.vs)' \subseteq 0 .. mem'.vs.next - 1
    BY <1>9 DEF Common, FilesInv
  <2>4. /\ AllReferenced(versions)' \subseteq AllReferenced(mem.vs)'
        /\ SegmentIdsOf(head.working)' \cup head'.all \subseteq files'
        /\ returned' \subseteq Versions(versions)' \cup races'.clobbered
    BY <1>1, <1>9 DEF Common, FilesInv
  <2>5. QED
    BY <2>1, <2>2, <2>3, <2>4 DEF FilesInv
<1>13. ThreadInv(t)'
  BY <1>5, <1>6, <1>9 DEF ThreadInv, Applying, Sealing, Committing, Explicit,
     Maintaining, Searching, At
<1>14. KnownInv'
  BY <1>1, <1>6, <1>7, KnownKeeps DEF Common, At
<1>15. QED
  BY <1>10, <1>11, <1>12, <1>13, <1>14 DEF Good, Common

LEMMA PersistSegmentsStep ==
  ASSUME NEW t \in Threads, Common, ThreadInv(t), PersistSegments(t)
  PROVE  Good(t)
<1> DEFINE step == [at |-> "copy", version |-> task[t].version]
<1>1. /\ At(t, "persist")
      /\ files' = files \cup (SegmentIdsToPersist(mem) \cap DOMAIN mem.segments)
      /\ task' = [task EXCEPT ![t] = step]
      /\ UNCHANGED <<mem, owner, log, head, versions, acked, erased, returned, races>>
  BY DEF PersistSegments, Goto, history
<1>2. step.at = "copy" /\ step.version = task[t].version
  OBVIOUS
<1> HIDE DEF step
<1>3. task[t].version \in Versions(mem.vs)
  BY <1>1 DEF ThreadInv, Committing
<1>4. /\ task' = [u \in Threads |-> task'[u]] /\ task'[t] = step /\ Moving' = Moving
      /\ \A u \in Threads \ {t} : task'[u] = task[u]
  BY <1>1, <1>2, OnTheMove DEF Common, Shapes, At
<1>5. Settled' = Settled /\ Present' = Present /\ WorkingRows(mem)' = WorkingRows(mem)
  BY <1>1, <1>4 DEF Settled, Present
<1>6. /\ Versions(mem.vs)' = Versions(mem.vs)
      /\ AllReferenced(mem.vs)' = AllReferenced(mem.vs)
  BY <1>1
<1>7. Grows(t)
  BY <1>1, <1>4, <1>5, <1>6 DEF Grows
<1>8. Shapes' /\ IdsInv' /\ RowsInv' /\ DiskInv'
  BY <1>1, <1>4, <1>5 DEF Common, Shapes, IdsInv, RowsInv, DiskInv
<1>9. FilesInv'
  <2>1. AllReferenced(mem.vs) \subseteq files'
    BY <1>1 DEF Common, FilesInv, SegmentIdsToPersist
  <2>2. QED
    BY <2>1, <1>1 DEF Common, FilesInv
<1>10. ThreadInv(t)'
  BY <1>2, <1>3, <1>4, <1>6 DEF ThreadInv, Applying, Sealing, Committing,
     Explicit, Maintaining, Searching, At
<1>11. KnownInv'
  BY <1>1, <1>4, <1>5, KnownKeeps DEF Common, At
<1>12. QED
  BY <1>7, <1>8, <1>9, <1>10, <1>11 DEF Good, Common

LEMMA PersistVersionsStep ==
  ASSUME NEW t \in Threads, Common, ThreadInv(t), PersistVersions(t)
  PROVE  Good(t)
<1>1. /\ At(t, "store")
      /\ versions' = task[t].copy
      /\ races' = [races EXCEPT !.clobbered =
                     @ \cup (Versions(versions) \ Versions(versions'))]
      /\ returned' = returned \cup {task[t].version}
      /\ owner' = IF owner = t THEN None ELSE owner
      /\ task' = [task EXCEPT ![t] = Idle]
      /\ UNCHANGED <<mem, log, head, files, acked, erased>>
  BY DEF PersistVersions, Goto
<1>2. /\ task[t].version \in Versions(versions')
      /\ AllReferenced(versions') \subseteq AllReferenced(mem.vs)
  BY <1>1 DEF ThreadInv, Committing
<1>3. races' = [overwritten |-> races.overwritten, missed |-> races.missed,
                unfolded |-> races.unfolded,
                clobbered |-> races.clobbered \cup (Versions(versions) \ Versions(versions'))]
  BY <1>1 DEF Common, Shapes
<1>4. Idle.at = "idle"
  BY DEF Idle
<1>5. /\ task' = [u \in Threads |-> task'[u]] /\ task'[t] = Idle /\ Moving' = Moving
      /\ \A u \in Threads \ {t} : task'[u] = task[u]
  BY <1>1, <1>4, OnTheMove DEF Common, Shapes, At
<1>6. Settled' = Settled /\ Present' = Present /\ WorkingRows(mem)' = WorkingRows(mem)
  BY <1>1, <1>5 DEF Settled, Present
<1>7. /\ Versions(mem.vs)' = Versions(mem.vs)
      /\ AllReferenced(mem.vs)' = AllReferenced(mem.vs)
  BY <1>1
<1>8. Grows(t)
  BY <1>1, <1>3, <1>5, <1>6, <1>7 DEF Grows
<1>9. Shapes' /\ IdsInv' /\ RowsInv' /\ DiskInv'
  BY <1>1, <1>3, <1>5, <1>6 DEF Common, Shapes, IdsInv, RowsInv, DiskInv
<1>10. FilesInv'
  <2>1. \A u \in Threads : At(u, "persist") => At(u, "persist")'
    BY <1>1, <1>5 DEF At
  <2>2. returned' \subseteq Versions(versions') \cup races'.clobbered
    BY <1>1, <1>2, <1>3 DEF Common, FilesInv
  <2>3. QED
    BY <2>1, <2>2, <1>1, <1>2 DEF Common, FilesInv, Threads
<1>11. ThreadInv(t)'
  BY <1>4, <1>5 DEF ThreadInv, Applying, Sealing, Committing, Explicit,
     Maintaining, Searching, At
<1>12. KnownInv'
  BY <1>1, <1>5, <1>6, KnownKeeps DEF Common, At
<1>13. QED
  BY <1>8, <1>9, <1>10, <1>11, <1>12 DEF Good, Common

-----------------------------------------------------------------------------
(***************************************************************************)
(* Compactions and checkpoints.                                            *)
(***************************************************************************)
LEMMA CompactReplaceStep ==
  ASSUME NEW t \in Threads, Common, ThreadInv(t), CompactReplace(t)
  PROVE  Good(t)
<1> DEFINE loaded == task[t].loaded
           merged == Segment(mem.nextSeg, Rows(loaded))
           step   == [at |-> "lock"]
<1>1. /\ At(t, "merge")
      /\ mem' = [mem EXCEPT !.nextSeg = @ + 1, !.segments = Register(mem, merged),
                            !.working = {merged}]
      /\ races' = [races EXCEPT !.overwritten = @ \cup Rows(mem.working \ loaded)]
      /\ task' = [task EXCEPT ![t] = step]
      /\ UNCHANGED <<owner, log, head, versions, files, acked, erased, returned>>
  BY DEF CompactReplace, Goto, disk
<1>2. t \in Maintainers /\ loaded \subseteq mem.working
  BY <1>1 DEF ThreadInv, Maintaining
<1>3. merged.rows = Rows(loaded)
  BY DEF Segment
<1> HIDE DEF merged
<1>4. mem' = [app |-> mem.app, working |-> {merged}, segments |-> Register(mem, merged),
              dels |-> mem.dels, payloads |-> mem.payloads, vs |-> mem.vs,
              nextId |-> mem.nextId, nextSeg |-> mem.nextSeg + 1]
  BY <1>1 DEF Common, Shapes
<1>5. races' = [overwritten |-> races.overwritten \cup Rows(mem.working \ loaded),
                missed |-> races.missed, unfolded |-> races.unfolded,
                clobbered |-> races.clobbered]
  BY <1>1 DEF Common, Shapes
<1>6. step.at = "lock"
  OBVIOUS
<1> HIDE DEF step
<1>7. /\ task' = [u \in Threads |-> task'[u]] /\ task'[t] = step /\ Moving' = Moving
      /\ \A u \in Threads \ {t} : task'[u] = task[u]
  BY <1>1, <1>6, OnTheMove DEF Common, Shapes, At
<1>8. WorkingRows(mem)' = Rows(loaded)
  BY <1>3, <1>4 DEF WorkingRows
<1>9. /\ Rows(loaded) \subseteq WorkingRows(mem)
      /\ WorkingRows(mem) \subseteq Rows(loaded) \cup Rows(mem.working \ loaded)
  BY <1>2 DEF Rows, WorkingRows
<1>10. /\ WorkingRows(mem)' \subseteq WorkingRows(mem)
       /\ WorkingRows(mem) \subseteq WorkingRows(mem)' \cup races'.overwritten
  BY <1>5, <1>8, <1>9
<1>11. /\ Settled' \subseteq Settled /\ Settled \subseteq Settled' \cup races'.overwritten
       /\ Present' \subseteq Present /\ Present \subseteq Present' \cup races'.overwritten
  BY <1>4, <1>7, <1>10 DEF Settled, Present
<1>12. WorkingIds(mem)' = {merged.id} /\ DOMAIN mem'.segments = DOMAIN mem.segments \cup {merged.id}
  BY <1>4, RegisterAdds DEF WorkingIds
<1>13. /\ Versions(mem.vs)' = Versions(mem.vs)
       /\ AllReferenced(mem.vs)' = AllReferenced(mem.vs)
       /\ AllReferenced(versions)' = AllReferenced(versions)
       /\ Versions(versions)' = Versions(versions)
  BY <1>1, <1>4
<1>14. Grows(t)
  <2>1. /\ races.overwritten \subseteq races'.overwritten /\ races.missed \subseteq races'.missed
        /\ mem.dels = mem'.dels /\ mem'.app = mem.app /\ mem'.nextId = mem.nextId
    BY <1>4, <1>5
  <2> QED
    BY <1>1, <1>2, <1>7, <1>10, <1>11, <1>12, <1>13, <2>1 DEF Grows
<1>15. Shapes'
  BY <1>1, <1>4, <1>5, <1>7 DEF Common, Shapes
<1>16. IdsInv' /\ RowsInv' /\ DiskInv'
  <2>1. IdsInv'
    BY <1>1, <1>4, <1>5, <1>11 DEF Common, IdsInv
  <2>2. RowsInv'
    BY <1>1, <1>4, <1>5, <1>11 DEF Common, RowsInv
  <2>3. DiskInv'
    BY <1>1, <1>4, <1>5, <1>11 DEF Common, DiskInv
  <2> QED
    BY <2>1, <2>2, <2>3
<1>17. FilesInv'
  <2>1. \A u \in Threads : At(u, "persist") => At(u, "persist")'
    BY <1>1, <1>7 DEF At
  <2>2. WorkingIds(mem)' \cup AllReferenced(mem.vs)' \subseteq DOMAIN mem'.segments
    BY <1>12, <1>13 DEF Common, FilesInv
  <2>3. QED
    BY <2>1, <2>2, <1>1, <1>4, <1>5, <1>13 DEF Common, FilesInv, Threads
<1>18. ThreadInv(t)'
  BY <1>6, <1>7 DEF ThreadInv, Applying, Sealing, Committing, Explicit,
     Maintaining, Searching, At
<1>19. KnownInv'
  BY <1>1, <1>7, <1>11, KnownKeeps DEF Common, At
<1>20. QED
  BY <1>14, <1>15, <1>16, <1>17, <1>18, <1>19 DEF Good, Common

LEMMA CheckpointFilesStep ==
  ASSUME NEW t \in Threads, Common, ThreadInv(t), CheckpointFiles(t)
  PROVE  Good(t)
<1> DEFINE all  == SegmentIdsToPersist(mem) \cap DOMAIN mem.segments
           step == [at |-> "head", working |-> mem.working, all |-> all,
                    moving |-> Moving]
<1>1. /\ At(t, "collect")
      /\ files' = files \cup all
      /\ task' = [task EXCEPT ![t] = step]
      /\ UNCHANGED <<mem, owner, log, head, versions, acked, erased, returned, races>>
  BY DEF CheckpointFiles, Goto, history
<1>2. owner = t /\ mem.app = {}
  BY <1>1 DEF ThreadInv, Maintaining
<1>3. /\ step.at = "head" /\ step.moving = Moving /\ step.all = all
      /\ Rows(step.working) = WorkingRows(mem)
      /\ SegmentIdsOf(step.working) = WorkingIds(mem)
  BY DEF Rows, WorkingRows, SegmentIdsOf, WorkingIds
<1> HIDE DEF step
<1>4. /\ task' = [u \in Threads |-> task'[u]] /\ task'[t] = step /\ Moving' = Moving
      /\ \A u \in Threads \ {t} : task'[u] = task[u]
  BY <1>1, <1>3, OnTheMove DEF Common, Shapes, At
<1>5. Settled' = Settled /\ Present' = Present /\ WorkingRows(mem)' = WorkingRows(mem)
  BY <1>1, <1>4 DEF Settled, Present
<1>6. /\ Versions(mem.vs)' = Versions(mem.vs)
      /\ AllReferenced(mem.vs)' = AllReferenced(mem.vs)
  BY <1>1
<1>7. Grows(t)
  BY <1>1, <1>4, <1>5, <1>6 DEF Grows
<1>8. Shapes' /\ IdsInv' /\ RowsInv' /\ DiskInv'
  BY <1>1, <1>4, <1>5 DEF Common, Shapes, IdsInv, RowsInv, DiskInv
<1>9. FilesInv'
  <2>1. \A u \in Threads : At(u, "persist") => At(u, "persist")'
    BY <1>1, <1>4 DEF At
  <2>2. QED
    BY <2>1, <1>1 DEF Common, FilesInv, Threads
<1>10. Maintaining(t)'
  <2>1. acked \subseteq Rows(step.working) \cup step.moving \cup races.overwritten
    BY <1>2, <1>3 DEF Common, RowsInv, Present, Settled
  <2>2. erased \cap Rows(step.working) \subseteq mem.dels \cup races.missed
    BY <1>3 DEF Common, RowsInv, Present, Settled
  <2>3. SegmentIdsOf(step.working) \cup step.all \subseteq files'
    BY <1>1, <1>3 DEF Common, FilesInv, SegmentIdsToPersist
  <2>4. QED
    BY <1>1, <1>2, <1>3, <1>4, <2>1, <2>2, <2>3 DEF Maintaining, At
<1>11. ThreadInv(t)'
  BY <1>3, <1>4, <1>10 DEF ThreadInv, Applying, Sealing, Committing, Searching, At
<1>12. KnownInv'
  BY <1>1, <1>4, <1>5, KnownKeeps DEF Common, At
<1>13. QED
  BY <1>7, <1>8, <1>9, <1>11, <1>12 DEF Good, Common

LEMMA CheckpointHeadStep ==
  ASSUME NEW t \in Threads, Common, ThreadInv(t), CheckpointHead(t)
  PROVE  Good(t)
<1>1. /\ At(t, "head")
      /\ head' = [working |-> task[t].working, all |-> task[t].all, dels |-> mem.dels]
      /\ log' = [upserts |-> {}, deletes |-> {}]
      /\ races' = [races EXCEPT !.unfolded = task[t].moving]
      /\ owner' = None
      /\ task' = [task EXCEPT ![t] = Idle]
      /\ UNCHANGED <<mem, versions, files, acked, erased, returned>>
  BY DEF CheckpointHead, Goto
<1>2. /\ owner = t
      /\ acked \subseteq Rows(task[t].working) \cup task[t].moving \cup races.overwritten
      /\ erased \cap Rows(task[t].working) \subseteq mem.dels \cup races.missed
      /\ SegmentIdsOf(task[t].working) \cup task[t].all \subseteq files
  BY <1>1 DEF ThreadInv, Maintaining
<1>3. races' = [overwritten |-> races.overwritten, missed |-> races.missed,
                unfolded |-> task[t].moving, clobbered |-> races.clobbered]
  BY <1>1 DEF Common, Shapes
<1>4. Idle.at = "idle"
  BY DEF Idle
<1>5. /\ task' = [u \in Threads |-> task'[u]] /\ task'[t] = Idle /\ Moving' = Moving
      /\ \A u \in Threads \ {t} : task'[u] = task[u]
  BY <1>1, <1>4, OnTheMove DEF Common, Shapes, At
<1>6. Settled' = Settled /\ Present' = Present /\ WorkingRows(mem)' = WorkingRows(mem)
  BY <1>1, <1>5 DEF Settled, Present
<1>7. /\ Versions(mem.vs)' = Versions(mem.vs)
      /\ AllReferenced(mem.vs)' = AllReferenced(mem.vs)
  BY <1>1
<1>8. Grows(t)
  BY <1>1, <1>2, <1>3, <1>5, <1>6, <1>7 DEF Grows
<1>9. /\ head'.working = task[t].working /\ head'.all = task[t].all
      /\ head'.dels = mem.dels
      /\ log'.upserts = {} /\ log'.deletes = {}
  BY <1>1
<1>10. Shapes' /\ IdsInv' /\ RowsInv'
  BY <1>1, <1>3, <1>5, <1>6, <1>9 DEF Common, Shapes, IdsInv, RowsInv
<1>11. DiskInv'
  BY <1>1, <1>2, <1>3, <1>9 DEF Common, RowsInv, DiskInv
<1>12. FilesInv'
  <2>1. \A u \in Threads : At(u, "persist") => At(u, "persist")'
    BY <1>1, <1>5 DEF At
  <2>2. QED
    BY <2>1, <1>1, <1>2, <1>3, <1>9 DEF Common, FilesInv, Threads
<1>13. ThreadInv(t)'
  BY <1>4, <1>5 DEF ThreadInv, Applying, Sealing, Committing, Explicit,
     Maintaining, Searching, At
<1>14. KnownInv'
  BY <1>1, <1>5, <1>6, KnownKeeps DEF Common, At
<1>15. QED
  BY <1>8, <1>10, <1>11, <1>12, <1>13, <1>14 DEF Good, Common

-----------------------------------------------------------------------------
(***************************************************************************)
(* The invariant.                                                          *)
(***************************************************************************)
LEMMA InitEstablishes == Init => IInv
<1> SUFFICES ASSUME Init PROVE IInv
  OBVIOUS
<1>1. /\ mem = [app |-> {}, working |-> OldSegments, segments |-> [i \in OldIds |-> {i}],
                dels |-> {}, payloads |-> OldIds, vs |-> EmptyStore,
                nextId |-> Recovered, nextSeg |-> Recovered]
      /\ log = [upserts |-> {}, deletes |-> {}]
      /\ head = [working |-> OldSegments, all |-> OldIds, dels |-> {}]
      /\ task = [t \in Threads |-> Idle]
      /\ races = [overwritten |-> {}, missed |-> {}, unfolded |-> {}, clobbered |-> {}]
      /\ versions = EmptyStore /\ files = OldIds
      /\ acked = OldIds /\ erased = {} /\ returned = {}
  BY DEF Init, EmptyCollection, NoRaces
<1>2. Recovered \in Nat
  BY ThreadsAssumption
<1>3. Rows(OldSegments) = OldIds /\ SegmentIdsOf(OldSegments) = OldIds
  <2>1. \A s \in OldSegments : \E i \in OldIds : s.id = i /\ s.rows = {i}
    BY DEF OldSegments, Segment
  <2>2. \A i \in OldIds : Segment(i, {i}) \in OldSegments
    BY DEF OldSegments
  <2>3. \A i \in OldIds : Segment(i, {i}).id = i /\ Segment(i, {i}).rows = {i}
    BY DEF Segment
  <2>4. \A i \in OldIds : \E s \in OldSegments : s.id = i /\ s.rows = {i}
    BY <2>2, <2>3
  <2>5. QED
    BY <2>1, <2>4 DEF Rows, SegmentIdsOf
<1>4. WorkingRows(mem) = OldIds /\ WorkingIds(mem) = OldIds
  BY <1>1, <1>3 DEF WorkingRows, WorkingIds, Rows, SegmentIdsOf
<1>5. /\ Versions(EmptyStore) = {} /\ AllReferenced(EmptyStore) = {}
      /\ EmptyStore.next = 0
  <2>1. Versions(EmptyStore) = {} /\ EmptyStore.next = 0
    BY DEF Versions, EmptyStore
  <2>2. QED
    BY <2>1 DEF AllReferenced
<1>6. \A t \in Threads : task[t].at = "idle"
  BY <1>1 DEF Idle
<1>7. Moving = {}
  BY <1>6 DEF Moving
<1>8. Shapes
  BY <1>1, <1>2
     DEF Shapes
<1>9. IdsInv
  BY <1>1, <1>2 DEF IdsInv, OldIds
<1>10. RowsInv /\ KnownInv /\ DiskInv
  BY <1>1, <1>3, <1>4, <1>7 DEF RowsInv, KnownInv, DiskInv, Present, Settled
<1>11. FilesInv
  <2>1. /\ mem.vs = EmptyStore /\ mem.segments = [i \in OldIds |-> {i}]
        /\ head.working = OldSegments /\ head.all = OldIds
    BY <1>1
  <2>2. versions = EmptyStore /\ files = OldIds /\ returned = {}
    BY <1>1
  <2>3. DOMAIN mem.segments = OldIds
    BY <2>1
  <2>4. Versions(mem.vs) = {} /\ AllReferenced(mem.vs) = {} /\ mem.vs.next = 0
    BY <2>1, <1>5
  <2>5. Versions(versions) = {} /\ AllReferenced(versions) = {}
    BY <2>2, <1>5
  <2>6. SegmentIdsOf(head.working) \cup head.all = files
    BY <2>1, <2>2, <1>3
  <2>7. QED
    BY <1>4, <2>2, <2>3, <2>4, <2>5, <2>6 DEF FilesInv
<1>12. \A t \in Threads : ThreadInv(t)
  BY <1>6 DEF ThreadInv, Applying, Sealing, Committing, Explicit, Maintaining,
     Searching, At
<1>13. QED
  BY <1>8, <1>9, <1>10, <1>11, <1>12 DEF IInv

(* Every step of every thread is one of the above.                         *)
LEMMA ClientKeeps ==
  ASSUME NEW t \in Clients, IInv, ClientStep(t)
  PROVE  Good(t)
<1>1. Common /\ t \in Threads /\ ThreadInv(t) /\ \A u \in Threads : ThreadInv(u)
  BY DEF IInv, Common, Threads
<1>2. CASE \E n \in 0 .. 1, deletes \in SUBSET Ids, commit \in BOOLEAN :
             WriteBatch(t, n, deletes, commit)
  <2>1. 0 .. 1 \subseteq Nat
    OBVIOUS
  <2>2. QED
    BY <1>1, <1>2, <2>1, WriteBatchStep
<1>3. CASE ApplyDelete(t)
  BY <1>1, <1>3, ApplyDeleteStep
<1>4. CASE ApplyUpsert(t)
  BY <1>1, <1>4, ApplyUpsertStep
<1>5. CASE \E auto \in BOOLEAN : FinishWrite(t, auto)
  BY <1>1, <1>5, FinishWriteStep
<1>6. CASE Commit(t)
  BY <1>1, <1>6, CommitBegins
<1>7. CASE SealStep(t)
  BY <1>1, <1>7, SealTakeStep, SealPublishStep DEF SealStep
<1>8. CASE CommitStep(t)
  BY <1>1, <1>8, CommitLoadStep, CommitVersionStep, PersistSegmentsStep,
     PersistCopyStep, PersistVersionsStep DEF CommitStep
<1>9. QED
  BY <1>2, <1>3, <1>4, <1>5, <1>6, <1>7, <1>8 DEF ClientStep

LEMMA MaintainerKeeps ==
  ASSUME NEW t \in Maintainers, IInv, MaintainerStep(t)
  PROVE  Good(t)
<1>1. Common /\ t \in Threads /\ ThreadInv(t)
  BY DEF IInv, Common, Threads
<1>2. QED
  BY <1>1, CompactLoadStep, CompactReplaceStep, CheckpointStep, SealTakeStep,
     SealPublishStep, CheckpointFilesStep, CheckpointHeadStep
     DEF MaintainerStep, SealStep

LEMMA ReaderKeeps ==
  ASSUME NEW t \in Readers, IInv, ReaderStep(t)
  PROVE  Good(t)
<1>1. Common /\ t \in Threads /\ ThreadInv(t)
  BY DEF IInv, Common, Threads
<1>2. QED
  BY <1>1, SearchStartStep, SearchWorkingStep, SearchAppendableStep, SearchAnswerStep
     DEF ReaderStep

LEMMA NextKeeps ==
  ASSUME OneMaintainer, IInv, [Next]_vars
  PROVE  IInv'
<1>1. CASE Next
  <2>1. PICK t \in Threads : Good(t)
    BY <1>1, ClientKeeps, MaintainerKeeps, ReaderKeeps DEF Next, Threads
  <2>2. \A u \in Threads \ {t} : ThreadInv(u)'
    BY <2>1, OthersKeep DEF Good, IInv
  <2>3. \A u \in Threads : ThreadInv(u)'
    BY <2>1, <2>2 DEF Good
  <2>4. QED
    BY <2>1, <2>3 DEF Good, Common, IInv
<1>2. CASE UNCHANGED vars
  <2>1. UNCHANGED <<mem, owner, log, head, versions, files, task, acked, erased,
                    returned, races>>
    BY <1>2 DEF vars, disk, history
  <2>2. Moving' = Moving
    BY <2>1 DEF Moving
  <2>3. Settled' = Settled /\ Present' = Present
    BY <2>1, <2>2 DEF Settled, Present
  <2>4. Shapes' /\ IdsInv' /\ RowsInv' /\ KnownInv' /\ DiskInv'
    BY <2>1, <2>3 DEF IInv, Shapes, IdsInv, RowsInv, KnownInv, DiskInv, At
  <2>5. FilesInv'
    BY <2>1 DEF IInv, FilesInv, At
  <2>6. \A t \in Threads : ThreadInv(t)'
    BY <2>1, <2>3 DEF IInv, ThreadInv, Applying, Sealing, Committing,
       Explicit, Maintaining, Searching, At
  <2>7. QED
    BY <2>4, <2>5, <2>6 DEF IInv
<1>3. QED
  BY <1>1, <1>2

(* What every interleaving of every number of threads preserves: where a   *)
(* row is at each moment, on the move included, what the log and HEAD      *)
(* still know of it, and what each thread has read so far.                 *)
THEOREM ConcurrencyInvariant ==
  ASSUME OneMaintainer
  PROVE  Spec => []IInv
<1>1. Init => IInv
  BY InitEstablishes
<1>2. IInv /\ [Next]_vars => IInv'
  BY NextKeeps
<1>3. QED
  BY <1>1, <1>2, PTL DEF Spec

-----------------------------------------------------------------------------
(***************************************************************************)
(* What it is for.                                                         *)
(***************************************************************************)

(* seal, compact, delete and write_batch beside each other: memory loses   *)
(* no written row but to a compaction that overwrote its segment, and      *)
(* shows no deleted one but where the delete met it on the move.           *)
THEOREM MemoryStaysExact ==
  ASSUME OneMaintainer
  PROVE  Spec => []MemoryExact
<1>1. IInv => MemoryExact
  BY DEF IInv, RowsInv, MemoryExact, Live, Present, Settled
<1>2. Spec => []IInv
  BY ConcurrencyInvariant
<1>3. QED
  BY <1>1, <1>2, PTL

(* checkpoint beside batches and auto-commits: whenever open() would       *)
(* succeed, it would rebuild all that was acked but the rows on the move   *)
(* when HEAD was collected and those that a compaction overwrote.          *)
THEOREM DiskStaysExact ==
  ASSUME OneMaintainer
  PROVE  Spec => []DiskExact
<1>1. IInv => DiskExact
  BY DEF IInv, DiskInv, DiskExact, Reopened
<1>2. Spec => []IInv
  BY ConcurrencyInvariant
<1>3. QED
  BY <1>1, <1>2, PTL

(* A commit reads the segments, then the tombstones, then takes the        *)
(* versions lock: its version contains what was written before it was      *)
(* called, and one that a batch asks for shows exactly that.  Rows that    *)
(* another thread's seal is moving, overwritten rows and rows that a       *)
(* delete met on the move are excepted, the batch's own among them.        *)
THEOREM CommitsCover ==
  ASSUME OneMaintainer
  PROVE  Spec => []CommitCovers
<1>1. IInv => CommitCovers
  <2> SUFFICES ASSUME IInv, NEW t \in Threads, At(t, "version")
               PROVE  LET shown == Rows(task[t].working) \ mem.dels
                          away  == task[t].moving \cup races.overwritten
                      IN  /\ task[t].due \subseteq Rows(task[t].working) \cup away
                                                     \cup mem.dels
                          /\ task[t].gone \cap shown \subseteq races.missed
                          /\ task[t].explicit =>
                               /\ task[t].due \subseteq shown \cup away
                               /\ shown \subseteq task[t].due \cup races.missed
    BY DEF CommitCovers
  <2>1. /\ task[t].due \subseteq Rows(task[t].working) \cup task[t].moving
                                   \cup races.overwritten
        /\ task[t].gone \cap Rows(task[t].working) \subseteq mem.dels \cup races.missed
        /\ task[t].explicit =>
             /\ task[t].due = acked /\ task[t].gone = erased
             /\ Rows(task[t].working) \subseteq acked \cup erased
    BY DEF IInv, ThreadInv, Committing, Explicit
  <2>2. acked \cap mem.dels = {}
    BY DEF IInv, RowsInv
  <2>3. QED
    BY <2>1, <2>2
<1>2. Spec => []IInv
  BY ConcurrencyInvariant
<1>3. QED
  BY <1>1, <1>2, PTL

(* A search that reads tombstones, working set and appendable at three     *)
(* moments finds what it must and nothing that was deleted before it.      *)
THEOREM SearchesAreExact ==
  ASSUME OneMaintainer
  PROVE  Spec => []SearchExact
<1>1. IInv => SearchExact
  BY DEF IInv, ThreadInv, Searching, SearchExact, Threads
<1>2. Spec => []IInv
  BY ConcurrencyInvariant
<1>3. QED
  BY <1>1, <1>2, PTL

(* persist_versions copies a store that other commits have moved on: only  *)
(* while one of them is about to write its segments does open() fail.      *)
THEOREM NamedFilesCome ==
  ASSUME OneMaintainer
  PROVE  Spec => []NamedFilesComing
<1>1. IInv => NamedFilesComing
  <2> SUFFICES ASSUME IInv, ~Opens
               PROVE  /\ \E t \in Clients : At(t, "persist")
                      /\ Named \ files \subseteq SegmentIdsToPersist(mem)
                                                 \cap DOMAIN mem.segments
    BY DEF NamedFilesComing
  <2>1. /\ Named \ files \subseteq AllReferenced(mem.vs)
        /\ AllReferenced(mem.vs) \subseteq DOMAIN mem.segments
        /\ AllReferenced(mem.vs) \subseteq files \/ \E t \in Clients : At(t, "persist")
    BY DEF IInv, FilesInv, Named, SegmentIdsOf
  <2>2. QED
    BY <2>1 DEF Opens, SegmentIdsToPersist
<1>2. Spec => []IInv
  BY ConcurrencyInvariant
<1>3. QED
  BY <1>1, <1>2, PTL

(* A version that commit() returned is in the file versions unless an      *)
(* older copy was written over it.                                         *)
THEOREM ReturnedVersionsAreStored ==
  ASSUME OneMaintainer
  PROVE  Spec => []ReturnedVersionsStored
<1>1. IInv => ReturnedVersionsStored
  BY DEF IInv, FilesInv, ReturnedVersionsStored
<1>2. Spec => []IInv
  BY ConcurrencyInvariant
<1>3. QED
  BY <1>1, <1>2, PTL
=============================================================================
