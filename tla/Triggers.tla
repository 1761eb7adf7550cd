------------------------------ MODULE Triggers ------------------------------
(***************************************************************************)
(* When a collection commits and compacts by itself: TriggerEvaluator      *)
(* (version/policy.rs) and CompactionTrigger (durable.rs), and the threads *)
(* that consult them.  A writer decides, commits and tells the evaluator   *)
(* in three critical sections; the maintenance loop does the same for      *)
(* compactions.  The clocks are how long ago the last commit and the last  *)
(* compaction were noted.                                                  *)
(***************************************************************************)
EXTENDS Integers, FiniteSets, FiniteSetsExt

CONSTANTS
  None,
  Writers,
  CommitPolicies,      \* [every_n_writes, interval], None is "not set"
  CompactionPolicies,  \* [max_segments, interval]
  MaxBatch, MaxPending, MaxSegments, MaxClock

ASSUME TriggersAssumption ==
  /\ {MaxBatch, MaxPending, MaxSegments, MaxClock} \subseteq Nat
  /\ None \notin Int
  /\ IsFiniteSet(Writers)

(* The policies' fields are Option<u64> and Option<usize>, with no check.  *)
ASSUME PoliciesAssumption ==
  /\ \A p \in CommitPolicies : {p.every_n_writes, p.interval} \subseteq Nat \cup {None}
  /\ \A p \in CompactionPolicies : {p.max_segments, p.interval} \subseteq Nat \cup {None}

VARIABLES
  policy, compaction,  \* the two policies of the collection
  uncommitted,         \* upserts applied and in no version, up to MaxPending
  open,                \* the appendable segment has rows
  segments,            \* sealed segments of the working set, up to MaxSegments
  writes,              \* TriggerEvaluator.writes_since_commit
  sinceCommit,         \* now - last_commit_ms, up to MaxClock
  sinceCompaction,     \* now - last_compaction_ms, up to MaxClock
  writer,              \* what each writer has left of its batch
  maintainer           \* what the maintenance loop does

policies == <<policy, compaction>>
content  == <<uncommitted, open, segments>>
trigger  == <<writes, sinceCommit>>
vars == <<policies, content, trigger, sinceCompaction, writer, maintainer>>

Idle == [at |-> "idle"]

Init ==
  /\ policy \in CommitPolicies
  /\ compaction \in CompactionPolicies
  /\ uncommitted = 0 /\ open = FALSE /\ segments = 0
  /\ writes = 0 /\ sinceCommit = 0 /\ sinceCompaction = 0
  /\ writer = [w \in Writers |-> Idle]
  /\ maintainer = "sleeps"

Elapsed(limit, since) == limit # None /\ since >= limit

(* Faulty variant: one write too late.                                     *)
ShouldCommitLate(pending) ==
  \/ policy.every_n_writes # None /\ pending > policy.every_n_writes
  \/ pending > 0 /\ Elapsed(policy.interval, sinceCommit)

ShouldCommit(pending) ==
  \/ policy.every_n_writes # None /\ pending >= policy.every_n_writes
  \/ pending > 0 /\ Elapsed(policy.interval, sinceCommit)

(* note_commit: N writes are taken off, or all of them when there are less.*)
AfterCommit(pending) ==
  IF policy.every_n_writes # None /\ pending >= policy.every_n_writes
  THEN pending - policy.every_n_writes
  ELSE 0

(* Collection::seal as far as the counts go; a compaction leaves one.      *)
Sealed == IF open THEN Min({segments + 1, MaxSegments}) ELSE segments

Seal == segments' = Sealed /\ open' = FALSE

CommitAll == Seal /\ uncommitted' = 0

-----------------------------------------------------------------------------
(***************************************************************************)
(* Writers.                                                                *)
(***************************************************************************)
Goto(w, step) == writer' = [writer EXCEPT ![w] = step]

(* The upserts of a batch of n are applied; n = 0 is a batch of deletes.   *)
WriteBatch(w, n) ==
  /\ writer[w] = Idle
  /\ n > 0 => writes + n <= MaxPending
  /\ uncommitted' = Min({uncommitted + n, MaxPending})
  /\ open' = (open \/ n > 0)
  /\ Goto(w, [at |-> "record", n |-> n])
  /\ UNCHANGED <<policies, segments, trigger, sinceCompaction, maintainer>>

(* A batch with an explicit commit, then its bookkeeping.                  *)
CommitBatch(w, n) ==
  /\ writer[w] = Idle
  /\ n > 0 => writes + n <= MaxPending
  /\ uncommitted' = 0
  /\ open' = FALSE
  /\ segments' = IF open \/ n > 0 THEN Min({segments + 1, MaxSegments}) ELSE segments
  /\ Goto(w, [at |-> "explicit", n |-> n])
  /\ UNCHANGED <<policies, trigger, sinceCompaction, maintainer>>

RecordExplicit(w) ==
  /\ writer[w].at = "explicit"
  /\ writes' = AfterCommit(writes + writer[w].n)
  /\ sinceCommit' = 0
  /\ Goto(w, Idle)
  /\ UNCHANGED <<policies, content, sinceCompaction, maintainer>>

(* Faulty variant: batches without upserts are counted, not upserts.       *)
RecordDeletes(w) ==
  /\ writer[w].at = "record"
  /\ writes' = IF writer[w].n = 0 THEN writes + 1 ELSE writes
  /\ Goto(w, IF ShouldCommit(writes') THEN [at |-> "commit"] ELSE Idle)
  /\ UNCHANGED <<policies, content, sinceCommit, sinceCompaction, maintainer>>

RecordWrites(w) ==
  /\ writer[w].at = "record"
  /\ writes' = writes + writer[w].n
  /\ Goto(w, IF ShouldCommit(writes') THEN [at |-> "commit"] ELSE Idle)
  /\ UNCHANGED <<policies, content, sinceCommit, sinceCompaction, maintainer>>

AutoCommit(w) ==
  /\ writer[w].at = "commit"
  /\ CommitAll
  /\ Goto(w, [at |-> "note"])
  /\ UNCHANGED <<policies, trigger, sinceCompaction, maintainer>>

NoteCommit(w) ==
  /\ writer[w].at = "note"
  /\ writes' = AfterCommit(writes)
  /\ sinceCommit' = 0
  /\ Goto(w, Idle)
  /\ UNCHANGED <<policies, content, sinceCompaction, maintainer>>

(* DurableCollection::commit does not tell the evaluator.                  *)
ManualCommit ==
  /\ CommitAll
  /\ UNCHANGED <<policies, trigger, sinceCompaction, writer, maintainer>>

-----------------------------------------------------------------------------
(***************************************************************************)
(* The maintenance loop and the clock.                                     *)
(***************************************************************************)
(* Faulty variant: the number of segments is not looked at.                *)
ShouldCompactOnTime ==
  segments > 1 /\ Elapsed(compaction.interval, sinceCompaction)

ShouldCompact ==
  /\ segments > 1
  /\ \/ compaction.max_segments # None /\ segments >= compaction.max_segments
     \/ Elapsed(compaction.interval, sinceCompaction)

Wake ==
  /\ maintainer = "sleeps"
  /\ maintainer' = IF ShouldCompact THEN "compact" ELSE "checkpoint"
  /\ UNCHANGED <<policies, content, trigger, sinceCompaction, writer>>

(* Compacts and checkpoints, so the appendable is sealed behind the merged *)
(* segment.  The number of segments never falls but here.                  *)
Compact ==
  /\ maintainer = "compact"
  /\ segments' = IF open THEN 2 ELSE 1
  /\ open' = FALSE
  /\ maintainer' = "note"
  /\ UNCHANGED <<policies, uncommitted, trigger, sinceCompaction, writer>>

NoteCompaction ==
  /\ maintainer = "note"
  /\ sinceCompaction' = 0
  /\ maintainer' = "sleeps"
  /\ UNCHANGED <<policies, content, trigger, writer>>

Checkpoint ==
  /\ maintainer = "checkpoint"
  /\ Seal
  /\ maintainer' = "sleeps"
  /\ UNCHANGED <<policies, uncommitted, trigger, sinceCompaction, writer>>

Tick ==
  /\ sinceCommit < MaxClock \/ sinceCompaction < MaxClock
  /\ sinceCommit' = Min({sinceCommit + 1, MaxClock})
  /\ sinceCompaction' = Min({sinceCompaction + 1, MaxClock})
  /\ UNCHANGED <<policies, content, writes, writer, maintainer>>

-----------------------------------------------------------------------------

FinishBatch(w) == RecordExplicit(w) \/ RecordWrites(w) \/ AutoCommit(w) \/ NoteCommit(w)

Maintain == Wake \/ Compact \/ NoteCompaction \/ Checkpoint

Next ==
  \/ \E w \in Writers, n \in 0 .. MaxBatch : WriteBatch(w, n) \/ CommitBatch(w, n)
  \/ \E w \in Writers : FinishBatch(w)
  \/ ManualCommit
  \/ Maintain
  \/ Tick

(* A batch that was begun runs to its end, the maintenance loop never      *)
(* stops waking up, and time passes.  Nobody has to write or commit.       *)
Fairness ==
  /\ \A w \in Writers : WF_vars(FinishBatch(w))
  /\ WF_vars(Maintain)
  /\ WF_vars(Tick)

Spec == Init /\ [][Next]_vars /\ Fairness

-----------------------------------------------------------------------------

(* Counters stay within their types: the count of writes is never taken    *)
(* below zero by two writers that both note a commit.                      *)
TypeOK ==
  /\ policy \in CommitPolicies /\ compaction \in CompactionPolicies
  /\ uncommitted \in Nat /\ open \in BOOLEAN /\ segments \in 0 .. MaxSegments
  /\ writes \in Nat
  /\ sinceCommit \in 0 .. MaxClock /\ sinceCompaction \in 0 .. MaxClock
  /\ \A w \in Writers : writer[w].at \in {"idle", "record", "explicit", "commit", "note"}
  /\ maintainer \in {"sleeps", "compact", "note", "checkpoint"}

(* "Commit once this many writes have accumulated": when no batch is       *)
(* running, fewer than N upserts are uncommitted, with one writer.  A      *)
(* writer between its commit and its note_commit can take writes of others *)
(* off the counter: N - 1 more for each of them.  With N = 0, which no one *)
(* forbids, every batch commits.                                           *)
AtRest == \A w \in Writers : writer[w] = Idle

Slack == IF policy.every_n_writes = 0 THEN 0 ELSE policy.every_n_writes - 1

StalenessBound ==
  AtRest /\ policy.every_n_writes # None =>
    uncommitted <= Cardinality(Writers) * Slack

(* As long as batches with upserts keep coming, a policy does commit:      *)
(* the counter, which races may set back, and the clock, which is only     *)
(* looked at when a batch is written, cannot starve it.                    *)
KeepsWriting == []<><<\E w \in Writers : RecordWrites(w) /\ writer[w].n > 0>>_vars

WritesGetCommitted == KeepsWriting => (uncommitted > 0 ~> uncommitted = 0)

(* A working set that reaches max_segments, or has something to merge when *)
(* the interval is over, is compacted; nobody has to write for it.         *)
CompactionDue ==
  /\ segments > 1
  /\ compaction.interval # None \/ segments >= compaction.max_segments

CompactionHappens == CompactionDue ~> maintainer = "compact"
=============================================================================
