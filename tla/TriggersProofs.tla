--------------------------- MODULE TriggersProofs ---------------------------
(***************************************************************************)
(* Theorems about Triggers for any number of writers and any policies.     *)
(***************************************************************************)
EXTENDS Triggers, FiniteSetTheorems, TLAPS

(***************************************************************************)
(* The inductive invariant.                                                *)
(***************************************************************************)
WriterSteps ==
  {Idle} \cup [at : {"record", "explicit"}, n : 0 .. MaxBatch] \cup [at : {"commit", "note"}]

(* What the counters can be, and that a working set to be compacted does   *)
(* have something to merge.                                                *)
Types ==
  /\ policy \in CommitPolicies /\ compaction \in CompactionPolicies
  /\ uncommitted \in Nat /\ open \in BOOLEAN /\ segments \in 0 .. MaxSegments
  /\ writes \in Nat
  /\ sinceCommit \in 0 .. MaxClock /\ sinceCompaction \in 0 .. MaxClock
  /\ writer \in [Writers -> WriterSteps]
  /\ maintainer \in {"sleeps", "compact", "note", "checkpoint"}
  /\ maintainer = "compact" => segments > 1

(* The upserts that are applied and not yet counted, one pair for each.    *)
Uncounted ==
  {p \in Writers \X (1 .. MaxBatch) :
     writer[p[1]].at = "record" /\ p[2] <= writer[p[1]].n}

(* Writers that have committed and not yet told the evaluator: what they   *)
(* take off the counter may be writes of others.                           *)
Noting == {w \in Writers : writer[w].at \in {"note", "explicit"}}

Counted == IF writes <= Slack THEN writes ELSE Slack

Forgotten == (Cardinality(Writers) - 1 - Cardinality(Noting)) * Slack

(* Unless a commit is due, every uncommitted upsert is still to be         *)
(* counted, or counted, or was taken off by one of the writers that are    *)
(* through with noting.                                                    *)
CountInv ==
  policy.every_n_writes # None /\ (\A w \in Writers : writer[w].at # "commit") =>
    /\ Noting = Writers => uncommitted = 0
    /\ Noting # Writers => uncommitted <= Cardinality(Uncounted) + Counted + Forgotten

IInv == Types /\ CountInv

-----------------------------------------------------------------------------
(***************************************************************************)
(* Type correctness.                                                       *)
(***************************************************************************)
LEMMA Bounds ==
  MaxBatch \in Nat /\ MaxPending \in Nat /\ MaxSegments \in Nat /\ MaxClock \in Nat
  BY TriggersAssumption

LEMMA MinOfTwo ==
  ASSUME NEW a \in Int, NEW b \in Int
  PROVE  Min({a, b}) = IF a <= b THEN a ELSE b
  BY DEF Min

LEMMA WriterGoes ==
  ASSUME Types, NEW w \in Writers, NEW step \in WriterSteps, Goto(w, step)
  PROVE  /\ writer' \in [Writers -> WriterSteps]
         /\ writer'[w] = step
         /\ \A v \in Writers : v # w => writer'[v] = writer[v]
  BY DEF Types, Goto

LEMMA Steps ==
  /\ Idle \in WriterSteps
  /\ \A n \in 0 .. MaxBatch : /\ [at |-> "record", n |-> n] \in WriterSteps
                              /\ [at |-> "explicit", n |-> n] \in WriterSteps
  /\ [at |-> "commit"] \in WriterSteps
  /\ [at |-> "note"] \in WriterSteps
  /\ \A s \in WriterSteps : s.at \in {"record", "explicit"} => s.n \in 0 .. MaxBatch
  /\ \A s \in WriterSteps : s.at \in {"idle", "record", "explicit", "commit", "note"}
  /\ \A s \in WriterSteps : s.at = "idle" => s = Idle
  BY DEF WriterSteps, Idle

(* The counter is a Nat after a commit is noted: it takes off at most what *)
(* was counted.                                                            *)
LEMMA AfterCommitType ==
  ASSUME Types, NEW pending \in Nat
  PROVE  AfterCommit(pending) \in Nat
  BY PoliciesAssumption DEF Types, AfterCommit

LEMMA SealedType ==
  ASSUME Types
  PROVE  /\ Sealed \in 0 .. MaxSegments
         /\ Sealed >= segments
  BY MinOfTwo, Bounds DEF Types, Sealed

LEMMA InitTypes == Init => Types
<1> SUFFICES ASSUME Init PROVE Types
  OBVIOUS
<1>1. open \in BOOLEAN
  BY DEF Init
<1> QED
  BY <1>1, Bounds, Steps DEF Init, Types

LEMMA WriterTypes ==
  ASSUME Types, NEW w \in Writers,
         \/ \E n \in 0 .. MaxBatch : WriteBatch(w, n) \/ CommitBatch(w, n)
         \/ FinishBatch(w)
  PROVE  Types'
<1>1. ASSUME NEW n \in 0 .. MaxBatch, WriteBatch(w, n)
      PROVE  Types'
  <2>1. Min({uncommitted + n, MaxPending}) \in Nat
    BY MinOfTwo, Bounds DEF Types
  <2>2. writer' \in [Writers -> WriterSteps]
    BY <1>1, WriterGoes, Steps DEF WriteBatch
  <2> QED
    BY <1>1, <2>1, <2>2 DEF Types, WriteBatch, policies, trigger
<1>2. ASSUME NEW n \in 0 .. MaxBatch, CommitBatch(w, n)
      PROVE  Types'
  <2>1. /\ Min({segments + 1, MaxSegments}) \in 0 .. MaxSegments
        /\ Min({segments + 1, MaxSegments}) >= segments
    BY MinOfTwo, Bounds DEF Types
  <2>2. writer' \in [Writers -> WriterSteps]
    BY <1>2, WriterGoes, Steps DEF CommitBatch
  <2>3. open' \in BOOLEAN
    BY <1>2 DEF CommitBatch
  <2> QED
    BY <1>2, <2>1, <2>2, <2>3, Bounds DEF Types, CommitBatch, policies, trigger
<1>3. ASSUME RecordExplicit(w)
      PROVE  Types'
  <2>1. writer[w].n \in 0 .. MaxBatch
    BY <1>3, Steps DEF RecordExplicit, Types
  <2>2. AfterCommit(writes + writer[w].n) \in Nat
    BY <2>1, AfterCommitType, Bounds DEF Types
  <2>3. writer' \in [Writers -> WriterSteps]
    BY <1>3, WriterGoes, Steps DEF RecordExplicit
  <2> QED
    BY <1>3, <2>2, <2>3, Bounds DEF Types, RecordExplicit, policies, content
<1>4. ASSUME RecordWrites(w)
      PROVE  Types'
  <2>1. writer[w].n \in 0 .. MaxBatch
    BY <1>4, Steps DEF RecordWrites, Types
  <2>2. writer' \in [Writers -> WriterSteps]
    BY <1>4, WriterGoes, Steps DEF RecordWrites
  <2> QED
    BY <1>4, <2>1, <2>2, Bounds DEF Types, RecordWrites, policies, content
<1>5. ASSUME AutoCommit(w)
      PROVE  Types'
  <2>1. writer' \in [Writers -> WriterSteps]
    BY <1>5, WriterGoes, Steps DEF AutoCommit
  <2>2. open' \in BOOLEAN
    BY <1>5 DEF AutoCommit, CommitAll, Seal
  <2> QED
    BY <1>5, <2>1, <2>2, SealedType, Bounds DEF Types, AutoCommit, CommitAll, Seal, policies, trigger
<1>6. ASSUME NoteCommit(w)
      PROVE  Types'
  <2>1. AfterCommit(writes) \in Nat
    BY AfterCommitType DEF Types
  <2>2. writer' \in [Writers -> WriterSteps]
    BY <1>6, WriterGoes, Steps DEF NoteCommit
  <2> QED
    BY <1>6, <2>1, <2>2, Bounds DEF Types, NoteCommit, policies, content
<1> QED
  BY <1>1, <1>2, <1>3, <1>4, <1>5, <1>6 DEF FinishBatch

LEMMA OtherTypes ==
  ASSUME Types, ManualCommit \/ Maintain \/ Tick \/ UNCHANGED vars
  PROVE  Types'
<1>1. CASE ManualCommit
  <2>1. open' \in BOOLEAN
    BY <1>1 DEF ManualCommit, CommitAll, Seal
  <2> QED
    BY <1>1, <2>1, SealedType, Bounds DEF Types, ManualCommit, CommitAll, Seal, policies, trigger
<1>2. CASE Wake
  BY <1>2 DEF Types, Wake, ShouldCompact, policies, content, trigger
<1>3. CASE Compact
  <2>1. open' \in BOOLEAN
    BY <1>3 DEF Compact
  <2> QED
    BY <1>3, <2>1, Bounds DEF Types, Compact, policies, trigger
<1>4. CASE NoteCompaction
  BY <1>4, Bounds DEF Types, NoteCompaction, policies, content, trigger
<1>5. CASE Checkpoint
  <2>1. open' \in BOOLEAN
    BY <1>5 DEF Checkpoint, Seal
  <2> QED
    BY <1>5, <2>1, SealedType, Bounds DEF Types, Checkpoint, Seal, policies, trigger
<1>6. CASE Tick
  <2>1. /\ Min({sinceCommit + 1, MaxClock}) \in 0 .. MaxClock
        /\ Min({sinceCompaction + 1, MaxClock}) \in 0 .. MaxClock
    BY MinOfTwo, Bounds DEF Types
  <2> QED
    BY <1>6, <2>1 DEF Types, Tick, policies, content
<1>7. CASE UNCHANGED vars
  BY <1>7 DEF Types, vars, policies, content, trigger
<1> QED
  BY <1>1, <1>2, <1>3, <1>4, <1>5, <1>6, <1>7 DEF Maintain

-----------------------------------------------------------------------------
(***************************************************************************)
(* The sets that are counted.                                              *)
(***************************************************************************)
Measured ==
  /\ IsFiniteSet(Noting) /\ IsFiniteSet(Uncounted)
  /\ Cardinality(Writers) \in Nat
  /\ Cardinality(Noting) \in 0 .. Cardinality(Writers)
  /\ Noting # Writers => Cardinality(Noting) < Cardinality(Writers)
  /\ Cardinality(Uncounted) \in Nat
  /\ policy.every_n_writes # None => Slack \in Nat

LEMMA TypesMeasured == Types => Measured
<1> SUFFICES ASSUME Types PROVE Measured
  OBVIOUS
<1>1. /\ Cardinality(Writers) \in Nat
      /\ IsFiniteSet(1 .. MaxBatch)
  BY TriggersAssumption, FS_CardinalityType, FS_Interval, Bounds
<1>2. /\ IsFiniteSet(Noting)
      /\ Cardinality(Noting) <= Cardinality(Writers)
      /\ Noting # Writers => Cardinality(Noting) # Cardinality(Writers)
  BY TriggersAssumption, FS_Subset DEF Noting
<1>3. IsFiniteSet(Uncounted)
  <2>1. IsFiniteSet(Writers \X (1 .. MaxBatch))
    BY <1>1, TriggersAssumption, FS_Product
  <2> QED
    BY <2>1, FS_Subset DEF Uncounted
<1>4. Cardinality(Noting) \in Nat /\ Cardinality(Uncounted) \in Nat
  BY <1>2, <1>3, FS_CardinalityType
<1>5. policy.every_n_writes # None => Slack \in Nat
  BY PoliciesAssumption DEF Types, Slack
<1> QED
  BY <1>1, <1>2, <1>3, <1>4, <1>5 DEF Measured

(* The pairs of one writer.                                                *)
LEMMA OneWritersPairs ==
  ASSUME NEW w \in Writers, NEW n \in 0 .. MaxBatch
  PROVE  IsFiniteSet({w} \X (1 .. n)) /\ Cardinality({w} \X (1 .. n)) = n
<1>1. IsFiniteSet({w}) /\ Cardinality({w}) = 1
  BY FS_Singleton
<1>2. IsFiniteSet(1 .. n) /\ Cardinality(1 .. n) = n
  <2>1. n \in Nat
    BY Bounds
  <2> QED
    BY <2>1, FS_Interval
<1>3. Cardinality({w} \X (1 .. n)) = 1 * n
  BY <1>1, <1>2, FS_Product
<1>4. IsFiniteSet({w} \X (1 .. n))
  BY <1>1, <1>2, FS_Product
<1>5. n \in Nat
  BY Bounds
<1> QED
  BY <1>3, <1>4, <1>5

LEMMA DisjointUnion ==
  ASSUME NEW S, NEW T, IsFiniteSet(S), IsFiniteSet(T), S \cap T = {}
  PROVE  Cardinality(S \cup T) = Cardinality(S) + Cardinality(T)
<1>1. Cardinality(S \cup T) = Cardinality(S) + Cardinality(T) - Cardinality(S \cap T)
  BY FS_Union
<1>2. Cardinality(S \cap T) = 0
  BY FS_EmptySet
<1>3. Cardinality(S) \in Nat /\ Cardinality(T) \in Nat
  BY FS_CardinalityType
<1> QED
  BY <1>1, <1>2, <1>3

(* A commit leaves nothing to account for.                                 *)
LEMMA NothingUncommitted ==
  ASSUME Types', uncommitted' = 0
  PROVE  CountInv'
<1> SUFFICES ASSUME policy'.every_n_writes # None, Noting' # Writers
             PROVE  0 <= Cardinality(Uncounted') + Counted' + Forgotten'
  BY DEF CountInv
<1>1. Measured'
  BY TypesMeasured, PTL
<1>2. /\ Slack' \in Nat
      /\ Cardinality(Uncounted') \in Nat
      /\ Cardinality(Writers) - 1 - Cardinality(Noting') \in Nat
  BY <1>1 DEF Measured
<1>3. Counted' \in Nat
  BY <1>2 DEF Counted, Types
<1>4. Forgotten' \in Nat
  BY <1>2 DEF Forgotten
<1> QED
  BY <1>2, <1>3, <1>4

-----------------------------------------------------------------------------
(***************************************************************************)
(* The accounts, one action at a time.                                     *)
(***************************************************************************)
LEMMA WriteBatchCounts ==
  ASSUME IInv, NEW w \in Writers, NEW n \in 0 .. MaxBatch, WriteBatch(w, n)
  PROVE  CountInv'
<1>1. /\ writer[w] = Idle
      /\ writer'[w] = [at |-> "record", n |-> n]
      /\ \A v \in Writers : v # w => writer'[v] = writer[v]
  BY WriterGoes, Steps DEF IInv, WriteBatch
<1>2. /\ policy' = policy /\ writes' = writes
      /\ uncommitted' = Min({uncommitted + n, MaxPending})
  BY DEF WriteBatch, policies, trigger
<1>3. /\ Noting' = Noting /\ Noting # Writers
  BY <1>1 DEF Noting, Idle
<1>4. Cardinality(Uncounted') = Cardinality(Uncounted) + n
  <2>1. Uncounted' = Uncounted \cup ({w} \X (1 .. n))
    BY <1>1, Bounds DEF Uncounted, Idle
  <2>2. Uncounted \cap ({w} \X (1 .. n)) = {}
    BY <1>1 DEF Uncounted, Idle
  <2>3. IsFiniteSet(Uncounted)
    BY TypesMeasured DEF IInv, Measured
  <2>4. IsFiniteSet({w} \X (1 .. n)) /\ Cardinality({w} \X (1 .. n)) = n
    BY OneWritersPairs
  <2> QED
    BY <2>1, <2>2, <2>3, <2>4, DisjointUnion
<1>5. Counted' = Counted /\ Forgotten' = Forgotten
  BY <1>2, <1>3 DEF Counted, Forgotten, Slack
<1>6. uncommitted' <= uncommitted + n
  BY <1>2, MinOfTwo, Bounds DEF IInv, Types
<1> SUFFICES ASSUME policy.every_n_writes # None,
                    \A v \in Writers : writer'[v].at # "commit"
             PROVE  uncommitted' <= Cardinality(Uncounted') + Counted' + Forgotten'
  BY <1>2, <1>3 DEF CountInv
<1>7. \A v \in Writers : writer[v].at # "commit"
  BY <1>1 DEF Idle
<1>8. uncommitted <= Cardinality(Uncounted) + Counted + Forgotten
  BY <1>3, <1>7 DEF IInv, CountInv
<1>9. /\ Slack \in Nat /\ Cardinality(Uncounted) \in Nat
      /\ Cardinality(Writers) \in Nat /\ Cardinality(Noting) \in Nat
  BY TypesMeasured DEF IInv, Measured
<1>10. Counted \in Nat /\ Forgotten \in Int
  BY <1>9 DEF Counted, Forgotten, IInv, Types
<1>11. uncommitted \in Nat /\ uncommitted' \in Nat
  BY WriterTypes DEF IInv, Types
<1> QED
  BY <1>4, <1>5, <1>6, <1>8, <1>9, <1>10, <1>11

(* A count below N is a count up to the slack: what is counted moves from  *)
(* one account to the other.                                               *)
LEMMA RecordWritesCounts ==
  ASSUME IInv, NEW w \in Writers, RecordWrites(w)
  PROVE  CountInv'
<1> DEFINE n == writer[w].n
<1>0. n \in 0 .. MaxBatch /\ n \in Nat /\ writer[w].at = "record"
  BY Steps, Bounds DEF RecordWrites, IInv, Types
<1>1. /\ writer'[w] = IF ShouldCommit(writes') THEN [at |-> "commit"] ELSE Idle
      /\ \A v \in Writers : v # w => writer'[v] = writer[v]
  BY WriterGoes, Steps DEF IInv, RecordWrites
<1>2. policy' = policy /\ uncommitted' = uncommitted /\ writes' = writes + n
  BY DEF RecordWrites, policies, content
<1> HIDE DEF n
<1>3. Noting' = Noting /\ Noting # Writers
  BY <1>0, <1>1 DEF Noting, Idle
<1> SUFFICES ASSUME policy.every_n_writes # None,
                    \A v \in Writers : writer'[v].at # "commit"
             PROVE  uncommitted' <= Cardinality(Uncounted') + Counted' + Forgotten'
  BY <1>2, <1>3 DEF CountInv
<1>4. ~ShouldCommit(writes') /\ writer'[w] = Idle
  BY <1>1
<1>5. uncommitted <= Cardinality(Uncounted) + Counted + Forgotten
  <2>1. \A v \in Writers : writer[v].at # "commit"
    BY <1>0, <1>1
  <2> QED
    BY <2>1, <1>3 DEF IInv, CountInv
<1>6. Cardinality(Uncounted) = Cardinality(Uncounted') + n
  <2>1. Uncounted = Uncounted' \cup ({w} \X (1 .. n))
    BY <1>0, <1>1, <1>4, Bounds DEF Uncounted, Idle, n
  <2>2. Uncounted' \cap ({w} \X (1 .. n)) = {}
    BY <1>4 DEF Uncounted, Idle
  <2>3. IsFiniteSet(Uncounted')
    <3>1. Types'
      BY WriterTypes DEF IInv, FinishBatch
    <3>2. Measured'
      BY <3>1, TypesMeasured, PTL
    <3> QED
      BY <3>2 DEF Measured
  <2>4. IsFiniteSet({w} \X (1 .. n)) /\ Cardinality({w} \X (1 .. n)) = n
    BY <1>0, OneWritersPairs
  <2> QED
    BY <2>1, <2>2, <2>3, <2>4, DisjointUnion
<1>7. Counted' = Counted + n
  <2>1. /\ writes \in Nat /\ policy.every_n_writes \in Nat
        /\ writes + n < policy.every_n_writes
    BY <1>2, <1>4, <1>0, PoliciesAssumption DEF ShouldCommit, IInv, Types
  <2>2. Slack = policy.every_n_writes - 1 /\ Slack' = Slack
    BY <1>0, <1>2, <2>1 DEF Slack
  <2> QED
    BY <1>0, <1>2, <2>1, <2>2 DEF Counted
<1>8. Forgotten' = Forgotten
  BY <1>2, <1>3 DEF Forgotten, Slack
<1>9. /\ Slack \in Nat /\ Cardinality(Uncounted) \in Nat
      /\ Cardinality(Writers) \in Nat /\ Cardinality(Noting) \in Nat
  BY TypesMeasured DEF IInv, Measured
<1>10. Counted \in Nat /\ Forgotten \in Int /\ uncommitted \in Nat
  BY <1>9 DEF Counted, Forgotten, IInv, Types
<1>11. Cardinality(Uncounted') \in Int
  <2>1. Types'
    BY WriterTypes DEF IInv, FinishBatch
  <2>2. Measured'
    BY <2>1, TypesMeasured, PTL
  <2> QED
    BY <2>2 DEF Measured
<1> QED
  BY <1>0, <1>2, <1>5, <1>6, <1>7, <1>8, <1>9, <1>10, <1>11

(* Whatever a writer that notes its commit takes off the counter is at     *)
(* most one slack, and that is what noting allows for.                     *)
LEMMA NotingCounts ==
  ASSUME IInv, NEW w \in Writers, RecordExplicit(w) \/ NoteCommit(w)
  PROVE  CountInv'
<1>0. writer[w].at \in {"explicit", "note"}
  BY DEF RecordExplicit, NoteCommit
<1>1. /\ writer'[w] = Idle
      /\ \A v \in Writers : v # w => writer'[v] = writer[v]
  BY WriterGoes, Steps DEF IInv, RecordExplicit, NoteCommit
<1>2. policy' = policy /\ uncommitted' = uncommitted
  BY DEF RecordExplicit, NoteCommit, policies, content
<1>3. Types'
  BY WriterTypes DEF IInv, FinishBatch
<1>4. Measured'
  BY <1>3, TypesMeasured, PTL
<1>5. Uncounted' = Uncounted
  BY <1>0, <1>1 DEF Uncounted, Idle
<1>6. /\ Noting' # Writers
      /\ Cardinality(Noting) = Cardinality(Noting') + 1
  <2>1. w \in Noting /\ Noting' = Noting \ {w}
    BY <1>0, <1>1 DEF Noting, Idle
  <2>2. IsFiniteSet(Noting) /\ Cardinality(Noting) \in Nat
    BY TypesMeasured DEF IInv, Measured
  <2>3. Cardinality(Noting \ {w}) = Cardinality(Noting) - 1
    BY <2>1, <2>2, FS_RemoveElement
  <2>4. w \notin Noting'
    BY <2>1
  <2> QED
    BY <2>1, <2>2, <2>3, <2>4
<1> SUFFICES ASSUME policy.every_n_writes # None,
                    \A v \in Writers : writer'[v].at # "commit"
             PROVE  uncommitted' <= Cardinality(Uncounted') + Counted' + Forgotten'
  BY <1>2, <1>6 DEF CountInv
<1>7. \A v \in Writers : writer[v].at # "commit"
  BY <1>0, <1>1
<1>8. /\ Slack \in Nat /\ Cardinality(Uncounted) \in Nat
      /\ Cardinality(Writers) \in Nat
      /\ Cardinality(Noting) \in 0 .. Cardinality(Writers)
  BY TypesMeasured DEF IInv, Measured
<1>9. /\ Slack' = Slack /\ Cardinality(Noting') \in Nat
      /\ Counted' \in Nat /\ Counted \in 0 .. Slack /\ uncommitted \in Nat
  BY <1>2, <1>3, <1>4, <1>8 DEF Slack, Counted, Measured, IInv, Types
<1>10. Forgotten' = (Cardinality(Writers) - Cardinality(Noting)) * Slack
  <2>1. Cardinality(Writers) - 1 - Cardinality(Noting') = Cardinality(Writers) - Cardinality(Noting)
    BY <1>6, <1>8, <1>9
  <2> QED
    BY <2>1, <1>9 DEF Forgotten
<1>11. CASE Noting = Writers
  <2>1. uncommitted = 0
    BY <1>7, <1>11 DEF IInv, CountInv
  <2>2. Forgotten' = 0
    BY <1>8, <1>10, <1>11
  <2> QED
    BY <1>2, <1>5, <1>8, <1>9, <2>1, <2>2
<1>12. CASE Noting # Writers
  <2>1. uncommitted <= Cardinality(Uncounted) + Counted + Forgotten
    BY <1>7, <1>12 DEF IInv, CountInv
  <2>2. Forgotten' = Forgotten + Slack /\ Forgotten \in Int
    <3>1. \A a, b, m \in Int : (a - b) * m = (a - 1 - b) * m + m /\ (a - 1 - b) * m \in Int
      OBVIOUS
    <3>2. Cardinality(Writers) \in Int /\ Cardinality(Noting) \in Int /\ Slack \in Int
      BY <1>8
    <3>3. /\ (Cardinality(Writers) - Cardinality(Noting)) * Slack
                = (Cardinality(Writers) - 1 - Cardinality(Noting)) * Slack + Slack
          /\ (Cardinality(Writers) - 1 - Cardinality(Noting)) * Slack \in Int
      BY ONLY <3>1, <3>2
    <3> QED
      BY <1>10, <3>3 DEF Forgotten
  <2> QED
    BY <1>2, <1>5, <1>8, <1>9, <2>1, <2>2
<1> QED
  BY <1>11, <1>12

(* The steps that neither write nor note leave the accounts alone, or      *)
(* commit everything.                                                      *)
LEMMA OtherCounts ==
  ASSUME IInv, ManualCommit \/ Maintain \/ Tick \/ UNCHANGED vars
  PROVE  CountInv'
<1>1. CASE ManualCommit
  <2>1. Types'
    BY <1>1, OtherTypes DEF IInv
  <2> QED
    BY <1>1, <2>1, NothingUncommitted DEF ManualCommit, CommitAll
<1>2. CASE Maintain \/ Tick \/ UNCHANGED vars
  <2>1. /\ policy' = policy /\ uncommitted' = uncommitted
        /\ writes' = writes /\ writer' = writer
    BY <1>2 DEF Maintain, Wake, Compact, NoteCompaction, Checkpoint, Tick,
                vars, policies, content, trigger
  <2> QED
    BY <2>1 DEF IInv, CountInv, Uncounted, Noting, Counted, Forgotten, Slack
<1> QED
  BY <1>1, <1>2

LEMMA InitCounts == Init => CountInv
<1> SUFFICES ASSUME Init PROVE CountInv
  OBVIOUS
<1>1. uncommitted = 0 /\ writes = 0
  BY DEF Init
<1>2. Measured
  BY InitTypes, TypesMeasured
<1> SUFFICES ASSUME policy.every_n_writes # None, Noting # Writers
             PROVE  0 <= Cardinality(Uncounted) + Counted + Forgotten
  BY <1>1 DEF CountInv
<1>3. /\ Slack \in Nat /\ Cardinality(Uncounted) \in Nat
      /\ Cardinality(Writers) - 1 - Cardinality(Noting) \in Nat
  BY <1>2 DEF Measured
<1>4. Counted \in Nat /\ Forgotten \in Nat
  BY <1>1, <1>3 DEF Counted, Forgotten
<1> QED
  BY <1>3, <1>4

-----------------------------------------------------------------------------
(* Every step of the writers, of the maintenance loop and of the clock     *)
(* keeps the counters within their types and the accounts balanced.        *)
THEOREM TriggersInvariant == Spec => []IInv
<1>1. Init => IInv
  BY InitTypes, InitCounts DEF IInv
<1>2. IInv /\ [Next]_vars => IInv'
  <2> SUFFICES ASSUME IInv, [Next]_vars
               PROVE  IInv'
    OBVIOUS
  <2>1. ASSUME NEW w \in Writers, NEW n \in 0 .. MaxBatch, WriteBatch(w, n)
        PROVE  IInv'
    BY <2>1, WriterTypes, WriteBatchCounts DEF IInv
  <2>2. ASSUME NEW w \in Writers, NEW n \in 0 .. MaxBatch, CommitBatch(w, n)
        PROVE  IInv'
    <3>1. Types'
      BY <2>2, WriterTypes DEF IInv
    <3> QED
      BY <2>2, <3>1, NothingUncommitted DEF IInv, CommitBatch
  <2>3. ASSUME NEW w \in Writers, RecordExplicit(w) \/ NoteCommit(w)
        PROVE  IInv'
    BY <2>3, WriterTypes, NotingCounts DEF IInv, FinishBatch
  <2>4. ASSUME NEW w \in Writers, RecordWrites(w)
        PROVE  IInv'
    BY <2>4, WriterTypes, RecordWritesCounts DEF IInv, FinishBatch
  <2>5. ASSUME NEW w \in Writers, AutoCommit(w)
        PROVE  IInv'
    <3>1. Types'
      BY <2>5, WriterTypes DEF IInv, FinishBatch
    <3> QED
      BY <2>5, <3>1, NothingUncommitted DEF IInv, AutoCommit, CommitAll
  <2>6. CASE ManualCommit \/ Maintain \/ Tick \/ UNCHANGED vars
    BY <2>6, OtherTypes, OtherCounts DEF IInv
  <2> QED
    BY <2>1, <2>2, <2>3, <2>4, <2>5, <2>6 DEF Next, FinishBatch
<1> QED
  BY <1>1, <1>2, PTL DEF Spec

(* The evaluator's counter and clocks (version/policy.rs) stay within      *)
(* their types: two writers that both note a commit never take the count   *)
(* of writes below zero.                                                   *)
THEOREM TypeCorrect == Spec => []TypeOK
<1>1. IInv => TypeOK
  BY Steps DEF IInv, Types, TypeOK
<1> QED
  BY <1>1, TriggersInvariant, PTL

(* With every_n_writes = N and any number of writers, no more than N - 1   *)
(* upserts for each writer are uncommitted when no batch is running.       *)
THEOREM CommitsInTime == Spec => []StalenessBound
<1>1. IInv => StalenessBound
  <2> SUFFICES ASSUME IInv, AtRest, policy.every_n_writes # None
               PROVE  uncommitted <= Cardinality(Writers) * Slack
    BY DEF StalenessBound
  <2>1. Noting = {} /\ Uncounted = {}
    BY DEF AtRest, Noting, Uncounted, Idle
  <2>2. /\ Cardinality(Writers) \in Nat /\ Slack \in Nat
        /\ Cardinality(Noting) = 0 /\ Cardinality(Uncounted) = 0
    BY <2>1, TypesMeasured, FS_EmptySet DEF IInv, Measured
  <2>3. \A w \in Writers : writer[w].at # "commit"
    BY DEF AtRest, Idle
  <2>4. CASE Writers = {}
    <3>1. uncommitted = 0
      BY <2>1, <2>3, <2>4 DEF IInv, CountInv
    <3> QED
      BY <2>2, <3>1
  <2>5. CASE Writers # {}
    <3>1. uncommitted <= Cardinality(Uncounted) + Counted + Forgotten
      BY <2>1, <2>3, <2>5 DEF IInv, CountInv
    <3>2. Counted \in 0 .. Slack /\ uncommitted \in Nat
      BY <2>2 DEF Counted, IInv, Types
    <3>3. \A a, m \in Int : (a - 1 - 0) * m + m = a * m /\ (a - 1 - 0) * m \in Int
      OBVIOUS
    <3>4. /\ Forgotten + Slack = Cardinality(Writers) * Slack
          /\ Forgotten \in Int
      BY <2>2, <3>3 DEF Forgotten
    <3> QED
      BY <2>2, <3>1, <3>2, <3>4
  <2> QED
    BY <2>4, <2>5
<1> QED
  BY <1>1, TriggersInvariant, PTL
=============================================================================
