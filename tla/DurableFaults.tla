---------------------------- MODULE DurableFaults ----------------------------
(***************************************************************************)
(* DurableHistory with effects that fail: the call returns the error, the  *)
(* collection stays open, with whatever the effect left behind.  A write   *)
(* of a framed file can also fail after its rename (write_atomic's last    *)
(* step, the fsync of the directory): the file is then the new one.        *)
(*    "fail"      any effect fails; HEAD only before its rename            *)
(*    "tear"      an append fails with part of the record in the log       *)
(*    "late"      HEAD's write fails after its rename                      *)
(***************************************************************************)
EXTENDS DurableHistory

CONSTANT MaxFaults

ASSUME FaultsAssumption == MaxFaults \in Nat

VARIABLES
  doubtful,  \* ids deleted or allocated by writes that returned an error
  faults     \* the kinds of the effects that failed, in order

faultVars == <<doubtful, faults>>

Fault(kind) ==
  /\ up /\ kind \in Operations
  /\ Len(faults) < MaxFaults
  /\ faults' = Append(faults, kind)

(* write_batch leaves at the first append that fails: the records before   *)
(* it are in the log, and of its own perhaps a part; the ids it had taken  *)
(* stay taken and nothing is applied.                                      *)
FailAppend(n, deletes, torn) ==
  /\ Ready("write")
  /\ Fault(IF torn THEN "tear" ELSE "fail")
  /\ n + Len(deletes) \in 1 .. MaxBatch
  /\ mem.nextId + n <= MaxIds
  /\ LET batch == Batch(deletes, mem.nextId, n)
     IN  \E k \in 1 .. Len(batch) :
           LET logged == SubSeq(batch, 1, k - 1) \o (IF torn THEN <<Torn>> ELSE <<>>)
           IN  /\ Len(wal[generation]) + Len(logged) <= MaxLog
               /\ wal' = [wal EXCEPT ![generation] = @ \o logged]
               /\ mem' = [mem EXCEPT !.nextId =
                            @ + Max({0, k - Len(deletes)})]
               /\ doubtful' = doubtful \cup Deleted(SubSeq(batch, 1, k))
                                      \cup Upserted(SubSeq(batch, 1, k))
  /\ UNCHANGED <<up, generation, persisted, task, synced, head, versions, segFiles,
                 crashes>>

(* The fsync fails: the batch is in the log but never applied.             *)
FailFlush ==
  /\ Fault("fail")
  /\ task.at = "flush"
  /\ doubtful' = doubtful \cup Deleted(task.batch) \cup Upserted(task.batch)
  /\ task' = Idle
  /\ UNCHANGED <<up, mem, generation, persisted, disk, crashes>>

(* Faulty variant: persisted_segments gets the id before the write, so a   *)
(* segment whose write failed is never written again.                      *)
FailPersistAfterMarking ==
  /\ Fault("fail")
  /\ task.at = "segments" /\ ToWrite # {}
  /\ persisted' = persisted \cup {Min(ToWrite)}
  /\ task' = Idle
  /\ UNCHANGED <<up, mem, generation, wal, synced, head, versions, segFiles, doubtful,
                 crashes>>

(* persist_versions fails at a segment or at the versions file.  The       *)
(* commit, tag, branch, restore or GC stays done in memory.                *)
FailPersist ==
  /\ Fault("fail")
  /\ task.at = "segments"
  /\ task' = Idle
  /\ \/ UNCHANGED <<segFiles, versions>>
     \/ ToWrite # {} /\ StoreSegment(Min(ToWrite)) /\ UNCHANGED versions
     \/ ToWrite = {} /\ versions' = mem.vs /\ UNCHANGED segFiles
  /\ UNCHANGED <<up, mem, generation, persisted, wal, synced, head, doubtful, crashes>>

(* checkpoint fails at a segment, or at creating the next log: an empty    *)
(* one and a missing one read the same.                                    *)
FailCheckpoint ==
  /\ Fault("fail")
  /\ task.at = "checkpoint"
  /\ task' = Idle
  /\ \/ UNCHANGED segFiles
     \/ task.todo # {} /\ StoreSegment(Min(task.todo))
  /\ UNCHANGED <<up, mem, generation, persisted, wal, synced, head, versions, doubtful,
                 crashes>>

(* Faulty variant: the next log is used although HEAD does not name it.    *)
FailHeadAfterSwitch ==
  /\ Fault("fail")
  /\ task.at = "head"
  /\ generation' = generation + 1
  /\ synced' = Len(wal[generation + 1])
  /\ task' = Idle
  /\ UNCHANGED <<up, mem, persisted, wal, head, versions, segFiles, doubtful, crashes>>

FailHead ==
  /\ Fault("fail")
  /\ task.at = "head"
  /\ task' = Idle
  /\ UNCHANGED <<up, mem, generation, persisted, disk, doubtful, crashes>>

(* The rename is done, then fsync_dir fails: `?` leaves before the switch  *)
(* to the next log, so writes go on in the log HEAD no longer names.       *)
FailHeadLate ==
  /\ Fault("late")
  /\ task.at = "head"
  /\ head' = CheckpointHead(mem, generation + 1)
  /\ task' = Idle
  /\ UNCHANGED <<up, mem, generation, persisted, wal, synced, versions, segFiles,
                 doubtful, crashes>>

(* Removing a retired log or a segment file is best effort: the error is   *)
(* dropped and the file stays.                                             *)
KeepRetiredLog ==
  /\ Fault("fail")
  /\ task.at = "retire"
  /\ generation' = generation + 1
  /\ synced' = Len(wal[generation + 1])
  /\ task' = Idle
  /\ UNCHANGED <<up, mem, persisted, wal, head, versions, segFiles, doubtful, crashes>>

FInit == HInit /\ doubtful = {} /\ faults = <<>>

FNext ==
  \/ HNext /\ UNCHANGED faultVars
  \/ \E n \in 0 .. MaxBatch, deletes \in DeleteLists, torn \in BOOLEAN :
       FailAppend(n, deletes, torn) /\ Observe
  \/ FailFlush /\ Observe
  \/ FailPersist /\ Observe
  \/ FailCheckpoint /\ Observe
  \/ FailHead /\ Observe
  \/ FailHeadLate /\ Observe
  \/ KeepRetiredLog /\ Observe

FSpec == FInit /\ [][FNext]_<<vars, historyVars, faultVars>>

-----------------------------------------------------------------------------

(* A write that was acked survives whatever failed around it: stopping now *)
(* and opening again changes only points whose own write returned an       *)
(* error.                                                                  *)
AckedDespiteFaults ==
  up /\ ~InFlight =>
    \A log \in SurvivingLogs :
      LET recovered == Live(Recover(log))
      IN  (recovered \ Live(mem)) \cup (Live(mem) \ recovered) \subseteq doubtful

(* The part of it that holds: any failing fsync, segment, versions file,   *)
(* log or removal, and a HEAD that was not renamed, cost no acked write.   *)
AckedDespiteCleanFaults ==
  Range(faults) \subseteq {"fail"} => AckedDespiteFaults

SameBut(ids, s, t) == (s \ t) \cup (t \ s) \subseteq ids

(* Versions are immutable snapshots, through seals, checkpoints,           *)
(* compactions, crashes, recoveries and failing effects, as long as none   *)
(* of their segments' ids went back to the allocator in a crash.  diff,    *)
(* which reads only the segments' id ranges, tells them apart by exactly   *)
(* the points they held, give or take ids that failed writes took.         *)
VersionsIntact ==
  /\ \A v \in Intact : ReadsBack(v)
  /\ up => \A from, to \in Versions(mem.vs) :
       LET diff == Diff(mem.vs, from, to) IN
       /\ SameBut(doubtful, diff.added, frozen[to] \ frozen[from])
       /\ SameBut(doubtful, diff.removed, frozen[from] \ frozen[to])
=============================================================================
