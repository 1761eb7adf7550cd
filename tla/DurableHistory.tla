--------------------------- MODULE DurableHistory ---------------------------
(***************************************************************************)
(* Durable with two history variables, which no action reads: what each    *)
(* version held when it was committed, and which segment ids a crash has   *)
(* given back to the allocator while a version still names them.           *)
(***************************************************************************)
EXTENDS Durable

VARIABLES
  frozen,    \* version id -> its live points when it was committed
  tainted    \* ids of versions' segments that open() will allocate again

historyVars == <<frozen, tainted>>

(* The versions somebody may still ask for: in memory or in the file.      *)
Known == Versions(StoredStore) \cup (IF up THEN Versions(mem.vs) ELSE {})

(* open() takes nextSeg from HEAD, whatever the file versions names.       *)
HandedBack == {i \in AllReferenced(StoredStore) : i >= Checkpointed.nextSeg}

HInit == Init /\ frozen = [v \in {} |-> {}] /\ tainted = {}

Observe ==
  /\ frozen' = [v \in Known' |-> IF v \in Known THEN frozen[v] ELSE Live(mem')]
  /\ tainted' = IF up /\ ~up' THEN tainted \cup HandedBack ELSE tainted

HNext == Next /\ Observe

HSpec == HInit /\ [][HNext]_<<vars, historyVars>>

-----------------------------------------------------------------------------

(* Version v reads back as it was committed, by search_at and scroll, and  *)
(* again after a stop and a restart.                                       *)
ReadsBack(v) ==
  /\ up /\ v \in Versions(mem.vs) => LiveAt(mem, v) = frozen[v]
  /\ v \in Versions(StoredStore) => LiveAt(Recover(ActiveLog), v) = frozen[v]

ManifestOf(v) ==
  IF up /\ v \in Versions(mem.vs) THEN mem.vs.commits[v] ELSE StoredStore.commits[v]

(* The versions none of whose segments' ids went back to the allocator in  *)
(* a crash.                                                                *)
Intact == {v \in Known : SegmentIds(ManifestOf(v)) \cap tainted = {}}

(* open() restores "the whole master registry ... so time-travel survives  *)
(* restart": the same with no condition on what a crash did.               *)
TimeTravelStable == \A v \in Known : ReadsBack(v)
=============================================================================
