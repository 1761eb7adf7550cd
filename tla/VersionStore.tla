---------------------------- MODULE VersionStore ----------------------------
(***************************************************************************)
(* The commit registry of one collection (version/store.rs): every         *)
(* operation runs under Collection.versions' mutex, so each is one step.   *)
(* The caller chooses the segments and tombstones a commit records; the    *)
(* collection module says which ones it really passes.                     *)
(***************************************************************************)
EXTENDS VersionOps

CONSTANTS
  SegmentRefs,   \* segment references a commit may list: [id, lo, hi]
  Tombstones,    \* deletion vectors a commit may freeze
  Rules,         \* retention rules GC is called with
  MaxVersions    \* bound on allocated version ids

ASSUME VersionsBound == MaxVersions \in Nat
ASSUME RulesShape ==
  Rules \subseteq [keep_last : Nat \cup {None},
                   keep_tagged : BOOLEAN, keep_branch_heads : BOOLEAN]
ASSUME TagNone == None \notin TagNames

VARIABLE store

Init == store = EmptyStore

Commit(segments, deletions, tag) ==
  /\ store.next < MaxVersions
  /\ store' = CommitTo(store, segments, deletions, tag)

(* create_tag / create_branch: refused for a version that does not exist.  *)
CreateTag(name, v) ==
  /\ v \in Versions(store)
  /\ store' = SetTag(store, name, v)

CreateBranch(name, v) ==
  /\ v \in Versions(store)
  /\ store' = SetBranch(store, name, v)

Gc(rules) == store' = Collect(store, rules)

Next ==
  \/ \E segments \in SUBSET SegmentRefs, deletions \in Tombstones,
        tag \in TagNames \cup {None} : Commit(segments, deletions, tag)
  \/ \E name \in TagNames, v \in 0 .. MaxVersions : CreateTag(name, v)
  \/ \E name \in BranchNames, v \in 0 .. MaxVersions : CreateBranch(name, v)
  \/ \E rules \in Rules : Gc(rules)

Spec == Init /\ [][Next]_store

-----------------------------------------------------------------------------

Manifests ==
  [parent : Nat \cup {None}, segments : SUBSET SegmentRefs, deletions : Tombstones]

(* The fields of the store hold values of the types VersionStore declares. *)
TypeOK ==
  /\ store = [commits |-> store.commits, head |-> store.head,
              branches |-> store.branches, tags |-> store.tags,
              next |-> store.next]
  /\ Versions(store) \subseteq Nat
  /\ store.commits \in [Versions(store) -> Manifests]
  /\ store.head \in Nat \cup {None}
  /\ store.branches \in [BranchNames -> Nat \cup {None}]
  /\ store.tags \in [TagNames -> Nat \cup {None}]
  /\ store.next \in Nat

(* HEAD is the newest version ever committed and GC never drops it,        *)
(* whatever the rules: commit() always advances it, retained_versions      *)
(* always keeps it.                                                        *)
HeadIsNewest ==
  IF store.next = 0
  THEN store.head = None /\ Versions(store) = {}
  ELSE store.head = store.next - 1 /\ store.head \in Versions(store)

(* History is linear: since HEAD is never moved back (restore commits      *)
(* forward), version v was committed on top of v - 1, even when GC has     *)
(* since dropped v - 1 or a branch points elsewhere.                       *)
LinearHistory ==
  \A v \in Versions(store) :
    /\ v < store.next
    /\ store.commits[v].parent = IF v = 0 THEN None ELSE v - 1

(* Every pointer was once a real version, so no later commit can take the  *)
(* id a stale tag or branch still names (next_version never goes back).    *)
PointersBelowNext ==
  \A v \in Pointers(store.tags) \cup Pointers(store.branches) : v < store.next

(* What search_at and scroll(at) rely on when they unwrap the manifest of  *)
(* a resolved selector: resolve() never answers with a collected version.  *)
ResolvedVersionExists ==
  \A sel \in Selectors(0 .. MaxVersions) :
    Resolve(store, sel) # None => Resolve(store, sel) \in Versions(store)

(* Manifest is "an immutable record": no step changes a retained manifest, *)
(* and a version id that appears is the one next_version promised, never   *)
(* that of a version already collected.                                    *)
ManifestsImmutable ==
  [][/\ \A v \in Versions(store) \cap Versions(store') :
          store'.commits[v] = store.commits[v]
     /\ \A v \in Versions(store') \ Versions(store) : v = store.next]_store

(* GC reports exactly the segments that stop being referenced: a missing   *)
(* one would leak its file, an extra one would delete a file a retained    *)
(* version needs.                                                          *)
GcReportExact ==
  \A rules \in Rules :
    OrphanSegments(store, rules)
      = AllReferenced(store) \ AllReferenced(Collect(store, rules))

(* Retention keeps what the rules promise: at least keep_last versions     *)
(* (all when there are fewer), only pointers keep a version older than one *)
(* that is dropped, pointers the rules protect keep theirs, and a second   *)
(* pass with the same rules drops nothing.                                 *)
GcKeepsRecent ==
  \A rules \in Rules :
    LET after == Collect(store, rules)
    IN  /\ rules.keep_last # None =>
             \/ Cardinality(Versions(after)) >= rules.keep_last
             \/ Versions(after) = Versions(store)
        /\ RemovedVersions(after, rules) = {}
        /\ \A v \in Versions(after), dropped \in Versions(store) \ Versions(after) :
             \/ v > dropped
             \/ v \in {store.head} \cup Pointers(store.tags) \cup Pointers(store.branches)
        /\ \A v \in Pointers(store.tags) \cap Versions(store) :
             rules.keep_tagged => v \in Versions(after)
        /\ \A v \in Pointers(store.branches) \cap Versions(store) :
             rules.keep_branch_heads => v \in Versions(after)
=============================================================================
