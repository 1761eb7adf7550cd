-------------------------- MODULE VersionStoreProofs --------------------------
(***************************************************************************)
(* Theorems about VersionStore for every set of names, segments,           *)
(* tombstones and retention rules, and any number of versions.             *)
(***************************************************************************)
EXTENDS VersionStore, FiniteSetTheorems, TLAPS

(***************************************************************************)
(* What each operation does to the set of versions and to the fields the   *)
(* invariants read.                                                        *)
(***************************************************************************)

(* commit() adds the manifest of next_version and touches no other one.    *)
LEMMA CommitEffect ==
  ASSUME NEW segments, NEW deletions, NEW tag,
         store' = CommitTo(store, segments, deletions, tag)
  PROVE  /\ Versions(store') = Versions(store) \cup {store.next}
         /\ store'.commits[store.next] = Manifest(store.head, segments, deletions)
         /\ \A v \in Versions(store) \ {store.next} :
              store'.commits[v] = store.commits[v]
         /\ store'.head = store.next
         /\ store'.next = store.next + 1
         /\ store'.branches = store.branches
         /\ store'.tags = IF tag = None THEN store.tags
                          ELSE [store.tags EXCEPT ![tag] = store.next]
BY DEF CommitTo, Versions

(* gc() only restricts commits, and HEAD is always in the retained set.    *)
LEMMA CollectEffect ==
  ASSUME TypeOK, NEW rules
  PROVE  /\ Versions(Collect(store, rules)) \subseteq Versions(store)
         /\ Versions(Collect(store, rules))
              = Versions(store) \ RemovedVersions(store, rules)
         /\ \A v \in Versions(Collect(store, rules)) :
              Collect(store, rules).commits[v] = store.commits[v]
         /\ store.head \in Versions(store) =>
              store.head \in Versions(Collect(store, rules))
         /\ Collect(store, rules).head = store.head
         /\ Collect(store, rules).next = store.next
         /\ Collect(store, rules).tags = store.tags
         /\ Collect(store, rules).branches = store.branches
<1>1. store.head \in Versions(store) => store.head \notin RemovedVersions(store, rules)
  <2>1. ASSUME store.head \in Versions(store)
        PROVE  store.head \in RetainedVersions(store, rules)
    BY <2>1, NoneAssumption DEF RetainedVersions, TypeOK
  <2>2. QED
    BY <2>1 DEF RemovedVersions
<1>2. QED
  BY <1>1 DEF Collect, Versions, TypeOK

-----------------------------------------------------------------------------

(* The store keeps its types: []TypeOK of the runs, for every constant.    *)
THEOREM TypeCorrect == Spec => []TypeOK
<1>1. Init => TypeOK
  BY DEF Init, TypeOK, EmptyStore, Versions, Manifests
<1>2. TypeOK /\ [Next]_store => TypeOK'
  <2> SUFFICES ASSUME TypeOK, [Next]_store PROVE TypeOK'
    OBVIOUS
  <2>1. ASSUME NEW segments \in SUBSET SegmentRefs, NEW deletions \in Tombstones,
               NEW tag \in TagNames \cup {None}, Commit(segments, deletions, tag)
        PROVE  TypeOK'
    <3>1. store' = CommitTo(store, segments, deletions, tag)
      BY <2>1 DEF Commit
    <3>2. store' = [commits |-> store'.commits, head |-> store'.head,
                    branches |-> store'.branches, tags |-> store'.tags,
                    next |-> store'.next]
      BY <3>1 DEF CommitTo
    <3>3. Manifest(store.head, segments, deletions) \in Manifests
      BY DEF TypeOK, Manifest, Manifests
    <3>4. store'.commits \in [Versions(store') -> Manifests]
      BY <3>1, <3>3 DEF CommitTo, Versions, TypeOK
    <3>5. store'.tags \in [TagNames -> Nat \cup {None}]
      <4>1. store.tags \in [TagNames -> Nat \cup {None}] /\ store.next \in Nat
        BY DEF TypeOK
      <4>2. store'.tags = IF tag = None THEN store.tags
                          ELSE [store.tags EXCEPT ![tag] = store.next]
        BY <3>1 DEF CommitTo
      <4>3. QED
        BY <4>1, <4>2
    <3>6. QED
      BY <3>1, <3>2, <3>4, <3>5, CommitEffect DEF TypeOK
  <2>2. ASSUME NEW name \in TagNames, NEW v \in 0 .. MaxVersions, CreateTag(name, v)
        PROVE  TypeOK'
    BY <2>2 DEF CreateTag, SetTag, Versions, TypeOK
  <2>3. ASSUME NEW name \in BranchNames, NEW v \in 0 .. MaxVersions,
               CreateBranch(name, v)
        PROVE  TypeOK'
    BY <2>3 DEF CreateBranch, SetBranch, Versions, TypeOK
  <2>4. ASSUME NEW rules \in Rules, Gc(rules)
        PROVE  TypeOK'
    <3>1. store' = Collect(store, rules)
      BY <2>4 DEF Gc
    <3>2. store'.commits \in [Versions(store') -> Manifests]
      BY <3>1 DEF Collect, Versions, TypeOK
    <3>3. store' = [commits |-> store'.commits, head |-> store'.head,
                    branches |-> store'.branches, tags |-> store'.tags,
                    next |-> store'.next]
      BY <3>1 DEF Collect, TypeOK
    <3>4. QED
      BY <3>1, <3>2, <3>3, CollectEffect DEF TypeOK
  <2>5. CASE UNCHANGED store
    BY <2>5 DEF TypeOK, Versions
  <2>6. QED
    BY <2>1, <2>2, <2>3, <2>4, <2>5 DEF Next
<1>3. QED
  BY <1>1, <1>2, PTL DEF Spec

-----------------------------------------------------------------------------
(***************************************************************************)
(* History.  HeadIsNewest and LinearHistory are inductive together: a new  *)
(* manifest's parent is HEAD, so it is next - 1 only because HEAD is.      *)
(* PointersBelowNext is inductive with LinearHistory, since a pointer is   *)
(* only ever set to a version that exists.                                 *)
(***************************************************************************)
HistoryInv == HeadIsNewest /\ LinearHistory /\ PointersBelowNext

(* The new store has no HEAD, no version and no pointer.                   *)
LEMMA HistoryInit == Init => HistoryInv
BY DEF Init, HistoryInv, HeadIsNewest, LinearHistory, PointersBelowNext,
       EmptyStore, Versions, Pointers

(* The history invariant is inductive: commit, pointer moves and GC keep   *)
(* it.                                                                     *)
LEMMA HistoryStep == TypeOK /\ HistoryInv /\ [Next]_store => HistoryInv'
<1> SUFFICES ASSUME TypeOK, HistoryInv, [Next]_store PROVE HistoryInv'
  OBVIOUS
<1>1. ASSUME NEW segments \in SUBSET SegmentRefs, NEW deletions \in Tombstones,
             NEW tag \in TagNames \cup {None}, Commit(segments, deletions, tag)
      PROVE  HistoryInv'
  <2>1. store' = CommitTo(store, segments, deletions, tag)
    BY <1>1 DEF Commit
  <2>2. /\ Versions(store') = Versions(store) \cup {store.next}
        /\ store'.commits[store.next] = Manifest(store.head, segments, deletions)
        /\ \A v \in Versions(store) \ {store.next} :
             store'.commits[v] = store.commits[v]
        /\ store'.head = store.next
        /\ store'.next = store.next + 1
        /\ store'.branches = store.branches
        /\ store'.tags = IF tag = None THEN store.tags
                         ELSE [store.tags EXCEPT ![tag] = store.next]
    BY <2>1, CommitEffect
  <2>3. store.next \in Nat /\ store.next \notin Versions(store)
    BY DEF HistoryInv, LinearHistory, TypeOK
  <2>4. HeadIsNewest'
    BY <2>2, <2>3 DEF HeadIsNewest
  <2>5. LinearHistory'
    <3> SUFFICES ASSUME NEW v \in Versions(store')
                 PROVE  /\ v < store'.next
                        /\ store'.commits[v].parent = IF v = 0 THEN None ELSE v - 1
      BY DEF LinearHistory
    <3>1. CASE v = store.next
      BY <3>1, <2>2, <2>3 DEF HistoryInv, HeadIsNewest, Manifest
    <3>2. CASE v \in Versions(store)
      BY <3>2, <2>2, <2>3 DEF HistoryInv, LinearHistory, TypeOK
    <3>3. QED
      BY <3>1, <3>2, <2>2
  <2>6. PointersBelowNext'
    <3>1. Pointers(store'.branches) = Pointers(store.branches)
      BY <2>2
    <3>2. Pointers(store'.tags) \subseteq Pointers(store.tags) \cup {store.next}
      BY <2>2 DEF Pointers, TypeOK
    <3>3. \A v \in Pointers(store.tags) \cup Pointers(store.branches) : v \in Nat
      BY DEF Pointers, TypeOK
    <3>4. QED
      BY <3>1, <3>2, <3>3, <2>2, <2>3 DEF HistoryInv, PointersBelowNext
  <2>7. QED
    BY <2>4, <2>5, <2>6 DEF HistoryInv
<1>2. ASSUME NEW name \in TagNames, NEW v \in 0 .. MaxVersions, CreateTag(name, v)
      PROVE  HistoryInv'
  <2>1. /\ store'.commits = store.commits /\ store'.head = store.head
        /\ store'.next = store.next /\ store'.branches = store.branches
        /\ store'.tags = [store.tags EXCEPT ![name] = v]
    BY <1>2 DEF CreateTag, SetTag, TypeOK
  <2>2. Pointers(store'.tags) \subseteq Pointers(store.tags) \cup {v}
    BY <2>1 DEF Pointers, TypeOK
  <2>3. v < store.next
    BY <1>2 DEF CreateTag, HistoryInv, LinearHistory
  <2>4. PointersBelowNext'
    BY <2>1, <2>2, <2>3 DEF HistoryInv, PointersBelowNext
  <2>5. QED
    BY <2>1, <2>4 DEF HistoryInv, HeadIsNewest, LinearHistory, Versions
<1>3. ASSUME NEW name \in BranchNames, NEW v \in 0 .. MaxVersions,
             CreateBranch(name, v)
      PROVE  HistoryInv'
  <2>1. /\ store'.commits = store.commits /\ store'.head = store.head
        /\ store'.next = store.next /\ store'.tags = store.tags
        /\ store'.branches = [store.branches EXCEPT ![name] = v]
    BY <1>3 DEF CreateBranch, SetBranch, TypeOK
  <2>2. Pointers(store'.branches) \subseteq Pointers(store.branches) \cup {v}
    BY <2>1 DEF Pointers, TypeOK
  <2>3. v < store.next
    BY <1>3 DEF CreateBranch, HistoryInv, LinearHistory
  <2>4. PointersBelowNext'
    BY <2>1, <2>2, <2>3 DEF HistoryInv, PointersBelowNext
  <2>5. QED
    BY <2>1, <2>4 DEF HistoryInv, HeadIsNewest, LinearHistory, Versions
<1>4. ASSUME NEW rules \in Rules, Gc(rules)
      PROVE  HistoryInv'
  <2>1. store' = Collect(store, rules)
    BY <1>4 DEF Gc
  <2>2. HeadIsNewest'
    BY <2>1, CollectEffect DEF HistoryInv, HeadIsNewest
  <2>3. LinearHistory'
    BY <2>1, CollectEffect DEF HistoryInv, LinearHistory
  <2>4. PointersBelowNext'
    BY <2>1, CollectEffect DEF HistoryInv, PointersBelowNext
  <2>5. QED
    BY <2>2, <2>3, <2>4 DEF HistoryInv
<1>5. CASE UNCHANGED store
  BY <1>5 DEF HistoryInv, HeadIsNewest, LinearHistory, PointersBelowNext
<1>6. QED
  BY <1>1, <1>2, <1>3, <1>4, <1>5 DEF Next

(* HEAD is the newest version, history is a line and pointers stay below   *)
(* next_version, whatever GC drops.                                        *)
THEOREM HistoryCorrect == Spec => [](HeadIsNewest /\ LinearHistory /\ PointersBelowNext)
<1>1. Spec => []HistoryInv
  BY HistoryInit, HistoryStep, TypeCorrect, PTL DEF Spec
<1>2. HistoryInv => HeadIsNewest /\ LinearHistory /\ PointersBelowNext
  BY DEF HistoryInv
<1>3. QED
  BY <1>1, <1>2, PTL

-----------------------------------------------------------------------------

(* No step rewrites a retained manifest or revives a version id.  The      *)
(* commit case needs LinearHistory: next_version is not a retained id.     *)
THEOREM ManifestsNeverChange == Spec => ManifestsImmutable
<1> DEFINE Frozen ==
      /\ \A v \in Versions(store) \cap Versions(store') :
           store'.commits[v] = store.commits[v]
      /\ \A v \in Versions(store') \ Versions(store) : v = store.next
<1>1. TypeOK /\ HistoryInv /\ [Next]_store => [Frozen]_store
  <2> SUFFICES ASSUME TypeOK, HistoryInv, Next PROVE Frozen
    OBVIOUS
  <2>1. ASSUME NEW segments \in SUBSET SegmentRefs, NEW deletions \in Tombstones,
               NEW tag \in TagNames \cup {None}, Commit(segments, deletions, tag)
        PROVE  Frozen
    <3>1. store.next \notin Versions(store)
      BY DEF HistoryInv, LinearHistory, TypeOK
    <3>2. QED
      BY <2>1, <3>1, CommitEffect DEF Commit
  <2>2. ASSUME NEW name \in TagNames, NEW v \in 0 .. MaxVersions, CreateTag(name, v)
        PROVE  Frozen
    BY <2>2 DEF CreateTag, SetTag, Versions, TypeOK
  <2>3. ASSUME NEW name \in BranchNames, NEW v \in 0 .. MaxVersions,
               CreateBranch(name, v)
        PROVE  Frozen
    BY <2>3 DEF CreateBranch, SetBranch, Versions, TypeOK
  <2>4. ASSUME NEW rules \in Rules, Gc(rules)
        PROVE  Frozen
    BY <2>4, CollectEffect DEF Gc
  <2>5. QED
    BY <2>1, <2>2, <2>3, <2>4 DEF Next
<1>2. Spec => []HistoryInv
  BY HistoryInit, HistoryStep, TypeCorrect, PTL DEF Spec
<1>3. QED
  BY <1>1, <1>2, TypeCorrect, PTL DEF Spec, ManifestsImmutable

-----------------------------------------------------------------------------

(* plan_gc reports exactly the segments that stop being referenced.        *)
THEOREM GcReportCorrect == Spec => []GcReportExact
<1>1. TypeOK => GcReportExact
  <2> SUFFICES ASSUME TypeOK, NEW rules \in Rules
               PROVE  OrphanSegments(store, rules)
                        = AllReferenced(store) \ AllReferenced(Collect(store, rules))
    BY DEF GcReportExact
  <2> DEFINE after == Collect(store, rules)
             refs(vs) == UNION {SegmentIds(store.commits[v]) : v \in vs}
  <2>1. /\ Versions(after) = Versions(store) \ RemovedVersions(store, rules)
        /\ \A v \in Versions(after) : after.commits[v] = store.commits[v]
    BY CollectEffect
  <2>2. Versions(after) = RetainedVersions(store, rules) \cap Versions(store)
    BY <2>1 DEF RemovedVersions
  <2>3. AllReferenced(after) = refs(Versions(after))
    BY <2>1 DEF AllReferenced
  <2>4. AllReferenced(store)
          = refs(RemovedVersions(store, rules)) \cup refs(Versions(after))
    BY <2>1 DEF AllReferenced, RemovedVersions
  <2>5. OrphanSegments(store, rules)
          = refs(RemovedVersions(store, rules)) \ refs(Versions(after))
    BY <2>2 DEF OrphanSegments
  <2>6. QED
    BY <2>3, <2>4, <2>5
<1>2. QED
  BY <1>1, TypeCorrect, PTL

(***************************************************************************)
(* Under rules that keep tags and branch heads, every pointer names a      *)
(* retained version; that is all search_at and scroll(at) need.            *)
(***************************************************************************)
KeepsPointers == \A r \in Rules : r.keep_tagged /\ r.keep_branch_heads

PointersExist ==
  Pointers(store.tags) \cup Pointers(store.branches) \subseteq Versions(store)

(* Retention that keeps tagged and branch-head versions never leaves a     *)
(* pointer dangling.                                                       *)
LEMMA PointersStep ==
  ASSUME KeepsPointers
  PROVE  TypeOK /\ PointersExist /\ [Next]_store => PointersExist'
<1> SUFFICES ASSUME TypeOK, PointersExist, [Next]_store PROVE PointersExist'
  OBVIOUS
<1>1. ASSUME NEW segments \in SUBSET SegmentRefs, NEW deletions \in Tombstones,
             NEW tag \in TagNames \cup {None}, Commit(segments, deletions, tag)
      PROVE  PointersExist'
  <2>1. store' = CommitTo(store, segments, deletions, tag)
    BY <1>1 DEF Commit
  <2>2. /\ Versions(store') = Versions(store) \cup {store.next}
        /\ store'.commits[store.next] = Manifest(store.head, segments, deletions)
        /\ \A v \in Versions(store) \ {store.next} :
             store'.commits[v] = store.commits[v]
        /\ store'.head = store.next
        /\ store'.next = store.next + 1
        /\ store'.branches = store.branches
        /\ store'.tags = IF tag = None THEN store.tags
                         ELSE [store.tags EXCEPT ![tag] = store.next]
    BY <2>1, CommitEffect
  <2>3. Pointers(store'.tags) \subseteq Pointers(store.tags) \cup {store.next}
    BY <2>2 DEF Pointers, TypeOK
  <2>4. Pointers(store'.branches) = Pointers(store.branches)
    BY <2>2
  <2>5. QED
    BY <2>2, <2>3, <2>4 DEF PointersExist
<1>2. ASSUME NEW name \in TagNames, NEW v \in 0 .. MaxVersions, CreateTag(name, v)
      PROVE  PointersExist'
  <2>1. /\ store'.commits = store.commits /\ store'.branches = store.branches
        /\ store'.tags = [store.tags EXCEPT ![name] = v]
    BY <1>2 DEF CreateTag, SetTag, TypeOK
  <2>2. Pointers(store'.tags) \subseteq Pointers(store.tags) \cup {v}
    BY <2>1 DEF Pointers, TypeOK
  <2>3. QED
    BY <1>2, <2>1, <2>2 DEF CreateTag, PointersExist, Versions
<1>3. ASSUME NEW name \in BranchNames, NEW v \in 0 .. MaxVersions,
             CreateBranch(name, v)
      PROVE  PointersExist'
  <2>1. /\ store'.commits = store.commits /\ store'.tags = store.tags
        /\ store'.branches = [store.branches EXCEPT ![name] = v]
    BY <1>3 DEF CreateBranch, SetBranch, TypeOK
  <2>2. Pointers(store'.branches) \subseteq Pointers(store.branches) \cup {v}
    BY <2>1 DEF Pointers, TypeOK
  <2>3. QED
    BY <1>3, <2>1, <2>2 DEF CreateBranch, PointersExist, Versions
<1>4. ASSUME NEW rules \in Rules, Gc(rules)
      PROVE  PointersExist'
  <2>1. /\ Versions(store') = Versions(store) \ RemovedVersions(store, rules)
        /\ store'.tags = store.tags /\ store'.branches = store.branches
    BY <1>4, CollectEffect DEF Gc
  <2>2. Pointers(store.tags) \cup Pointers(store.branches)
          \subseteq RetainedVersions(store, rules)
    BY DEF KeepsPointers, RetainedVersions
  <2>3. QED
    BY <2>1, <2>2 DEF PointersExist, RemovedVersions
<1>5. CASE UNCHANGED store
  BY <1>5 DEF PointersExist
<1>6. QED
  BY <1>1, <1>2, <1>3, <1>4, <1>5 DEF Next

(* The manifest search_at and scroll(at) unwrap exists, provided every GC  *)
(* ran with the two pointer rules on, as RetentionRules::default() has.    *)
THEOREM ResolveCorrect ==
  ASSUME KeepsPointers
  PROVE  Spec => []ResolvedVersionExists
<1>1. Init => PointersExist
  BY DEF Init, PointersExist, EmptyStore, Pointers
<1>2. TypeOK /\ HistoryInv /\ PointersExist => ResolvedVersionExists
  <2> SUFFICES ASSUME TypeOK, HistoryInv, PointersExist,
                      NEW sel \in Selectors(0 .. MaxVersions),
                      Resolve(store, sel) # None
               PROVE  Resolve(store, sel) \in Versions(store)
    BY DEF ResolvedVersionExists
  <2>1. CASE sel.kind = "version"
    BY <2>1 DEF Resolve
  <2>2. CASE sel.kind = "tag"
    <3>1. sel.of \in TagNames
      BY <2>2 DEF Selectors
    <3>2. QED
      BY <2>2, <3>1 DEF Resolve, PointersExist, Pointers, TypeOK
  <2>3. CASE sel.kind = "branch"
    <3>1. sel.of \in BranchNames
      BY <2>3 DEF Selectors
    <3>2. QED
      BY <2>3, <3>1 DEF Resolve, PointersExist, Pointers, TypeOK
  <2>4. CASE sel.kind = "head"
    BY <2>4 DEF Resolve, HistoryInv, HeadIsNewest
  <2>5. QED
    BY <2>1, <2>2, <2>3, <2>4 DEF Selectors
<1>3. Spec => []HistoryInv
  BY HistoryInit, HistoryStep, TypeCorrect, PTL DEF Spec
<1>4. QED
  BY <1>1, <1>2, <1>3, PointersStep, TypeCorrect, PTL DEF Spec

-----------------------------------------------------------------------------
(***************************************************************************)
(* Retention.  MostRecent ranks a version by the versions above it, so it  *)
(* is closed upwards, grows when versions below it are dropped, and holds  *)
(* k versions unless there are fewer.                                      *)
(***************************************************************************)
Newer(V, v) == {w \in V : w > v}

LEMMA NewerOfNewer ==
  ASSUME NEW V \in SUBSET Nat, NEW v \in V, NEW w \in V, w > v
  PROVE  Newer(V, w) \subseteq Newer(V, v) /\ w \in Newer(V, v) /\ w \notin Newer(V, w)
<1>1. \A x \in V : x > w => x > v
  OBVIOUS
<1>2. ~(w > w)
  OBVIOUS
<1> QED
  BY <1>1, <1>2 DEF Newer

LEMMA NewerFinite ==
  ASSUME NEW V, IsFiniteSet(V), NEW v
  PROVE  /\ IsFiniteSet(Newer(V, v)) /\ Cardinality(Newer(V, v)) \in Nat
         /\ \A T \in SUBSET Newer(V, v) :
              IsFiniteSet(T) /\ Cardinality(T) \in Nat
                /\ Cardinality(T) <= Cardinality(Newer(V, v))
<1>1. IsFiniteSet(Newer(V, v))
  BY FS_Subset DEF Newer
<1> QED
  BY <1>1, FS_Subset, FS_CardinalityType

(* Of the versions that have k newer ones, the one with the fewest newer   *)
(* ones is the newest, and those above it are all among the k most recent. *)
LEMMA MostRecentHasEnough ==
  ASSUME NEW V \in SUBSET Nat, IsFiniteSet(V), NEW k \in Nat,
         NEW recent, recent = {v \in V : Cardinality(Newer(V, v)) < k}
  PROVE  Cardinality(recent) >= k \/ recent = V
<1> SUFFICES ASSUME recent # V
             PROVE  Cardinality(recent) >= k
  OBVIOUS
<1> DEFINE tails == {Newer(V, v) : v \in V \ recent}
<1>1. tails # {} /\ tails \subseteq FiniteSubsetsOf(V)
  <2>1. \A v \in V : Newer(V, v) \in FiniteSubsetsOf(V)
    BY NewerFinite DEF Newer, FiniteSubsetsOf
  <2> QED
    BY <2>1
<1>2. PICK tail \in tails : \A t \in tails : <<t, tail>> \notin StrictSubsetOrdering(V)
  BY <1>1, FS_StrictSubsetOrderingWellFounded, WFMin
<1>3. PICK v \in V \ recent : tail = Newer(V, v)
  BY <1>2
<1>4. tail \subseteq recent
  <2> SUFFICES ASSUME NEW w \in V, w > v, w \notin recent
               PROVE  FALSE
    BY <1>3 DEF Newer
  <2>1. /\ Newer(V, w) \subseteq tail
        /\ w \in tail /\ w \notin Newer(V, w)
    BY <1>3, NewerOfNewer
  <2>2. <<Newer(V, w), tail>> \in StrictSubsetOrdering(V)
    BY <1>3, <2>1 DEF StrictSubsetOrdering, Newer
  <2> QED
    BY <1>2, <2>2
<1>5. Cardinality(tail) >= k /\ Cardinality(tail) \in Nat
  <2>1. ~(Cardinality(Newer(V, v)) < k) /\ Cardinality(Newer(V, v)) \in Nat
    BY <1>3, NewerFinite
  <2> QED
    BY <1>3, <2>1
<1>6. /\ IsFiniteSet(recent)
      /\ Cardinality(recent) \in Nat
      /\ Cardinality(tail) <= Cardinality(recent)
  <2>1. IsFiniteSet(recent)
    BY FS_Subset
  <2> QED
    BY <1>4, <2>1, FS_Subset, FS_CardinalityType
<1> QED
  BY <1>5, <1>6

(* Retention keeps what the rules promise.  The versions are finitely many *)
(* because history is a line below next_version.                           *)
THEOREM GcKeepsWhatItPromises == Spec => []GcKeepsRecent
<1>1. TypeOK /\ HistoryInv => GcKeepsRecent
  <2> SUFFICES ASSUME TypeOK, HistoryInv, NEW rules \in Rules
               PROVE  LET after == Collect(store, rules)
                      IN  /\ rules.keep_last # None =>
                               \/ Cardinality(Versions(after)) >= rules.keep_last
                               \/ Versions(after) = Versions(store)
                          /\ RemovedVersions(after, rules) = {}
                          /\ \A v \in Versions(after),
                                dropped \in Versions(store) \ Versions(after) :
                               \/ v > dropped
                               \/ v \in {store.head} \cup Pointers(store.tags)
                                          \cup Pointers(store.branches)
                          /\ \A v \in Pointers(store.tags) \cap Versions(store) :
                               rules.keep_tagged => v \in Versions(after)
                          /\ \A v \in Pointers(store.branches) \cap Versions(store) :
                               rules.keep_branch_heads => v \in Versions(after)
    BY DEF GcKeepsRecent
  <2> DEFINE after == Collect(store, rules)
             V == Versions(store)
             kept == Versions(after)
             k == rules.keep_last
  <2>1. V \subseteq Nat /\ IsFiniteSet(V)
    <3>1. V \subseteq 0 .. store.next - 1 /\ store.next \in Nat
      BY DEF HistoryInv, LinearHistory, TypeOK
    <3>2. IsFiniteSet(0 .. store.next - 1)
      BY <3>1, FS_Interval
    <3> QED
      BY <3>1, <3>2, FS_Subset
  <2>2. /\ kept = V \ RemovedVersions(store, rules) /\ kept \subseteq V
        /\ after.head = store.head
        /\ after.tags = store.tags /\ after.branches = store.branches
    BY CollectEffect
  <2>3. kept = V \cap RetainedVersions(store, rules)
    BY <2>2 DEF RemovedVersions
  <2>4. k # None => k \in Nat
    BY RulesShape
  <2>5. MostRecent(store, k) = {v \in V : Cardinality(Newer(V, v)) < k}
    BY DEF MostRecent, Newer
  <2>6. /\ k = None => kept = V
        /\ k # None => MostRecent(store, k) \subseteq kept
    BY <2>3, <2>5 DEF RetainedVersions
  <2> HIDE DEF after, V, kept, k
  <2>7. k # None => Cardinality(kept) >= k \/ kept = V
    <3> SUFFICES ASSUME k \in Nat, MostRecent(store, k) # V, MostRecent(store, k) \subseteq kept
                 PROVE  Cardinality(kept) >= k
      BY <2>2, <2>4, <2>6
    <3>1. Cardinality(MostRecent(store, k)) >= k
      BY <2>1, <2>5, MostRecentHasEnough
    <3>2. /\ Cardinality(MostRecent(store, k)) <= Cardinality(kept)
          /\ Cardinality(MostRecent(store, k)) \in Nat /\ Cardinality(kept) \in Nat
      BY <2>1, <2>2, FS_Subset, FS_CardinalityType
    <3> QED
      BY <3>1, <3>2
  <2>8. RemovedVersions(after, rules) = {}
    <3> SUFFICES ASSUME NEW v \in kept
                 PROVE  v \in RetainedVersions(after, rules)
      BY DEF RemovedVersions, kept
    <3>1. CASE k = None
      BY <3>1 DEF RetainedVersions, kept, k
    <3>2. CASE k # None /\ v \in MostRecent(store, k)
      <4>1. Cardinality(Newer(V, v)) < k /\ Cardinality(Newer(V, v)) \in Nat
        BY <2>1, <2>5, <3>2, NewerFinite
      <4>2. Newer(kept, v) \in SUBSET Newer(V, v)
        BY <2>2 DEF Newer
      <4>3. Cardinality(Newer(kept, v)) \in Nat /\ Cardinality(Newer(kept, v)) < k
        BY <2>1, <2>4, <3>2, <4>1, <4>2, NewerFinite
      <4>4. v \in MostRecent(after, k)
        BY <4>3 DEF MostRecent, Newer, kept
      <4> QED
        BY <3>2, <4>4 DEF RetainedVersions, k
    <3>3. CASE k # None /\ v \notin MostRecent(store, k)
      <4>1. v \in RetainedVersions(store, rules)
        BY <2>3
      <4> QED
        BY <2>2, <3>3, <4>1 DEF RetainedVersions, k
    <3> QED
      BY <3>1, <3>2, <3>3
  <2>9. ASSUME NEW v \in kept, NEW dropped \in V \ kept
        PROVE  \/ v > dropped
               \/ v \in {store.head} \cup Pointers(store.tags) \cup Pointers(store.branches)
    <3> SUFFICES ASSUME v \notin {store.head} \cup Pointers(store.tags)
                                   \cup Pointers(store.branches),
                        ~(v > dropped)
                 PROVE  FALSE
      OBVIOUS
    <3>1. k \in Nat /\ v \in MostRecent(store, k) /\ dropped \notin MostRecent(store, k)
      BY <2>3, <2>4, <2>6 DEF RetainedVersions, k
    <3>2. v \in Nat /\ dropped \in Nat /\ v < dropped
      BY <2>1, <2>2
    <3>3. Newer(V, dropped) \in SUBSET Newer(V, v)
      BY <2>1, <2>2, <3>2, NewerOfNewer
    <3>4. /\ Cardinality(Newer(V, v)) \in Nat /\ Cardinality(Newer(V, dropped)) \in Nat
          /\ Cardinality(Newer(V, dropped)) <= Cardinality(Newer(V, v))
      BY <2>1, <3>3, NewerFinite
    <3>5. Cardinality(Newer(V, v)) < k /\ ~(Cardinality(Newer(V, dropped)) < k)
      BY <2>5, <3>1
    <3> QED
      BY <3>1, <3>4, <3>5
  <2>10. /\ \A v \in Pointers(store.tags) \cap V : rules.keep_tagged => v \in kept
         /\ \A v \in Pointers(store.branches) \cap V : rules.keep_branch_heads => v \in kept
    BY <2>3 DEF RetainedVersions
  <2> QED
    BY <2>7, <2>8, <2>9, <2>10 DEF after, V, kept, k
<1>2. Spec => []HistoryInv
  BY HistoryInit, HistoryStep, TypeCorrect, PTL DEF Spec
<1> QED
  BY <1>1, <1>2, TypeCorrect, PTL
=============================================================================
