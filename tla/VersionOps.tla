----------------------------- MODULE VersionOps -----------------------------
(***************************************************************************)
(* The operations of VersionStore (version/store.rs) as functions from a   *)
(* store value to a store value.  A store value is a record                *)
(*    commits   version id -> manifest, for the retained versions          *)
(*    head      the version HEAD points at, or None                        *)
(*    branches  branch name -> version id, or None when there is none      *)
(*    tags      tag name -> version id, or None when there is none         *)
(*    next      the next version id to allocate                            *)
(* The same value is what version_snapshot serialises, so the durable      *)
(* layer uses it both for the store in memory and for the file on disk.    *)
(***************************************************************************)
EXTENDS Integers, FiniteSets

CONSTANTS
  TagNames,      \* names a tag may have
  BranchNames,   \* names a branch may have
  None           \* Rust's Option::None, for ids and for keep_last

ASSUME NoneAssumption == None \notin Int

(***************************************************************************)
(* A manifest keeps what readers and GC look at: its parent, the segment   *)
(* references and the tombstones frozen at commit time.  Time, trigger and *)
(* message are informational and left out.                                 *)
(***************************************************************************)
Manifest(parent, segments, deletions) ==
  [parent |-> parent, segments |-> segments, deletions |-> deletions]

SegmentIds(m) == {s.id : s \in m.segments}

EmptyStore ==
  [commits  |-> [v \in {} |-> Manifest(None, {}, {})],
   head     |-> None,
   branches |-> [b \in BranchNames |-> None],
   tags     |-> [t \in TagNames |-> None],
   next     |-> 0]

Versions(s) == DOMAIN s.commits

(* Faulty variants of commit: the tag map is written even when no tag was  *)
(* asked for; the id is taken from the number of retained versions.        *)
CommitInsertsAnyTag(s, segments, deletions, tag) ==
  [commits  |-> [v \in Versions(s) \cup {s.next} |->
                   IF v = s.next
                   THEN Manifest(s.head, segments, deletions)
                   ELSE s.commits[v]],
   head     |-> s.next,
   branches |-> s.branches,
   tags     |-> [t \in TagNames \cup {tag} |-> IF t = tag THEN s.next ELSE s.tags[t]],
   next     |-> s.next + 1]

CommitNumbersByCount(s, segments, deletions, tag) ==
  LET version == Cardinality(Versions(s))
  IN  [s EXCEPT !.commits = [v \in Versions(s) \cup {version} |->
                               IF v = version
                               THEN Manifest(s.head, segments, deletions)
                               ELSE s.commits[v]],
                !.head = version,
                !.next = version + 1]

(* VersionStore::commit: on top of HEAD, HEAD moves, the optional tag is   *)
(* moved to the new version.                                               *)
CommitTo(s, segments, deletions, tag) ==
  [commits  |-> [v \in Versions(s) \cup {s.next} |->
                   IF v = s.next
                   THEN Manifest(s.head, segments, deletions)
                   ELSE s.commits[v]],
   head     |-> s.next,
   branches |-> s.branches,
   tags     |-> IF tag = None THEN s.tags ELSE [s.tags EXCEPT ![tag] = s.next],
   next     |-> s.next + 1]

SetTag(s, name, v)    == [s EXCEPT !.tags = [@ EXCEPT ![name] = v]]
SetBranch(s, name, v) == [s EXCEPT !.branches = [@ EXCEPT ![name] = v]]

(* VersionStore::resolve.  Only an explicit id is looked up in commits; a  *)
(* tag, a branch and HEAD give the stored pointer as it is.                *)
Selectors(ids) ==
  [kind : {"version"}, of : ids] \cup [kind : {"tag"}, of : TagNames]
    \cup [kind : {"branch"}, of : BranchNames] \cup [kind : {"head"}, of : {None}]

Resolve(s, sel) ==
  CASE sel.kind = "version" -> IF sel.of \in Versions(s) THEN sel.of ELSE None
    [] sel.kind = "tag"     -> s.tags[sel.of]
    [] sel.kind = "branch"  -> s.branches[sel.of]
    [] OTHER                -> s.head

AllReferenced(s) == UNION {SegmentIds(s.commits[v]) : v \in Versions(s)}

(* Faulty variant: keys() without rev(), the k oldest.                     *)
LeastRecent(s, k) ==
  {v \in Versions(s) : Cardinality({w \in Versions(s) : w < v}) < k}

(* The k largest keys of commits, as keys().rev().take(k) lists them.      *)
MostRecent(s, k) ==
  {v \in Versions(s) : Cardinality({w \in Versions(s) : w > v}) < k}

Pointers(f) == {f[n] : n \in DOMAIN f} \ {None}

(* Faulty variant: HEAD is not retained.                                   *)
RetainedWithoutHead(s, rules) ==
  (IF rules.keep_branch_heads THEN Pointers(s.branches) ELSE {})
    \cup (IF rules.keep_tagged THEN Pointers(s.tags) ELSE {})
    \cup (IF rules.keep_last = None THEN Versions(s)
                                    ELSE MostRecent(s, rules.keep_last))

(* RetentionRules and retained_versions.  The result may name a version    *)
(* that is no longer in commits (a stale tag), as in the code.             *)
RetainedVersions(s, rules) ==
  ({s.head} \ {None})
    \cup (IF rules.keep_branch_heads THEN Pointers(s.branches) ELSE {})
    \cup (IF rules.keep_tagged THEN Pointers(s.tags) ELSE {})
    \cup (IF rules.keep_last = None THEN Versions(s)
                                    ELSE MostRecent(s, rules.keep_last))

RemovedVersions(s, rules) == Versions(s) \ RetainedVersions(s, rules)

(* Faulty variant: every segment of a removed version is an orphan.        *)
OrphansOfRemoved(s, rules) ==
  UNION {SegmentIds(s.commits[v]) : v \in RemovedVersions(s, rules)}

(* plan_gc's orphans: referenced by a removed version and by no retained   *)
(* one.                                                                    *)
OrphanSegments(s, rules) ==
  LET refs(vs) == UNION {SegmentIds(s.commits[v]) : v \in vs}
  IN  refs(RemovedVersions(s, rules))
        \ refs(RetainedVersions(s, rules) \cap Versions(s))

Collect(s, rules) ==
  [s EXCEPT !.commits =
     [v \in Versions(s) \ RemovedVersions(s, rules) |-> s.commits[v]]]

(* live_ids and diff: a version's live ids are the id ranges of its        *)
(* segment references minus its tombstones.                                *)
LiveIds(m) == (UNION {s.lo .. s.hi : s \in m.segments}) \ m.deletions

Diff(s, from, to) ==
  LET a == LiveIds(s.commits[from])
      b == LiveIds(s.commits[to])
  IN  [added |-> b \ a, removed |-> a \ b]
=============================================================================
