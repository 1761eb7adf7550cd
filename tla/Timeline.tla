------------------------------ MODULE Timeline ------------------------------
(***************************************************************************)
(* What the version history of a running collection promises: a set of     *)
(* points that writes change, and snapshots of it that nothing changes.    *)
(***************************************************************************)
EXTENDS Integers

CONSTANT Ids

VARIABLES
  content,   \* the live points
  history    \* version id -> its points, for the retained versions

vars == <<content, history>>

Newest(v) == \A w \in DOMAIN history : w <= v

Extend(v, points) ==
  [w \in DOMAIN history \cup {v} |-> IF w = v THEN points ELSE history[w]]

Init == content = {} /\ DOMAIN history = {}

Write ==
  /\ \E added, removed \in SUBSET Ids :
       /\ added \cap (content \cup UNION {history[v] : v \in DOMAIN history}) = {}
       /\ content' = (content \ removed) \cup added
  /\ UNCHANGED history

Commit ==
  /\ \E v \in DOMAIN history' :
       /\ v \notin DOMAIN history /\ Newest(v)
       /\ history' = Extend(v, content)
  /\ UNCHANGED content

Rewind ==
  \E from \in DOMAIN history, v \in DOMAIN history' :
    /\ v \notin DOMAIN history /\ Newest(v)
    /\ history' = Extend(v, history[from])
    /\ content' = history[from]

Forget ==
  /\ DOMAIN history' \subseteq DOMAIN history
  /\ \A v \in DOMAIN history' : history'[v] = history[v]
  /\ \A v \in DOMAIN history : Newest(v) => v \in DOMAIN history'
  /\ UNCHANGED content

Next == Write \/ Commit \/ Rewind \/ Forget

Spec == Init /\ [][Next]_vars
=============================================================================
