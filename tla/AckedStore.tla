----------------------------- MODULE AckedStore -----------------------------
(***************************************************************************)
(* What a durable collection promises about its live points, with no log,  *)
(* segment, version or checkpoint in sight.                                *)
(***************************************************************************)
EXTENDS Integers, Sequences

CONSTANT Ids

VARIABLES
  content,   \* the live points
  pending,   \* the records of the write being made, in order
  stable     \* the write can no longer be lost

vars == <<content, pending, stable>>

IdsOf(op, records) ==
  {records[i].id : i \in {j \in DOMAIN records : records[j].op = op}}

Outcome(points, records) ==
  (points \ IdsOf("delete", records)) \cup IdsOf("upsert", records)

Init == content = {} /\ pending = <<>> /\ stable = FALSE

Submit ==
  /\ pending = <<>>
  /\ pending' # <<>>
  /\ IdsOf("upsert", pending') \subseteq Ids \ content
  /\ UNCHANGED <<content, stable>>

Harden ==
  /\ pending # <<>>
  /\ stable' = TRUE
  /\ UNCHANGED <<content, pending>>

Ack ==
  /\ stable
  /\ content' = Outcome(content, pending)
  /\ pending' = <<>>
  /\ stable' = FALSE

Crash ==
  /\ \E k \in (IF stable THEN Len(pending) ELSE 0) .. Len(pending) :
       content' = Outcome(content, SubSeq(pending, 1, k))
  /\ pending' = <<>>
  /\ stable' = FALSE

Next == Submit \/ Harden \/ Ack \/ Crash

Spec == Init /\ [][Next]_vars
=============================================================================
