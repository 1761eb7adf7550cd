------------------------------- MODULE Locks -------------------------------
(***************************************************************************)
(* The locks of a collection and the order its calls take them in.  A call *)
(* is the sequence of the locks it asks for; it may keep one while it asks *)
(* for the next.  A lock lets no reader past a writer that waits, which is *)
(* how parking_lot keeps writers from starving.  Locks that are held for a *)
(* single access and never while another is asked for (the trigger, the    *)
(* persisted segments) are left out.                                       *)
(***************************************************************************)
EXTENDS Integers, Sequences, FiniteSets

CONSTANTS Threads, Idle

VARIABLES
  call,     \* thread -> the call it runs, or Idle
  at,       \* thread -> which of the call's requests it has come to
  waits     \* thread -> whether that request is still to be granted

lockVars == <<call, at, waits>>

(* A request; the lock is kept until the call moves past request "until".  *)
Ask(lock, mode, until) == [lock |-> lock, mode |-> mode, until |-> until]
Reads(lock)  == <<Ask(lock, "read", 0)>>
Writes(lock) == <<Ask(lock, "write", 0)>>

(* The log is locked around all of a call's other requests.                *)
UnderLog(requests) == <<Ask("wal", "write", 1 + Len(requests))>> \o requests

Seal    == Writes("appendable") \o Writes("all_segments")
Commit  == Seal \o Writes("versions")
Persist == Writes("versions") \o Reads("all_segments") \o Writes("versions")

Checkpoint == UnderLog(Seal \o Writes("versions") \o Reads("all_segments")
                            \o Reads("payloads"))

(* Restoring ends with a commit, which is persisted.                       *)
Restore == Writes("versions") \o Reads("all_segments") \o Writes("appendable")
             \o Commit \o Persist

SearchNow  == <<Ask("payloads", "read", 2)>> \o Reads("appendable")
SearchAt   == Writes("versions") \o <<Ask("all_segments", "read", 3)>> \o Reads("payloads")
ScrollAt   == <<Ask("payloads", "read", 3)>> \o Writes("versions") \o Reads("all_segments")
ReadPoint  == Reads("appendable") \o Reads("payloads")

(* A deletion looks the row up, an upsert stores it and then its payload.  *)
Apply == Reads("appendable") \o Writes("appendable") \o Writes("payloads")

Calls == {"write", "batch", "checkpoint", "compact", "commit", "restore", "gc",
          "search", "search_at", "scroll_at", "get_point"}

ASSUME IdleAssumption == Idle \notin Calls

(* Faulty variant: an upsert keeps the rows while it stores the payload.   *)
RequestsOverlapping(op) ==
  CASE op = "write"      -> UnderLog(<<Ask("appendable", "write", 3), Ask("payloads", "write", 3)>>)
    [] op = "search"     -> SearchNow
    [] op = "search_at"  -> SearchAt
    [] OTHER             -> ReadPoint

Requests(op) ==
  CASE op = "write"      -> UnderLog(Apply)
    [] op = "batch"      -> UnderLog(Apply \o Commit \o Persist)
    [] op = "checkpoint" -> Checkpoint
    [] op = "compact"    -> Writes("all_segments")
    [] op = "commit"     -> Commit \o Persist
    [] op = "restore"    -> Restore
    [] op = "gc"         -> Writes("versions") \o Writes("all_segments")
    [] op = "search"     -> SearchNow
    [] op = "search_at"  -> SearchAt
    [] op = "scroll_at"  -> ScrollAt
    [] op = "get_point"  -> ReadPoint

Request(t) == Requests(call[t])[at[t]]

(* The requests whose locks a thread has now.                              *)
Kept(t) ==
  IF call[t] = Idle THEN {}
  ELSE {r \in {Requests(call[t])[i] : i \in 1 .. at[t] - 1} : r.until >= at[t]}
         \cup (IF waits[t] THEN {} ELSE {Request(t)})

(* Thread u has to go on before t gets what it asks for.                   *)
WaitsFor(t, u) ==
  /\ t # u /\ waits[t] /\ call[u] # Idle
  /\ LET wanted == Request(t) IN
     \/ \E r \in Kept(u) : r.lock = wanted.lock /\ "write" \in {r.mode, wanted.mode}
     \/ /\ wanted.mode = "read"
        /\ waits[u] /\ Request(u).lock = wanted.lock /\ Request(u).mode = "write"

LocksInit ==
  /\ call = [t \in Threads |-> Idle]
  /\ at = [t \in Threads |-> 1]
  /\ waits = [t \in Threads |-> FALSE]

Begin(t) ==
  /\ call[t] = Idle
  /\ \E op \in Calls : call' = [call EXCEPT ![t] = op]
  /\ waits' = [waits EXCEPT ![t] = TRUE]
  /\ UNCHANGED at

Grant(t) ==
  /\ waits[t]
  /\ \A u \in Threads : ~WaitsFor(t, u)
  /\ waits' = [waits EXCEPT ![t] = FALSE]
  /\ UNCHANGED <<call, at>>

GoOn(t) ==
  /\ call[t] # Idle /\ ~waits[t] /\ at[t] < Len(Requests(call[t]))
  /\ at' = [at EXCEPT ![t] = @ + 1]
  /\ waits' = [waits EXCEPT ![t] = TRUE]
  /\ UNCHANGED call

Return(t) ==
  /\ call[t] # Idle /\ ~waits[t] /\ at[t] = Len(Requests(call[t]))
  /\ call' = [call EXCEPT ![t] = Idle]
  /\ at' = [at EXCEPT ![t] = 1]
  /\ UNCHANGED waits

LocksNext == \E t \in Threads : Begin(t) \/ Grant(t) \/ GoOn(t) \/ Return(t)

LocksSpec == LocksInit /\ [][LocksNext]_lockVars

(* Threads that wait for one another in a circle.                          *)
Circle(ts) == ts # {} /\ \A t \in ts : \E u \in ts : WaitsFor(t, u)

(* Calls wait for one another in a circle only where a search of a version *)
(* (segments, then payloads) meets a scroll of one (payloads, then         *)
(* segments): no two other calls ever take locks in opposite orders.       *)
OneInversion ==
  \A ts \in SUBSET Threads :
    Circle(ts) => {"search_at", "scroll_at"} \subseteq {call[t] : t \in ts}
=============================================================================
