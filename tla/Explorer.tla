------------------------------ MODULE Explorer ------------------------------
(***************************************************************************)
(* The store of the web explorer (vvui/src/store.ts).  Its actions are     *)
(* asynchronous and nothing keeps a user from starting the next one before *)
(* the last has been answered: what runs between two awaits is one step,   *)
(* and the server may take and answer the requests of different actions in *)
(* any order, or fail.  Of the server, its collections' revisions and      *)
(* versions are kept.                                                      *)
(***************************************************************************)
EXTENDS Integers, Sequences, FiniteSets, FiniteSetsExt

CONSTANTS
  None,
  Names,       \* of collections, in the order the server lists them
  Existing,    \* the collections that exist at first
  Actions,     \* each is taken once, in this order
  MaxFailures

ASSUME ExplorerAssumption ==
  /\ Names \subseteq Nat /\ Existing \subseteq Names /\ Actions \subseteq Nat
  /\ MaxFailures \in Nat
  /\ None \notin Nat

(* A page of points that is shown: of a collection, at a version or now.   *)
Versions == Nat \cup {None}
Pages    == [name : Names, at : Versions, revision : Nat]

ASSUME NoneIsNoPage == None \notin Pages

VARIABLES
  server,      \* name -> its writes so far and the revision each version holds
  active, viewVersion, collections, connected,
  points,      \* what is shown: of which collection, when, at which revision
  head, diff, highlight, loadingPoints,
  task,        \* action -> the request it awaits
  failures,

  (* History.                                                              *)
  begun,       \* how many loads have been begun
  shown,       \* the load that ended last, and how
  written,     \* name -> revision of the last write acked here
  crossed      \* a query was under way when the collection changed

view == <<active, viewVersion, collections, connected, points, head, diff,
          highlight, loadingPoints>>
vars == <<server, view, task, failures, begun, shown, written, crossed>>

First(names) == IF names = {} THEN None ELSE Min(names)

Untaken == [at |-> "untaken"]
Ended   == [at |-> "ended"]

Init ==
  /\ server = [n \in Names |->
       [exists |-> n \in Existing, revision |-> 1,
        versions |-> IF n \in Existing THEN <<1>> ELSE <<>>]]
  /\ active = None /\ viewVersion = None /\ collections = {} /\ connected = None
  /\ points = None /\ head = 0 /\ diff = None /\ highlight = None
  /\ loadingPoints = FALSE
  /\ task = [t \in Actions |-> Untaken]
  /\ failures = 0
  /\ begun = 0 /\ shown = [load |-> 0, ok |-> TRUE]
  /\ written = [n \in Names |-> 0] /\ crossed = FALSE

-----------------------------------------------------------------------------
(***************************************************************************)
(* Requests: sent, served, then answered to the action that awaits them.   *)
(***************************************************************************)
Goto(t, step) == task' = [task EXCEPT ![t] = step]
Send(request) == [at |-> "sent", request |-> request]

Contents(n, v) == IF v = None THEN server[n].revision ELSE server[n].versions[v]

Possible(r) ==
  CASE r.kind = "list"   -> TRUE
    [] r.kind = "health" -> TRUE
    [] r.kind = "create" -> ~server[r.name].exists
    [] OTHER             -> /\ server[r.name].exists
                            /\ r.at # None => r.at \in DOMAIN server[r.name].versions

Reply(r) ==
  CASE r.kind = "list"  -> {n \in Names : server[n].exists}
    [] r.kind = "info"  -> Len(server[r.name].versions)
    [] r.kind \in {"write", "restore"} -> server[r.name].revision + 1
    [] r.kind \in {"scroll", "query"} ->
         [name |-> r.name, at |-> r.at, revision |-> Contents(r.name, r.at)]
    [] OTHER            -> "ok"

Effect(r) ==
  CASE r.kind = "create" -> server' = [server EXCEPT ![r.name].exists = TRUE]
    [] r.kind = "drop" ->
         server' = [server EXCEPT ![r.name].exists = FALSE, ![r.name].versions = <<>>]
    [] r.kind = "write" ->
         server' = [server EXCEPT ![r.name].revision = @ + 1]
    [] r.kind = "commit" ->
         server' = [server EXCEPT ![r.name].versions =
                      Append(@, server[r.name].revision)]
    [] r.kind = "restore" ->
         server' = [server EXCEPT ![r.name].revision = @ + 1,
                                  ![r.name].versions = Append(@, server[r.name].revision + 1)]
    [] OTHER -> UNCHANGED server

Serve(t) ==
  LET r == task[t].request IN
  /\ task[t].at = "sent" /\ Possible(r)
  /\ Effect(r)
  /\ Goto(t, [at |-> "answered", request |-> r, reply |-> Reply(r)])
  /\ UNCHANGED <<view, failures, begun, shown, written, crossed>>

(* Refused by the server; or the request, or the answer to it, is lost.    *)
Fail(t) ==
  LET r == task[t].request IN
  /\ task[t].at \in {"sent", "answered"}
  /\ IF task[t].at = "sent" /\ ~Possible(r) THEN UNCHANGED failures
     ELSE failures < MaxFailures /\ failures' = failures + 1
  /\ Goto(t, [at |-> "failed", request |-> r])
  /\ UNCHANGED <<server, view, begun, shown, written, crossed>>

Answered(t, kinds) == task[t].at = "answered" /\ task[t].request.kind \in kinds
Failed(t, kinds)   == task[t].at = "failed" /\ task[t].request.kind \in kinds

-----------------------------------------------------------------------------
(***************************************************************************)
(* reloadView: the collection is read when it starts, the version after    *)
(* the first await, and everything is set at once at the end.              *)
(***************************************************************************)
BeginLoad(t, name) ==
  IF name = None THEN /\ Goto(t, Ended)
                      /\ UNCHANGED <<loadingPoints, begun>>
  ELSE /\ loadingPoints' = TRUE
       /\ begun' = begun + 1
       /\ Goto(t, Send([kind |-> "info", name |-> name, at |-> None,
                        load |-> begun + 1]))

InfoArrived(t) ==
  LET r == task[t].request IN
  /\ Answered(t, {"info"})
  /\ Goto(t, Send([kind |-> "scroll", name |-> r.name, load |-> r.load,
                   at |-> viewVersion, head |-> task[t].reply]))
  /\ UNCHANGED <<server, view, failures, begun, shown, written, crossed>>

EndLoad(t, r, page, changes) ==
  /\ points' = page
  /\ head' = r.head /\ diff' = changes
  /\ loadingPoints' = FALSE
  /\ shown' = [load |-> r.load, ok |-> TRUE]
  /\ Goto(t, Send([kind |-> "list", then |-> "nothing"]))
  /\ UNCHANGED <<server, active, viewVersion, collections, connected, highlight,
                 failures, begun, written, crossed>>

Effective(r) == IF r.at # None THEN r.at ELSE r.head

(* Version 1 has no parent to be compared with.                            *)
ScrollArrived(t) ==
  LET r == task[t].request
      page == task[t].reply IN
  /\ Answered(t, {"scroll"})
  /\ \/ /\ Effective(r) > 1
        /\ Goto(t, Send([kind |-> "diff", name |-> r.name, load |-> r.load,
                         at |-> Effective(r), head |-> r.head, page |-> page]))
        /\ UNCHANGED <<server, view, failures, begun, shown, written, crossed>>
     \/ Effective(r) <= 1 /\ EndLoad(t, r, page, None)

DiffEnds(t) ==
  LET r == task[t].request IN
  \/ Answered(t, {"diff"}) /\ EndLoad(t, r, r.page, [name |-> r.name, of |-> r.at])
  \/ Failed(t, {"diff"}) /\ EndLoad(t, r, r.page, None)

EndFailedLoad(t, loading) ==
  /\ Failed(t, {"info", "scroll"})
  /\ loadingPoints' = loading
  /\ shown' = [load |-> task[t].request.load, ok |-> FALSE]
  /\ Goto(t, Ended)
  /\ UNCHANGED <<server, active, viewVersion, collections, connected, points, head,
                 diff, highlight, failures, begun, written, crossed>>

(* Faulty variant: a failed load goes on saying that it loads.             *)
LoadFailedSilently(t) == EndFailedLoad(t, loadingPoints)

LoadFailed(t) == EndFailedLoad(t, FALSE)

-----------------------------------------------------------------------------
(***************************************************************************)
(* What follows an awaited answer.                                         *)
(***************************************************************************)
UnderWay(kinds) == \E t \in Actions : /\ task[t].at \in {"sent", "answered", "failed"}
                                      /\ task[t].request.kind \in kinds

(* selectCollection: everything that shows the old collection is cleared.  *)
Select(t, name) ==
  /\ active' = name /\ points' = None
  /\ crossed' = (crossed \/ UnderWay({"query", "point"}))
  /\ IF name = None THEN head' = 0 /\ UNCHANGED <<viewVersion, highlight, diff>>
     ELSE /\ viewVersion' = None /\ highlight' = None /\ diff' = None
          /\ UNCHANGED head
  /\ BeginLoad(t, name)

(* init; then the list decides what is selected.                           *)
HealthArrived(t) ==
  /\ Answered(t, {"health"})
  /\ connected' = TRUE
  /\ Goto(t, Send([kind |-> "list", then |-> "first"]))
  /\ UNCHANGED <<server, active, viewVersion, collections, points, head, diff, highlight,
                 loadingPoints, failures, begun, shown, written, crossed>>

ListArrived(t) ==
  LET then == task[t].request.then
      names == task[t].reply IN
  /\ Answered(t, {"list"})
  /\ connected' = TRUE /\ collections' = names
  /\ \/ /\ then = "first" => names = {}
        /\ then \in {"nothing", "first"}
        /\ Goto(t, Ended)
        /\ UNCHANGED <<active, viewVersion, points, head, diff, highlight, loadingPoints,
                       begun, crossed>>
     \/ then = "first" /\ names # {} /\ Select(t, First(names))
     \/ then = "next" /\ Select(t, First(names))
     \/ then = "created" /\ Select(t, task[t].request.name)
  /\ UNCHANGED <<server, failures, shown, written>>

(* No answer to health or to a list: what was to follow is given up.       *)
Disconnected(t) ==
  /\ Failed(t, {"health", "list"})
  /\ connected' = FALSE
  /\ Goto(t, Ended)
  /\ UNCHANGED <<server, active, viewVersion, collections, points, head, diff, highlight,
                 loadingPoints, failures, begun, shown, written, crossed>>

Created(t) ==
  /\ Answered(t, {"create"})
  /\ Goto(t, Send([kind |-> "list", then |-> "created", name |-> task[t].request.name]))
  /\ UNCHANGED <<server, view, failures, begun, shown, written, crossed>>

(* Whether another one is to be selected is asked before the list is.      *)
Dropped(t) ==
  /\ Answered(t, {"drop"})
  /\ Goto(t, Send([kind |-> "list", then |-> IF active = task[t].request.name
                                             THEN "next" ELSE "nothing"]))
  /\ UNCHANGED <<server, view, failures, begun, shown, written, crossed>>

(* Faulty variant: the change is not loaded.                               *)
ChangedUnseen(t) ==
  LET r == task[t].request IN
  /\ Answered(t, {"write", "commit", "restore", "tag"})
  /\ viewVersion' = IF r.kind = "tag" THEN viewVersion ELSE None
  /\ written' = IF r.kind \in {"write", "restore"}
                THEN [written EXCEPT ![r.name] = task[t].reply] ELSE written
  /\ Goto(t, Ended)
  /\ UNCHANGED <<server, active, collections, connected, points, head, diff, highlight,
                 loadingPoints, failures, begun, shown, crossed>>

(* A change has been made: the view goes back to now and is loaded again,  *)
(* whatever collection is shown by then.  A tag or a branch leaves the     *)
(* view where it is.                                                       *)
Changed(t) ==
  LET r == task[t].request IN
  /\ Answered(t, {"write", "commit", "restore", "tag"})
  /\ viewVersion' = IF r.kind = "tag" THEN viewVersion ELSE None
  /\ written' = IF r.kind \in {"write", "restore"}
                THEN [written EXCEPT ![r.name] = Max({@, task[t].reply})]
                ELSE written
  /\ BeginLoad(t, active)
  /\ UNCHANGED <<server, active, collections, connected, points, head, diff, highlight,
                 failures, shown, crossed>>

(* A point's vector, asked for only when the view does not hold it.        *)
PointArrived(t) ==
  /\ Answered(t, {"point"})
  /\ Goto(t, Send([kind |-> "query", name |-> task[t].request.name, at |-> viewVersion]))
  /\ UNCHANGED <<server, view, failures, begun, shown, written, crossed>>

QueryArrived(t) ==
  /\ Answered(t, {"query"})
  /\ highlight' = task[t].reply
  /\ Goto(t, Ended)
  /\ UNCHANGED <<server, active, viewVersion, collections, connected, points, head, diff,
                 loadingPoints, failures, begun, shown, written, crossed>>

(* Only a message is shown.                                                *)
Refused(t) ==
  /\ Failed(t, {"create", "drop", "write", "commit", "restore", "tag", "point", "query"})
  /\ Goto(t, Ended)
  /\ UNCHANGED <<server, view, failures, begun, shown, written, crossed>>

-----------------------------------------------------------------------------
(***************************************************************************)
(* What the user starts, at any moment.                                    *)
(***************************************************************************)
Untouched(t) == task[t] = Untaken /\ \A u \in Actions : u < t => task[u] # Untaken

Start(t) ==
  /\ t = First(Actions) /\ Untouched(t)
  /\ Goto(t, Send([kind |-> "health", at |-> None]))
  /\ UNCHANGED <<server, view, failures, begun, shown, written, crossed>>

Take(t) == t # First(Actions) /\ Untouched(t)

SelectCollection(t) ==
  /\ Take(t)
  /\ \E name \in collections \cup {None} : Select(t, name)
  /\ UNCHANGED <<server, collections, connected, failures, shown, written>>

SetViewVersion(t) ==
  /\ Take(t)
  /\ viewVersion' \in {None} \cup 1 .. head
  /\ highlight' = None
  /\ BeginLoad(t, active)
  /\ UNCHANGED <<server, active, collections, connected, points, head, diff, failures,
                 shown, written, crossed>>

Ask(t) ==
  /\ Take(t)
  /\ \E n \in Names, kind \in {"create", "drop"} :
       Goto(t, Send([kind |-> kind, name |-> n, at |-> None]))
  /\ UNCHANGED <<server, view, failures, begun, shown, written, crossed>>

(* Nothing is asked of no collection.                                      *)
AskActive(t) ==
  /\ Take(t) /\ active # None
  /\ \/ \E kind \in {"write", "commit", "point"} :
          Goto(t, Send([kind |-> kind, name |-> active, at |-> None]))
     \/ \E kind \in {"tag", "restore"}, v \in 1 .. head :
          Goto(t, Send([kind |-> kind, name |-> active, at |-> v]))
     \/ \E v \in {viewVersion, None} :
          Goto(t, Send([kind |-> "query", name |-> active, at |-> v]))
  /\ UNCHANGED <<server, view, failures, begun, shown, written, crossed>>

Done == /\ \A t \in Actions : task[t] = Ended
        /\ UNCHANGED vars

Network(t) == Serve(t) \/ Fail(t)

Follow(t) ==
  \/ InfoArrived(t) \/ ScrollArrived(t) \/ DiffEnds(t) \/ LoadFailed(t)
  \/ HealthArrived(t) \/ ListArrived(t) \/ Disconnected(t)
  \/ Created(t) \/ Dropped(t) \/ Changed(t) \/ PointArrived(t) \/ QueryArrived(t)
  \/ Refused(t)

Next ==
  \/ \E t \in Actions : \/ Network(t) \/ Follow(t)
                        \/ Start(t) \/ SelectCollection(t) \/ SetViewVersion(t)
                        \/ Ask(t) \/ AskActive(t)
  \/ Done

(* An awaited request is answered or fails, and what follows it runs.      *)
Fairness == \A t \in Actions : WF_vars(Network(t)) /\ WF_vars(Follow(t))

Spec == Init /\ [][Next]_vars /\ Fairness

-----------------------------------------------------------------------------
(* If the load begun last was also the one to end last and did not fail,   *)
(* the points shown are those of the selected collection at the selected   *)
(* version, and include every write acked to this user, whatever else is   *)
(* under way.  (A load that ends later than a newer one shows its own      *)
(* points.)  What is highlighted belongs to that collection at any time,   *)
(* unless a query was under way when another collection was selected.      *)
ShowsWhatItSays ==
  /\ active # None /\ shown = [load |-> begun, ok |-> TRUE] =>
       /\ points # None
       /\ points.name = active /\ points.at = viewVersion
       /\ points.at = None => points.revision >= written[active]
       /\ diff # None => diff.name = active
  /\ highlight # None /\ active # None /\ ~crossed => highlight.name = active

(* What is said to load is loaded or given up, whatever else goes on.      *)
LoadingEnds == loadingPoints ~> ~loadingPoints
=============================================================================
