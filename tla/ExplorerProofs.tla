--------------------------- MODULE ExplorerProofs ---------------------------
(***************************************************************************)
(* Theorems about Explorer for any collections, any number of actions and  *)
(* of failures.                                                            *)
(***************************************************************************)
EXTENDS Explorer, FiniteSetTheorems, SequenceTheorems, WellFoundedInduction, TLAPS

(***************************************************************************)
(* The inductive invariant.  What is said of one action says it of the     *)
(* value the store keeps for it, and of the state it is kept in.           *)
(***************************************************************************)
Pending(x) == x.at \in {"sent", "answered", "failed"}

Changes  == {"write", "commit", "restore", "tag"}
Queries  == {"query", "point"}
Loads    == {"info", "scroll", "diff"}
OfOne    == Changes \cup Queries \cup Loads \cup {"create", "drop"}

RequestOK(r) ==
  /\ r.kind \in OfOne \cup {"health", "list"}
  /\ r.kind \in OfOne => r.name \in Names
  /\ r.kind = "list" => r.then \in {"first", "next", "created", "nothing"}
  /\ r.kind = "list" /\ r.then = "created" => r.name \in Names
  /\ r.kind \in Loads => r.load \in Nat
  /\ r.kind \in {"scroll", "diff"} => r.head \in Nat
  /\ r.kind = "scroll" => r.at \in Versions
  /\ r.kind = "diff" => r.page \in Pages /\ r.page.name = r.name

(* A write is answered with a revision the server has reached, a read with *)
(* what was asked for.                                                     *)
ReplyOK(r, reply, s) ==
  /\ r.kind = "list" => reply \subseteq Names
  /\ r.kind = "info" => reply \in Nat
  /\ r.kind \in {"write", "restore"} => reply \in Nat /\ reply <= s[r.name].revision
  /\ r.kind = "scroll" => reply \in Pages /\ reply.name = r.name /\ reply.at = r.at
  /\ r.kind = "query" => reply.name = r.name

Proper(x, s) ==
  \/ x \in {Untaken, Ended}
  \/ /\ Pending(x) /\ RequestOK(x.request)
     /\ x.at = "answered" => ReplyOK(x.request, x.reply, s)

(* The points of a collection a, at version v or now with every write that *)
(* w knows of.                                                             *)
UpToDate(page, a, v, w) ==
  page.name = a /\ page.at = v /\ (v = None => page.revision >= w[a])

(* The load numbered b, the last to begin, is of what is selected.         *)
Timely(x, a, v, b, w) ==
  Pending(x) /\ x.request.kind \in Loads =>
    /\ x.request.load <= b
    /\ x.request.load = b /\ a # None =>
         /\ x.request.name = a
         /\ x.request.kind = "scroll" => x.request.at = v
         /\ x.request.kind = "scroll" /\ x.at = "answered" => UpToDate(x.reply, a, v, w)
         /\ x.request.kind = "diff" => UpToDate(x.request.page, a, v, w)

(* Queries are about the selected collection, unless it was changed while  *)
(* one was under way.                                                      *)
OnTopic(x, a, c) ==
  Pending(x) /\ x.request.kind \in Queries /\ a # None /\ ~c => x.request.name = a

Types ==
  /\ server \in [Names -> [exists : BOOLEAN, revision : Nat, versions : Seq(Nat)]]
  /\ active \in Names \cup {None} /\ viewVersion \in Versions
  /\ collections \subseteq Names /\ head \in Nat
  /\ begun \in Nat /\ written \in [Names -> Nat] /\ crossed \in BOOLEAN
  /\ shown \in [load : Nat, ok : BOOLEAN]

Acked == \A n \in Names : written[n] <= server[n].revision

ShownInv ==
  /\ shown.load <= begun
  /\ shown = [load |-> begun, ok |-> TRUE] /\ active # None =>
       /\ points \in Pages /\ UpToDate(points, active, viewVersion, written)
       /\ diff # None => diff.name = active

HighlightInv == highlight # None /\ active # None /\ ~crossed => highlight.name = active

ViewInv == Types /\ Acked /\ ShownInv /\ HighlightInv

Fits(x) == /\ Proper(x, server)
           /\ Timely(x, active, viewVersion, begun, written)
           /\ OnTopic(x, active, crossed)

TaskInv == DOMAIN task = Actions /\ \A t \in Actions : Fits(task[t])

IInv == ViewInv /\ TaskInv

-----------------------------------------------------------------------------
(***************************************************************************)
(* Operators.                                                              *)
(***************************************************************************)

(* The first of some names is one of them.                                 *)
LEMMA MinInSet ==
  ASSUME NEW S \in SUBSET Nat, S # {}
  PROVE  Min(S) \in S
<1> DEFINE T == {0 .. x : x \in S}
<1>1. T \subseteq FiniteSubsetsOf(Nat) /\ T # {}
  <2>1. \A x \in S : IsFiniteSet(0 .. x)
    BY FS_Interval
  <2>2. \A x \in S : 0 .. x \in SUBSET Nat
    OBVIOUS
  <2>3. QED
    BY <2>1, <2>2 DEF FiniteSubsetsOf
<1>2. PICK t \in T : \A u \in T : ~(<<u, t>> \in StrictSubsetOrdering(Nat))
  BY <1>1, FS_StrictSubsetOrderingWellFounded, WFMin
<1>3. PICK x \in S : t = 0 .. x
  OBVIOUS
<1>4. \A y \in S : x <= y
  <2> SUFFICES ASSUME NEW y \in S, y < x PROVE FALSE
    OBVIOUS
  <2>1. 0 .. y \subseteq 0 .. x /\ 0 .. y # 0 .. x
    <3>1. x \in 0 .. x /\ x \notin 0 .. y
      OBVIOUS
    <3>2. QED
      BY <3>1
  <2>2. <<0 .. y, t>> \in StrictSubsetOrdering(Nat)
    BY <2>1, <1>3 DEF StrictSubsetOrdering
  <2>3. QED
    BY <2>2, <1>2
<1>5. QED
  BY <1>4 DEF Min

LEMMA FirstIsOne ==
  ASSUME NEW S \in SUBSET Names
  PROVE  First(S) \in Names \cup {None} /\ (S # {} => First(S) \in Names)
<1>1. CASE S = {}
  BY <1>1 DEF First
<1>2. CASE S # {}
  BY <1>2, MinInSet, ExplorerAssumption DEF First
<1>3. QED
  BY <1>1, <1>2

LEMMA MaxOfTwo ==
  ASSUME NEW a \in Nat, NEW b \in Nat
  PROVE  /\ Max({a, b}) \in Nat /\ Max({a, b}) >= a
         /\ \A c \in Nat : a <= c /\ b <= c => Max({a, b}) <= c
<1>1. \E x \in {a, b} : \A y \in {a, b} : x >= y
  OBVIOUS
<1>2. Max({a, b}) \in {a, b} /\ \A y \in {a, b} : Max({a, b}) >= y
  BY <1>1 DEF Max
<1>3. QED
  BY <1>2

LEMMA NoneIsElsewhere == None \notin Names /\ None \notin Nat /\ None \notin Pages
  BY ExplorerAssumption, NoneIsNoPage

(* Only the action that goes on is in another state afterwards.            *)
LEMMA Goes ==
  ASSUME TaskInv, NEW t \in Actions, NEW x, Goto(t, x)
  PROVE  /\ DOMAIN task' = Actions /\ task'[t] = x
         /\ \A u \in Actions \ {t} : task'[u] = task[u]
  BY DEF TaskInv, Goto

LEMMA TaskStep ==
  ASSUME TaskInv, NEW t \in Actions, NEW x, Goto(t, x),
         Proper(x, server'), Timely(x, active', viewVersion', begun', written'),
         OnTopic(x, active', crossed'),
         \A u \in Actions \ {t} :
           /\ Proper(task[u], server')
           /\ Timely(task[u], active', viewVersion', begun', written')
           /\ OnTopic(task[u], active', crossed')
  PROVE  TaskInv'
<1>1. /\ DOMAIN task' = Actions /\ task'[t] = x
      /\ \A u \in Actions \ {t} : task'[u] = task[u]
  BY Goes
<1>2. ASSUME NEW u \in Actions
      PROVE  /\ Proper(task'[u], server')
             /\ Timely(task'[u], active', viewVersion', begun', written')
             /\ OnTopic(task'[u], active', crossed')
  <2>1. CASE u = t
    BY <1>1, <2>1
  <2>2. CASE u # t
    BY <1>1, <2>2
  <2>3. QED
    BY <2>1, <2>2
<1>3. QED
  BY <1>1, <1>2 DEF TaskInv, Fits

(* What reads are about and how far the server is are as before.           *)
Still == UNCHANGED <<server, active, viewVersion, begun, written, crossed>>

LEMMA StillStep ==
  ASSUME TaskInv, NEW t \in Actions, NEW x, Goto(t, x), Still,
         Proper(x, server), Timely(x, active, viewVersion, begun, written),
         OnTopic(x, active, crossed)
  PROVE  TaskInv'
<1>1. /\ server' = server /\ active' = active /\ viewVersion' = viewVersion
      /\ begun' = begun /\ written' = written /\ crossed' = crossed
  BY DEF Still
<1>2. \A u \in Actions :
        /\ Proper(task[u], server)
        /\ Timely(task[u], active, viewVersion, begun, written)
        /\ OnTopic(task[u], active, crossed)
  BY DEF TaskInv, Fits
<1>3. QED
  BY <1>1, <1>2, TaskStep

(* An action that waits for nothing the view depends on.                   *)
LEMMA Aside ==
  ASSUME NEW x,
         x = Ended \/ (Pending(x) /\ x.request.kind \notin Loads \cup Queries)
  PROVE  /\ \A a, v, b, w : Timely(x, a, v, b, w)
         /\ \A a, c : OnTopic(x, a, c)
  BY DEF Ended, Pending, Timely, OnTopic

LEMMA EndedIsProper == \A s : Proper(Ended, s)
  BY DEF Proper

(* What the server does moves no revision back.                            *)
LEMMA ProperKept ==
  ASSUME NEW x, NEW s \in [Names -> [exists : BOOLEAN, revision : Nat, versions : Seq(Nat)]],
         NEW z \in [Names -> [exists : BOOLEAN, revision : Nat, versions : Seq(Nat)]],
         \A n \in Names : s[n].revision <= z[n].revision, Proper(x, s)
  PROVE  Proper(x, z)
<1>1. CASE x \in {Untaken, Ended}
  BY <1>1 DEF Proper
<1>2. CASE Pending(x) /\ RequestOK(x.request)
  <2> SUFFICES ASSUME x.at = "answered" PROVE ReplyOK(x.request, x.reply, z)
    BY <1>2 DEF Proper
  <2>1. ReplyOK(x.request, x.reply, s)
    BY <1>2 DEF Proper, Pending, Untaken, Ended
  <2>2. x.request.kind \in {"write", "restore"} => x.request.name \in Names
    BY <1>2 DEF RequestOK, OfOne, Changes
  <2>3. ASSUME x.request.kind \in {"write", "restore"}
        PROVE  x.reply <= z[x.request.name].revision
    <3>1. x.reply \in Nat /\ x.reply <= s[x.request.name].revision
      BY <2>1, <2>3 DEF ReplyOK
    <3>2. s[x.request.name].revision \in Nat /\ z[x.request.name].revision \in Nat
      BY <2>2, <2>3
    <3>3. QED
      BY <3>1, <3>2, <2>2, <2>3
  <2>4. QED
    BY <2>1, <2>3 DEF ReplyOK
<1>3. QED
  BY <1>1, <1>2 DEF Proper

LEMMA PendingOK ==
  ASSUME TaskInv, NEW t \in Actions, Pending(task[t])
  PROVE  /\ RequestOK(task[t].request)
         /\ task[t].at = "answered" => ReplyOK(task[t].request, task[t].reply, server)
<1>1. Proper(task[t], server)
  BY DEF TaskInv, Fits
<1>2. QED
  BY <1>1 DEF Proper, Pending, Untaken, Ended

LEMMA ArrivedOK ==
  ASSUME TaskInv, NEW t \in Actions, NEW kinds, Answered(t, kinds)
  PROVE  /\ Pending(task[t]) /\ task[t].at = "answered" /\ task[t].request.kind \in kinds
         /\ RequestOK(task[t].request) /\ ReplyOK(task[t].request, task[t].reply, server)
<1>1. Pending(task[t]) /\ task[t].at = "answered" /\ task[t].request.kind \in kinds
  BY DEF Answered, Pending
<1>2. QED
  BY <1>1, PendingOK

LEMMA FailedOK ==
  ASSUME TaskInv, NEW t \in Actions, NEW kinds, Failed(t, kinds)
  PROVE  /\ Pending(task[t]) /\ task[t].at = "failed" /\ task[t].request.kind \in kinds
         /\ RequestOK(task[t].request)
<1>1. Pending(task[t]) /\ task[t].at = "failed" /\ task[t].request.kind \in kinds
  BY DEF Failed, Pending
<1>2. QED
  BY <1>1, PendingOK

(* A request is sent.                                                      *)
LEMMA Sending ==
  ASSUME NEW r
  PROVE  /\ Send(r).at = "sent" /\ Send(r).request = r /\ Pending(Send(r))
         /\ RequestOK(r) => \A s : Proper(Send(r), s)
         /\ r.kind \notin Loads => \A a, v, b, w : Timely(Send(r), a, v, b, w)
         /\ r.kind \notin Queries => \A a, c : OnTopic(Send(r), a, c)
<1>1. Send(r).at = "sent" /\ Send(r).request = r /\ Pending(Send(r))
  BY DEF Send, Pending
<1>2. RequestOK(r) => \A s : Proper(Send(r), s)
  BY <1>1 DEF Proper
<1>3. r.kind \notin Loads => \A a, v, b, w : Timely(Send(r), a, v, b, w)
  BY <1>1 DEF Timely
<1>4. r.kind \notin Queries => \A a, c : OnTopic(Send(r), a, c)
  BY <1>1 DEF OnTopic
<1>5. QED
  BY <1>1, <1>2, <1>3, <1>4

-----------------------------------------------------------------------------
(***************************************************************************)
(* Steps that leave the view alone.                                        *)
(***************************************************************************)
Looked == <<server, active, viewVersion, collections, points, head, diff, highlight,
            begun, shown, written, crossed>>

LEMMA ViewStill ==
  ASSUME ViewInv, UNCHANGED Looked
  PROVE  ViewInv' /\ Still
  BY DEF Looked, ViewInv, Types, Acked, ShownInv, HighlightInv, Still

(* A request that is no read is sent, and nothing else happens.            *)
LEMMA SendsAside ==
  ASSUME IInv, NEW t \in Actions, NEW r, Goto(t, Send(r)), UNCHANGED Looked,
         RequestOK(r), r.kind \notin Loads, r.kind \notin Queries
  PROVE  IInv'
<1>1. ViewInv' /\ Still
  BY ViewStill DEF IInv
<1>2. PICK x : x = Send(r)
  OBVIOUS
<1>3. /\ Proper(x, server) /\ Timely(x, active, viewVersion, begun, written)
      /\ OnTopic(x, active, crossed)
  BY <1>2, Sending
<1>4. TaskInv'
  BY <1>1, <1>2, <1>3, StillStep DEF IInv
<1>5. QED
  BY <1>1, <1>4 DEF IInv

LEMMA EndsAside ==
  ASSUME IInv, NEW t \in Actions, Goto(t, Ended), Still
  PROVE  TaskInv'
<1>1. PICK x : x = Ended
  OBVIOUS
<1>2. /\ Proper(x, server) /\ Timely(x, active, viewVersion, begun, written)
      /\ OnTopic(x, active, crossed)
  BY <1>1, Aside, EndedIsProper
<1>3. QED
  BY <1>1, <1>2, StillStep DEF IInv

LEMMA StartStep ==
  ASSUME IInv, NEW t \in Actions, Start(t)
  PROVE  IInv'
<1>1. PICK r : r = [kind |-> "health", at |-> None]
  OBVIOUS
<1>2. RequestOK(r) /\ r.kind \notin Loads /\ r.kind \notin Queries
  BY <1>1 DEF RequestOK, OfOne, Changes, Queries, Loads
<1>3. Goto(t, Send(r)) /\ UNCHANGED Looked
  BY <1>1 DEF Start, view, Looked
<1>4. QED
  BY <1>2, <1>3, SendsAside

LEMMA AskStep ==
  ASSUME IInv, NEW t \in Actions, Ask(t)
  PROVE  IInv'
<1>1. PICK n \in Names, kind \in {"create", "drop"} :
        Goto(t, Send([kind |-> kind, name |-> n, at |-> None]))
  BY DEF Ask
<1>2. PICK r : r = [kind |-> kind, name |-> n, at |-> None]
  OBVIOUS
<1>3. r.kind = kind /\ r.name = n
  BY <1>2
<1>4. RequestOK(r) /\ r.kind \notin Loads /\ r.kind \notin Queries
  BY <1>3 DEF RequestOK, OfOne, Changes, Queries, Loads
<1>5. UNCHANGED Looked
  BY DEF Ask, view, Looked
<1>6. QED
  BY <1>1, <1>2, <1>4, <1>5, SendsAside

(* Points are asked for of the collection that is selected.                *)
LEMMA SendsQuery ==
  ASSUME IInv, NEW t \in Actions, NEW r, Goto(t, Send(r)), UNCHANGED Looked,
         RequestOK(r), r.kind \in Queries, OnTopic(Send(r), active, crossed)
  PROVE  IInv'
<1>1. ViewInv' /\ Still
  BY ViewStill DEF IInv
<1>2. PICK x : x = Send(r)
  OBVIOUS
<1>3. r.kind \notin Loads
  BY DEF Queries, Loads
<1>4. Proper(x, server) /\ Timely(x, active, viewVersion, begun, written)
  BY <1>2, <1>3, Sending
<1>5. TaskInv'
  BY <1>1, <1>2, <1>4, StillStep DEF IInv
<1>6. QED
  BY <1>1, <1>5 DEF IInv

LEMMA AskActiveStep ==
  ASSUME IInv, NEW t \in Actions, AskActive(t)
  PROVE  IInv'
<1>1. active \in Names
  BY DEF AskActive, IInv, ViewInv, Types
<1>2. UNCHANGED Looked
  BY DEF AskActive, view, Looked
<1>3. viewVersion \in Versions /\ head \in Nat
  BY DEF IInv, ViewInv, Types
<1>4. \E kind \in Changes \cup Queries, v \in Versions :
        Goto(t, Send([kind |-> kind, name |-> active, at |-> v]))
  <2>1. CASE \E kind \in {"write", "commit", "point"} :
               Goto(t, Send([kind |-> kind, name |-> active, at |-> None]))
    BY <1>3, <2>1 DEF Changes, Queries, Versions
  <2>2. CASE \E kind \in {"tag", "restore"}, v \in 1 .. head :
               Goto(t, Send([kind |-> kind, name |-> active, at |-> v]))
    BY <1>3, <2>2 DEF Changes, Queries, Versions
  <2>3. CASE \E v \in {viewVersion, None} :
               Goto(t, Send([kind |-> "query", name |-> active, at |-> v]))
    BY <1>3, <2>3 DEF Changes, Queries, Versions
  <2>4. QED
    BY <2>1, <2>2, <2>3 DEF AskActive
<1>5. PICK kind \in Changes \cup Queries, v \in Versions :
        Goto(t, Send([kind |-> kind, name |-> active, at |-> v]))
  BY <1>4
<1>6. PICK r : r = [kind |-> kind, name |-> active, at |-> v]
  OBVIOUS
<1>7. r.kind = kind /\ r.name = active
  BY <1>6
<1>8. RequestOK(r)
  BY <1>1, <1>7 DEF RequestOK, OfOne, Changes, Queries, Loads
<1>9. CASE kind \in Changes
  <2>1. r.kind \notin Loads /\ r.kind \notin Queries
    BY <1>7, <1>9 DEF Changes, Queries, Loads
  <2>2. QED
    BY <1>2, <1>5, <1>6, <1>8, <2>1, SendsAside
<1>10. CASE kind \in Queries
  <2>1. OnTopic(Send(r), active, crossed)
    BY <1>7, Sending DEF OnTopic
  <2>2. QED
    BY <1>2, <1>5, <1>6, <1>7, <1>8, <1>10, <2>1, SendsQuery
<1>11. QED
  BY <1>9, <1>10

LEMMA HealthArrivedStep ==
  ASSUME IInv, NEW t \in Actions, HealthArrived(t)
  PROVE  IInv'
<1>1. PICK r : r = [kind |-> "list", then |-> "first"]
  OBVIOUS
<1>2. RequestOK(r) /\ r.kind \notin Loads /\ r.kind \notin Queries
  BY <1>1 DEF RequestOK, OfOne, Changes, Queries, Loads
<1>3. Goto(t, Send(r)) /\ UNCHANGED Looked
  BY <1>1 DEF HealthArrived, Looked
<1>4. QED
  BY <1>2, <1>3, SendsAside

LEMMA CreatedStep ==
  ASSUME IInv, NEW t \in Actions, Created(t)
  PROVE  IInv'
<1>1. RequestOK(task[t].request) /\ task[t].request.kind = "create"
  BY ArrivedOK DEF Created, IInv
<1>2. task[t].request.name \in Names
  BY <1>1 DEF RequestOK, OfOne
<1>3. PICK r : r = [kind |-> "list", then |-> "created", name |-> task[t].request.name]
  OBVIOUS
<1>4. r.kind = "list" /\ r.then = "created" /\ r.name \in Names
  BY <1>2, <1>3
<1>5. RequestOK(r) /\ r.kind \notin Loads /\ r.kind \notin Queries
  BY <1>4 DEF RequestOK, OfOne, Changes, Queries, Loads
<1>6. Goto(t, Send(r)) /\ UNCHANGED Looked
  BY <1>3 DEF Created, Looked, view
<1>7. QED
  BY <1>5, <1>6, SendsAside

LEMMA DroppedStep ==
  ASSUME IInv, NEW t \in Actions, Dropped(t)
  PROVE  IInv'
<1>1. PICK r : r = [kind |-> "list", then |-> IF active = task[t].request.name
                                              THEN "next" ELSE "nothing"]
  OBVIOUS
<1>2. r.kind = "list" /\ r.then \in {"next", "nothing"}
  BY <1>1
<1>3. RequestOK(r) /\ r.kind \notin Loads /\ r.kind \notin Queries
  BY <1>2 DEF RequestOK, OfOne, Changes, Queries, Loads
<1>4. Goto(t, Send(r)) /\ UNCHANGED Looked
  BY <1>1 DEF Dropped, Looked, view
<1>5. QED
  BY <1>3, <1>4, SendsAside

LEMMA PointArrivedStep ==
  ASSUME IInv, NEW t \in Actions, PointArrived(t)
  PROVE  IInv'
<1>1. /\ Pending(task[t]) /\ RequestOK(task[t].request)
      /\ task[t].request.kind = "point"
  BY ArrivedOK DEF PointArrived, IInv
<1>2. task[t].request.name \in Names
  BY <1>1 DEF RequestOK, OfOne, Queries
<1>3. PICK r : r = [kind |-> "query", name |-> task[t].request.name, at |-> viewVersion]
  OBVIOUS
<1>4. r.kind = "query" /\ r.name = task[t].request.name
  BY <1>3
<1>5. RequestOK(r) /\ r.kind \in Queries
  BY <1>2, <1>4 DEF RequestOK, OfOne, Changes, Queries, Loads
<1>6. OnTopic(task[t], active, crossed)
  BY DEF IInv, TaskInv, Fits
<1>7. OnTopic(Send(r), active, crossed)
  BY <1>1, <1>4, <1>6, Sending DEF OnTopic, Queries
<1>8. Goto(t, Send(r)) /\ UNCHANGED Looked
  BY <1>3 DEF PointArrived, Looked, view
<1>9. QED
  BY <1>5, <1>7, <1>8, SendsQuery

LEMMA RefusedStep ==
  ASSUME IInv, NEW t \in Actions, Refused(t) \/ Disconnected(t)
  PROVE  IInv'
<1>1. Goto(t, Ended) /\ UNCHANGED Looked
  BY DEF Refused, Disconnected, Looked, view
<1>2. ViewInv' /\ Still
  BY <1>1, ViewStill DEF IInv
<1>3. QED
  BY <1>1, <1>2, EndsAside DEF IInv

(* A request that failed is as it was.                                     *)
LEMMA FailStep ==
  ASSUME IInv, NEW t \in Actions, Fail(t)
  PROVE  IInv'
<1>1. PICK x : x = [at |-> "failed", request |-> task[t].request]
  OBVIOUS
<1>2. Goto(t, x) /\ UNCHANGED Looked /\ Pending(task[t])
  BY <1>1 DEF Fail, Looked, view, Pending
<1>3. ViewInv' /\ Still
  BY <1>2, ViewStill DEF IInv
<1>4. x.at = "failed" /\ x.request = task[t].request /\ Pending(x)
  BY <1>1 DEF Pending
<1>5. Fits(task[t]) /\ RequestOK(task[t].request)
  BY <1>2, PendingOK DEF IInv, TaskInv
<1>6. Proper(x, server)
  BY <1>4, <1>5 DEF Proper
<1>7. Timely(x, active, viewVersion, begun, written)
  BY <1>2, <1>4, <1>5 DEF Fits, Timely
<1>8. OnTopic(x, active, crossed)
  BY <1>2, <1>4, <1>5 DEF Fits, OnTopic
<1>9. TaskInv'
  BY <1>2, <1>3, <1>6, <1>7, <1>8, StillStep DEF IInv
<1>10. QED
  BY <1>3, <1>9 DEF IInv

-----------------------------------------------------------------------------
(***************************************************************************)
(* Steps of a load.                                                        *)
(***************************************************************************)

(* A load goes on with another read.                                       *)
LEMMA LoadGoesOn ==
  ASSUME IInv, NEW t \in Actions, NEW r, Goto(t, Send(r)), UNCHANGED Looked,
         RequestOK(r), r.kind \in Loads,
         Timely(Send(r), active, viewVersion, begun, written)
  PROVE  IInv'
<1>1. ViewInv' /\ Still
  BY ViewStill DEF IInv
<1>2. PICK x : x = Send(r)
  OBVIOUS
<1>3. r.kind \notin Queries
  BY DEF Queries, Loads
<1>4. Proper(x, server) /\ OnTopic(x, active, crossed)
  BY <1>2, <1>3, Sending
<1>5. TaskInv'
  BY <1>1, <1>2, <1>4, StillStep DEF IInv
<1>6. QED
  BY <1>1, <1>5 DEF IInv

LEMMA InfoArrivedStep ==
  ASSUME IInv, NEW t \in Actions, InfoArrived(t)
  PROVE  IInv'
<1> DEFINE q == task[t].request
<1>1. /\ Pending(task[t]) /\ RequestOK(q) /\ q.kind = "info"
      /\ ReplyOK(q, task[t].reply, server)
  BY ArrivedOK DEF InfoArrived, IInv
<1>2. q.name \in Names /\ q.load \in Nat /\ task[t].reply \in Nat
  BY <1>1 DEF RequestOK, ReplyOK, OfOne, Loads
<1>3. PICK r : r = [kind |-> "scroll", name |-> q.name, load |-> q.load,
                    at |-> viewVersion, head |-> task[t].reply]
  OBVIOUS
<1>4. /\ r.kind = "scroll" /\ r.name = q.name /\ r.load = q.load /\ r.at = viewVersion
      /\ r.head = task[t].reply
  BY <1>3
<1>5. viewVersion \in Versions
  BY DEF IInv, ViewInv, Types
<1>6. RequestOK(r) /\ r.kind \in Loads
  BY <1>2, <1>4, <1>5 DEF RequestOK, OfOne, Changes, Queries, Loads
<1>7. Timely(task[t], active, viewVersion, begun, written)
  BY DEF IInv, TaskInv, Fits
<1>8. Timely(Send(r), active, viewVersion, begun, written)
  BY <1>1, <1>4, <1>7, Sending DEF Timely, Loads
<1>9. Goto(t, Send(r)) /\ UNCHANGED Looked
  BY <1>3 DEF InfoArrived, Looked, view
<1>10. QED
  BY <1>6, <1>8, <1>9, LoadGoesOn

LEMMA PageArrived ==
  ASSUME IInv, NEW t \in Actions, Answered(t, {"scroll"})
  PROVE  /\ RequestOK(task[t].request) /\ task[t].request.kind = "scroll"
         /\ task[t].request.name \in Names /\ task[t].request.load \in 0 .. begun
         /\ task[t].request.head \in Nat /\ task[t].request.at \in Versions
         /\ task[t].reply \in Pages /\ task[t].reply.name = task[t].request.name
         /\ task[t].request.load = begun /\ active # None =>
              UpToDate(task[t].reply, active, viewVersion, written)
<1> DEFINE q == task[t].request
<1>1. /\ Pending(task[t]) /\ RequestOK(q) /\ q.kind = "scroll" /\ task[t].at = "answered"
      /\ ReplyOK(q, task[t].reply, server)
  BY ArrivedOK DEF IInv
<1>2. /\ q.name \in Names /\ q.load \in Nat /\ q.head \in Nat /\ q.at \in Versions
      /\ task[t].reply \in Pages /\ task[t].reply.name = q.name
  BY <1>1 DEF RequestOK, ReplyOK, OfOne, Loads
<1>3. Timely(task[t], active, viewVersion, begun, written) /\ begun \in Nat
  BY DEF IInv, TaskInv, Fits, ViewInv, Types
<1>4. /\ q.load <= begun
      /\ q.load = begun /\ active # None =>
           UpToDate(task[t].reply, active, viewVersion, written)
  BY <1>1, <1>3 DEF Timely, Loads
<1>5. QED
  BY <1>1, <1>2, <1>3, <1>4

(* What a load shows when it ends.                                         *)
LEMMA EndLoadStep ==
  ASSUME IInv, NEW t \in Actions, NEW r, NEW page, NEW changes,
         EndLoad(t, r, page, changes),
         r.head \in Nat, r.load \in 0 .. begun, page \in Pages,
         r.load = begun /\ active # None => UpToDate(page, active, viewVersion, written),
         changes # None => changes.name = page.name
  PROVE  IInv'
<1>1. PICK q : q = [kind |-> "list", then |-> "nothing"]
  OBVIOUS
<1>2. RequestOK(q) /\ q.kind \notin Loads /\ q.kind \notin Queries
  BY <1>1 DEF RequestOK, OfOne, Changes, Queries, Loads
<1>3. Goto(t, Send(q)) /\ Still
  BY <1>1 DEF EndLoad, Still
<1>4. PICK x : x = Send(q)
  OBVIOUS
<1>5. /\ Proper(x, server) /\ Timely(x, active, viewVersion, begun, written)
      /\ OnTopic(x, active, crossed)
  BY <1>2, <1>4, Sending
<1>6. TaskInv'
  BY <1>3, <1>4, <1>5, StillStep DEF IInv
<1>7. shown' = [load |-> r.load, ok |-> TRUE] /\ shown'.load = r.load
  BY DEF EndLoad
<1>8. Types'
  BY <1>3, <1>7 DEF IInv, ViewInv, Types, EndLoad, Still
<1>9. Acked' /\ HighlightInv'
  BY <1>3 DEF IInv, ViewInv, Acked, HighlightInv, EndLoad, Still
<1>10. ShownInv'
  <2>1. begun' = begun /\ begun \in Nat /\ active' = active
        /\ viewVersion' = viewVersion /\ written' = written
    BY <1>3 DEF Still, IInv, ViewInv, Types
  <2>2. points' = page /\ diff' = changes
    BY DEF EndLoad
  <2>3. shown'.load <= begun'
    BY <1>7, <2>1
  <2>4. ASSUME shown' = [load |-> begun', ok |-> TRUE], active' # None
        PROVE  /\ points' \in Pages /\ UpToDate(points', active', viewVersion', written')
               /\ diff' # None => diff'.name = active'
    <3>1. r.load = begun
      BY <1>7, <2>1, <2>4
    <3>2. UpToDate(page, active, viewVersion, written)
      BY <2>1, <2>4, <3>1
    <3>3. page.name = active
      BY <3>2 DEF UpToDate
    <3>4. QED
      BY <2>1, <2>2, <3>2, <3>3
  <2>5. QED
    BY <2>3, <2>4 DEF ShownInv
<1>11. QED
  BY <1>6, <1>8, <1>9, <1>10 DEF IInv, ViewInv

LEMMA ScrollArrivedStep ==
  ASSUME IInv, NEW t \in Actions, ScrollArrived(t)
  PROVE  IInv'
<1> DEFINE q == task[t].request
<1>1. Answered(t, {"scroll"})
  BY DEF ScrollArrived
<1>2. /\ RequestOK(q) /\ q.kind = "scroll" /\ q.name \in Names /\ q.load \in 0 .. begun
      /\ q.head \in Nat /\ q.at \in Versions
      /\ task[t].reply \in Pages /\ task[t].reply.name = q.name
      /\ q.load = begun /\ active # None =>
           UpToDate(task[t].reply, active, viewVersion, written)
  BY <1>1, PageArrived
<1>3. CASE Effective(q) <= 1 /\ EndLoad(t, q, task[t].reply, None)
  <2>1. PICK r : r = q
    OBVIOUS
  <2>2. PICK page : page = task[t].reply
    OBVIOUS
  <2>3. PICK changes : changes = None
    OBVIOUS
  <2>4. EndLoad(t, r, page, changes)
    BY <1>3, <2>1, <2>2, <2>3
  <2>5. QED
    BY <1>2, <2>1, <2>2, <2>3, <2>4, EndLoadStep
<1>4. CASE /\ Goto(t, Send([kind |-> "diff", name |-> q.name, load |-> q.load,
                            at |-> Effective(q), head |-> q.head, page |-> task[t].reply]))
           /\ UNCHANGED <<server, view, failures, begun, shown, written, crossed>>
  <2>1. PICK r : r = [kind |-> "diff", name |-> q.name, load |-> q.load,
                      at |-> Effective(q), head |-> q.head, page |-> task[t].reply]
    OBVIOUS
  <2>2. /\ r.kind = "diff" /\ r.name = q.name /\ r.load = q.load /\ r.head = q.head
        /\ r.page = task[t].reply
    BY <2>1
  <2>3. begun \in Nat
    BY DEF IInv, ViewInv, Types
  <2>4. q.load \in Nat /\ q.load <= begun
    BY <1>2, <2>3
  <2>5. RequestOK(r) /\ r.kind \in Loads
    BY <1>2, <2>2, <2>4 DEF RequestOK, OfOne, Changes, Queries, Loads
  <2>6. r.load = begun /\ active # None =>
          r.name = active /\ UpToDate(r.page, active, viewVersion, written)
    BY <1>2, <2>2 DEF UpToDate
  <2>7. Timely(Send(r), active, viewVersion, begun, written)
    BY <2>2, <2>4, <2>6, Sending DEF Timely
  <2>8. Goto(t, Send(r)) /\ UNCHANGED Looked
    BY <1>4, <2>1 DEF Looked, view
  <2>9. QED
    BY <2>5, <2>7, <2>8, LoadGoesOn
<1>5. QED
  BY <1>3, <1>4 DEF ScrollArrived

LEMMA DiffEndsStep ==
  ASSUME IInv, NEW t \in Actions, DiffEnds(t)
  PROVE  IInv'
<1> DEFINE q == task[t].request
<1>1. Pending(task[t]) /\ RequestOK(q) /\ q.kind = "diff"
  <2>1. CASE Answered(t, {"diff"})
    BY <2>1, ArrivedOK DEF IInv
  <2>2. CASE Failed(t, {"diff"})
    BY <2>2, FailedOK DEF IInv
  <2>3. QED
    BY <2>1, <2>2 DEF DiffEnds
<1>2. /\ q.name \in Names /\ q.load \in Nat /\ q.head \in Nat
      /\ q.page \in Pages /\ q.page.name = q.name
  BY <1>1 DEF RequestOK, OfOne, Loads
<1>3. Timely(task[t], active, viewVersion, begun, written) /\ begun \in Nat
  BY DEF IInv, TaskInv, Fits, ViewInv, Types
<1>4. /\ q.load \in 0 .. begun
      /\ q.load = begun /\ active # None => UpToDate(q.page, active, viewVersion, written)
  BY <1>1, <1>2, <1>3 DEF Timely, Loads
<1>5. \E c : EndLoad(t, q, q.page, c) /\ (c # None => c.name = q.name)
  <2>1. CASE EndLoad(t, q, q.page, [name |-> q.name, of |-> q.at])
    BY <2>1
  <2>2. CASE EndLoad(t, q, q.page, None)
    BY <2>2
  <2>3. QED
    BY <2>1, <2>2 DEF DiffEnds
<1>6. PICK c : EndLoad(t, q, q.page, c) /\ (c # None => c.name = q.name)
  BY <1>5
<1>7. PICK r : r = q
  OBVIOUS
<1>8. PICK page : page = q.page
  OBVIOUS
<1>9. EndLoad(t, r, page, c)
  BY <1>6, <1>7, <1>8
<1>10. QED
  BY <1>2, <1>4, <1>6, <1>7, <1>8, <1>9, EndLoadStep

(* A load that failed shows nothing, and is remembered as failed.          *)
LEMMA LoadFailedStep ==
  ASSUME IInv, NEW t \in Actions, LoadFailed(t)
  PROVE  IInv'
<1> DEFINE q == task[t].request
<1>1. Pending(task[t]) /\ RequestOK(q) /\ q.kind \in {"info", "scroll"}
  BY FailedOK DEF IInv, LoadFailed, EndFailedLoad
<1>2. q.load \in Nat
  BY <1>1 DEF RequestOK, Loads
<1>3. Timely(task[t], active, viewVersion, begun, written)
  BY DEF IInv, TaskInv, Fits
<1>4. q.load <= begun
  BY <1>1, <1>3 DEF Timely, Loads
<1>5. Goto(t, Ended) /\ Still
  BY DEF LoadFailed, EndFailedLoad, Still
<1>6. TaskInv'
  BY <1>5, EndsAside
<1>7. shown' = [load |-> q.load, ok |-> FALSE] /\ shown'.load = q.load /\ shown'.ok = FALSE
  BY DEF LoadFailed, EndFailedLoad
<1>8. Types'
  BY <1>2, <1>5, <1>7 DEF IInv, ViewInv, Types, LoadFailed, EndFailedLoad, Still
<1>9. Acked' /\ HighlightInv'
  BY <1>5 DEF IInv, ViewInv, Acked, HighlightInv, LoadFailed, EndFailedLoad, Still
<1>10. ShownInv'
  <2>1. shown' # [load |-> begun', ok |-> TRUE]
    BY <1>7
  <2>2. QED
    BY <1>4, <1>5, <1>7, <2>1 DEF ShownInv, Still
<1>11. QED
  BY <1>6, <1>8, <1>9, <1>10 DEF IInv, ViewInv

-----------------------------------------------------------------------------
(***************************************************************************)
(* Steps that begin a load.                                                *)
(***************************************************************************)

(* Whatever is selected, at whichever version and after whichever writes:  *)
(* no earlier load counts any more.                                        *)
LEMMA BeginStep ==
  ASSUME IInv, NEW t \in Actions, NEW name \in Names \cup {None}, BeginLoad(t, name),
         active' = name, UNCHANGED <<server, shown>>,
         \A u \in Actions : OnTopic(task[u], active', crossed')
  PROVE  TaskInv' /\ ShownInv' /\ begun' \in Nat
<1>1. /\ begun \in Nat /\ shown \in [load : Nat, ok : BOOLEAN] /\ shown.load <= begun
  BY DEF IInv, ViewInv, Types, ShownInv
<1>2. server' = server /\ shown' = shown
  OBVIOUS
<1>3. \A u \in Actions : /\ Proper(task[u], server')
                         /\ Timely(task[u], active, viewVersion, begun, written)
  BY <1>2 DEF IInv, TaskInv, Fits
<1>4. CASE name = None
  <2>1. begun' = begun /\ Goto(t, Ended)
    BY <1>4 DEF BeginLoad
  <2>2. PICK x : x = Ended
    OBVIOUS
  <2>3. /\ Proper(x, server') /\ Timely(x, active', viewVersion', begun', written')
        /\ OnTopic(x, active', crossed')
    BY <2>2, Aside, EndedIsProper
  <2>4. \A u \in Actions : Timely(task[u], active', viewVersion', begun', written')
    BY <1>3, <1>4, <2>1 DEF Timely
  <2>5. TaskInv'
    BY <1>3, <2>1, <2>2, <2>3, <2>4, TaskStep DEF IInv
  <2>6. ShownInv'
    BY <1>1, <1>2, <1>4, <2>1 DEF ShownInv
  <2>7. QED
    BY <1>1, <2>1, <2>5, <2>6
<1>5. CASE name # None
  <2>1. name \in Names /\ begun' = begun + 1
    BY <1>5 DEF BeginLoad
  <2>2. PICK r : r = [kind |-> "info", name |-> name, at |-> None, load |-> begun + 1]
    OBVIOUS
  <2>3. r.kind = "info" /\ r.name = name /\ r.load = begun + 1
    BY <2>2
  <2>4. Goto(t, Send(r))
    BY <1>5, <2>2 DEF BeginLoad
  <2>5. PICK x : x = Send(r)
    OBVIOUS
  <2>6. x.request = r /\ x.at = "sent"
    BY <2>5, Sending
  <2>7. RequestOK(r)
    BY <1>1, <2>1, <2>3 DEF RequestOK, OfOne, Changes, Queries, Loads
  <2>8. r.kind \notin Queries
    BY <2>3 DEF Queries
  <2>9. Proper(x, server') /\ OnTopic(x, active', crossed')
    BY <2>5, <2>7, <2>8, Sending
  <2>10. Timely(x, active', viewVersion', begun', written')
    BY <1>1, <2>1, <2>3, <2>6 DEF Timely
  <2>11. ASSUME NEW u \in Actions
         PROVE  Timely(task[u], active', viewVersion', begun', written')
    <3> SUFFICES ASSUME Pending(task[u]), task[u].request.kind \in Loads
                 PROVE  /\ task[u].request.load <= begun'
                        /\ task[u].request.load # begun'
      BY DEF Timely
    <3>1. task[u].request.load \in Nat
      BY PendingOK DEF IInv, RequestOK
    <3>2. task[u].request.load <= begun
      BY <1>3 DEF Timely
    <3>3. QED
      BY <1>1, <2>1, <3>1, <3>2
  <2>12. TaskInv'
    BY <1>3, <2>4, <2>5, <2>9, <2>10, <2>11, TaskStep DEF IInv
  <2>13. ShownInv'
    <3>1. shown'.load \in Nat /\ shown'.load <= begun
      BY <1>1, <1>2
    <3>2. shown'.load <= begun' /\ shown'.load # begun'
      BY <1>1, <2>1, <3>1
    <3>3. shown' # [load |-> begun', ok |-> TRUE]
      BY <3>2
    <3>4. QED
      BY <3>2, <3>3 DEF ShownInv
  <2>14. QED
    BY <1>1, <2>1, <2>12, <2>13
<1>6. QED
  BY <1>4, <1>5

LEMMA SelectStep ==
  ASSUME IInv, NEW t \in Actions, NEW name \in Names \cup {None}, Select(t, name),
         UNCHANGED <<server, shown, written>>, collections' \subseteq Names
  PROVE  IInv'
<1>1. /\ BeginLoad(t, name) /\ active' = name
      /\ crossed' = (crossed \/ UnderWay(Queries))
  BY DEF Select, Queries
<1>2. crossed' \in BOOLEAN
  BY <1>1 DEF IInv, ViewInv, Types
<1>3. ASSUME NEW u \in Actions
      PROVE  OnTopic(task[u], active', crossed')
  <2> SUFFICES ASSUME Pending(task[u]), task[u].request.kind \in Queries, ~crossed'
               PROVE  FALSE
    BY DEF OnTopic
  <2>1. UnderWay(Queries)
    BY DEF UnderWay, Pending
  <2>2. QED
    BY <1>1, <2>1
<1>4. TaskInv' /\ ShownInv' /\ begun' \in Nat
  BY <1>1, <1>3, BeginStep
<1>5. viewVersion' \in Versions /\ head' \in Nat
  BY DEF Select, Versions, IInv, ViewInv, Types
<1>6. Types'
  BY <1>1, <1>2, <1>4, <1>5 DEF IInv, ViewInv, Types
<1>7. Acked'
  BY DEF IInv, ViewInv, Acked
<1>8. HighlightInv'
  BY <1>1 DEF Select, HighlightInv
<1>9. QED
  BY <1>4, <1>6, <1>7, <1>8 DEF IInv, ViewInv

LEMMA SelectCollectionStep ==
  ASSUME IInv, NEW t \in Actions, SelectCollection(t)
  PROVE  IInv'
<1>1. PICK name \in collections \cup {None} : Select(t, name)
  BY DEF SelectCollection
<1>2. UNCHANGED <<server, shown, written, collections>>
  BY DEF SelectCollection
<1>3. collections \subseteq Names
  BY DEF IInv, ViewInv, Types
<1>4. name \in Names \cup {None} /\ collections' \subseteq Names
  BY <1>2, <1>3
<1>5. QED
  BY <1>1, <1>2, <1>4, SelectStep

LEMMA ListArrivedStep ==
  ASSUME IInv, NEW t \in Actions, ListArrived(t)
  PROVE  IInv'
<1> DEFINE q == task[t].request
           names == task[t].reply
<1>1. /\ RequestOK(q) /\ q.kind = "list" /\ ReplyOK(q, names, server)
  BY ArrivedOK DEF ListArrived, IInv
<1>2. names \subseteq Names /\ (q.then = "created" => q.name \in Names)
  BY <1>1 DEF RequestOK, ReplyOK
<1>3. /\ UNCHANGED <<server, shown, written>> /\ collections' \subseteq Names
  BY <1>2 DEF ListArrived
<1>4. First(names) \in Names \cup {None}
  BY <1>2, FirstIsOne
<1>5. CASE /\ Goto(t, Ended)
           /\ UNCHANGED <<active, viewVersion, points, head, diff, highlight, loadingPoints,
                          begun, crossed>>
  <2>1. Still
    BY <1>3, <1>5 DEF Still
  <2>2. TaskInv'
    BY <1>5, <2>1, EndsAside
  <2>3. ViewInv'
    BY <1>3, <1>5 DEF IInv, ViewInv, Types, Acked, ShownInv, HighlightInv
  <2>4. QED
    BY <2>2, <2>3 DEF IInv
<1>6. CASE Select(t, First(names))
  <2>1. PICK n \in Names \cup {None} : n = First(names)
    BY <1>4
  <2>2. QED
    BY <1>3, <1>6, <2>1, SelectStep
<1>7. CASE q.then = "created" /\ Select(t, q.name)
  <2>1. PICK n \in Names \cup {None} : n = q.name
    BY <1>2, <1>7
  <2>2. QED
    BY <1>3, <1>7, <2>1, SelectStep
<1>8. QED
  BY <1>5, <1>6, <1>7 DEF ListArrived

(* The version changes under the same collection.                          *)
LEMMA BeginsAnew ==
  ASSUME IInv, NEW t \in Actions, BeginLoad(t, active),
         UNCHANGED <<server, active, shown, crossed>>
  PROVE  TaskInv' /\ ShownInv' /\ begun' \in Nat
<1>1. PICK name \in Names \cup {None} : name = active
  BY DEF IInv, ViewInv, Types
<1>2. \A u \in Actions : OnTopic(task[u], active', crossed')
  BY DEF IInv, TaskInv, Fits
<1>3. BeginLoad(t, name) /\ active' = name /\ UNCHANGED <<server, shown>>
  BY <1>1
<1>4. QED
  BY <1>2, <1>3, BeginStep

LEMMA SetViewVersionStep ==
  ASSUME IInv, NEW t \in Actions, SetViewVersion(t)
  PROVE  IInv'
<1>1. /\ BeginLoad(t, active) /\ UNCHANGED <<server, active, shown, crossed>>
      /\ UNCHANGED <<collections, head, written>> /\ highlight' = None
  BY DEF SetViewVersion
<1>2. TaskInv' /\ ShownInv' /\ begun' \in Nat
  BY <1>1, BeginsAnew
<1>3. viewVersion' \in Versions
  BY DEF SetViewVersion, Versions, IInv, ViewInv, Types
<1>4. Types'
  BY <1>1, <1>2, <1>3 DEF IInv, ViewInv, Types
<1>5. Acked' /\ HighlightInv'
  BY <1>1 DEF IInv, ViewInv, Acked, HighlightInv
<1>6. QED
  BY <1>2, <1>4, <1>5 DEF IInv, ViewInv

(* Every write that is acked has been made, and is loaded by what begins.  *)
LEMMA ChangedStep ==
  ASSUME IInv, NEW t \in Actions, Changed(t)
  PROVE  IInv'
<1> DEFINE q == task[t].request
<1>1. /\ RequestOK(q) /\ q.kind \in Changes /\ ReplyOK(q, task[t].reply, server)
  BY ArrivedOK DEF Changed, Changes, IInv
<1>2. q.name \in Names
  BY <1>1 DEF RequestOK, OfOne
<1>3. /\ BeginLoad(t, active) /\ UNCHANGED <<server, active, shown, crossed>>
      /\ UNCHANGED <<collections, head, highlight>>
  BY DEF Changed
<1>4. TaskInv' /\ ShownInv' /\ begun' \in Nat
  BY <1>3, BeginsAnew
<1>5. viewVersion' \in Versions
  BY DEF Changed, Versions, IInv, ViewInv, Types
<1>6. written' \in [Names -> Nat] /\ \A n \in Names : written'[n] <= server[n].revision
  <2>1. /\ written \in [Names -> Nat]
        /\ \A n \in Names : written[n] <= server[n].revision /\ server[n].revision \in Nat
    BY DEF IInv, ViewInv, Types, Acked
  <2>2. CASE q.kind \in {"write", "restore"}
    <3>1. PICK w \in Nat : w = task[t].reply
      BY <1>1, <2>2 DEF ReplyOK
    <3>2. w <= server[q.name].revision
      BY <1>1, <2>2, <3>1 DEF ReplyOK
    <3>3. PICK m : m = Max({written[q.name], w})
      OBVIOUS
    <3>4. m \in Nat /\ m <= server[q.name].revision
      <4>1. PICK a \in Nat : a = written[q.name]
        BY <1>2, <2>1
      <4>2. PICK c \in Nat : c = server[q.name].revision
        BY <1>2, <2>1
      <4>3. a <= c /\ w <= c
        BY <1>2, <2>1, <3>2, <4>1, <4>2
      <4>4. m = Max({a, w})
        BY <3>3, <4>1
      <4>5. QED
        BY <4>2, <4>3, <4>4, MaxOfTwo
    <3>5. written' = [written EXCEPT ![q.name] = m]
      BY <2>2, <3>1, <3>3 DEF Changed
    <3>6. QED
      BY <1>2, <2>1, <3>4, <3>5
  <2>3. CASE q.kind \notin {"write", "restore"}
    <3>1. written' = written
      BY <2>3 DEF Changed
    <3>2. QED
      BY <2>1, <3>1
  <2>4. QED
    BY <2>2, <2>3
<1>7. Types'
  BY <1>3, <1>4, <1>5, <1>6 DEF IInv, ViewInv, Types
<1>8. Acked' /\ HighlightInv'
  BY <1>3, <1>6 DEF IInv, ViewInv, Acked, HighlightInv
<1>9. QED
  BY <1>4, <1>7, <1>8 DEF IInv, ViewInv

-----------------------------------------------------------------------------
(***************************************************************************)
(* An answer to a query, and the server.                                   *)
(***************************************************************************)
LEMMA QueryArrivedStep ==
  ASSUME IInv, NEW t \in Actions, QueryArrived(t)
  PROVE  IInv'
<1> DEFINE q == task[t].request
<1>1. /\ Pending(task[t]) /\ q.kind = "query" /\ ReplyOK(q, task[t].reply, server)
  BY ArrivedOK DEF QueryArrived, IInv
<1>2. task[t].reply.name = q.name
  BY <1>1 DEF ReplyOK
<1>3. Goto(t, Ended) /\ Still /\ highlight' = task[t].reply
  BY DEF QueryArrived, Still
<1>4. TaskInv'
  BY <1>3, EndsAside
<1>5. Types' /\ Acked' /\ ShownInv'
  BY DEF QueryArrived, IInv, ViewInv, Types, Acked, ShownInv
<1>6. HighlightInv'
  <2>1. OnTopic(task[t], active, crossed)
    BY DEF IInv, TaskInv, Fits
  <2>2. active # None /\ ~crossed => q.name = active
    BY <1>1, <2>1 DEF OnTopic, Queries
  <2>3. active' = active /\ crossed' = crossed
    BY <1>3 DEF Still
  <2>4. QED
    BY <1>2, <1>3, <2>2, <2>3 DEF HighlightInv
<1>7. QED
  BY <1>4, <1>5, <1>6 DEF IInv, ViewInv

Held    == [exists : BOOLEAN, revision : Nat, versions : Seq(Nat)]
Servers == [Names -> Held]

(* No revision goes back, and a write moves it on by one.                  *)
LEMMA EffectForward ==
  ASSUME server \in Servers, NEW r, RequestOK(r), Effect(r)
  PROVE  /\ server' \in Servers
         /\ \A n \in Names : server[n].revision <= server'[n].revision
         /\ r.kind \in {"write", "restore"} =>
              server'[r.name].revision = server[r.name].revision + 1
<1>1. CASE r.kind \notin {"create", "drop", "write", "commit", "restore"}
  <2>1. server' = server
    BY <1>1 DEF Effect
  <2>2. \A n \in Names : server[n].revision \in Nat
    BY DEF Servers, Held
  <2>3. QED
    BY <1>1, <2>1, <2>2
<1>2. CASE r.kind \in {"create", "drop", "write", "commit", "restore"}
  <2>1. PICK n \in Names : n = r.name
    BY <1>2 DEF RequestOK, OfOne, Changes
  <2>2. PICK d \in Held : d = server[n]
    BY DEF Servers, Held
  <2>3. \E e \in Held :
          /\ server' = [server EXCEPT ![n] = e] /\ d.revision <= e.revision
          /\ r.kind \in {"write", "restore"} => e.revision = d.revision + 1
    <3>1. CASE r.kind = "create"
      <4>1. PICK e : e = [d EXCEPT !.exists = TRUE]
        OBVIOUS
      <4>2. e \in Held /\ e.revision = d.revision
        BY <4>1 DEF Held
      <4>3. server' = [server EXCEPT ![n] = e]
        BY <2>1, <2>2, <3>1, <4>1 DEF Effect, Servers, Held
      <4>4. d.revision <= e.revision
        BY <4>2 DEF Held
      <4>5. QED
        BY <3>1, <4>1, <4>2, <4>3, <4>4
    <3>2. CASE r.kind = "drop"
      <4>1. PICK c : c = [d EXCEPT !.exists = FALSE]
        OBVIOUS
      <4>2. c \in Held /\ c.revision = d.revision
        BY <4>1 DEF Held
      <4>3. PICK e : e = [c EXCEPT !.versions = <<>>]
        OBVIOUS
      <4>4. <<>> \in Seq(Nat)
        OBVIOUS
      <4>5. e \in Held /\ e.revision = d.revision
        BY <4>2, <4>3, <4>4 DEF Held
      <4>6. server' = [server EXCEPT ![n] = e]
        BY <2>1, <2>2, <3>2, <4>1, <4>3 DEF Effect, Servers, Held
      <4>7. d.revision <= e.revision
        BY <4>5 DEF Held
      <4>8. QED
        BY <3>2, <4>5, <4>6, <4>7
    <3>3. CASE r.kind = "write"
      <4>1. PICK e : e = [d EXCEPT !.revision = d.revision + 1]
        OBVIOUS
      <4>2. e \in Held /\ e.revision = d.revision + 1
        BY <4>1 DEF Held
      <4>3. server' = [server EXCEPT ![n] = e]
        BY <2>1, <2>2, <3>3, <4>1 DEF Effect, Servers, Held
      <4>4. d.revision <= e.revision
        BY <4>2 DEF Held
      <4>5. QED
        BY <3>3, <4>1, <4>2, <4>3, <4>4
    <3>4. CASE r.kind = "commit"
      <4>1. Append(d.versions, d.revision) \in Seq(Nat)
        BY DEF Held
      <4>2. PICK e : e = [d EXCEPT !.versions = Append(d.versions, d.revision)]
        OBVIOUS
      <4>3. e \in Held /\ e.revision = d.revision
        BY <4>1, <4>2 DEF Held
      <4>4. server' = [server EXCEPT ![n] = e]
        BY <2>1, <2>2, <3>4, <4>2 DEF Effect, Servers, Held
      <4>5. d.revision <= e.revision
        BY <4>3 DEF Held
      <4>6. QED
        BY <3>4, <4>2, <4>3, <4>4, <4>5
    <3>5. CASE r.kind = "restore"
      <4>1. Append(d.versions, d.revision + 1) \in Seq(Nat)
        BY DEF Held
      <4>2. PICK c : c = [d EXCEPT !.revision = d.revision + 1]
        OBVIOUS
      <4>3. c \in Held /\ c.revision = d.revision + 1
        BY <4>2 DEF Held
      <4>4. PICK e : e = [c EXCEPT !.versions = Append(d.versions, d.revision + 1)]
        OBVIOUS
      <4>5. e \in Held /\ e.revision = d.revision + 1
        BY <4>1, <4>3, <4>4 DEF Held
      <4>6. server' = [server EXCEPT ![n] = e]
        BY <2>1, <2>2, <3>5, <4>2, <4>4 DEF Effect, Servers, Held
      <4>7. d.revision <= e.revision
        BY <4>5 DEF Held
      <4>8. QED
        BY <3>5, <4>5, <4>6, <4>7
    <3>6. QED
      BY <1>2, <3>1, <3>2, <3>3, <3>4, <3>5
  <2>4. PICK e \in Held :
          /\ server' = [server EXCEPT ![n] = e] /\ d.revision <= e.revision
          /\ r.kind \in {"write", "restore"} => e.revision = d.revision + 1
    BY <2>3
  <2>5. server' \in Servers
    BY <2>4 DEF Servers, Held
  <2>6. \A m \in Names : server[m].revision \in Nat
    BY DEF Servers, Held
  <2>7. server'[n] = e /\ \A m \in Names \ {n} : server'[m] = server[m]
    BY <2>4 DEF Servers, Held
  <2>8. QED
    BY <2>1, <2>2, <2>4, <2>5, <2>6, <2>7
<1>3. QED
  BY <1>1, <1>2

(* What the server answers is what was asked for, as it is now.            *)
LEMMA ReplyIsOK ==
  ASSUME server \in Servers, NEW r, RequestOK(r), Possible(r), Effect(r)
  PROVE  ReplyOK(r, Reply(r), server')
<1>1. CASE r.kind = "list"
  BY <1>1 DEF Reply, ReplyOK
<1>2. CASE r.kind = "info"
  <2>1. r.name \in Names
    BY <1>2 DEF RequestOK, OfOne, Loads
  <2>2. Len(server[r.name].versions) \in Nat
    BY <2>1 DEF Servers, Held
  <2>3. QED
    BY <1>2, <2>2 DEF Reply, ReplyOK
<1>3. CASE r.kind \in {"write", "restore"}
  <2>1. r.name \in Names
    BY <1>3 DEF RequestOK, OfOne, Changes
  <2>2. PICK k \in Nat : k = server[r.name].revision
    BY <2>1 DEF Servers, Held
  <2>3. server'[r.name].revision = k + 1
    BY <1>3, <2>2, EffectForward
  <2>4. Reply(r) = k + 1
    BY <1>3, <2>2 DEF Reply
  <2>5. QED
    BY <1>3, <2>2, <2>3, <2>4 DEF ReplyOK
<1>4. CASE r.kind \in {"scroll", "query"}
  <2>1. Reply(r) = [name |-> r.name, at |-> r.at, revision |-> Contents(r.name, r.at)]
    BY <1>4 DEF Reply
  <2>2. Reply(r).name = r.name /\ Reply(r).at = r.at
    BY <2>1
  <2>3. ASSUME r.kind = "scroll"
        PROVE  Reply(r) \in Pages
    <3>1. r.name \in Names /\ r.at \in Versions
      BY <2>3 DEF RequestOK, OfOne, Loads
    <3>2. r.at # None => r.at \in DOMAIN server[r.name].versions
      BY <2>3 DEF Possible
    <3>3. Contents(r.name, r.at) \in Nat
      <4>1. PICK d \in Held :
              d = server[r.name]
        BY <3>1 DEF Servers, Held
      <4>2. \A i \in DOMAIN d.versions : d.versions[i] \in Nat
        <5>1. d.versions \in Seq(Nat)
          BY DEF Held
        <5>2. QED
          BY <5>1
      <4>3. CASE r.at = None
        BY <4>1, <4>3 DEF Contents, Held
      <4>4. CASE r.at # None
        BY <3>2, <4>1, <4>2, <4>4 DEF Contents
      <4>5. QED
        BY <4>3, <4>4
    <3>4. QED
      BY <2>1, <3>1, <3>3 DEF Pages
  <2>4. QED
    BY <1>4, <2>2, <2>3 DEF ReplyOK
<1>5. CASE r.kind \notin {"list", "info", "write", "restore", "scroll", "query"}
  BY <1>5 DEF ReplyOK
<1>6. QED
  BY <1>1, <1>2, <1>3, <1>4, <1>5

LEMMA ServeStep ==
  ASSUME IInv, NEW t \in Actions, Serve(t)
  PROVE  IInv'
<1>1. PICK r : r = task[t].request
  OBVIOUS
<1>2. /\ task[t].at = "sent" /\ Possible(r) /\ Effect(r) /\ Pending(task[t])
      /\ UNCHANGED <<view, failures, begun, shown, written, crossed>>
      /\ Goto(t, [at |-> "answered", request |-> r, reply |-> Reply(r)])
  BY <1>1 DEF Serve, Pending
<1>3. RequestOK(r) /\ server \in Servers
  BY <1>1, <1>2, PendingOK DEF IInv, ViewInv, Types, Servers, Held
<1>4. /\ server' \in Servers /\ \A n \in Names : server[n].revision <= server'[n].revision
      /\ ReplyOK(r, Reply(r), server')
  BY <1>2, <1>3, EffectForward, ReplyIsOK
<1>5. /\ active' = active /\ viewVersion' = viewVersion /\ begun' = begun
      /\ written' = written /\ crossed' = crossed
  BY <1>2 DEF view
<1>6. ViewInv'
  <2>1. Types'
    BY <1>2, <1>4 DEF IInv, ViewInv, Types, Servers, Held, view
  <2>2. Acked'
    <3> SUFFICES ASSUME NEW n \in Names PROVE written[n] <= server'[n].revision
      BY <1>5 DEF Acked
    <3>1. /\ written[n] \in Nat /\ server[n].revision \in Nat /\ server'[n].revision \in Nat
          /\ written[n] <= server[n].revision
      BY <1>3, <1>4 DEF IInv, ViewInv, Types, Servers, Held, Acked
    <3>2. QED
      BY <1>4, <3>1
  <2>3. ShownInv' /\ HighlightInv'
    BY <1>2 DEF IInv, ViewInv, ShownInv, HighlightInv, view
  <2>4. QED
    BY <2>1, <2>2, <2>3 DEF ViewInv
<1>7. PICK x : x = [at |-> "answered", request |-> r, reply |-> Reply(r)]
  OBVIOUS
<1>8. x.at = "answered" /\ x.request = r /\ x.reply = Reply(r) /\ Pending(x)
  BY <1>7 DEF Pending
<1>9. Fits(task[t])
  BY DEF IInv, TaskInv
<1>10. Proper(x, server')
  BY <1>3, <1>4, <1>8 DEF Proper
<1>11. OnTopic(x, active, crossed)
  BY <1>1, <1>2, <1>8, <1>9 DEF Fits, OnTopic
<1>12. Timely(x, active, viewVersion, begun, written)
  <2> SUFFICES ASSUME r.kind \in Loads
               PROVE  Timely(x, active, viewVersion, begun, written)
    BY <1>8 DEF Timely
  <2>1. /\ r.load <= begun
        /\ r.load = begun /\ active # None =>
             /\ r.name = active
             /\ r.kind = "scroll" => r.at = viewVersion
             /\ r.kind = "diff" => UpToDate(r.page, active, viewVersion, written)
    BY <1>1, <1>2, <1>9 DEF Fits, Timely
  <2>2. ASSUME r.kind = "scroll", r.load = begun, active # None
        PROVE  UpToDate(Reply(r), active, viewVersion, written)
    <3>1. r.name = active /\ r.at = viewVersion /\ r.name \in Names
      BY <1>3, <2>1, <2>2 DEF RequestOK, OfOne, Loads
    <3>2. Reply(r) = [name |-> r.name, at |-> r.at, revision |-> Contents(r.name, r.at)]
      BY <2>2 DEF Reply
    <3>3. r.at = None => Reply(r).revision = server[active].revision
      BY <3>1, <3>2 DEF Contents
    <3>4. /\ written[active] \in Nat /\ server[active].revision \in Nat
          /\ written[active] <= server[active].revision
      BY <3>1 DEF IInv, ViewInv, Types, Acked
    <3>5. QED
      BY <3>1, <3>2, <3>3, <3>4 DEF UpToDate
  <2>3. QED
    BY <1>8, <2>1, <2>2 DEF Timely
<1>13. \A u \in Actions : Proper(task[u], server')
  <2> SUFFICES ASSUME NEW u \in Actions PROVE Proper(task[u], server')
    OBVIOUS
  <2>1. PICK y : y = task[u]
    OBVIOUS
  <2>2. PICK s \in Servers : s = server
    BY <1>3
  <2>3. PICK z \in Servers : z = server'
    BY <1>4
  <2>4. Proper(y, s) /\ \A n \in Names : s[n].revision <= z[n].revision
    BY <1>4, <2>1, <2>2, <2>3 DEF IInv, TaskInv, Fits
  <2>5. Proper(y, z)
    BY <2>4, ProperKept DEF Servers, Held
  <2>6. QED
    BY <2>1, <2>3, <2>5
<1>14. \A u \in Actions : /\ Timely(task[u], active', viewVersion', begun', written')
                          /\ OnTopic(task[u], active', crossed')
  BY <1>5 DEF IInv, TaskInv, Fits
<1>15. Goto(t, x)
  BY <1>2, <1>7
<1>16. TaskInv'
  BY <1>5, <1>10, <1>11, <1>12, <1>13, <1>14, <1>15, TaskStep DEF IInv
<1>17. QED
  BY <1>6, <1>16 DEF IInv

-----------------------------------------------------------------------------
(***************************************************************************)
(* The theorem.                                                            *)
(***************************************************************************)
LEMMA InitOK == Init => IInv
<1> SUFFICES ASSUME Init PROVE IInv
  OBVIOUS
<1>1. \A n \in Names :
        [exists |-> n \in Existing, revision |-> 1,
         versions |-> IF n \in Existing THEN <<1>> ELSE <<>>] \in Held
  <2>1. <<1>> \in Seq(Nat) /\ <<>> \in Seq(Nat)
    OBVIOUS
  <2>2. QED
    BY <2>1 DEF Held
<1>2. server \in Servers /\ \A n \in Names : server[n].revision = 1
  BY <1>1 DEF Init, Servers
<1>3. Types
  <2>1. shown \in [load : Nat, ok : BOOLEAN]
    BY DEF Init
  <2>2. QED
    BY <1>2, <2>1 DEF Init, Types, Servers, Held, Versions
<1>4. Acked
  BY <1>2 DEF Init, Acked
<1>5. shown.load = begun /\ begun = 0 /\ active = None /\ highlight = None
  BY DEF Init
<1>6. ShownInv /\ HighlightInv
  BY <1>5 DEF ShownInv, HighlightInv
<1>7. TaskInv
  <2>1. ~Pending(Untaken) /\ \A s : Proper(Untaken, s)
    BY DEF Pending, Untaken, Proper
  <2>2. DOMAIN task = Actions /\ \A t \in Actions : task[t] = Untaken
    BY DEF Init
  <2>3. QED
    BY <2>1, <2>2 DEF TaskInv, Fits, Timely, OnTopic
<1>8. QED
  BY <1>3, <1>4, <1>6, <1>7 DEF IInv, ViewInv

LEMMA Inductive == IInv /\ [Next]_vars => IInv'
<1> SUFFICES ASSUME IInv, [Next]_vars PROVE IInv'
  OBVIOUS
<1>1. ASSUME UNCHANGED vars
      PROVE  IInv'
  <2>1. UNCHANGED Looked /\ task' = task
    BY <1>1 DEF vars, view, Looked
  <2>2. ViewInv' /\ Still
    BY <2>1, ViewStill DEF IInv
  <2>3. TaskInv'
    BY <2>1, <2>2 DEF IInv, TaskInv, Fits, Still
  <2>4. QED
    BY <2>2, <2>3 DEF IInv
<1>2. ASSUME NEW t \in Actions, Network(t)
      PROVE  IInv'
  BY <1>2, ServeStep, FailStep DEF Network
<1>3. ASSUME NEW t \in Actions, Follow(t)
      PROVE  IInv'
  <2>1. CASE InfoArrived(t) \/ ScrollArrived(t) \/ DiffEnds(t) \/ LoadFailed(t)
    BY <2>1, InfoArrivedStep, ScrollArrivedStep, DiffEndsStep, LoadFailedStep
  <2>2. CASE HealthArrived(t) \/ ListArrived(t) \/ Disconnected(t) \/ Refused(t)
    BY <2>2, HealthArrivedStep, ListArrivedStep, RefusedStep
  <2>3. CASE Created(t) \/ Dropped(t) \/ Changed(t)
    BY <2>3, CreatedStep, DroppedStep, ChangedStep
  <2>4. CASE PointArrived(t) \/ QueryArrived(t)
    BY <2>4, PointArrivedStep, QueryArrivedStep
  <2>5. QED
    BY <1>3, <2>1, <2>2, <2>3, <2>4 DEF Follow
<1>4. ASSUME NEW t \in Actions,
             Start(t) \/ SelectCollection(t) \/ SetViewVersion(t) \/ Ask(t) \/ AskActive(t)
      PROVE  IInv'
  BY <1>4, StartStep, SelectCollectionStep, SetViewVersionStep, AskStep, AskActiveStep
<1>5. QED
  BY <1>1, <1>2, <1>3, <1>4 DEF Next, Done

LEMMA InvariantShows == IInv => ShowsWhatItSays
<1> SUFFICES ASSUME IInv PROVE ShowsWhatItSays
  OBVIOUS
<1>1. ShownInv /\ HighlightInv
  BY DEF IInv, ViewInv
<1>2. ASSUME active # None, shown = [load |-> begun, ok |-> TRUE]
      PROVE  /\ points # None
             /\ points.name = active /\ points.at = viewVersion
             /\ points.at = None => points.revision >= written[active]
             /\ diff # None => diff.name = active
  <2>1. /\ points \in Pages /\ UpToDate(points, active, viewVersion, written)
        /\ diff # None => diff.name = active
    BY <1>1, <1>2 DEF ShownInv
  <2>2. points # None
    BY <2>1, NoneIsElsewhere
  <2>3. QED
    BY <2>1, <2>2 DEF UpToDate
<1>3. QED
  BY <1>1, <1>2 DEF ShowsWhatItSays, HighlightInv

(* When the load begun last was the last to end and did not fail, what is  *)
(* shown is the selected collection at the selected version, with every    *)
(* write acked to this user, and what is highlighted belongs to it,        *)
(* whichever actions overlap and in whichever order they are answered.     *)
THEOREM ExplorerShows == Spec => []ShowsWhatItSays
<1>1. Spec => []IInv
  BY InitOK, Inductive, PTL DEF Spec
<1>2. QED
  BY <1>1, InvariantShows, PTL

=============================================================================
