---------------------------- MODULE ServerProofs ----------------------------
(***************************************************************************)
(* Theorems about Server for any number of names, calls, pool threads,     *)
(* permits, stops and log generations.                                     *)
(***************************************************************************)
EXTENDS Server, FiniteSetTheorems, SequenceTheorems, TLAPS

(***************************************************************************)
(* The inductive invariant.                                                *)
(***************************************************************************)
GenerationNumbers == 0 .. MaxGenerations

Instances ==
  [name : Names, dim : Dims, points : SUBSET AllPoints,
   generation : GenerationNumbers, log : Nat]

Verbs    == {"create", "drop", "upsert", "commit", "query"}
Requests == {"upsert", "commit", "query"}

Begun     == [op : Verbs, name : Names, dim : Dims, at : {"begin"}]
Making    == [op : {"create"}, name : Names, dim : Dims, at : {"open", "config", "read"}]
Loading   == [op : {"create"}, name : Names, dim : Dims, at : {"load"},
              generation : GenerationNumbers, end : Nat]
Inserting == [op : {"create"}, name : Names, dim : Dims, at : {"insert"}, inst : Nat]
Removing  == [op : {"drop"}, name : Names, dim : Dims, at : {"remove"}]
Using     == [op : Requests, name : Names, dim : Dims,
              at : {"acquire", "receive", "cancelled"}, inst : Nat]
Answers   == [at : {"answered"}, what : Results \cup {"already_exists", "not_found"},
              op : Verbs, name : Names, dim : Dims]

CallStates == {Uncalled, [at |-> "cut"]} \cup Begun \cup Making \cup Loading
                \cup Inserting \cup Removing \cup Using \cup Answers

JobStates == {"none", "spawned", "running"} \cup Results

Types ==
  /\ status \in {"up", "down", "failed"}
  /\ registry \in [Names -> Nat \cup {None}]
  /\ opened \in Seq(Instances)
  /\ dirs \in [Names -> Directories \cup {None}]
  /\ logs \in Seq(Seq(AllPoints \cup {Hole}))
  /\ call \in [Calls -> CallStates]
  /\ waiting \in Seq(Calls) /\ permits \in Int
  /\ job \in [Calls -> JobStates]
  /\ maintenance \subseteq 1 .. Len(opened)
  /\ \A i \in maintenance : opened[i].generation < MaxGenerations
  /\ crashes \in 0 .. MaxCrashes
  /\ content \in [Names -> (SUBSET AllPoints) \cup {None}]
  /\ shared \subseteq Names /\ stale \subseteq Names /\ cut \subseteq Names

(* Who holds an instance has one of the name he asked for, and the one a   *)
(* create has yet to register is his alone.                                *)
InstanceOf(n, i) == i \in 1 .. Len(opened) /\ opened[i].name = n

Holds(q) == \/ call[q].at \in {"insert", "acquire", "receive"}
            \/ job[q] \in {"spawned", "running"}

Refs ==
  /\ \A n \in Names : registry[n] # None => InstanceOf(n, registry[n])
  /\ \A q \in Calls : Holds(q) => InstanceOf(call[q].name, call[q].inst)
  /\ \A q \in Calls : call[q].at = "insert" =>
       /\ \A n \in Names : registry[n] # call[q].inst
       /\ \A r \in Calls : Holds(r) /\ r # q => call[r].inst # call[q].inst

(* Jobs, permits and the queue for them.                                   *)
Idle(q) == call[q].at \in {"uncalled", "answered", "cancelled", "cut"}

JobsInv ==
  /\ \A q \in Calls : job[q] # "none" => call[q].at \in {"receive", "cancelled", "answered"}
  /\ \A q \in InFlight : call[q].at # "answered"
  /\ status # "up" => maintenance = {} /\ \A q \in Calls : job[q] = "none" /\ Idle(q)

BridgeInv ==
  /\ permits >= 0 /\ permits + Cardinality(InFlight) = MaxInflight
  /\ \A i, j \in 1 .. Len(waiting) : waiting[i] = waiting[j] => i = j
  /\ \A q \in Calls : call[q].at = "acquire" <=> \E i \in 1 .. Len(waiting) : waiting[i] = q

(* No log has two names.                                                   *)
LogsOf(n) == IF dirs[n] = None THEN {} ELSE {dirs[n].wal[g] : g \in DOMAIN dirs[n].wal}

LogInv ==
  /\ \A n \in Names : LogsOf(n) \subseteq 1 .. Len(logs)
  /\ \A i \in 1 .. Len(opened) : opened[i].log \in 1 .. Len(logs)
  /\ \A m, n \in Names : m # n => LogsOf(m) \cap LogsOf(n) = {}

(* While the process runs: who owns the directory of a name that no race   *)
(* has touched.  It belongs to one create that found it missing, to one    *)
(* drop, or to the registered instance, or there is none.                  *)
Changes(q, n) ==
  call[q].at \in {"config", "read", "load", "insert", "remove"} /\ call[q].name = n

Directory(config, wal) == [config |-> config, head |-> None, wal |-> wal]

MadeBy(q, n) ==
  /\ call[q].at = "config" => dirs[n] = NoDirectory
  /\ call[q].at \in {"read", "load"} => dirs[n] = Directory(call[q].dim, <<>>)
  /\ call[q].at = "load" => call[q].generation = 0 /\ call[q].end = 0
  /\ call[q].at = "insert" => LET i == call[q].inst IN
       /\ dirs[n] = Directory(call[q].dim, With(<<>>, 0, opened[i].log))
       /\ opened[i].dim = call[q].dim /\ opened[i].points = {} /\ opened[i].generation = 0
       /\ logs[opened[i].log] = <<>>

(* Directory n has one log, whole, which makes its content with HEAD.      *)
Sound(n) ==
  /\ DOMAIN dirs[n].wal = {Generation(dirs[n])}
  /\ \A k \in 1 .. Len(logs[LogOf(dirs[n])]) : logs[LogOf(dirs[n])][k] # Hole
  /\ Recovered(dirs[n], dirs[n].config) = content[n]

Served(n, i) ==
  /\ Sound(n) /\ opened[i].points = content[n]
  /\ opened[i].generation = Generation(dirs[n]) /\ opened[i].log = LogOf(dirs[n])

LogUsers(n) ==
  \A i \in 1 .. Len(opened) : opened[i].log \in LogsOf(n) =>
    \/ registry[n] = i
    \/ \E q \in Calls : Changes(q, n) /\ (call[q].at = "insert" => call[q].inst = i)

OwnInv(n) ==
  /\ \A q, r \in Calls : Changes(q, n) /\ Changes(r, n) => q = r
  /\ \A q \in Calls : Changes(q, n) => registry[n] = None /\ dirs[n] # None /\ MadeBy(q, n)
  /\ registry[n] = None /\ ~Changing(n) => dirs[n] = None
  /\ registry[n] # None => dirs[n] # None /\ dirs[n].config = opened[registry[n]].dim
  /\ LogUsers(n)
  /\ n \notin cut /\ registry[n] # None => Served(n, registry[n])

UpInv ==
  /\ \A n \in Names : registry[n] = None <=> content[n] = None
  /\ \A n \in Names \ (shared \cup stale) : OwnInv(n)

(* While it does not: what the next start will find.                       *)
DownInv ==
  /\ \A n \in Names : registry[n] = None
  /\ \A n \in Names \ (shared \cup stale \cup cut) :
       /\ dirs[n] = None <=> content[n] = None
       /\ dirs[n] # None => dirs[n].config # None /\ Sound(n)
  /\ status = "failed" => shared \cup stale \cup cut # {}

DataInv == (status = "up" => UpInv) /\ (status # "up" => DownInv)

IInv == Types /\ Refs /\ JobsInv /\ BridgeInv /\ LogInv /\ DataInv

-----------------------------------------------------------------------------
(***************************************************************************)
(* Types.                                                                  *)
(***************************************************************************)
LEMMA Bounds ==
  /\ MaxInflight \in Nat /\ MaxInflight > 0 /\ Threads \in Nat
  /\ MaxGenerations \in Nat /\ MaxGenerations > 0
  /\ CallsMade \in Nat /\ MaxCrashes \in Nat /\ Operations \subseteq Verbs
  BY BridgeAssumption DEF Verbs

LEMMA CallTypes ==
  ASSUME Types, NEW q \in Calls
  PROVE  /\ call[q].at = "begin" => call[q] \in Begun
         /\ call[q].at \in {"open", "config", "read"} => call[q] \in Making
         /\ call[q].at = "load" => call[q] \in Loading
         /\ call[q].at = "insert" => call[q] \in Inserting
         /\ call[q].at = "remove" => call[q] \in Removing
         /\ call[q].at \in {"acquire", "receive", "cancelled"} => call[q] \in Using
         /\ call[q].at = "answered" => call[q] \in Answers
         /\ call[q].at = "uncalled" => call[q] = Uncalled
<1>1. call[q] \in CallStates
  BY DEF Types
<1> QED
  BY <1>1 DEF CallStates, Begun, Making, Loading, Inserting, Removing, Using, Answers, Uncalled

(* What of a call has a type, whatever it is about.                        *)
LEMMA CallFields ==
  ASSUME Types, NEW q \in Calls, call[q].at \notin {"uncalled", "cut"}
  PROVE  call[q].name \in Names /\ call[q].dim \in Dims /\ call[q].op \in Verbs
<1>1. call[q] \in CallStates
  BY DEF Types
<1> QED
  BY <1>1 DEF CallStates, Begun, Making, Loading, Inserting, Removing, Using, Answers,
              Uncalled, Verbs, Requests

-----------------------------------------------------------------------------
(***************************************************************************)
(* What a step leaves alone keeps its owner.                               *)
(***************************************************************************)
LEMMA OneLog ==
  ASSUME NEW g, NEW l
  PROVE  DOMAIN With(<<>>, g, l) = {g} /\ With(<<>>, g, l)[g] = l
  BY DEF With

LEMMA SoundKept ==
  ASSUME NEW n \in Names, dirs[n] # None, Sound(n),
         dirs'[n] = dirs[n], content'[n] = content[n],
         \A l \in LogsOf(n) : logs'[l] = logs[l]
  PROVE  Sound(n)'
<1>1. LogOf(dirs[n]) \in LogsOf(n)
  BY DEF LogsOf, LogOf, Sound
<1>2. logs'[LogOf(dirs[n])] = logs[LogOf(dirs[n])]
  BY <1>1
<1>3. Recovered(dirs[n], dirs[n].config)' = Recovered(dirs[n], dirs[n].config)
  BY <1>2 DEF Recovered, Sound
<1> QED
  BY <1>2, <1>3 DEF Sound

LEMMA OwnKept ==
  ASSUME NEW n \in Names, OwnInv(n),
         dirs'[n] = dirs[n], registry'[n] = registry[n], content'[n] = content[n], cut' = cut,
         \A q \in Calls : Changes(q, n) \/ Changes(q, n)' => call'[q] = call[q],
         (\A q \in Calls : Changes(q, n) => call[q].at # "remove") =>
           \A l \in LogsOf(n) : logs'[l] = logs[l],
         \A i \in 1 .. Len(opened') : opened'[i].log \in LogsOf(n) =>
           i \in 1 .. Len(opened) /\ opened'[i].log = opened[i].log,
         registry[n] # None => opened'[registry[n]] = opened[registry[n]],
         \A q \in Calls : Changes(q, n) /\ call[q].at = "insert" =>
           opened'[call[q].inst] = opened[call[q].inst]
  PROVE  OwnInv(n)'
<1>1. \A q \in Calls : Changes(q, n)' <=> Changes(q, n)
  BY DEF Changes
<1>2. Changing(n)' <=> Changing(n)
  BY <1>1 DEF Changing, Changes
<1>3. LogsOf(n)' = LogsOf(n)
  BY DEF LogsOf
<1>4. ASSUME NEW q \in Calls, Changes(q, n)
      PROVE  MadeBy(q, n)'
  <2>1. call'[q] = call[q] /\ MadeBy(q, n) /\ dirs[n] # None
    BY <1>4 DEF OwnInv
  <2>2. CASE call[q].at = "insert"
    <3>1. \A r \in Calls : Changes(r, n) => r = q
      BY <1>4 DEF OwnInv
    <3>2. \A l \in LogsOf(n) : logs'[l] = logs[l]
      BY <3>1, <2>2
    <3>3. opened[call[q].inst].log \in LogsOf(n)
      <4>1. dirs[n].wal = With(<<>>, 0, opened[call[q].inst].log)
        BY <2>1, <2>2 DEF MadeBy, Directory
      <4>2. 0 \in DOMAIN dirs[n].wal /\ dirs[n].wal[0] = opened[call[q].inst].log
        BY <4>1 DEF With
      <4>3. LogsOf(n) = {dirs[n].wal[g] : g \in DOMAIN dirs[n].wal}
        BY <2>1 DEF LogsOf
      <4> QED
        BY <4>2, <4>3
    <3> QED
      BY <1>4, <2>1, <2>2, <3>2, <3>3 DEF MadeBy
  <2>3. CASE call[q].at # "insert"
    BY <2>1, <2>3 DEF MadeBy
  <2> QED
    BY <2>2, <2>3
<1>5. LogUsers(n)'
  <2> SUFFICES ASSUME NEW i \in 1 .. Len(opened'), opened'[i].log \in LogsOf(n)
               PROVE  \/ registry[n] = i
                      \/ \E q \in Calls : Changes(q, n)' /\ (call'[q].at = "insert" => call'[q].inst = i)
    BY <1>3 DEF LogUsers
  <2>1. \/ registry[n] = i
        \/ \E q \in Calls : Changes(q, n) /\ (call[q].at = "insert" => call[q].inst = i)
    BY DEF OwnInv, LogUsers
  <2> QED
    BY <2>1, <1>1
<1>6. ASSUME n \notin cut, registry[n] # None
      PROVE  Served(n, registry[n])'
  <2>1. Served(n, registry[n]) /\ dirs[n] # None
    BY <1>6 DEF OwnInv
  <2>2. \A q \in Calls : ~Changes(q, n)
    BY <1>6 DEF OwnInv
  <2>3. Sound(n)'
    BY <2>1, <2>2, SoundKept DEF Served
  <2> QED
    BY <1>6, <2>1, <2>3 DEF Served, LogOf, Generation
<1> QED
  BY <1>1, <1>2, <1>4, <1>5, <1>6 DEF OwnInv

(* A step of the bridge, or of a call that is not about a directory.       *)
Quiet == UNCHANGED <<status, registry, opened, dirs, logs, content, shared, stale, cut>>

LEMMA QuietKeeps ==
  ASSUME LogInv, DataInv, Quiet,
         \A q \in Calls, n \in Names : Changes(q, n) \/ Changes(q, n)' => call'[q] = call[q]
  PROVE  LogInv' /\ DataInv'
<1>1. LogInv'
  <2>1. \A n \in Names : LogsOf(n)' = LogsOf(n)
    BY DEF Quiet, LogsOf
  <2> QED
    BY <2>1 DEF Quiet, LogInv
<1>2. CASE status = "up"
  <2>1. ASSUME NEW n \in Names \ (shared \cup stale)
        PROVE  OwnInv(n)'
    <3>1. OwnInv(n)
      BY <1>2 DEF DataInv, UpInv
    <3> QED
      BY <3>1, OwnKept DEF Quiet
  <2> QED
    BY <1>1, <1>2, <2>1 DEF DataInv, UpInv, Quiet
<1>3. CASE status # "up"
  <2>1. ASSUME NEW n \in Names, dirs[n] # None, Sound(n)
        PROVE  Sound(n)'
    BY <2>1, SoundKept DEF Quiet
  <2> QED
    BY <1>1, <1>3, <2>1 DEF DataInv, DownInv, Quiet
<1> QED
  BY <1>1, <1>2, <1>3

(***************************************************************************)
(* How a call moves on.                                                    *)
(***************************************************************************)
LEMMA CallMoves ==
  ASSUME Types, NEW q \in Calls, NEW c \in CallStates, call' = [call EXCEPT ![q] = c]
  PROVE  /\ call' \in [Calls -> CallStates] /\ call'[q] = c
         /\ \A r \in Calls : r # q => call'[r] = call[r]
  BY DEF Types

(* A function with one value replaced.                                     *)
LEMMA Updated ==
  ASSUME NEW D, NEW S, NEW f \in [D -> S], NEW d \in D, NEW v \in S,
         NEW new, new = [f EXCEPT ![d] = v]
  PROVE  new \in [D -> S] /\ new[d] = v /\ \A e \in D : e # d => new[e] = f[e]
  OBVIOUS

LEMMA UpdatedSeq ==
  ASSUME NEW S, NEW s \in Seq(S), NEW i \in 1 .. Len(s), NEW v \in S,
         NEW new, new = [s EXCEPT ![i] = v]
  PROVE  /\ new \in Seq(S) /\ Len(new) = Len(s) /\ new[i] = v
         /\ \A j \in 1 .. Len(s) : j # i => new[j] = s[j]
  OBVIOUS

LEMMA AnswerMoves ==
  ASSUME Types, NEW q \in Calls, call[q].at \notin {"uncalled", "cut"},
         NEW what \in Results \cup {"already_exists", "not_found"}, Answer(q, what)
  PROVE  /\ call' \in [Calls -> CallStates]
         /\ call'[q].at = "answered" /\ call'[q].name = call[q].name
         /\ \A r \in Calls : r # q => call'[r] = call[r]
<1> DEFINE c == [at |-> "answered", what |-> what,
                 op |-> call[q].op, name |-> call[q].name, dim |-> call[q].dim]
<1>1. c \in Answers
  BY CallFields DEF Answers
<1>2. c \in CallStates
  BY <1>1 DEF CallStates
<1>3. call' = [call EXCEPT ![q] = c]
  BY DEF Answer
<1>4. c.at = "answered" /\ c.name = call[q].name
  OBVIOUS
<1> HIDE DEF c
<1> QED
  BY <1>2, <1>3, <1>4, CallMoves

(* Between these places only the place changes.                            *)
Moving(from, to) ==
  \/ from = "begin" /\ to \in {"open", "remove"}
  \/ from = "open" /\ to = "config"
  \/ from = "config" /\ to = "read"
  \/ from \in {"acquire", "receive"} /\ to \in {"receive", "cancelled"}

LEMMA GotoMoves ==
  ASSUME Types, NEW q \in Calls, NEW step, Moving(call[q].at, step), Goto(q, step),
         step = "open" => call[q].op = "create", step = "remove" => call[q].op = "drop"
  PROVE  /\ call' \in [Calls -> CallStates]
         /\ call'[q] = [call[q] EXCEPT !.at = step] /\ call'[q].at = step
         /\ call'[q].name = call[q].name /\ call'[q].dim = call[q].dim
         /\ call'[q].op = call[q].op
         /\ step \in {"receive", "cancelled"} => call'[q].inst = call[q].inst
         /\ \A r \in Calls : r # q => call'[r] = call[r]
<1> DEFINE c == [call[q] EXCEPT !.at = step]
<1>1. /\ c \in CallStates
      /\ c.at = step /\ c.name = call[q].name /\ c.dim = call[q].dim /\ c.op = call[q].op
      /\ step \in {"receive", "cancelled"} => c.inst = call[q].inst
  <2>1. CASE step \in {"open", "config", "read"}
    <3>1. call[q] \in Begun \cup Making
      BY <2>1, CallTypes DEF Moving
    <3>2. /\ c \in Making /\ c.at = step /\ c.name = call[q].name /\ c.dim = call[q].dim
          /\ c.op = call[q].op
      BY <2>1, <3>1 DEF Moving, Begun, Making
    <3> QED
      BY <2>1, <3>2 DEF CallStates
  <2>2. CASE step = "remove"
    <3>1. call[q] \in Begun
      BY <2>2, CallTypes DEF Moving
    <3>2. /\ c \in Removing /\ c.at = step /\ c.name = call[q].name /\ c.dim = call[q].dim
          /\ c.op = call[q].op
      BY <2>2, <3>1 DEF Begun, Removing
    <3> QED
      BY <2>2, <3>2 DEF CallStates
  <2>3. CASE step \in {"receive", "cancelled"}
    <3>1. call[q] \in Using
      BY <2>3, CallTypes DEF Moving
    <3>2. /\ c \in Using /\ c.at = step /\ c.name = call[q].name /\ c.dim = call[q].dim
          /\ c.op = call[q].op /\ c.inst = call[q].inst
      BY <2>3, <3>1 DEF Using
    <3> QED
      BY <2>3, <3>2 DEF CallStates
  <2> QED
    BY <2>1, <2>2, <2>3 DEF Moving
<1>2. call' = [call EXCEPT ![q] = c]
  BY DEF Goto
<1> HIDE DEF c
<1>3. call' \in [Calls -> CallStates] /\ call'[q] = c /\ \A r \in Calls : r # q => call'[r] = call[r]
  BY <1>1, <1>2, CallMoves
<1> QED
  BY <1>1, <1>3 DEF c

(* A handler away from the bridge has no job.                              *)
LEMMA HandlerJobs ==
  ASSUME JobsInv, BridgeInv, NEW q \in Calls,
         status = "up", UNCHANGED <<status, waiting, permits, job>>,
         call[q].at \notin {"acquire", "receive", "cancelled", "answered"},
         call'[q].at # "acquire",
         \A r \in Calls : r # q => call'[r] = call[r]
  PROVE  JobsInv' /\ BridgeInv' /\ job[q] = "none"
<1>1. job[q] = "none"
  BY DEF JobsInv
<1>2. InFlight' = InFlight /\ q \notin InFlight
  BY <1>1 DEF InFlight
<1>3. JobsInv'
  BY <1>1, <1>2 DEF JobsInv, InFlight
<1>4. BridgeInv'
  BY <1>2 DEF BridgeInv
<1> QED
  BY <1>1, <1>3, <1>4

(* The steps of a handler that involve no instance and no permit.          *)
LEMMA HandlerKeeps ==
  ASSUME Refs, JobsInv, BridgeInv, NEW q \in Calls,
         status = "up", UNCHANGED <<status, opened, waiting, permits, job>>,
         \A n \in Names : registry'[n] = registry[n] \/ registry'[n] = None,
         call[q].at \notin {"acquire", "receive", "cancelled", "answered"},
         call'[q].at \notin {"insert", "acquire", "receive"},
         \A r \in Calls : r # q => call'[r] = call[r]
  PROVE  Refs' /\ JobsInv' /\ BridgeInv'
<1>1. job[q] = "none" /\ JobsInv' /\ BridgeInv'
  BY HandlerJobs
<1>2. \A r \in Calls : Holds(r)' => Holds(r) /\ r # q
  BY <1>1 DEF Holds
<1>3. Refs'
  <2>1. \A n \in Names : registry'[n] # None => InstanceOf(n, registry[n])'
    BY DEF Refs, InstanceOf
  <2>2. \A r \in Calls : Holds(r)' => InstanceOf(call[r].name, call[r].inst)'
    BY <1>2 DEF Refs, InstanceOf
  <2>3. ASSUME NEW r \in Calls, call'[r].at = "insert"
        PROVE  /\ \A n \in Names : registry'[n] # call'[r].inst
               /\ \A s \in Calls : Holds(s)' /\ s # r => call'[s].inst # call'[r].inst
    <3>1. r # q /\ call'[r] = call[r]
      BY <2>3
    <3>2. call[r].inst # None
      BY <2>3, <3>1, NoneAssumption DEF Refs, Holds, InstanceOf
    <3> QED
      BY <1>2, <2>3, <3>1, <3>2 DEF Refs
  <2> QED
    BY <2>1, <2>2, <2>3 DEF Refs
<1> QED
  BY <1>1, <1>3

LEMMA InvokeStep ==
  ASSUME IInv, NEW q \in Calls, NEW op \in Operations, NEW name \in Names, NEW dim \in Dims,
         Invoke(q, op, name, dim)
  PROVE  IInv'
<1> DEFINE c == Fresh(op, name, dim)
<1>1. c \in CallStates /\ c.at = "begin"
  BY Bounds DEF Fresh, CallStates, Begun
<1>2. call' \in [Calls -> CallStates] /\ call'[q] = c /\ \A r \in Calls : r # q => call'[r] = call[r]
  BY <1>1, CallMoves DEF Invoke, IInv
<1>3. call[q].at = "uncalled" /\ status = "up"
  BY DEF Invoke, Uncalled
<1> HIDE DEF c
<1>4. Types'
  BY <1>2 DEF Invoke, IInv, Types, storage, history
<1>5. Refs' /\ JobsInv' /\ BridgeInv'
  BY <1>1, <1>2, <1>3, HandlerKeeps DEF Invoke, IInv
<1>6. Quiet
  BY DEF Quiet, Invoke, storage, history
<1>7. \A r \in Calls, n \in Names : Changes(r, n) \/ Changes(r, n)' => call'[r] = call[r]
  BY <1>1, <1>2, <1>3 DEF Changes
<1> QED
  BY <1>4, <1>5, <1>6, <1>7, QuietKeeps DEF IInv

LEMMA CheckFreeStep ==
  ASSUME IInv, NEW q \in Calls, CheckFree(q)
  PROVE  IInv'
<1>1. call[q].at = "begin" /\ call[q].op = "create" /\ status = "up"
  BY DEF CheckFree, At, CreateOnly
<1>2. /\ call' \in [Calls -> CallStates] /\ call'[q].at \in {"answered", "open"}
      /\ \A r \in Calls : r # q => call'[r] = call[r]
  <2>1. CASE registry[Name(q)] # None
    <3>1. Answer(q, "already_exists")
      BY <2>1 DEF CheckFree
    <3> QED
      BY <1>1, <3>1, AnswerMoves DEF IInv
  <2>2. CASE registry[Name(q)] = None
    <3>1. Goto(q, "open")
      BY <2>2 DEF CheckFree
    <3> QED
      BY <1>1, <3>1, GotoMoves DEF IInv, Moving
  <2> QED
    BY <2>1, <2>2
<1>3. Types'
  BY <1>2 DEF CheckFree, CreateOnly, IInv, Types, storage, history
<1>4. Refs' /\ JobsInv' /\ BridgeInv'
  BY <1>1, <1>2, HandlerKeeps DEF CheckFree, CreateOnly, IInv
<1>5. Quiet
  BY DEF Quiet, CheckFree, CreateOnly, storage, history
<1>6. \A r \in Calls, n \in Names : Changes(r, n) \/ Changes(r, n)' => call'[r] = call[r]
  BY <1>1, <1>2 DEF Changes
<1> QED
  BY <1>3, <1>4, <1>5, <1>6, QuietKeeps DEF IInv

(***************************************************************************)
(* The bridge.                                                             *)
(***************************************************************************)
LEMMA LookupStep ==
  ASSUME IInv, NEW q \in Calls, Lookup(q)
  PROVE  IInv'
<1> USE DEF Name
<1>1. call[q].at = "begin" /\ call[q].op \in Requests /\ status = "up" /\ call[q] \in Begun
  BY CallTypes DEF Lookup, At, Requests, IInv
<1>2. call[q].name \in Names /\ call[q].dim \in Dims
  BY <1>1 DEF Begun
<1>3. Quiet
  BY DEF Quiet, Lookup, storage, history
<1>4. CASE registry[call[q].name] = None
  <2>1. Answer(q, "not_found") /\ UNCHANGED waiting
    BY <1>4 DEF Lookup
  <2>2. /\ call' \in [Calls -> CallStates] /\ call'[q].at = "answered"
        /\ \A r \in Calls : r # q => call'[r] = call[r]
    BY <1>1, <2>1, AnswerMoves DEF IInv
  <2>3. Types'
    BY <2>1, <2>2 DEF Lookup, IInv, Types, storage, history
  <2>4. Refs' /\ JobsInv' /\ BridgeInv'
    BY <1>1, <2>1, <2>2, HandlerKeeps DEF Lookup, IInv
  <2>5. \A r \in Calls, n \in Names : Changes(r, n) \/ Changes(r, n)' => call'[r] = call[r]
    BY <1>1, <2>2 DEF Changes
  <2> QED
    BY <1>3, <2>3, <2>4, <2>5, QuietKeeps DEF IInv
<1>5. CASE registry[call[q].name] # None
  <2> DEFINE c == [op |-> call[q].op, name |-> call[q].name, dim |-> call[q].dim,
                   at |-> "acquire", inst |-> registry[call[q].name]]
  <2>1. call' = [call EXCEPT ![q] = c] /\ waiting' = Append(waiting, q)
    BY <1>5 DEF Lookup
  <2>2. registry[call[q].name] \in Nat /\ InstanceOf(call[q].name, registry[call[q].name])
    BY <1>2, <1>5 DEF IInv, Types, Refs
  <2>3. c \in Using
    BY <1>1, <1>2, <2>2 DEF Using
  <2>4. c \in CallStates
    BY <2>3 DEF CallStates
  <2>5. c.at = "acquire" /\ c.name = call[q].name /\ c.inst = registry[call[q].name]
    OBVIOUS
  <2> HIDE DEF c
  <2>6. call' \in [Calls -> CallStates] /\ call'[q] = c
        /\ \A r \in Calls : r # q => call'[r] = call[r]
    BY <2>1, <2>4, CallMoves DEF IInv
  <2>7. waiting \in Seq(Calls) /\ waiting' \in Seq(Calls) /\ Len(waiting') = Len(waiting) + 1
        /\ waiting'[Len(waiting) + 1] = q
        /\ \A i \in 1 .. Len(waiting) : waiting'[i] = waiting[i]
    BY <2>1 DEF IInv, Types
  <2>8. Types'
    BY <2>6, <2>7 DEF Lookup, IInv, Types, storage, history
  <2>9. job[q] = "none" /\ job' = job
    BY <1>1 DEF Lookup, IInv, JobsInv
  <2>10. Refs'
    <3>1. \A r \in Calls : r # q /\ Holds(r)' => Holds(r)
      BY <2>6, <2>9 DEF Holds
    <3>2. \A n \in Names : registry'[n] # None => InstanceOf(n, registry[n])'
      BY <1>3 DEF IInv, Refs, InstanceOf, Quiet
    <3>3. \A r \in Calls : Holds(r)' => InstanceOf(call[r].name, call[r].inst)'
      BY <1>3, <2>2, <2>5, <2>6, <3>1 DEF IInv, Refs, InstanceOf, Quiet
    <3>4. \A r \in Calls : call'[r].at = "insert" => r # q /\ call[r].at = "insert" /\ call'[r] = call[r]
      BY <2>5, <2>6
    <3>5. ASSUME NEW r \in Calls, call'[r].at = "insert"
          PROVE  /\ \A n \in Names : registry'[n] # call'[r].inst
                 /\ \A s \in Calls : Holds(s)' /\ s # r => call'[s].inst # call'[r].inst
      BY <1>2, <1>3, <2>5, <2>6, <3>1, <3>4, <3>5 DEF IInv, Refs, Quiet
    <3> QED
      BY <3>2, <3>3, <3>5 DEF Refs
  <2>11. JobsInv' /\ InFlight' = InFlight
    BY <1>1, <1>3, <2>6, <2>9 DEF IInv, JobsInv, InFlight, Quiet
  <2>12. BridgeInv'
    <3>1. permits' = permits
      BY DEF Lookup
    <3>2. \A i \in 1 .. Len(waiting) : waiting[i] # q
      BY <1>1 DEF IInv, BridgeInv
    <3>3. \A i, j \in 1 .. Len(waiting') : waiting'[i] = waiting'[j] => i = j
      BY <2>7, <3>2 DEF IInv, BridgeInv
    <3>4. ASSUME NEW r \in Calls
          PROVE  call'[r].at = "acquire" <=> \E i \in 1 .. Len(waiting') : waiting'[i] = r
      <4>1. CASE r = q
        BY <2>5, <2>6, <2>7, <4>1
      <4>2. CASE r # q
        <5>1. (\E i \in 1 .. Len(waiting') : waiting'[i] = r)
                 <=> \E i \in 1 .. Len(waiting) : waiting[i] = r
          BY <2>7, <4>2
        <5> QED
          BY <2>6, <4>2, <5>1 DEF IInv, BridgeInv
      <4> QED
        BY <4>1, <4>2
    <3> QED
      BY <2>11, <3>1, <3>3, <3>4 DEF IInv, BridgeInv
  <2>13. \A r \in Calls, n \in Names : Changes(r, n) \/ Changes(r, n)' => call'[r] = call[r]
    BY <1>1, <2>5, <2>6 DEF Changes
  <2> QED
    BY <1>3, <2>8, <2>10, <2>11, <2>12, <2>13, QuietKeeps DEF IInv
<1> QED
  BY <1>4, <1>5

LEMMA RefsKept ==
  ASSUME Refs, UNCHANGED registry, Len(opened') = Len(opened),
         \A i \in 1 .. Len(opened) : opened'[i].name = opened[i].name,
         \A r \in Calls : Holds(r)' =>
           /\ Holds(r) /\ call'[r].name = call[r].name /\ call'[r].inst = call[r].inst
           /\ call'[r].at = "insert" => call[r].at = "insert"
  PROVE  Refs'
<1>1. \A n \in Names : registry'[n] # None => InstanceOf(n, registry[n])'
  BY DEF Refs, InstanceOf
<1>2. \A r \in Calls : Holds(r)' => InstanceOf(call[r].name, call[r].inst)'
  BY DEF Refs, InstanceOf
<1>3. ASSUME NEW r \in Calls, call'[r].at = "insert"
      PROVE  /\ \A n \in Names : registry'[n] # call'[r].inst
             /\ \A s \in Calls : Holds(s)' /\ s # r => call'[s].inst # call'[r].inst
  <2>1. Holds(r)'
    BY <1>3 DEF Holds
  <2> QED
    BY <1>3, <2>1 DEF Refs
<1> QED
  BY <1>1, <1>2, <1>3 DEF Refs

LEMMA FiniteInFlight == IsFiniteSet(InFlight) /\ Cardinality(InFlight) \in Nat
<1>1. 1 \in Int /\ CallsMade \in Int
  BY Bounds
<1>2. IsFiniteSet(Calls)
  BY <1>1, FS_Interval DEF Calls
<1>3. InFlight \in SUBSET Calls
  BY DEF InFlight
<1> QED
  BY <1>2, <1>3, FS_Subset, FS_CardinalityType

LEMMA SpawnStep ==
  ASSUME IInv, NEW q \in Calls, Spawn(q)
  PROVE  IInv'
<1>1. /\ call[q].at = "acquire" /\ status = "up" /\ job[q] = "none" /\ permits > 0
      /\ waiting # <<>> /\ waiting[1] = q
      /\ job' = [job EXCEPT ![q] = "spawned"] /\ permits' = permits - 1
      /\ waiting' = Tail(waiting) /\ Goto(q, "receive")
  BY DEF Spawn, At, IInv, JobsInv
<1>2. /\ call' \in [Calls -> CallStates] /\ call'[q].at = "receive"
      /\ call'[q].name = call[q].name /\ call'[q].inst = call[q].inst
      /\ \A r \in Calls : r # q => call'[r] = call[r]
  BY <1>1, GotoMoves DEF IInv, Moving
<1>3. /\ waiting \in Seq(Calls) /\ waiting' \in Seq(Calls) /\ Len(waiting') = Len(waiting) - 1
      /\ Len(waiting) > 0 /\ Len(waiting) \in Nat
      /\ \A i \in 1 .. Len(waiting') : waiting'[i] = waiting[i + 1]
  BY <1>1 DEF IInv, Types
<1>4. job' \in [Calls -> JobStates] /\ job'[q] = "spawned"
      /\ \A r \in Calls : r # q => job'[r] = job[r]
  BY <1>1 DEF IInv, Types, JobStates
<1>5. Quiet
  BY DEF Quiet, Spawn, storage, history
<1>6. Types'
  BY <1>1, <1>2, <1>3, <1>4 DEF Spawn, IInv, Types, storage, history
<1>7. Refs'
  <2>1. \A r \in Calls : Holds(r)' =>
           /\ Holds(r) /\ call'[r].name = call[r].name /\ call'[r].inst = call[r].inst
           /\ call'[r].at = "insert" => call[r].at = "insert"
    BY <1>1, <1>2, <1>4 DEF Holds
  <2> QED
    BY <1>5, <2>1, RefsKept DEF IInv, Quiet
<1>8. InFlight' = InFlight \cup {q} /\ q \notin InFlight
  BY <1>1, <1>4 DEF InFlight
<1>9. JobsInv'
  <2>1. \A r \in Calls : job'[r] # "none" => call'[r].at \in {"receive", "cancelled", "answered"}
    BY <1>2, <1>4 DEF IInv, JobsInv
  <2>2. \A r \in InFlight' : call'[r].at # "answered"
    BY <1>2, <1>8 DEF IInv, JobsInv, InFlight
  <2> QED
    BY <1>1, <1>5, <2>1, <2>2 DEF JobsInv, Quiet
<1>10. BridgeInv'
  <2>1. IsFiniteSet(InFlight)
    BY FiniteInFlight
  <2>2. Cardinality(InFlight') = Cardinality(InFlight) + 1 /\ Cardinality(InFlight) \in Nat
    BY <1>8, <2>1, FS_AddElement, FS_CardinalityType
  <2>3. permits' >= 0 /\ permits' + Cardinality(InFlight') = MaxInflight
    BY <1>1, <2>2, Bounds DEF IInv, BridgeInv, Types
  <2>4. ASSUME NEW i \in 1 .. Len(waiting'), NEW j \in 1 .. Len(waiting'), waiting'[i] = waiting'[j]
        PROVE  i = j
    <3>1. i + 1 \in 1 .. Len(waiting) /\ j + 1 \in 1 .. Len(waiting)
      BY <1>3
    <3>2. waiting[i + 1] = waiting[j + 1]
      BY <1>3, <2>4
    <3>3. i + 1 = j + 1
      BY <3>1, <3>2 DEF IInv, BridgeInv
    <3> QED
      BY <3>3
  <2>5. \A i \in 1 .. Len(waiting') : waiting'[i] # q
    BY <1>1, <1>3 DEF IInv, BridgeInv
  <2>6. ASSUME NEW r \in Calls, r # q
        PROVE  (\E i \in 1 .. Len(waiting) : waiting[i] = r)
                 <=> \E i \in 1 .. Len(waiting') : waiting'[i] = r
    <3>1. ASSUME NEW i \in 1 .. Len(waiting), waiting[i] = r
          PROVE  i - 1 \in 1 .. Len(waiting') /\ waiting'[i - 1] = r
      BY <1>1, <1>3, <2>6, <3>1
    <3>2. ASSUME NEW i \in 1 .. Len(waiting'), waiting'[i] = r
          PROVE  i + 1 \in 1 .. Len(waiting) /\ waiting[i + 1] = r
      BY <1>3, <3>2
    <3> QED
      BY <3>1, <3>2
  <2>7. \A r \in Calls : call'[r].at = "acquire" <=> \E i \in 1 .. Len(waiting') : waiting'[i] = r
    BY <1>2, <2>5, <2>6 DEF IInv, BridgeInv
  <2> QED
    BY <2>3, <2>4, <2>7 DEF BridgeInv
<1>11. \A r \in Calls, n \in Names : Changes(r, n) \/ Changes(r, n)' => call'[r] = call[r]
  BY <1>1, <1>2 DEF Changes
<1> QED
  BY <1>5, <1>6, <1>7, <1>9, <1>10, <1>11, QuietKeeps DEF IInv

LEMMA StartJobStep ==
  ASSUME IInv, NEW q \in Calls, StartJob(q)
  PROVE  IInv'
<1>1. job[q] = "spawned" /\ status = "up" /\ UNCHANGED <<call, waiting, permits>>
      /\ job' = [job EXCEPT ![q] = "running"]
  BY DEF StartJob
<1>2. job' \in [Calls -> JobStates] /\ job'[q] = "running"
      /\ \A r \in Calls : r # q => job'[r] = job[r]
  BY <1>1 DEF IInv, Types, JobStates
<1>3. Quiet
  BY DEF Quiet, StartJob, storage, history
<1>4. Types'
  BY <1>2 DEF StartJob, IInv, Types, storage, history
<1>5. Refs'
  <2>1. \A r \in Calls : Holds(r)' => Holds(r)
    BY <1>1, <1>2 DEF Holds
  <2> QED
    BY <1>1, <1>3, <2>1, RefsKept DEF IInv, Quiet
<1>6. InFlight' = InFlight
  BY <1>1, <1>2 DEF InFlight
<1>7. JobsInv'
  <2>1. q \in InFlight
    BY <1>1 DEF InFlight
  <2> QED
    BY <1>1, <1>2, <1>3, <1>6, <2>1 DEF IInv, JobsInv, Quiet, InFlight
<1>8. BridgeInv'
  BY <1>1, <1>6 DEF IInv, BridgeInv
<1> QED
  BY <1>1, <1>3, <1>4, <1>5, <1>7, <1>8, QuietKeeps DEF IInv, Changes

LEMMA ReceiveStep ==
  ASSUME IInv, NEW q \in Calls, Receive(q)
  PROVE  IInv'
<1>1. /\ call[q].at = "receive" /\ status = "up" /\ job[q] \in Results
      /\ Answer(q, job[q]) /\ UNCHANGED <<job, waiting, permits>>
  BY DEF Receive, At
<1>2. /\ call' \in [Calls -> CallStates] /\ call'[q].at = "answered"
      /\ \A r \in Calls : r # q => call'[r] = call[r]
  BY <1>1, AnswerMoves DEF IInv
<1>3. Quiet
  BY DEF Quiet, Receive, storage, history
<1>4. Types'
  BY <1>2 DEF Receive, IInv, Types, storage, history
<1>5. job[q] \notin {"none", "spawned", "running"} /\ InFlight' = InFlight /\ q \notin InFlight
  BY <1>1 DEF Results, InFlight
<1>6. Refs'
  <2>1. \A r \in Calls : Holds(r)' => Holds(r) /\ r # q
    BY <1>1, <1>2, <1>5 DEF Holds
  <2> QED
    BY <1>2, <1>3, <2>1, RefsKept DEF IInv, Quiet
<1>7. JobsInv'
  BY <1>1, <1>2, <1>3, <1>5 DEF IInv, JobsInv, Quiet, InFlight
<1>8. BridgeInv'
  BY <1>1, <1>2, <1>5 DEF IInv, BridgeInv
<1>9. \A r \in Calls, n \in Names : Changes(r, n) \/ Changes(r, n)' => call'[r] = call[r]
  BY <1>1, <1>2 DEF Changes
<1> QED
  BY <1>3, <1>4, <1>6, <1>7, <1>8, <1>9, QuietKeeps DEF IInv

LEMMA Removed ==
  ASSUME NEW S, NEW s \in Seq(S), NEW i \in 1 .. Len(s)
  PROVE  /\ RemoveAt(s, i) \in Seq(S) /\ Len(RemoveAt(s, i)) = Len(s) - 1
         /\ \A j \in 1 .. Len(s) - 1 :
              RemoveAt(s, i)[j] = IF j < i THEN s[j] ELSE s[j + 1]
<1>1. /\ SubSeq(s, 1, i - 1) \in Seq(S) /\ Len(SubSeq(s, 1, i - 1)) = i - 1
      /\ \A j \in 1 .. i - 1 : SubSeq(s, 1, i - 1)[j] = s[j]
  OBVIOUS
<1>2. /\ SubSeq(s, i + 1, Len(s)) \in Seq(S) /\ Len(SubSeq(s, i + 1, Len(s))) = Len(s) - i
      /\ \A j \in 1 .. Len(s) - i : SubSeq(s, i + 1, Len(s))[j] = s[i + j]
  OBVIOUS
<1> DEFINE front == SubSeq(s, 1, i - 1)
           back  == SubSeq(s, i + 1, Len(s))
<1>3. RemoveAt(s, i) = front \o back
  BY DEF RemoveAt
<1> HIDE DEF front, back
<1>4. /\ front \o back \in Seq(S) /\ Len(front \o back) = Len(front) + Len(back)
      /\ \A j \in 1 .. Len(front) + Len(back) :
           (front \o back)[j] = IF j <= Len(front) THEN front[j] ELSE back[j - Len(front)]
  BY <1>1, <1>2, ConcatProperties DEF front, back
<1>5. Len(front) = i - 1 /\ Len(back) = Len(s) - i
  BY <1>1, <1>2 DEF front, back
<1>6. ASSUME NEW j \in 1 .. Len(s) - 1
      PROVE  RemoveAt(s, i)[j] = IF j < i THEN s[j] ELSE s[j + 1]
  <2>1. CASE j < i
    <3>1. front[j] = s[j]
      BY <1>1, <2>1 DEF front
    <3> QED
      BY <1>3, <1>4, <1>5, <2>1, <3>1
  <2>2. CASE j >= i
    <3>1. j - (i - 1) \in 1 .. Len(s) - i
      BY <2>2
    <3>2. back[j - (i - 1)] = s[i + (j - (i - 1))]
      BY <1>2, <3>1 DEF back
    <3>3. i + (j - (i - 1)) = j + 1
      OBVIOUS
    <3> QED
      BY <1>3, <1>4, <1>5, <2>2, <3>2, <3>3
  <2> QED
    BY <2>1, <2>2
<1> QED
  BY <1>3, <1>4, <1>5, <1>6

LEMMA CancelStep ==
  ASSUME IInv, NEW q \in Calls, Cancel(q)
  PROVE  IInv'
<1>1. /\ call[q].at \in {"acquire", "receive"} /\ status = "up"
      /\ Goto(q, "cancelled") /\ UNCHANGED <<job, permits>>
  BY DEF Cancel, At
<1>2. /\ call' \in [Calls -> CallStates] /\ call'[q].at = "cancelled"
      /\ call'[q].name = call[q].name /\ call'[q].inst = call[q].inst
      /\ \A r \in Calls : r # q => call'[r] = call[r]
  BY <1>1, GotoMoves DEF IInv, Moving
<1>3. Quiet
  BY DEF Quiet, Cancel, storage, history
<1>4. InFlight' = InFlight
  BY <1>1 DEF InFlight
<1>5. Refs'
  <2>1. \A r \in Calls : Holds(r)' =>
           /\ Holds(r) /\ call'[r].name = call[r].name /\ call'[r].inst = call[r].inst
           /\ call'[r].at = "insert" => call[r].at = "insert"
    BY <1>1, <1>2 DEF Holds
  <2> QED
    BY <1>3, <2>1, RefsKept DEF IInv, Quiet
<1>6. JobsInv'
  <2>1. \A r \in Calls : job'[r] # "none" => call'[r].at \in {"receive", "cancelled", "answered"}
    BY <1>1, <1>2 DEF IInv, JobsInv
  <2>2. \A r \in InFlight' : call'[r].at # "answered"
    BY <1>2, <1>4 DEF IInv, JobsInv, InFlight
  <2> QED
    BY <1>1, <1>3, <2>1, <2>2 DEF JobsInv, Quiet
<1>7. waiting' \in Seq(Calls) /\ BridgeInv'
  <2>1. CASE call[q].at = "receive"
    <3>1. UNCHANGED waiting
      BY <2>1 DEF Cancel, At
    <3>2. \A r \in Calls : call'[r].at = "acquire" <=> call[r].at = "acquire"
      BY <1>2, <2>1
    <3>3. BridgeInv /\ waiting \in Seq(Calls)
      BY DEF IInv, Types
    <3> QED
      BY <1>1, <1>4, <3>1, <3>2, <3>3 DEF BridgeInv
  <2>2. CASE call[q].at = "acquire"
    <3>1. waiting \in Seq(Calls) /\ Len(waiting) \in Nat /\ DOMAIN waiting = 1 .. Len(waiting)
      BY DEF IInv, Types
    <3>2. PICK i \in 1 .. Len(waiting) : waiting[i] = q /\ waiting' = RemoveAt(waiting, i)
      BY <2>2, <3>1 DEF Cancel, At
    <3>3. /\ waiting' \in Seq(Calls) /\ Len(waiting') = Len(waiting) - 1
          /\ \A j \in 1 .. Len(waiting') :
               waiting'[j] = IF j < i THEN waiting[j] ELSE waiting[j + 1]
      BY <3>1, <3>2, Removed
    <3>4. \A j, k \in 1 .. Len(waiting) : waiting[j] = waiting[k] => j = k
      BY DEF IInv, BridgeInv
    <3>5. \A j, k \in 1 .. Len(waiting') : waiting'[j] = waiting'[k] => j = k
      BY <3>1, <3>3, <3>4
    <3>6. \A j \in 1 .. Len(waiting') : waiting'[j] # q
      BY <3>1, <3>2, <3>3, <3>4
    <3>7. ASSUME NEW r \in Calls, r # q
          PROVE  (\E j \in 1 .. Len(waiting) : waiting[j] = r)
                   <=> \E j \in 1 .. Len(waiting') : waiting'[j] = r
      <4>1. ASSUME NEW j \in 1 .. Len(waiting), waiting[j] = r, j < i
            PROVE  j \in 1 .. Len(waiting') /\ waiting'[j] = r
        BY <3>1, <3>2, <3>3, <4>1
      <4>2. ASSUME NEW j \in 1 .. Len(waiting), waiting[j] = r, ~(j < i)
            PROVE  j - 1 \in 1 .. Len(waiting') /\ waiting'[j - 1] = r
        BY <3>1, <3>2, <3>3, <3>7, <4>2
      <4>3. \A j \in 1 .. Len(waiting') : j \in 1 .. Len(waiting) /\ j + 1 \in 1 .. Len(waiting)
        BY <3>1, <3>3
      <4> QED
        BY <3>3, <4>1, <4>2, <4>3
    <3>8. \A r \in Calls : call'[r].at = "acquire" <=> \E j \in 1 .. Len(waiting') : waiting'[j] = r
      BY <1>2, <3>6, <3>7 DEF IInv, BridgeInv
    <3> QED
      BY <1>1, <1>4, <3>3, <3>5, <3>8 DEF IInv, BridgeInv
  <2> QED
    BY <1>1, <2>1, <2>2
<1>8. Types'
  BY <1>2, <1>7 DEF Cancel, IInv, Types, storage, history
<1>9. \A r \in Calls, n \in Names : Changes(r, n) \/ Changes(r, n)' => call'[r] = call[r]
  BY <1>1, <1>2 DEF Changes
<1> QED
  BY <1>3, <1>5, <1>6, <1>7, <1>8, <1>9, QuietKeeps DEF IInv

LEMMA WakeStep ==
  ASSUME IInv, Wake
  PROVE  IInv'
<1>1. status = "up" /\ UNCHANGED <<registry, opened, job, waiting, permits, call>>
  BY DEF Wake
<1>2. Quiet
  BY DEF Quiet, Wake, storage, history
<1>3. maintenance' = {registry[n] : n \in Names} \ {None}
      /\ \A i \in maintenance' : opened[i].generation < MaxGenerations
  BY DEF Wake
<1>4. maintenance' \subseteq 1 .. Len(opened)
  BY <1>3 DEF IInv, Refs, InstanceOf
<1>5. Types'
  BY <1>3, <1>4 DEF Wake, IInv, Types, storage, history
<1>6. Refs' /\ JobsInv' /\ BridgeInv'
  BY <1>1, <1>2 DEF IInv, Refs, InstanceOf, Holds, JobsInv, BridgeInv, InFlight, Idle, Quiet
<1> QED
  BY <1>1, <1>2, <1>5, <1>6, QuietKeeps DEF IInv, Changes

LEMMA FailToStartStep ==
  ASSUME IInv, FailToStart
  PROVE  IInv'
<1>1. /\ status = "down" /\ status' = "failed" /\ \E n \in Stored : dirs[n].config = None
      /\ UNCHANGED <<registry, opened, job, waiting, permits, call, maintenance, dirs, logs,
                     crashes, content, shared, stale, cut>>
  BY DEF FailToStart, process, storage, history
<1>2. Types'
  BY <1>1 DEF IInv, Types
<1>3. Refs' /\ JobsInv' /\ BridgeInv'
  BY <1>1 DEF IInv, Refs, InstanceOf, Holds, JobsInv, BridgeInv, InFlight, Idle
<1>4. \A n \in Names : LogsOf(n)' = LogsOf(n) /\ (dirs[n] # None => (Sound(n) => Sound(n)'))
  BY <1>1, SoundKept DEF LogsOf
<1>5. LogInv'
  BY <1>1, <1>4 DEF IInv, LogInv
<1>6. DownInv
  BY <1>1 DEF IInv, DataInv
<1>7. DownInv'
  BY <1>1, <1>4, <1>6 DEF DownInv, Stored
<1> QED
  BY <1>1, <1>2, <1>3, <1>5, <1>7 DEF IInv, DataInv

(***************************************************************************)
(* Directories and their names.                                            *)
(***************************************************************************)
Wals == UNION {[gs -> Nat] : gs \in SUBSET (0 .. MaxGenerations)}

LEMMA WalTyped ==
  ASSUME NEW wal, NEW gs \in SUBSET (0 .. MaxGenerations), wal \in [gs -> Nat]
  PROVE  wal \in Wals
  BY DEF Wals

LEMMA DirectoryTyped ==
  ASSUME NEW config \in Dims \cup {None}, NEW head \in Heads \cup {None}, NEW wal \in Wals
  PROVE  /\ [config |-> config, head |-> head, wal |-> wal] \in Directories
         /\ [config |-> config, head |-> head, wal |-> wal] # None
<1>1. [config |-> config, head |-> head, wal |-> wal] \in Directories
  BY DEF Directories, Wals
<1> QED
  BY <1>1, NoneAssumption

LEMMA EmptyWal == <<>> \in Wals /\ DOMAIN <<>> = {}
<1>1. <<>> \in [{} -> Nat]
  OBVIOUS
<1>2. {} \in SUBSET (0 .. MaxGenerations)
  OBVIOUS
<1> QED
  BY <1>1, <1>2, WalTyped

LEMMA NewDirectory ==
  /\ NoDirectory \in Directories /\ NoDirectory # None
  /\ NoDirectory.config = None /\ NoDirectory.head = None /\ NoDirectory.wal = <<>>
<1>1. NoDirectory = [config |-> None, head |-> None, wal |-> <<>>]
  BY DEF NoDirectory
<1>2. NoDirectory \in Directories /\ NoDirectory # None
  BY <1>1, EmptyWal, DirectoryTyped
<1> QED
  BY <1>1, <1>2

LEMMA DirectoryFields ==
  ASSUME Types, NEW n \in Names, dirs[n] # None
  PROVE  /\ dirs[n] = [config |-> dirs[n].config, head |-> dirs[n].head, wal |-> dirs[n].wal]
         /\ dirs[n].config \in Dims \cup {None} /\ dirs[n].head \in Heads \cup {None}
         /\ dirs[n].wal \in Wals
         /\ dirs[n].wal \in [DOMAIN dirs[n].wal -> Nat]
         /\ DOMAIN dirs[n].wal \in SUBSET GenerationNumbers
<1>1. dirs[n] \in Directories
  BY DEF Types
<1>2. /\ dirs[n] = [config |-> dirs[n].config, head |-> dirs[n].head, wal |-> dirs[n].wal]
      /\ dirs[n].config \in Dims \cup {None} /\ dirs[n].head \in Heads \cup {None}
      /\ dirs[n].wal \in Wals
  BY <1>1 DEF Directories, Wals
<1>3. PICK gs \in SUBSET (0 .. MaxGenerations) : dirs[n].wal \in [gs -> Nat]
  BY <1>2 DEF Wals
<1> QED
  BY <1>2, <1>3 DEF GenerationNumbers

(* A step about one name leaves the others' directories to their owners.   *)
LEMMA OtherNames ==
  ASSUME Refs, UpInv, NEW k \in Names,
         \A n \in Names : n # k =>
           /\ dirs'[n] = dirs[n] /\ registry'[n] = registry[n] /\ content'[n] = content[n]
           /\ \A l \in LogsOf(n) : logs'[l] = logs[l]
           /\ \A i \in 1 .. Len(opened') : opened'[i].log \in LogsOf(n) =>
                i \in 1 .. Len(opened) /\ opened'[i].log = opened[i].log
           /\ \A q \in Calls : Changes(q, n) \/ Changes(q, n)' => call'[q] = call[q],
         \A i \in 1 .. Len(opened) : opened[i].name # k => opened'[i] = opened[i],
         shared \subseteq shared', stale \subseteq stale', cut' = cut,
         registry'[k] = None <=> content'[k] = None,
         k \notin shared' \cup stale' => OwnInv(k)'
  PROVE  UpInv'
<1>1. ASSUME NEW n \in Names \ (shared' \cup stale'), n # k
      PROVE  OwnInv(n)'
  <2>1. OwnInv(n)
    BY <1>1 DEF UpInv
  <2>2. registry[n] # None => opened'[registry[n]] = opened[registry[n]]
    BY <1>1 DEF Refs, InstanceOf
  <2>3. \A q \in Calls : Changes(q, n) /\ call[q].at = "insert" =>
          opened'[call[q].inst] = opened[call[q].inst]
    BY <1>1 DEF Refs, InstanceOf, Holds, Changes
  <2> QED
    BY <1>1, <2>1, <2>2, <2>3, OwnKept
<1>2. \A n \in Names : registry'[n] = None <=> content'[n] = None
  BY DEF UpInv
<1> QED
  BY <1>1, <1>2 DEF UpInv

LEMMA LogsShrink ==
  ASSUME LogInv, NEW k \in Names, UNCHANGED <<opened, logs>>,
         \A n \in Names : n # k => dirs'[n] = dirs[n],
         LogsOf(k)' \subseteq LogsOf(k)
  PROVE  LogInv'
<1>1. \A n \in Names : LogsOf(n)' \subseteq LogsOf(n)
  BY DEF LogsOf
<1> QED
  BY <1>1 DEF LogInv

LEMMA OpenDirectoryStep ==
  ASSUME IInv, NEW q \in Calls, OpenDirectory(q)
  PROVE  IInv'
<1>1. /\ call[q].at = "open" /\ call[q].op = "create" /\ status = "up" /\ Goto(q, "config")
      /\ UNCHANGED <<status, registry, opened, logs, content, stale, cut, waiting, permits, job,
                     maintenance, crashes>>
  BY DEF OpenDirectory, At, CreateOnly
<1>2. PICK k \in Names : k = call[q].name
  BY <1>1, CallFields DEF IInv
<1>3. /\ call' \in [Calls -> CallStates] /\ call'[q].at = "config" /\ call'[q].name = k
      /\ \A r \in Calls : r # q => call'[r] = call[r]
  BY <1>1, <1>2, GotoMoves DEF IInv, Moving
<1>4. IF dirs[k] = None
      THEN dirs' = [dirs EXCEPT ![k] = NoDirectory] /\ UNCHANGED shared
      ELSE shared' = shared \cup {k} /\ UNCHANGED dirs
  BY <1>2 DEF OpenDirectory, Name
<1>5. \A n \in Names : n # k => dirs'[n] = dirs[n]
  BY <1>2, <1>4 DEF IInv, Types
<1>6. dirs' \in [Names -> Directories \cup {None}]
  BY <1>2, <1>4, NewDirectory DEF IInv, Types
<1>7. Types'
  BY <1>1, <1>2, <1>3, <1>4, <1>6 DEF IInv, Types
<1>8. Refs' /\ JobsInv' /\ BridgeInv'
  BY <1>1, <1>3, HandlerKeeps DEF IInv
<1>9. LogInv'
  <2>1. LogsOf(k)' \subseteq LogsOf(k)
    <3>1. CASE dirs[k] = None
      <4>1. dirs'[k] = NoDirectory
        BY <1>2, <1>4, <3>1 DEF IInv, Types
      <4> QED
        BY <4>1, NewDirectory, EmptyWal DEF LogsOf
    <3>2. CASE dirs[k] # None
      BY <1>4, <3>2 DEF LogsOf
    <3> QED
      BY <3>1, <3>2
  <2> QED
    BY <1>1, <1>2, <1>5, <2>1, LogsShrink DEF IInv
<1>10. ASSUME k \notin shared' \cup stale'
       PROVE  OwnInv(k)'
  <2>1. dirs[k] = None /\ dirs'[k] = NoDirectory
    BY <1>2, <1>4, <1>10 DEF IInv, Types
  <2>2. OwnInv(k)
    BY <1>1, <1>2, <1>4, <1>10 DEF IInv, DataInv, UpInv
  <2>3. registry'[k] = None /\ \A r \in Calls : ~Changes(r, k)
    BY <1>1, <2>1, <2>2 DEF OwnInv
  <2>4. \A r \in Calls : Changes(r, k)' <=> r = q
    BY <1>3, <2>3 DEF Changes
  <2>5. MadeBy(q, k)'
    BY <1>3, <2>1 DEF MadeBy
  <2>6. Changing(k)'
    BY <1>3 DEF Changing
  <2>7. LogsOf(k)' = {}
    BY <2>1, NewDirectory, EmptyWal DEF LogsOf
  <2> QED
    BY <2>1, <2>3, <2>4, <2>5, <2>6, <2>7, NewDirectory DEF OwnInv, LogUsers
<1>11. UpInv'
  <2>1. \A r \in Calls, n \in Names : n # k /\ (Changes(r, n) \/ Changes(r, n)') => call'[r] = call[r]
    BY <1>1, <1>2, <1>3 DEF Changes
  <2>2. \A n \in Names : registry'[n] = registry[n] /\ content'[n] = content[n]
    BY <1>1
  <2>3. Refs /\ UpInv /\ shared \subseteq shared'
    BY <1>1, <1>4 DEF IInv, DataInv
  <2>4. registry'[k] = None <=> content'[k] = None
    BY <1>2, <2>2, <2>3 DEF UpInv
  <2> QED
    BY <1>1, <1>2, <1>5, <1>10, <2>1, <2>2, <2>3, <2>4, OtherNames
<1> QED
  BY <1>1, <1>7, <1>8, <1>9, <1>11 DEF IInv, DataInv

LEMMA WriteConfigStep ==
  ASSUME IInv, NEW q \in Calls, WriteConfigIfAbsent(q)
  PROVE  IInv'
<1>1. /\ call[q].at = "config" /\ call[q].op = "create" /\ status = "up"
      /\ UNCHANGED <<status, registry, opened, logs, content, shared, stale, cut, waiting,
                     permits, job, maintenance, crashes>>
  BY DEF WriteConfigIfAbsent, At, CreateOnly, history
<1>2. PICK k \in Names : k = call[q].name /\ call[q].dim \in Dims
  BY <1>1, CallFields DEF IInv
<1>3. IF dirs[k] = None
      THEN Answer(q, "internal") /\ UNCHANGED dirs
      ELSE /\ dirs' = IF dirs[k].config # None THEN dirs
                      ELSE [dirs EXCEPT ![k].config = call[q].dim]
           /\ Goto(q, "read")
  BY <1>2 DEF WriteConfigIfAbsent, Name
<1>4. /\ call' \in [Calls -> CallStates]
      /\ call'[q].at \in {"answered", "read"}
      /\ dirs[k] # None => call'[q].at = "read" /\ call'[q].dim = call[q].dim
      /\ call'[q].name = k
      /\ \A r \in Calls : r # q => call'[r] = call[r]
  <2>1. CASE dirs[k] = None
    <3>1. Answer(q, "internal")
      BY <1>3, <2>1
    <3> QED
      BY <1>1, <1>2, <2>1, <3>1, AnswerMoves DEF IInv, Results
  <2>2. CASE dirs[k] # None
    <3>1. Goto(q, "read")
      BY <1>3, <2>2
    <3> QED
      BY <1>1, <1>2, <2>2, <3>1, GotoMoves DEF IInv, Moving
  <2> QED
    BY <2>1, <2>2
<1>5. /\ dirs' \in [Names -> Directories \cup {None}]
      /\ \A n \in Names : n # k => dirs'[n] = dirs[n]
      /\ dirs'[k] = None <=> dirs[k] = None
      /\ dirs[k] # None => /\ dirs'[k].head = dirs[k].head /\ dirs'[k].wal = dirs[k].wal
                           /\ dirs[k].config = None => dirs'[k].config = call[q].dim
                           /\ dirs[k].config # None => dirs'[k] = dirs[k]
                           /\ dirs'[k] = [config |-> dirs'[k].config, head |-> dirs'[k].head,
                                          wal |-> dirs'[k].wal]
  <2>1. dirs \in [Names -> Directories \cup {None}]
    BY DEF IInv, Types
  <2>2. CASE dirs[k] = None
    BY <1>3, <2>1, <2>2
  <2>3. CASE dirs[k] # None /\ dirs[k].config # None
    <3>1. dirs' = dirs
      BY <1>3, <2>3
    <3> QED
      BY <1>2, <2>1, <2>3, <3>1, DirectoryFields DEF IInv
  <2>4. CASE dirs[k] # None /\ dirs[k].config = None
    <3> DEFINE d == [config |-> call[q].dim, head |-> dirs[k].head, wal |-> dirs[k].wal]
    <3> /\ dirs[k] = [config |-> dirs[k].config, head |-> dirs[k].head, wal |-> dirs[k].wal]
        /\ dirs[k].head \in Heads \cup {None} /\ dirs[k].wal \in Wals
      BY <2>4, DirectoryFields DEF IInv
    <3>1. [dirs[k] EXCEPT !.config = call[q].dim] = d
      OBVIOUS
    <3>2. d \in Directories /\ d # None
      BY <1>2, DirectoryTyped
    <3>3. dirs' = [dirs EXCEPT ![k] = d]
      BY <1>3, <2>4, <3>1
    <3>4. d.config = call[q].dim /\ d.head = dirs[k].head /\ d.wal = dirs[k].wal
          /\ d = [config |-> d.config, head |-> d.head, wal |-> d.wal]
      OBVIOUS
    <3> HIDE DEF d
    <3>5. dirs'[k] = d /\ dirs' \in [Names -> Directories \cup {None}]
          /\ \A n \in Names : n # k => dirs'[n] = dirs[n]
      BY <1>2, <2>1, <3>2, <3>3
    <3> QED
      BY <2>4, <3>2, <3>4, <3>5
  <2> QED
    BY <2>2, <2>3, <2>4
<1>6. Types'
  BY <1>1, <1>4, <1>5 DEF IInv, Types
<1>7. Refs' /\ JobsInv' /\ BridgeInv'
  BY <1>1, <1>4, HandlerKeeps DEF IInv
<1>8. LogsOf(k)' = LogsOf(k)
  BY <1>5 DEF LogsOf
<1>9. LogInv'
  BY <1>1, <1>2, <1>5, <1>8, LogsShrink DEF IInv
<1>10. ASSUME k \notin shared' \cup stale'
       PROVE  OwnInv(k)'
  <2>1. OwnInv(k) /\ Changes(q, k)
    BY <1>1, <1>2, <1>10 DEF IInv, DataInv, UpInv, Changes
  <2>2. registry[k] = None /\ dirs[k] = NoDirectory /\ dirs[k] # None
        /\ \A r \in Calls : Changes(r, k) => r = q
    BY <1>1, <2>1 DEF OwnInv, MadeBy
  <2>3. dirs'[k] = Directory(call'[q].dim, <<>>) /\ dirs'[k] # None
    <3>1. /\ dirs'[k] = [config |-> dirs'[k].config, head |-> dirs'[k].head, wal |-> dirs'[k].wal]
          /\ dirs'[k].config = call[q].dim /\ dirs'[k].head = None /\ dirs'[k].wal = <<>>
          /\ call'[q].dim = call[q].dim
      BY <1>4, <1>5, <2>2, NewDirectory
    <3> QED
      BY <1>5, <2>2, <3>1 DEF Directory
  <2>4. \A r \in Calls : Changes(r, k)' <=> r = q
    BY <1>4, <2>2 DEF Changes
  <2>5. MadeBy(q, k)'
    BY <1>4, <2>2, <2>3 DEF MadeBy
  <2>6. Changing(k)'
    BY <1>4, <2>2 DEF Changing
  <2>7. LogsOf(k)' = {}
    BY <1>8, <2>2, NewDirectory, EmptyWal DEF LogsOf
  <2> QED
    BY <1>1, <2>2, <2>3, <2>4, <2>5, <2>6, <2>7 DEF OwnInv, LogUsers
<1>11. UpInv'
  <2>1. \A r \in Calls, n \in Names : n # k /\ (Changes(r, n) \/ Changes(r, n)') => call'[r] = call[r]
    BY <1>1, <1>2, <1>4 DEF Changes
  <2>2. \A n \in Names : registry'[n] = registry[n] /\ content'[n] = content[n]
    BY <1>1
  <2>3. Refs /\ UpInv
    BY <1>1 DEF IInv, DataInv
  <2>4. registry'[k] = None <=> content'[k] = None
    BY <1>2, <2>2, <2>3 DEF UpInv
  <2> QED
    BY <1>1, <1>2, <1>5, <1>10, <2>1, <2>2, <2>3, <2>4, OtherNames
<1> QED
  BY <1>1, <1>6, <1>7, <1>9, <1>11 DEF IInv, DataInv

(***************************************************************************)
(* What create finds.                                                      *)
(***************************************************************************)
LEMMA ReadableTyped ==
  ASSUME NEW log \in Seq(AllPoints \cup {Hole})
  PROVE  /\ Readable(log) \subseteq AllPoints
         /\ Cardinality(Readable(log)) \in Nat
<1>1. DOMAIN log = 1 .. Len(log) /\ Len(log) \in Nat /\ \A i \in 1 .. Len(log) : log[i] \in AllPoints \cup {Hole}
  OBVIOUS
<1> DEFINE seen == {j \in DOMAIN log : \A k \in 1 .. j : log[k] # Hole}
           f == [j \in seen |-> log[j]]
<1>2. \A j \in seen : log[j] # Hole
  BY <1>1
<1>3. Readable(log) \subseteq AllPoints
  BY <1>1, <1>2 DEF Readable
<1>4. f \in Surjection(seen, Readable(log))
  BY DEF Surjection, Readable
<1>5. IsFiniteSet(1 .. Len(log)) /\ seen \in SUBSET (1 .. Len(log))
  BY <1>1, FS_Interval
<1>6. IsFiniteSet(seen)
  BY <1>5, FS_Subset
<1> HIDE DEF f, seen
<1> QED
  BY <1>3, <1>4, <1>6, FS_Surjection, FS_CardinalityType

LEMMA EmptyLog ==
  ASSUME NEW log, log = <<>>
  PROVE  Readable(log) = {} /\ \A k \in 1 .. Len(log) : log[k] # Hole
  BY DEF Readable

LEMMA WithTyped ==
  ASSUME NEW wal \in Wals, NEW g \in GenerationNumbers, NEW l \in Nat
  PROVE  /\ With(wal, g, l) \in Wals
         /\ DOMAIN With(wal, g, l) = DOMAIN wal \cup {g} /\ With(wal, g, l)[g] = l
         /\ \A h \in DOMAIN wal \ {g} : With(wal, g, l)[h] = wal[h]
<1>1. PICK gs \in SUBSET (0 .. MaxGenerations) : wal \in [gs -> Nat]
  BY DEF Wals
<1>2. gs \cup {g} \in SUBSET (0 .. MaxGenerations) /\ DOMAIN wal = gs
  BY <1>1 DEF GenerationNumbers
<1>3. With(wal, g, l) \in [gs \cup {g} -> Nat]
  BY <1>1, <1>2 DEF With
<1>4. With(wal, g, l) \in Wals
  BY <1>2, <1>3, WalTyped
<1> QED
  BY <1>4 DEF With

(* The directory as open() sees it, which makes it if it is gone.          *)
Seen(n) == IF dirs[n] = None THEN NoDirectory ELSE dirs[n]

LEMMA SeenTyped ==
  ASSUME Types, NEW n \in Names
  PROVE  /\ Seen(n) = [config |-> Seen(n).config, head |-> Seen(n).head, wal |-> Seen(n).wal]
         /\ Seen(n).config \in Dims \cup {None} /\ Seen(n).head \in Heads \cup {None}
         /\ Seen(n).wal \in Wals
         /\ Seen(n).wal \in [DOMAIN Seen(n).wal -> Nat]
         /\ DOMAIN Seen(n).wal \in SUBSET GenerationNumbers
         /\ Generation(Seen(n)) \in GenerationNumbers
         /\ (IF Seen(n).head = None THEN {} ELSE Seen(n).head.points) \subseteq AllPoints
         /\ LogsOf(n) = {Seen(n).wal[g] : g \in DOMAIN Seen(n).wal}
<1>1. /\ Seen(n) = [config |-> Seen(n).config, head |-> Seen(n).head, wal |-> Seen(n).wal]
      /\ Seen(n).config \in Dims \cup {None} /\ Seen(n).head \in Heads \cup {None}
      /\ Seen(n).wal \in Wals
      /\ Seen(n).wal \in [DOMAIN Seen(n).wal -> Nat]
      /\ DOMAIN Seen(n).wal \in SUBSET GenerationNumbers
      /\ LogsOf(n) = {Seen(n).wal[g] : g \in DOMAIN Seen(n).wal}
  <2>1. CASE dirs[n] = None
    <3>1. Seen(n) = [config |-> None, head |-> None, wal |-> <<>>]
      BY <2>1 DEF Seen, NoDirectory
    <3> QED
      BY <2>1, <3>1, EmptyWal DEF LogsOf
  <2>2. CASE dirs[n] # None
    BY <2>2, DirectoryFields DEF Seen, LogsOf
  <2> QED
    BY <2>1, <2>2
<1>2. Generation(Seen(n)) \in GenerationNumbers
  BY <1>1, Bounds DEF Generation, Heads, GenerationNumbers
<1>3. (IF Seen(n).head = None THEN {} ELSE Seen(n).head.points) \subseteq AllPoints
  BY <1>1 DEF Heads
<1> QED
  BY <1>1, <1>2, <1>3

LEMMA ReadLogStep ==
  ASSUME IInv, NEW q \in Calls, ReadLog(q)
  PROVE  IInv'
<1>1. /\ call[q].at = "read" /\ status = "up" /\ call[q].op = "create"
      /\ UNCHANGED <<status, registry, opened, dirs, logs, content, shared, stale, cut, waiting,
                     permits, job, maintenance, crashes>>
  BY DEF ReadLog, At, CreateOnly, storage, history
<1>2. PICK k \in Names : k = call[q].name /\ call[q].dim \in Dims
  BY <1>1, CallFields DEF IInv
<1> DEFINE g   == Generation(Seen(k))
           end == IF g \in DOMAIN Seen(k).wal THEN Cardinality(Readable(logs[Seen(k).wal[g]])) ELSE 0
           c   == [op |-> "create", name |-> k, dim |-> call[q].dim, at |-> "load",
                   generation |-> g, end |-> end]
<1>3. g \in GenerationNumbers /\ end \in Nat
  <2>1. g \in GenerationNumbers
    BY SeenTyped DEF IInv
  <2>2. CASE g \in DOMAIN Seen(k).wal
    <3>1. Seen(k).wal[g] \in LogsOf(k)
      BY <2>2, SeenTyped DEF IInv
    <3>2. logs[Seen(k).wal[g]] \in Seq(AllPoints \cup {Hole})
      BY <3>1 DEF IInv, LogInv, Types
    <3> QED
      BY <2>1, <2>2, <3>2, ReadableTyped
  <2> QED
    BY <2>1, <2>2
<1>4. call' = [call EXCEPT ![q] = c]
  BY <1>2 DEF ReadLog, Name, Seen
<1>5. /\ c \in Loading /\ c.at = "load" /\ c.name = k /\ c.dim = call[q].dim
      /\ c.generation = g /\ c.end = end
  BY <1>2, <1>3 DEF Loading
<1>6. Seen(k) = Directory(call[q].dim, <<>>) => g = 0 /\ end = 0
  BY EmptyWal DEF Directory, Generation
<1> HIDE DEF g, end, c
<1>7. /\ call' \in [Calls -> CallStates] /\ call'[q] = c
      /\ \A r \in Calls : r # q => call'[r] = call[r]
  <2>1. c \in CallStates
    BY <1>5 DEF CallStates
  <2> QED
    BY <1>4, <2>1, CallMoves DEF IInv
<1>8. Types'
  BY <1>1, <1>7 DEF IInv, Types
<1>9. Refs' /\ JobsInv' /\ BridgeInv'
  BY <1>1, <1>5, <1>7, HandlerKeeps DEF IInv
<1>10. LogInv'
  BY <1>1, <1>2, LogsShrink DEF IInv, LogsOf
<1>11. ASSUME k \notin shared' \cup stale'
       PROVE  OwnInv(k)'
  <2>1. OwnInv(k) /\ Changes(q, k)
    BY <1>1, <1>2, <1>11 DEF IInv, DataInv, UpInv, Changes
  <2>2. /\ registry[k] = None /\ dirs[k] # None /\ dirs[k] = Directory(call[q].dim, <<>>)
        /\ \A r \in Calls : Changes(r, k) => r = q
    BY <1>1, <2>1 DEF OwnInv, MadeBy
  <2>3. g = 0 /\ end = 0
    BY <1>6, <2>2 DEF Seen
  <2>4. \A r \in Calls : Changes(r, k)' <=> r = q
    BY <1>5, <1>7, <2>2 DEF Changes
  <2>5. MadeBy(q, k)'
    BY <1>1, <1>5, <1>7, <2>2, <2>3 DEF MadeBy
  <2>6. Changing(k)'
    BY <1>5, <1>7 DEF Changing
  <2>7. LogsOf(k)' = {}
    BY <1>1, <2>2, EmptyWal DEF LogsOf, Directory
  <2> QED
    BY <1>1, <2>2, <2>4, <2>5, <2>6, <2>7 DEF OwnInv, LogUsers
<1>12. UpInv'
  <2>1. \A r \in Calls, n \in Names : n # k /\ (Changes(r, n) \/ Changes(r, n)') => call'[r] = call[r]
    BY <1>2, <1>5, <1>7 DEF Changes
  <2>2. \A n \in Names : registry'[n] = registry[n] /\ content'[n] = content[n] /\ dirs'[n] = dirs[n]
    BY <1>1
  <2>3. Refs /\ UpInv
    BY <1>1 DEF IInv, DataInv
  <2>4. registry'[k] = None <=> content'[k] = None
    BY <1>2, <2>2, <2>3 DEF UpInv
  <2> QED
    BY <1>1, <1>2, <1>11, <2>1, <2>2, <2>3, <2>4, OtherNames
<1> QED
  BY <1>1, <1>8, <1>9, <1>10, <1>12 DEF IInv, DataInv

(* A log that is made, or opened, for one name.                            *)
LEMMA LogsGrow ==
  ASSUME LogInv, NEW k \in Names, NEW log,
         \A n \in Names : n # k => dirs'[n] = dirs[n],
         Len(logs) \in Nat, Len(logs') \in Nat, Len(logs') >= Len(logs),
         log \in 1 .. Len(logs'), log \in LogsOf(k) \/ log > Len(logs),
         LogsOf(k)' \subseteq LogsOf(k) \cup {log},
         \A i \in 1 .. Len(opened') :
           opened'[i].log = log \/ (i \in 1 .. Len(opened) /\ opened'[i].log = opened[i].log)
  PROVE  /\ LogInv'
         /\ \A n \in Names : n # k => log \notin LogsOf(n)
<1>1. ASSUME NEW n \in Names, n # k
      PROVE  LogsOf(n)' = LogsOf(n) /\ LogsOf(n) \subseteq 1 .. Len(logs) /\ log \notin LogsOf(n)
  <2>1. LogsOf(n)' = LogsOf(n)
    BY <1>1 DEF LogsOf
  <2>2. LogsOf(n) \subseteq 1 .. Len(logs) /\ LogsOf(n) \cap LogsOf(k) = {}
    BY <1>1 DEF LogInv
  <2>3. log \in LogsOf(k) => log \notin LogsOf(n)
    BY <2>2
  <2>4. log > Len(logs) => log \notin LogsOf(n)
    BY <2>2
  <2> QED
    BY <2>1, <2>2, <2>3, <2>4
<1>2. \A n \in Names : LogsOf(n)' \subseteq 1 .. Len(logs')
  BY <1>1 DEF LogInv
<1>3. \A i \in 1 .. Len(opened') : opened'[i].log \in 1 .. Len(logs')
  BY DEF LogInv
<1>4. ASSUME NEW m \in Names, NEW n \in Names, m # n
      PROVE  LogsOf(m)' \cap LogsOf(n)' = {}
  <2>1. LogsOf(m) \cap LogsOf(n) = {}
    BY <1>4 DEF LogInv
  <2>2. CASE m = k
    BY <1>1, <1>4, <2>1, <2>2
  <2>3. CASE n = k
    BY <1>1, <1>4, <2>1, <2>3
  <2>4. CASE m # k /\ n # k
    BY <1>1, <2>1, <2>4
  <2> QED
    BY <2>2, <2>3, <2>4
<1> QED
  BY <1>1, <1>2, <1>3, <1>4 DEF LogInv

LEMMA LoadStep ==
  ASSUME IInv, NEW q \in Calls, Load(q)
  PROVE  IInv'
<1>1. /\ call[q].at = "load" /\ status = "up" /\ call[q].op = "create"
      /\ UNCHANGED <<status, registry, content, shared, stale, cut, waiting,
                     permits, job, maintenance, crashes>>
  BY DEF Load, At, CreateOnly, history
<1>2. PICK k \in Names : k = call[q].name /\ call[q].dim \in Dims
  BY <1>1, CallFields DEF IInv
<1>3. call[q].generation \in GenerationNumbers /\ call[q].end \in Nat
  BY <1>1, CallTypes DEF IInv, Loading
<1> DEFINE g      == call[q].generation
           old    == g \in DOMAIN Seen(k).wal
           log    == IF old THEN Seen(k).wal[g] ELSE Len(logs) + 1
           points == (IF Seen(k).head = None THEN {} ELSE Seen(k).head.points) \cup
                     {p \in Readable(logs'[log]) : p.dim = call[q].dim}
           inst   == [name |-> k, dim |-> call[q].dim, points |-> points,
                      generation |-> g, log |-> log]
           c      == [op |-> "create", name |-> k, dim |-> call[q].dim,
                      at |-> "insert", inst |-> Len(opened) + 1]
           wal    == With(Seen(k).wal, g, log)
           dir    == [config |-> Seen(k).config, head |-> Seen(k).head, wal |-> wal]
<1>4. /\ logs' = IF ~old THEN Append(logs, <<>>)
                 ELSE IF Len(logs[log]) > call[q].end
                 THEN [logs EXCEPT ![log] = Append(SubSeq(@, 1, call[q].end), Hole)]
                 ELSE logs
      /\ dirs' = [dirs EXCEPT ![k] = [Seen(k) EXCEPT !.wal = With(@, g, log)]]
      /\ opened' = Append(opened, inst)
      /\ call' = [call EXCEPT ![q] = c]
  BY <1>2 DEF Load, Name, Seen
<1>5. /\ logs \in Seq(Seq(AllPoints \cup {Hole})) /\ Len(logs) \in Nat
      /\ opened \in Seq(Instances) /\ Len(opened) \in Nat
  BY DEF IInv, Types
<1>6. /\ logs' \in Seq(Seq(AllPoints \cup {Hole}))
      /\ Len(logs') \in Nat /\ Len(logs') >= Len(logs) /\ log \in 1 .. Len(logs')
      /\ log \in LogsOf(k) \/ log > Len(logs)
      /\ \A l \in 1 .. Len(logs) : l # log => logs'[l] = logs[l]
      /\ ~old => log = Len(logs) + 1 /\ logs'[log] = <<>>
  <2>1. CASE ~old
    <3>1. log = Len(logs) + 1 /\ logs' = Append(logs, <<>>)
      BY <1>4, <2>1
    <3> HIDE DEF log, old
    <3>2. <<>> \in Seq(AllPoints \cup {Hole})
      OBVIOUS
    <3> QED
      BY <1>5, <2>1, <3>1, <3>2
  <2>2. CASE old
    <3>1. log = Seen(k).wal[g] /\ log \in LogsOf(k)
      BY <2>2, SeenTyped DEF IInv
    <3>2. log \in 1 .. Len(logs)
      BY <3>1 DEF IInv, LogInv
    <3> HIDE DEF log, old
    <3>3. CASE Len(logs[log]) > call[q].end
      <4>1. logs[log] \in Seq(AllPoints \cup {Hole}) /\ Len(logs[log]) \in Nat
        BY <1>5, <3>2
      <4>2. SubSeq(logs[log], 1, call[q].end) \in Seq(AllPoints \cup {Hole})
        BY <1>3, <3>3, <4>1
      <4> DEFINE new == Append(SubSeq(logs[log], 1, call[q].end), Hole)
      <4>3. new \in Seq(AllPoints \cup {Hole})
        BY <4>2
      <4>4. logs' = [logs EXCEPT ![log] = new]
        BY <1>4, <2>2, <3>3
      <4> HIDE DEF new
      <4> QED
        BY <1>5, <2>2, <3>1, <3>2, <4>3, <4>4
    <3>4. CASE ~(Len(logs[log]) > call[q].end)
      <4>1. logs' = logs
        BY <1>4, <2>2, <3>4
      <4> QED
        BY <1>5, <2>2, <3>1, <3>2, <4>1
    <3> QED
      BY <3>3, <3>4
  <2> QED
    BY <2>1, <2>2
<1>7. points \in SUBSET AllPoints
  <2>1. logs'[log] \in Seq(AllPoints \cup {Hole})
    BY <1>6
  <2>2. Readable(logs'[log]) \subseteq AllPoints
    BY <2>1, ReadableTyped
  <2> QED
    BY <2>2, SeenTyped DEF IInv
<1>8. log \in Nat
  BY <1>6
<1>9. /\ dirs' = [dirs EXCEPT ![k] = dir] /\ dir \in Directories /\ dir # None
      /\ dir.config = Seen(k).config /\ dir.head = Seen(k).head /\ dir.wal = wal
      /\ dir = [config |-> dir.config, head |-> dir.head, wal |-> dir.wal]
  <2> HIDE DEF log, g
  <2>1. /\ Seen(k) = [config |-> Seen(k).config, head |-> Seen(k).head, wal |-> Seen(k).wal]
        /\ Seen(k).config \in Dims \cup {None} /\ Seen(k).head \in Heads \cup {None}
        /\ Seen(k).wal \in Wals
    BY SeenTyped DEF IInv
  <2>2. [Seen(k) EXCEPT !.wal = With(@, g, log)] = dir
    BY <2>1
  <2>3. wal \in Wals
    BY <1>3, <1>8, <2>1, WithTyped DEF g
  <2>4. dir \in Directories /\ dir # None
    BY <2>1, <2>3, DirectoryTyped
  <2> QED
    BY <1>4, <2>2, <2>4
<1>10. /\ DOMAIN wal = DOMAIN Seen(k).wal \cup {g} /\ wal[g] = log
       /\ \A h \in DOMAIN Seen(k).wal \ {g} : wal[h] = Seen(k).wal[h]
  <2> HIDE DEF g, log
  <2> QED
    BY DEF With
<1>11. /\ inst \in Instances /\ inst.name = k /\ inst.dim = call[q].dim
       /\ inst.points = points /\ inst.generation = g /\ inst.log = log
  BY <1>2, <1>3, <1>7, <1>8 DEF Instances
<1>12. c \in CallStates /\ c.at = "insert" /\ c.name = k /\ c.dim = call[q].dim
       /\ c.inst = Len(opened) + 1
  <2>1. c \in Inserting
    BY <1>2, <1>5 DEF Inserting
  <2> QED
    BY <2>1 DEF CallStates
<1>13. Seen(k) = Directory(call[q].dim, <<>>) /\ g = 0 =>
         /\ log = Len(logs) + 1 /\ logs'[log] = <<>> /\ points = {}
         /\ wal = With(<<>>, 0, log) /\ Seen(k).config = call[q].dim /\ Seen(k).head = None
  <2> SUFFICES ASSUME Seen(k) = Directory(call[q].dim, <<>>), g = 0
               PROVE  /\ log = Len(logs) + 1 /\ logs'[log] = <<>> /\ points = {}
                      /\ wal = With(<<>>, 0, log) /\ Seen(k).config = call[q].dim
                      /\ Seen(k).head = None
    OBVIOUS
  <2>1. Seen(k).wal = <<>> /\ Seen(k).head = None /\ Seen(k).config = call[q].dim
    BY DEF Directory
  <2>2. ~old
    BY <2>1, EmptyWal
  <2>3. log = Len(logs) + 1 /\ logs'[log] = <<>>
    BY <1>6, <2>2
  <2>4. Readable(logs'[log]) = {}
    BY <2>3, EmptyLog
  <2> QED
    BY <2>1, <2>3, <2>4
<1> HIDE DEF g, old, log, points, inst, c, wal, dir
<1>14. /\ call' \in [Calls -> CallStates] /\ call'[q] = c
       /\ \A r \in Calls : r # q => call'[r] = call[r]
  BY <1>4, <1>12, CallMoves DEF IInv
<1>15. /\ opened' \in Seq(Instances) /\ Len(opened') = Len(opened) + 1
       /\ opened'[Len(opened) + 1] = inst
       /\ \A i \in 1 .. Len(opened) : opened'[i] = opened[i]
  BY <1>4, <1>5, <1>11
<1>16. /\ dirs' \in [Names -> Directories \cup {None}] /\ dirs'[k] = dir
       /\ \A n \in Names : n # k => dirs'[n] = dirs[n]
  BY <1>2, <1>9 DEF IInv, Types
<1>17. Types'
  <2>1. maintenance' \subseteq 1 .. Len(opened')
        /\ \A i \in maintenance' : opened'[i].generation < MaxGenerations
    <3>1. /\ maintenance \subseteq 1 .. Len(opened) /\ maintenance' = maintenance
          /\ \A i \in maintenance : opened[i].generation < MaxGenerations
      BY <1>1 DEF IInv, Types
    <3>2. \A i \in 1 .. Len(opened) : i \in 1 .. Len(opened')
      BY <1>5, <1>15
    <3> QED
      BY <1>15, <3>1, <3>2
  <2> QED
    BY <1>1, <1>6, <1>14, <1>15, <1>16, <2>1 DEF IInv, Types
<1>18. JobsInv' /\ BridgeInv' /\ job[q] = "none"
  BY <1>1, <1>12, <1>14, HandlerJobs DEF IInv
<1>19. \A n \in Names, i \in 1 .. Len(opened) : InstanceOf(n, i) => InstanceOf(n, i)'
  BY <1>5, <1>15 DEF InstanceOf
<1>20. Refs'
  <2>1. \A r \in Calls : r # q /\ Holds(r)' => Holds(r) /\ call'[r] = call[r]
    BY <1>1, <1>14 DEF Holds
  <2>2. \A r \in Calls : Holds(r) => call[r].inst \in 1 .. Len(opened) /\ call[r].name \in Names
    <3>1. \A r \in Calls : Holds(r) => call[r].at \notin {"uncalled", "cut"}
      BY DEF IInv, JobsInv, Holds
    <3> QED
      BY <3>1, CallFields DEF IInv, Refs, InstanceOf
  <2>3. \A n \in Names : registry'[n] # None => InstanceOf(n, registry[n])'
    BY <1>1, <1>19 DEF IInv, Refs, InstanceOf
  <2>4. InstanceOf(call[q].name, call[q].inst)'
    BY <1>5, <1>11, <1>12, <1>14, <1>15 DEF InstanceOf
  <2>5. ASSUME NEW r \in Calls, r # q, Holds(r)'
        PROVE  InstanceOf(call[r].name, call[r].inst)'
    BY <1>5, <1>15, <2>1, <2>2, <2>5 DEF IInv, Refs, InstanceOf
  <2>6. ASSUME NEW r \in Calls, call'[r].at = "insert"
        PROVE  /\ \A n \in Names : registry'[n] # call'[r].inst
               /\ \A s \in Calls : Holds(s)' /\ s # r => call'[s].inst # call'[r].inst
    <3>1. \A n \in Names : registry[n] # Len(opened) + 1
      BY <1>5, NoneAssumption DEF IInv, Refs, InstanceOf
    <3>2. CASE r = q
      BY <1>1, <1>5, <1>12, <1>14, <2>1, <2>2, <3>1, <3>2
    <3>3. CASE r # q
      <4>1. call'[r] = call[r] /\ call[r].at = "insert" /\ Holds(r)
        BY <1>14, <2>6, <3>3 DEF Holds
      <4>2. call'[q].inst # call'[r].inst
        BY <1>5, <1>12, <1>14, <2>2, <4>1
      <4> QED
        BY <1>1, <2>1, <4>1, <4>2 DEF IInv, Refs
    <3> QED
      BY <3>2, <3>3
  <2> QED
    BY <2>3, <2>4, <2>5, <2>6 DEF Refs
<1>21. LogsOf(k)' \subseteq LogsOf(k) \cup {log} /\ log \in LogsOf(k)'
  <2>1. LogsOf(k)' = {wal[h] : h \in DOMAIN wal}
    BY <1>9, <1>16 DEF LogsOf
  <2>2. LogsOf(k) = {Seen(k).wal[h] : h \in DOMAIN Seen(k).wal}
    BY SeenTyped DEF IInv
  <2> QED
    BY <1>10, <2>1, <2>2
<1>22. \A i \in 1 .. Len(opened') :
         opened'[i].log = log \/ (i \in 1 .. Len(opened) /\ opened'[i].log = opened[i].log)
  <2>1. \A i \in 1 .. Len(opened') : i = Len(opened) + 1 \/ i \in 1 .. Len(opened)
    BY <1>5, <1>15
  <2> QED
    BY <1>11, <1>15, <2>1
<1>23. LogInv' /\ \A n \in Names : n # k => log \notin LogsOf(n)
  BY <1>5, <1>6, <1>16, <1>21, <1>22, LogsGrow DEF IInv
<1>24. ASSUME k \notin shared' \cup stale'
       PROVE  OwnInv(k)'
  <2>1. OwnInv(k) /\ Changes(q, k)
    BY <1>1, <1>2, <1>24 DEF IInv, DataInv, UpInv, Changes
  <2>2. /\ registry[k] = None /\ dirs[k] # None /\ dirs[k] = Directory(call[q].dim, <<>>)
        /\ call[q].generation = 0
        /\ \A r \in Calls : Changes(r, k) => r = q
    BY <1>1, <2>1 DEF OwnInv, MadeBy
  <2>3. /\ log = Len(logs) + 1 /\ logs'[log] = <<>> /\ points = {}
        /\ dir = Directory(call[q].dim, With(<<>>, 0, log)) /\ g = 0
    BY <1>9, <1>13, <2>2 DEF Seen, Directory, g
  <2>4. \A r \in Calls : Changes(r, k)' <=> r = q
    BY <1>12, <1>14, <2>2 DEF Changes
  <2>5. MadeBy(q, k)'
    BY <1>11, <1>12, <1>14, <1>15, <1>16, <2>3 DEF MadeBy
  <2>6. Changing(k)'
    BY <1>12, <1>14 DEF Changing
  <2>7. LogsOf(k)' = {log}
    <3>1. LogsOf(k) = {}
      BY <2>2, EmptyWal DEF LogsOf, Directory
    <3> QED
      BY <1>21, <3>1
  <2>8. LogUsers(k)'
    <3> SUFFICES ASSUME NEW i \in 1 .. Len(opened'), opened'[i].log \in LogsOf(k)'
                 PROVE  \E r \in Calls : Changes(r, k)' /\ (call'[r].at = "insert" => call'[r].inst = i)
      BY DEF LogUsers
    <3>1. i \notin 1 .. Len(opened)
      <4> SUFFICES ASSUME i \in 1 .. Len(opened) PROVE FALSE
        OBVIOUS
      <4>1. opened[i].log \in 1 .. Len(logs) /\ Len(logs) \in Nat
        BY <1>5 DEF IInv, LogInv
      <4>2. opened'[i].log = opened[i].log
        BY <1>15
      <4> QED
        BY <2>3, <2>7, <4>1, <4>2
    <3>2. i = Len(opened) + 1
      BY <1>5, <1>15, <3>1
    <3> QED
      BY <1>12, <1>14, <2>4, <3>2
  <2>9. registry'[k] = None /\ dirs'[k] # None
    BY <1>1, <1>9, <1>16, <2>2
  <2> QED
    BY <2>4, <2>5, <2>6, <2>8, <2>9 DEF OwnInv
<1>25. UpInv'
  <2>1. \A r \in Calls, n \in Names : n # k /\ (Changes(r, n) \/ Changes(r, n)') => call'[r] = call[r]
    BY <1>2, <1>12, <1>14 DEF Changes
  <2>2. \A n \in Names : registry'[n] = registry[n] /\ content'[n] = content[n]
    BY <1>1
  <2>3. Refs /\ UpInv
    BY <1>1 DEF IInv, DataInv
  <2>4. registry'[k] = None <=> content'[k] = None
    BY <1>2, <2>2, <2>3 DEF UpInv
  <2>5. ASSUME NEW n \in Names, n # k
        PROVE  /\ \A l \in LogsOf(n) : logs'[l] = logs[l]
               /\ \A i \in 1 .. Len(opened') : opened'[i].log \in LogsOf(n) =>
                    i \in 1 .. Len(opened) /\ opened'[i].log = opened[i].log
    BY <1>6, <1>22, <1>23, <2>5 DEF IInv, LogInv
  <2> QED
    BY <1>1, <1>15, <1>16, <1>24, <2>1, <2>2, <2>3, <2>4, <2>5, OtherNames
<1> QED
  BY <1>1, <1>17, <1>18, <1>20, <1>23, <1>25 DEF IInv, DataInv

LEMMA InsertNewStep ==
  ASSUME IInv, NEW q \in Calls, InsertNew(q)
  PROVE  IInv'
<1>1. /\ call[q].at = "insert" /\ status = "up" /\ call[q].op = "create"
      /\ UNCHANGED <<status, opened, dirs, logs, shared, stale, cut, waiting,
                     permits, job, maintenance, crashes>>
  BY DEF InsertNew, At, CreateOnly, storage
<1>2. PICK k \in Names : k = call[q].name /\ call[q].dim \in Dims
  BY <1>1, CallFields DEF IInv
<1>3. PICK i : i = call[q].inst
  OBVIOUS
<1>4. InstanceOf(k, i) /\ Holds(q) /\ i # None
      /\ (\A n \in Names : registry[n] # i)
      /\ \A r \in Calls : Holds(r) /\ r # q => call[r].inst # i
  <2>1. Holds(q)
    BY <1>1 DEF Holds
  <2>2. InstanceOf(k, i)
    BY <1>2, <1>3, <2>1 DEF IInv, Refs
  <2>3. i # None
    BY <2>2, NoneAssumption DEF InstanceOf
  <2> QED
    BY <1>1, <1>3, <2>1, <2>2, <2>3 DEF IInv, Refs
<1>5. IF registry[k] # None
      THEN Answer(q, "already_exists") /\ UNCHANGED <<registry, content>>
      ELSE /\ Answer(q, "ok")
           /\ registry' = [registry EXCEPT ![k] = i]
           /\ content' = [content EXCEPT ![k] = {}]
  BY <1>2, <1>3 DEF InsertNew, Name
<1>6. /\ call' \in [Calls -> CallStates] /\ call'[q].at = "answered" /\ call'[q].name = k
      /\ \A r \in Calls : r # q => call'[r] = call[r]
  <2>1. \/ Answer(q, "already_exists") \/ Answer(q, "ok")
    BY <1>5
  <2> QED
    BY <1>1, <1>2, <2>1, AnswerMoves DEF IInv, Results
<1>7. /\ registry' \in [Names -> Nat \cup {None}] /\ content' \in [Names -> (SUBSET AllPoints) \cup {None}]
      /\ \A n \in Names : n # k => registry'[n] = registry[n] /\ content'[n] = content[n]
      /\ registry[k] # None => registry' = registry /\ content' = content
      /\ registry[k] = None => registry'[k] = i /\ content'[k] = {}
  <2>1. registry \in [Names -> Nat \cup {None}] /\ content \in [Names -> (SUBSET AllPoints) \cup {None}]
    BY DEF IInv, Types
  <2>2. CASE registry[k] # None
    BY <1>5, <2>1, <2>2
  <2>3. CASE registry[k] = None
    <3>1. registry' = [registry EXCEPT ![k] = i] /\ content' = [content EXCEPT ![k] = {}]
      BY <1>5, <2>3
    <3>2. i \in Nat \cup {None} /\ {} \in (SUBSET AllPoints) \cup {None}
      BY <1>4 DEF InstanceOf
    <3>3. /\ registry' \in [Names -> Nat \cup {None}] /\ registry'[k] = i
          /\ \A n \in Names : n # k => registry'[n] = registry[n]
      BY <1>2, <2>1, <3>1, <3>2, Updated
    <3>4. /\ content' \in [Names -> (SUBSET AllPoints) \cup {None}] /\ content'[k] = {}
          /\ \A n \in Names : n # k => content'[n] = content[n]
      BY <1>2, <2>1, <3>1, <3>2, Updated
    <3> QED
      BY <2>3, <3>3, <3>4
  <2> QED
    BY <2>2, <2>3
<1>8. Types'
  BY <1>1, <1>6, <1>7 DEF IInv, Types
<1>9. JobsInv' /\ BridgeInv' /\ job[q] = "none"
  BY <1>1, <1>6, HandlerJobs DEF IInv
<1>10. Refs'
  <2>1. \A r \in Calls : Holds(r)' => Holds(r) /\ r # q /\ call'[r] = call[r]
    BY <1>1, <1>6, <1>9 DEF Holds
  <2>2. \A n \in Names : registry'[n] # None => InstanceOf(n, registry[n])'
    BY <1>1, <1>4, <1>7 DEF IInv, Refs, InstanceOf
  <2>3. \A r \in Calls : Holds(r)' => InstanceOf(call[r].name, call[r].inst)'
    BY <1>1, <2>1 DEF IInv, Refs, InstanceOf
  <2>4. ASSUME NEW r \in Calls, call'[r].at = "insert"
        PROVE  /\ \A n \in Names : registry'[n] # call'[r].inst
               /\ \A s \in Calls : Holds(s)' /\ s # r => call'[s].inst # call'[r].inst
    <3>1. Holds(r)'
      BY <2>4 DEF Holds
    <3>2. /\ Holds(r) /\ r # q /\ call'[r] = call[r] /\ call[r].at = "insert"
          /\ call[r].inst # i
      BY <1>4, <2>1, <2>4, <3>1
    <3>3. /\ \A n \in Names : registry[n] # call[r].inst
          /\ \A s \in Calls : Holds(s) /\ s # r => call[s].inst # call[r].inst
      BY <3>2 DEF IInv, Refs
    <3>4. \A n \in Names : registry'[n] = registry[n] \/ registry'[n] = i
      BY <1>7
    <3> QED
      BY <2>1, <3>2, <3>3, <3>4
  <2> QED
    BY <2>2, <2>3, <2>4 DEF Refs
<1>11. LogInv'
  BY <1>1, <1>2, LogsShrink DEF IInv, LogsOf
<1>12. ASSUME k \notin shared' \cup stale'
       PROVE  OwnInv(k)'
  <2>1. OwnInv(k) /\ Changes(q, k)
    BY <1>1, <1>2, <1>12 DEF IInv, DataInv, UpInv, Changes
  <2>2. /\ registry[k] = None /\ dirs[k] # None
        /\ dirs[k] = Directory(call[q].dim, With(<<>>, 0, opened[i].log))
        /\ opened[i].dim = call[q].dim /\ opened[i].points = {} /\ opened[i].generation = 0
        /\ logs[opened[i].log] = <<>>
        /\ \A r \in Calls : Changes(r, k) => r = q
    BY <1>1, <1>3, <2>1 DEF OwnInv, MadeBy
  <2>3. \A r \in Calls : ~Changes(r, k)'
    BY <1>6, <2>2 DEF Changes
  <2>4. registry'[k] = i /\ content'[k] = {} /\ registry'[k] # None
    BY <1>4, <1>7, <2>2
  <2>5. LogUsers(k)'
    <3> SUFFICES ASSUME NEW j \in 1 .. Len(opened'), opened'[j].log \in LogsOf(k)'
                 PROVE  registry'[k] = j
      BY DEF LogUsers
    <3>1. opened[j].log \in LogsOf(k) /\ j \in 1 .. Len(opened)
      BY <1>1 DEF LogsOf
    <3>2. PICK r \in Calls : Changes(r, k) /\ (call[r].at = "insert" => call[r].inst = j)
      BY <2>1, <2>2, <3>1, NoneAssumption DEF OwnInv, LogUsers
    <3> QED
      BY <1>1, <1>3, <2>2, <2>4, <3>2
  <2>6. dirs'[k] # None /\ dirs'[k].config = opened'[i].dim
    BY <1>1, <2>2 DEF Directory
  <2>7. Served(k, registry[k])'
    <3>1. /\ dirs[k].head = None /\ dirs[k].wal = With(<<>>, 0, opened[i].log)
      BY <2>2 DEF Directory
    <3>2. DOMAIN dirs[k].wal = {0} /\ dirs[k].wal[0] = opened[i].log
      BY <3>1, EmptyWal DEF With
    <3>3. Generation(dirs[k]) = 0 /\ LogOf(dirs[k]) = opened[i].log
      BY <3>1, <3>2 DEF Generation, LogOf
    <3>4. /\ Readable(logs[LogOf(dirs[k])]) = {}
          /\ \A j \in 1 .. Len(logs[LogOf(dirs[k])]) : logs[LogOf(dirs[k])][j] # Hole
      BY <2>2, <3>3, EmptyLog
    <3>5. Recovered(dirs[k], dirs[k].config) = {}
      BY <3>1, <3>4 DEF Recovered
    <3>6. /\ Generation(dirs[k])' = Generation(dirs[k]) /\ LogOf(dirs[k])' = LogOf(dirs[k])
          /\ Recovered(dirs[k], dirs[k].config)' = Recovered(dirs[k], dirs[k].config)
      BY <1>1 DEF Generation, LogOf, Recovered
    <3>7. Sound(k)'
      BY <1>1, <2>4, <3>2, <3>3, <3>4, <3>5, <3>6 DEF Sound
    <3> QED
      BY <1>1, <2>2, <2>4, <3>3, <3>6, <3>7 DEF Served
  <2>8. ~Changing(k)'
    BY <2>3 DEF Changing, Changes
  <2> QED
    BY <2>3, <2>4, <2>5, <2>6, <2>7 DEF OwnInv
<1>13. UpInv'
  <2>1. \A r \in Calls, n \in Names : n # k /\ (Changes(r, n) \/ Changes(r, n)') => call'[r] = call[r]
    BY <1>2, <1>6 DEF Changes
  <2>2. Refs /\ UpInv
    BY <1>1 DEF IInv, DataInv
  <2>3. registry'[k] = None <=> content'[k] = None
    <3>1. {} # None
      BY NoneAssumption
    <3> QED
      BY <1>2, <1>4, <1>7, <2>2, <3>1 DEF UpInv
  <2> QED
    BY <1>1, <1>2, <1>7, <1>12, <2>1, <2>2, <2>3, OtherNames
<1> QED
  BY <1>1, <1>8, <1>9, <1>10, <1>11, <1>13 DEF IInv, DataInv

LEMMA UnregisterStep ==
  ASSUME IInv, NEW q \in Calls, Unregister(q)
  PROVE  IInv'
<1>1. /\ call[q].at = "begin" /\ status = "up" /\ call[q].op = "drop"
      /\ UNCHANGED <<status, opened, dirs, logs, shared, stale, cut, waiting,
                     permits, job, maintenance, crashes>>
  BY DEF Unregister, At, DropOnly
<1>2. PICK k \in Names : k = call[q].name
  BY <1>1, CallFields DEF IInv
<1>3. IF registry[k] = None
      THEN Answer(q, "not_found") /\ UNCHANGED <<registry, content>>
      ELSE /\ registry' = [registry EXCEPT ![k] = None]
           /\ content' = [content EXCEPT ![k] = None]
           /\ Goto(q, "remove")
  BY <1>2 DEF Unregister, Name
<1>4. /\ call' \in [Calls -> CallStates] /\ call'[q].at \in {"answered", "remove"}
      /\ registry[k] # None => call'[q].at = "remove" /\ call'[q].name = k
      /\ registry[k] = None => call'[q].at = "answered"
      /\ \A r \in Calls : r # q => call'[r] = call[r]
  <2>1. CASE registry[k] = None
    <3>1. Answer(q, "not_found")
      BY <1>3, <2>1
    <3> QED
      BY <1>1, <2>1, <3>1, AnswerMoves DEF IInv
  <2>2. CASE registry[k] # None
    <3>1. Goto(q, "remove")
      BY <1>3, <2>2
    <3> QED
      BY <1>1, <1>2, <2>2, <3>1, GotoMoves DEF IInv, Moving
  <2> QED
    BY <2>1, <2>2
<1>5. /\ registry' \in [Names -> Nat \cup {None}] /\ content' \in [Names -> (SUBSET AllPoints) \cup {None}]
      /\ \A n \in Names : n # k => registry'[n] = registry[n] /\ content'[n] = content[n]
      /\ registry[k] = None => registry' = registry /\ content' = content
      /\ registry[k] # None => registry'[k] = None /\ content'[k] = None
  <2>1. registry \in [Names -> Nat \cup {None}] /\ content \in [Names -> (SUBSET AllPoints) \cup {None}]
    BY DEF IInv, Types
  <2>2. CASE registry[k] = None
    BY <1>3, <2>1, <2>2
  <2>3. CASE registry[k] # None
    <3>1. registry' = [registry EXCEPT ![k] = None] /\ content' = [content EXCEPT ![k] = None]
      BY <1>3, <2>3
    <3>2. /\ registry' \in [Names -> Nat \cup {None}] /\ registry'[k] = None
          /\ \A n \in Names : n # k => registry'[n] = registry[n]
      BY <1>2, <2>1, <3>1, Updated
    <3>3. /\ content' \in [Names -> (SUBSET AllPoints) \cup {None}] /\ content'[k] = None
          /\ \A n \in Names : n # k => content'[n] = content[n]
      BY <1>2, <2>1, <3>1, Updated
    <3> QED
      BY <2>3, <3>2, <3>3
  <2> QED
    BY <2>2, <2>3
<1>6. Types'
  BY <1>1, <1>4, <1>5 DEF IInv, Types
<1>7. \A n \in Names : registry'[n] = registry[n] \/ registry'[n] = None
  BY <1>5
<1>8. Refs' /\ JobsInv' /\ BridgeInv'
  BY <1>1, <1>4, <1>7, HandlerKeeps DEF IInv
<1>9. LogInv'
  BY <1>1, <1>2, LogsShrink DEF IInv, LogsOf
<1>10. \A r \in Calls, n \in Names :
         n # k /\ (Changes(r, n) \/ Changes(r, n)') => call'[r] = call[r]
  BY <1>1, <1>2, <1>4 DEF Changes
<1>11. Refs /\ UpInv
  BY <1>1 DEF IInv, DataInv
<1>12. ASSUME k \notin shared' \cup stale', registry[k] # None
       PROVE  OwnInv(k)'
  <2>1. OwnInv(k)
    BY <1>1, <1>2, <1>11, <1>12 DEF UpInv
  <2>2. dirs[k] # None /\ \A r \in Calls : ~Changes(r, k)
    BY <1>12, <2>1 DEF OwnInv
  <2>3. \A r \in Calls : Changes(r, k)' <=> r = q
    BY <1>4, <1>12, <2>2 DEF Changes
  <2>4. call'[q].at = "remove" /\ registry'[k] = None
    BY <1>4, <1>5, <1>12
  <2>5. MadeBy(q, k)' /\ Changing(k)'
    BY <1>4, <1>12, <2>4 DEF MadeBy, Changing
  <2>6. LogUsers(k)'
    BY <2>3, <2>4 DEF LogUsers
  <2> QED
    BY <1>1, <2>2, <2>3, <2>4, <2>5, <2>6 DEF OwnInv
<1>13. ASSUME k \notin shared' \cup stale', registry[k] = None
       PROVE  OwnInv(k)'
  <2>1. OwnInv(k)
    BY <1>1, <1>2, <1>11, <1>13 DEF UpInv
  <2>2. \A r \in Calls : Changes(r, k) \/ Changes(r, k)' => call'[r] = call[r]
    BY <1>1, <1>4, <1>13 DEF Changes
  <2> QED
    BY <1>1, <1>5, <1>13, <2>1, <2>2, OwnKept
<1>14. UpInv'
  <2>1. registry'[k] = None <=> content'[k] = None
    BY <1>5, <1>11 DEF UpInv
  <2> QED
    BY <1>1, <1>2, <1>5, <1>10, <1>11, <1>12, <1>13, <2>1, OtherNames
<1> QED
  BY <1>1, <1>6, <1>8, <1>9, <1>14 DEF IInv, DataInv

LEMMA RemoveFileStep ==
  ASSUME IInv, NEW q \in Calls, RemoveFile(q)
  PROVE  IInv'
<1>1. /\ call[q].at = "remove" /\ status = "up" /\ call[q].op = "drop"
      /\ UNCHANGED <<status, registry, opened, logs, content, shared, stale, cut, waiting,
                     permits, job, maintenance, crashes>>
  BY DEF RemoveFile, At, DropOnly, history
<1>2. PICK k \in Names : k = call[q].name
  BY <1>1, CallFields DEF IInv
<1>3. \/ /\ dirs[k] \in {None, NoDirectory}
         /\ dirs' = [dirs EXCEPT ![k] = None]
         /\ Answer(q, "ok")
      \/ /\ dirs[k] \notin {None, NoDirectory}
         /\ \E kept \in {[dirs[k] EXCEPT !.config = None],
                         [dirs[k] EXCEPT !.head = None],
                         [dirs[k] EXCEPT !.wal = <<>>]} \ {dirs[k]} :
              dirs' = [dirs EXCEPT ![k] = kept]
         /\ UNCHANGED call
  BY <1>2 DEF RemoveFile, Name
<1>4. dirs \in [Names -> Directories \cup {None}]
  BY DEF IInv, Types
<1>5. /\ dirs' \in [Names -> Directories \cup {None}]
      /\ \A n \in Names : n # k => dirs'[n] = dirs[n]
      /\ LogsOf(k)' \subseteq LogsOf(k)
      /\ \/ /\ dirs'[k] = None /\ Answer(q, "ok")
         \/ /\ dirs[k] # None /\ dirs'[k] # None /\ call' = call
  <2>1. CASE dirs' = [dirs EXCEPT ![k] = None] /\ Answer(q, "ok")
    <3>1. dirs' \in [Names -> Directories \cup {None}] /\ dirs'[k] = None
          /\ \A n \in Names : n # k => dirs'[n] = dirs[n]
      BY <1>2, <1>4, <2>1, Updated
    <3> QED
      BY <2>1, <3>1 DEF LogsOf
  <2>2. ASSUME dirs[k] \notin {None, NoDirectory}, UNCHANGED call,
               NEW kept \in {[dirs[k] EXCEPT !.config = None],
                             [dirs[k] EXCEPT !.head = None],
                             [dirs[k] EXCEPT !.wal = <<>>]},
               dirs' = [dirs EXCEPT ![k] = kept]
        PROVE  /\ dirs' \in [Names -> Directories \cup {None}]
               /\ \A n \in Names : n # k => dirs'[n] = dirs[n]
               /\ LogsOf(k)' \subseteq LogsOf(k)
               /\ dirs[k] # None /\ dirs'[k] # None /\ call' = call
    <3>1. /\ dirs[k] = [config |-> dirs[k].config, head |-> dirs[k].head, wal |-> dirs[k].wal]
          /\ dirs[k].config \in Dims \cup {None} /\ dirs[k].head \in Heads \cup {None}
          /\ dirs[k].wal \in Wals
      BY <1>2, <2>2, DirectoryFields DEF IInv
    <3>2. /\ kept = [config |-> kept.config, head |-> kept.head, wal |-> kept.wal]
          /\ kept.config \in {dirs[k].config, None} /\ kept.head \in {dirs[k].head, None}
          /\ kept.wal \in {dirs[k].wal, <<>>}
      BY <2>2, <3>1
    <3>3. kept.config \in Dims \cup {None} /\ kept.head \in Heads \cup {None} /\ kept.wal \in Wals
      BY <3>1, <3>2, EmptyWal
    <3>4. kept \in Directories /\ kept # None
      BY <3>2, <3>3, DirectoryTyped
    <3>5. dirs' \in [Names -> Directories \cup {None}] /\ dirs'[k] = kept
          /\ \A n \in Names : n # k => dirs'[n] = dirs[n]
      BY <1>2, <1>4, <2>2, <3>4, Updated
    <3>6. LogsOf(k)' \subseteq LogsOf(k)
      <4>1. LogsOf(k)' = {kept.wal[g] : g \in DOMAIN kept.wal}
        BY <3>4, <3>5 DEF LogsOf
      <4>2. LogsOf(k) = {dirs[k].wal[g] : g \in DOMAIN dirs[k].wal}
        BY <2>2 DEF LogsOf
      <4> QED
        BY <3>2, <4>1, <4>2, EmptyWal
    <3> QED
      BY <2>2, <3>4, <3>5, <3>6
  <2> QED
    BY <1>3, <2>1, <2>2
<1>6. /\ call' \in [Calls -> CallStates]
      /\ \/ dirs'[k] = None /\ call'[q].at = "answered"
         \/ dirs[k] # None /\ dirs'[k] # None /\ call' = call
      /\ call'[q].at \in {"answered", "remove"}
      /\ \A r \in Calls : r # q => call'[r] = call[r]
  <2>1. CASE dirs'[k] = None /\ Answer(q, "ok")
    <3>1. Answer(q, "ok")
      BY <2>1
    <3>2. /\ call' \in [Calls -> CallStates] /\ call'[q].at = "answered"
          /\ \A r \in Calls : r # q => call'[r] = call[r]
      BY <1>1, <3>1, AnswerMoves DEF IInv, Results
    <3> QED
      BY <2>1, <3>2
  <2>2. CASE dirs[k] # None /\ dirs'[k] # None /\ call' = call
    BY <1>1, <2>2 DEF IInv, Types
  <2> QED
    BY <1>5, <2>1, <2>2
<1>7. Types'
  BY <1>1, <1>5, <1>6 DEF IInv, Types
<1>8. Refs' /\ JobsInv' /\ BridgeInv'
  BY <1>1, <1>6, HandlerKeeps DEF IInv
<1>9. LogInv'
  BY <1>1, <1>2, <1>5, LogsShrink DEF IInv
<1>10. ASSUME k \notin shared' \cup stale'
       PROVE  OwnInv(k)'
  <2>1. OwnInv(k) /\ Changes(q, k)
    BY <1>1, <1>2, <1>10 DEF IInv, DataInv, UpInv, Changes
  <2>2. registry'[k] = None /\ \A r \in Calls : Changes(r, k) => r = q
    BY <1>1, <2>1 DEF OwnInv
  <2>3. CASE dirs'[k] = None /\ call'[q].at = "answered"
    <3>1. \A r \in Calls : ~Changes(r, k)'
      BY <1>6, <2>2, <2>3 DEF Changes
    <3>2. LogsOf(k)' = {}
      BY <2>3 DEF LogsOf
    <3> QED
      BY <2>2, <2>3, <3>1, <3>2 DEF OwnInv, LogUsers
  <2>4. CASE dirs'[k] # None /\ call' = call
    <3>1. \A r \in Calls : Changes(r, k)' <=> r = q
      BY <2>1, <2>2, <2>4 DEF Changes
    <3>2. MadeBy(q, k)' /\ Changing(k)'
      BY <1>1, <1>2, <2>4 DEF MadeBy, Changing
    <3>3. LogUsers(k)'
      BY <1>1, <2>4, <3>1 DEF LogUsers
    <3> QED
      BY <2>2, <2>4, <3>1, <3>2, <3>3 DEF OwnInv
  <2> QED
    BY <1>6, <2>3, <2>4
<1>11. UpInv'
  <2>1. \A r \in Calls, n \in Names : n # k /\ (Changes(r, n) \/ Changes(r, n)') => call'[r] = call[r]
    BY <1>1, <1>2, <1>6 DEF Changes
  <2>2. \A n \in Names : registry'[n] = registry[n] /\ content'[n] = content[n]
    BY <1>1
  <2>3. Refs /\ UpInv
    BY <1>1 DEF IInv, DataInv
  <2>4. registry'[k] = None <=> content'[k] = None
    BY <1>2, <2>2, <2>3 DEF UpInv
  <2> QED
    BY <1>1, <1>2, <1>5, <1>10, <2>1, <2>2, <2>3, <2>4, OtherNames
<1> QED
  BY <1>1, <1>7, <1>8, <1>9, <1>11 DEF IInv, DataInv

LEMMA RemoveBlockedStep ==
  ASSUME IInv, NEW q \in Calls, RemoveBlocked(q)
  PROVE  IInv'
<1>1. /\ call[q].at = "remove" /\ status = "up" /\ call[q].op = "drop" /\ Answer(q, "internal")
      /\ UNCHANGED <<status, registry, opened, dirs, logs, content, shared, stale, cut, waiting,
                     permits, job, maintenance, crashes>>
  BY DEF RemoveBlocked, At, DropOnly, history
<1>2. PICK k \in Names : k = call[q].name /\ k \in shared \cup stale
  BY <1>1, CallFields DEF IInv, RemoveBlocked, Name
<1>3. /\ call' \in [Calls -> CallStates] /\ call'[q].at = "answered"
      /\ \A r \in Calls : r # q => call'[r] = call[r]
  BY <1>1, AnswerMoves DEF IInv, Results
<1>4. Types'
  BY <1>1, <1>3 DEF IInv, Types
<1>5. Refs' /\ JobsInv' /\ BridgeInv'
  BY <1>1, <1>3, HandlerKeeps DEF IInv
<1>6. LogInv'
  BY <1>1, <1>2, LogsShrink DEF IInv, LogsOf
<1>7. UpInv'
  <2>1. \A r \in Calls, n \in Names : n # k /\ (Changes(r, n) \/ Changes(r, n)') => call'[r] = call[r]
    BY <1>1, <1>2, <1>3 DEF Changes
  <2>2. Refs /\ UpInv
    BY <1>1 DEF IInv, DataInv
  <2>3. registry'[k] = None <=> content'[k] = None
    BY <1>1, <1>2, <2>2 DEF UpInv
  <2> QED
    BY <1>1, <1>2, <2>1, <2>2, <2>3, OtherNames
<1> QED
  BY <1>1, <1>4, <1>5, <1>6, <1>7 DEF IInv, DataInv

(***************************************************************************)
(* The work of a call, on the pool.                                        *)
(***************************************************************************)
LEMMA UserOf ==
  ASSUME IInv, NEW q \in Calls, job[q] = "running"
  PROVE  /\ status = "up" /\ call[q].at \in {"receive", "cancelled"} /\ Holds(q)
         /\ call[q].name \in Names /\ call[q].dim \in Dims /\ call[q].op \in Requests
         /\ InstanceOf(call[q].name, call[q].inst)
<1>1. /\ call[q].at \in {"receive", "cancelled", "answered"} /\ q \in InFlight /\ status = "up"
  BY DEF IInv, JobsInv, InFlight
<1>2. call[q].at \in {"receive", "cancelled"} /\ Holds(q)
  BY <1>1 DEF IInv, JobsInv, Holds
<1>3. call[q] \in Using
  BY <1>2, CallTypes DEF IInv
<1> QED
  BY <1>1, <1>2, <1>3 DEF Using, IInv, Refs

LEMMA JobEnds ==
  ASSUME IInv, NEW q \in Calls, job[q] = "running", NEW what \in Results,
         job' = [job EXCEPT ![q] = what], permits' = permits + 1,
         UNCHANGED <<status, call, waiting>>
  PROVE  /\ job' \in [Calls -> JobStates] /\ permits' \in Int
         /\ JobsInv' /\ BridgeInv'
         /\ \A r \in Calls : Holds(r)' => Holds(r)
<1>1. job' \in [Calls -> JobStates] /\ job'[q] = what /\ \A r \in Calls : r # q => job'[r] = job[r]
  BY DEF IInv, Types, JobStates
<1>2. what \notin {"none", "spawned", "running"}
  BY DEF Results
<1>3. InFlight' = InFlight \ {q} /\ q \in InFlight
  BY <1>1, <1>2 DEF InFlight
<1>4. JobsInv'
  <2>1. \A r \in Calls : job'[r] # "none" => call'[r].at \in {"receive", "cancelled", "answered"}
    BY <1>1, UserOf DEF IInv, JobsInv
  <2>2. \A r \in InFlight' : call'[r].at # "answered"
    BY <1>3 DEF IInv, JobsInv
  <2>3. status' = "up"
    BY UserOf
  <2> QED
    BY <2>1, <2>2, <2>3 DEF JobsInv
<1>5. permits' \in Int /\ permits' >= 0 /\ permits' + Cardinality(InFlight') = MaxInflight
  <2>1. IsFiniteSet(InFlight) /\ Cardinality(InFlight) \in Nat
    BY FiniteInFlight
  <2>2. Cardinality(InFlight') = Cardinality(InFlight) - 1
    BY <1>3, <2>1, FS_RemoveElement
  <2>3. permits \in Int /\ permits >= 0 /\ permits + Cardinality(InFlight) = MaxInflight
    BY DEF IInv, Types, BridgeInv
  <2> QED
    BY <2>1, <2>2, <2>3, Bounds
<1>6. BridgeInv'
  BY <1>5 DEF IInv, BridgeInv
<1>7. \A r \in Calls : Holds(r)' => Holds(r)
  BY <1>1, <1>2 DEF Holds
<1> QED
  BY <1>1, <1>4, <1>5, <1>6, <1>7

LEMMA ReadableAppend ==
  ASSUME NEW log \in Seq(AllPoints \cup {Hole}), \A k \in 1 .. Len(log) : log[k] # Hole,
         NEW p \in AllPoints, p # Hole
  PROVE  /\ Readable(Append(log, p)) = Readable(log) \cup {p}
         /\ \A k \in 1 .. Len(Append(log, p)) : Append(log, p)[k] # Hole
<1> DEFINE new == Append(log, p)
<1>1. /\ Len(log) \in Nat /\ DOMAIN log = 1 .. Len(log) /\ DOMAIN new = 1 .. Len(log) + 1
      /\ Len(new) = Len(log) + 1 /\ new[Len(log) + 1] = p
      /\ \A i \in 1 .. Len(log) : new[i] = log[i]
  OBVIOUS
<1> HIDE DEF new
<1>2. \A k \in 1 .. Len(new) : new[k] # Hole
  BY <1>1
<1>3. Readable(new) = {new[i] : i \in 1 .. Len(log) + 1}
  BY <1>1, <1>2 DEF Readable
<1>4. Readable(log) = {log[i] : i \in 1 .. Len(log)}
  BY <1>1 DEF Readable
<1>5. Readable(new) = Readable(log) \cup {p}
  BY <1>1, <1>3, <1>4
<1> QED
  BY <1>2, <1>5 DEF new

(* Nobody but the registered instance writes to a log that a directory not *)
(* being removed has.                                                      *)
LEMMA WritesItsOwn ==
  ASSUME IInv, NEW q \in Calls, job[q] = "running", NEW n \in Names, OwnInv(n),
         \A r \in Calls : Changes(r, n) => call[r].at # "remove",
         opened[call[q].inst].log \in LogsOf(n)
  PROVE  registry[n] = call[q].inst
<1>1. Holds(q) /\ call[q].inst \in 1 .. Len(opened)
  BY UserOf DEF InstanceOf
<1>2. SUFFICES ASSUME NEW r \in Calls, Changes(r, n),
                      call[r].at = "insert" => call[r].inst = call[q].inst
               PROVE  FALSE
  BY <1>1 DEF OwnInv, LogUsers
<1>3. MadeBy(r, n) /\ call[r].at \in {"config", "read", "load", "insert"}
  BY <1>2 DEF OwnInv, Changes
<1>4. CASE call[r].at = "insert"
  <2>1. q # r
    BY <1>4, UserOf
  <2> QED
    BY <1>1, <1>2, <1>4, <2>1 DEF IInv, Refs
<1>5. CASE call[r].at \in {"config", "read", "load"}
  <2>1. dirs[n] = NoDirectory \/ dirs[n] = Directory(call[r].dim, <<>>)
    BY <1>3, <1>5 DEF MadeBy
  <2>2. dirs[n].wal = <<>>
    BY <2>1, NewDirectory DEF Directory
  <2> QED
    BY <2>2, EmptyWal DEF LogsOf
<1> QED
  BY <1>3, <1>4, <1>5

LEMMA UpsertKeeps ==
  ASSUME IInv, NEW q \in Calls, job[q] = "running", NEW i, i = call[q].inst,
         call[q].dim = opened[i].dim, UpsertPoint(q, i),
         UNCHANGED <<status, registry, call, shared, cut>>
  PROVE  /\ opened' \in Seq(Instances) /\ Len(opened') = Len(opened)
         /\ \A j \in 1 .. Len(opened) :
              /\ opened'[j].name = opened[j].name /\ opened'[j].log = opened[j].log
              /\ opened'[j].generation = opened[j].generation
         /\ logs' \in Seq(Seq(AllPoints \cup {Hole}))
         /\ content' \in [Names -> (SUBSET AllPoints) \cup {None}]
         /\ LogInv' /\ DataInv'
<1>1. PICK k \in Names : k = call[q].name
  BY UserOf
<1>2. /\ i \in 1 .. Len(opened) /\ opened[i].name = k /\ status = "up"
      /\ opened \in Seq(Instances) /\ Len(opened) \in Nat /\ opened[i] \in Instances
      /\ logs \in Seq(Seq(AllPoints \cup {Hole})) /\ Len(logs) \in Nat
      /\ dirs \in [Names -> Directories \cup {None}]
      /\ content \in [Names -> (SUBSET AllPoints) \cup {None}]
  BY <1>1, UserOf DEF IInv, Types, InstanceOf
<1>3. PICK p : p = Point(q, call[q].dim)
  OBVIOUS
<1>4. p \in AllPoints /\ p # Hole /\ p.dim = call[q].dim
  <2>1. q # None
    BY Bounds, NoneAssumption DEF Calls
  <2> QED
    BY <1>3, <2>1, UserOf DEF AllPoints, Point, Hole
<1>5. PICK l : l = opened[i].log
  OBVIOUS
<1>6. l \in 1 .. Len(logs) /\ logs[l] \in Seq(AllPoints \cup {Hole})
  BY <1>2, <1>5 DEF IInv, LogInv
<1>7. /\ logs' = [logs EXCEPT ![l] = Append(logs[l], p)]
      /\ opened' = [opened EXCEPT ![i].points = @ \cup {p}]
      /\ content' = IF ~Registered(i) THEN content ELSE [content EXCEPT ![k] = @ \cup {p}]
      /\ UNCHANGED <<dirs, stale>>
  BY <1>1, <1>3, <1>5 DEF UpsertPoint, Name
<1>8. /\ logs' \in Seq(Seq(AllPoints \cup {Hole})) /\ Len(logs') = Len(logs)
      /\ logs'[l] = Append(logs[l], p)
      /\ \A j \in 1 .. Len(logs) : j # l => logs'[j] = logs[j]
  <2>1. Append(logs[l], p) \in Seq(AllPoints \cup {Hole})
    BY <1>4, <1>6
  <2> QED
    BY <1>2, <1>6, <1>7, <2>1, UpdatedSeq
<1>9. /\ opened' \in Seq(Instances) /\ Len(opened') = Len(opened)
      /\ opened'[i].name = opened[i].name /\ opened'[i].dim = opened[i].dim
      /\ opened'[i].generation = opened[i].generation /\ opened'[i].log = opened[i].log
      /\ opened'[i].points = opened[i].points \cup {p}
      /\ \A j \in 1 .. Len(opened) : j # i => opened'[j] = opened[j]
  <2> DEFINE new == [opened[i] EXCEPT !.points = @ \cup {p}]
  <2>1. /\ new \in Instances /\ new.name = opened[i].name /\ new.dim = opened[i].dim
        /\ new.generation = opened[i].generation /\ new.log = opened[i].log
        /\ new.points = opened[i].points \cup {p}
    BY <1>2, <1>4 DEF Instances
  <2>2. opened' = [opened EXCEPT ![i] = new]
    BY <1>7
  <2> HIDE DEF new
  <2>3. /\ opened' \in Seq(Instances) /\ Len(opened') = Len(opened) /\ opened'[i] = new
        /\ \A j \in 1 .. Len(opened) : j # i => opened'[j] = opened[j]
    BY <1>2, <2>1, <2>2, UpdatedSeq
  <2> QED
    BY <2>1, <2>3
<1>10. UpInv /\ Refs
  BY <1>2 DEF IInv, DataInv
<1>11. Registered(i) <=> registry[k] = i
  BY <1>2 DEF Registered
<1>12. /\ content' \in [Names -> (SUBSET AllPoints) \cup {None}]
       /\ \A n \in Names : registry[n] # i => content'[n] = content[n]
       /\ registry[k] = i => /\ content[k] \in SUBSET AllPoints
                             /\ content'[k] = content[k] \cup {p} /\ content'[k] # None
  <2>1. CASE registry[k] # i
    BY <1>2, <1>7, <1>11, <2>1
  <2>2. CASE registry[k] = i
    <3>1. i # None
      BY <1>2, NoneAssumption
    <3>2. content[k] # None
      BY <1>1, <1>10, <2>2, <3>1 DEF UpInv
    <3>3. content[k] \in SUBSET AllPoints /\ content[k] \cup {p} \in SUBSET AllPoints
      BY <1>1, <1>2, <1>4, <3>2
    <3>4. content[k] \cup {p} # None
      BY <3>3, NoneAssumption
    <3>5. content' = [content EXCEPT ![k] = content[k] \cup {p}]
      BY <1>7, <1>11, <2>2
    <3>6. /\ content' \in [Names -> (SUBSET AllPoints) \cup {None}]
          /\ content'[k] = content[k] \cup {p}
          /\ \A n \in Names : n # k => content'[n] = content[n]
      BY <1>1, <1>2, <3>3, <3>5, Updated
    <3> QED
      BY <2>2, <3>3, <3>4, <3>6
  <2> QED
    BY <2>1, <2>2
<1>13. LogInv'
  <2>1. \A n \in Names : LogsOf(n)' = LogsOf(n)
    BY <1>7 DEF LogsOf
  <2> QED
    BY <1>2, <1>8, <1>9, <2>1 DEF IInv, LogInv
<1>14. ASSUME NEW n \in Names \ (shared \cup stale), registry[n] # i
       PROVE  OwnInv(n)'
  <2>1. OwnInv(n)
    BY <1>10, <1>14 DEF UpInv
  <2>2. (\A r \in Calls : Changes(r, n) => call[r].at # "remove") =>
          \A m \in LogsOf(n) : logs'[m] = logs[m]
    <3> SUFFICES ASSUME \A r \in Calls : Changes(r, n) => call[r].at # "remove", NEW m \in LogsOf(n)
                 PROVE  logs'[m] = logs[m]
      OBVIOUS
    <3>1. m # l
      BY <1>5, <1>14, <2>1, WritesItsOwn
    <3> QED
      BY <1>8, <3>1 DEF IInv, LogInv
  <2>3. \A j \in 1 .. Len(opened') : j \in 1 .. Len(opened) /\ opened'[j].log = opened[j].log
    BY <1>9
  <2>4. registry[n] # None => opened'[registry[n]] = opened[registry[n]]
    BY <1>9, <1>10, <1>14 DEF Refs, InstanceOf
  <2>5. \A r \in Calls : Changes(r, n) /\ call[r].at = "insert" =>
          opened'[call[r].inst] = opened[call[r].inst]
    <3>1. ASSUME NEW r \in Calls, call[r].at = "insert"
          PROVE  call[r].inst # i /\ call[r].inst \in 1 .. Len(opened)
      <4>1. q # r /\ Holds(q) /\ Holds(r)
        BY <3>1, UserOf DEF Holds
      <4> QED
        BY <1>10, <3>1, <4>1 DEF Refs, InstanceOf
    <3> QED
      BY <1>9, <3>1
  <2>6. \A r \in Calls : call'[r] = call[r]
    OBVIOUS
  <2>7. dirs'[n] = dirs[n] /\ registry'[n] = registry[n] /\ content'[n] = content[n] /\ cut' = cut
    BY <1>7, <1>12, <1>14
  <2> QED
    BY <2>1, <2>2, <2>3, <2>4, <2>5, <2>6, <2>7, OwnKept
<1>15. ASSUME NEW n \in Names \ (shared \cup stale), registry[n] = i
       PROVE  OwnInv(n)'
  <2>1. n = k /\ registry[k] = i /\ i # None
    BY <1>2, <1>10, <1>15, NoneAssumption DEF Refs, InstanceOf
  <2>2. OwnInv(k)
    BY <1>10, <1>15, <2>1 DEF UpInv
  <2>3. /\ \A r \in Calls : ~Changes(r, k)
        /\ dirs[k] # None /\ dirs[k].config = opened[i].dim
    BY <2>1, <2>2 DEF OwnInv
  <2>4. \A r \in Calls : ~Changes(r, k)'
    BY <2>3 DEF Changes
  <2>5. LogUsers(k)'
    <3>1. LogsOf(k)' = LogsOf(k)
      BY <1>7 DEF LogsOf
    <3> QED
      BY <1>9, <2>1, <2>2, <2>3, <3>1 DEF OwnInv, LogUsers
  <2>6. dirs'[k] # None /\ dirs'[k].config = opened'[i].dim
    BY <1>7, <1>9, <2>3
  <2>7. ASSUME k \notin cut
        PROVE  Served(k, i)'
    <3>1. Served(k, i) /\ Sound(k) /\ l = LogOf(dirs[k])
      BY <1>5, <2>1, <2>2, <2>7 DEF OwnInv, Served
    <3>2. /\ Readable(Append(logs[l], p)) = Readable(logs[l]) \cup {p}
          /\ \A j \in 1 .. Len(Append(logs[l], p)) : Append(logs[l], p)[j] # Hole
      BY <1>4, <1>6, <3>1, ReadableAppend DEF Sound
    <3>3. /\ Generation(dirs[k])' = Generation(dirs[k]) /\ LogOf(dirs[k])' = LogOf(dirs[k])
      BY <1>7 DEF Generation, LogOf
    <3>4. Recovered(dirs[k], dirs[k].config)' = Recovered(dirs[k], dirs[k].config) \cup {p}
      <4>1. Readable(logs'[l]) = Readable(logs[l]) \cup {p}
        BY <1>8, <3>2
      <4>2. Recovered(dirs[k], dirs[k].config) =
              (IF dirs[k].head = None THEN {} ELSE dirs[k].head.points) \cup
              {x \in Readable(logs[l]) : x.dim = dirs[k].config}
        BY <3>1 DEF Recovered, Sound
      <4>3. Recovered(dirs[k], dirs[k].config)' =
              (IF dirs[k].head = None THEN {} ELSE dirs[k].head.points) \cup
              {x \in Readable(logs'[l]) : x.dim = dirs[k].config}
        BY <1>7, <3>1, <3>3 DEF Recovered, Sound
      <4> QED
        BY <1>4, <2>3, <4>1, <4>2, <4>3
    <3>5. Sound(k)'
      BY <1>7, <1>8, <1>12, <2>1, <3>1, <3>2, <3>3, <3>4 DEF Sound
    <3> QED
      BY <1>5, <1>9, <1>12, <2>1, <3>1, <3>3, <3>5 DEF Served
  <2>8. ~Changing(k)'
    BY <2>4 DEF Changing, Changes
  <2>9. OwnInv(k)'
    BY <2>1, <2>4, <2>5, <2>6, <2>7, <2>8 DEF OwnInv
  <2> QED
    BY <2>1, <2>9
<1>16. UpInv'
  <2>1. \A n \in Names : registry'[n] = None <=> content'[n] = None
    <3>1. ASSUME NEW n \in Names, registry[n] = i
          PROVE  registry'[n] # None /\ content'[n] # None
      BY <1>2, <1>10, <1>12, <3>1, NoneAssumption DEF Refs, InstanceOf
    <3> QED
      BY <1>10, <1>12, <3>1 DEF UpInv
  <2> QED
    BY <1>7, <1>14, <1>15, <2>1 DEF UpInv
<1> QED
  BY <1>2, <1>8, <1>9, <1>12, <1>13, <1>16 DEF DataInv

LEMMA CommitKeeps ==
  ASSUME IInv, NEW q \in Calls, job[q] = "running", NEW i, i = call[q].inst,
         PersistCommit(i), UNCHANGED <<status, registry, call, shared, cut>>
  PROVE  /\ dirs' \in [Names -> Directories \cup {None}]
         /\ stale' \subseteq Names
         /\ LogInv' /\ DataInv'
<1>1. PICK k \in Names : k = call[q].name
  BY UserOf
<1>2. /\ i \in 1 .. Len(opened) /\ opened[i].name = k /\ status = "up"
      /\ dirs \in [Names -> Directories \cup {None}] /\ stale \subseteq Names
  BY <1>1, UserOf DEF IInv, Types, InstanceOf
<1>3. /\ dirs' = IF dirs[k] # None THEN dirs ELSE [dirs EXCEPT ![k] = NoDirectory]
      /\ stale' = IF registry[k] = i THEN stale ELSE stale \cup {k}
      /\ UNCHANGED <<logs, opened, content>>
  BY <1>2 DEF PersistCommit, Touched, Registered
<1>4. /\ dirs' \in [Names -> Directories \cup {None}]
      /\ \A n \in Names : n # k => dirs'[n] = dirs[n]
      /\ dirs[k] # None => dirs' = dirs
      /\ dirs[k] = None => dirs'[k] = NoDirectory
  <2>1. CASE dirs[k] # None
    BY <1>2, <1>3, <2>1
  <2>2. CASE dirs[k] = None
    <3>1. dirs' = [dirs EXCEPT ![k] = NoDirectory] /\ NoDirectory \in Directories \cup {None}
      BY <1>3, <2>2, NewDirectory
    <3>2. /\ dirs' \in [Names -> Directories \cup {None}] /\ dirs'[k] = NoDirectory
          /\ \A n \in Names : n # k => dirs'[n] = dirs[n]
      BY <1>1, <1>2, <3>1, Updated
    <3> QED
      BY <2>2, <3>2
  <2> QED
    BY <2>1, <2>2
<1>5. stale' \subseteq Names /\ stale \subseteq stale'
  BY <1>1, <1>2, <1>3
<1>6. LogsOf(k)' \subseteq LogsOf(k)
  <2>1. CASE dirs[k] # None
    BY <1>4, <2>1 DEF LogsOf
  <2>2. CASE dirs[k] = None
    <3>1. dirs'[k] = NoDirectory
      BY <1>4, <2>2
    <3> QED
      BY <3>1, NewDirectory, EmptyWal DEF LogsOf
  <2> QED
    BY <2>1, <2>2
<1>7. LogInv'
  BY <1>1, <1>3, <1>4, <1>6, LogsShrink DEF IInv
<1>8. UpInv /\ Refs
  BY <1>2 DEF IInv, DataInv
<1>9. ASSUME k \notin shared' \cup stale'
      PROVE  OwnInv(k)'
  <2>1. OwnInv(k)
    BY <1>1, <1>5, <1>8, <1>9 DEF UpInv
  <2>2. registry[k] = i /\ i # None
    BY <1>2, <1>3, <1>9, NoneAssumption
  <2>3. dirs[k] # None
    BY <2>1, <2>2 DEF OwnInv
  <2> QED
    BY <1>3, <1>4, <2>1, <2>3, OwnKept
<1>10. UpInv'
  <2>1. \A n \in Names : registry'[n] = registry[n] /\ content'[n] = content[n]
    BY <1>3
  <2>2. registry'[k] = None <=> content'[k] = None
    BY <1>1, <1>8, <2>1 DEF UpInv
  <2> QED
    BY <1>1, <1>3, <1>4, <1>5, <1>8, <1>9, <2>1, <2>2, OtherNames
<1> QED
  BY <1>2, <1>4, <1>5, <1>7, <1>10 DEF DataInv

LEMMA EndJobStep ==
  ASSUME IInv, NEW q \in Calls, NEW what \in Results, EndJob(q, what)
  PROVE  IInv'
<1>1. /\ status = "up" /\ job[q] = "running" /\ permits' = permits + 1
      /\ job' = [job EXCEPT ![q] = what] /\ Outcome(q, what)
      /\ UNCHANGED <<status, registry, call, waiting, maintenance, crashes, shared, cut>>
  BY DEF EndJob
<1>2. /\ job' \in [Calls -> JobStates] /\ permits' \in Int
      /\ JobsInv' /\ BridgeInv'
      /\ \A r \in Calls : Holds(r)' => Holds(r)
  BY <1>1, JobEnds
<1>3. call[q].op \in Requests
  BY <1>1, UserOf
<1>4. PICK i : i = call[q].inst
  OBVIOUS
<1>5. \/ UNCHANGED <<storage, opened, content, stale>>
      \/ call[q].dim = opened[i].dim /\ UpsertPoint(q, i)
      \/ PersistCommit(i)
  BY <1>1, <1>3, <1>4 DEF Outcome, Requests
<1>6. /\ opened' \in Seq(Instances) /\ Len(opened') = Len(opened)
      /\ \A j \in 1 .. Len(opened) :
           opened'[j].name = opened[j].name /\ opened'[j].generation = opened[j].generation
      /\ dirs' \in [Names -> Directories \cup {None}]
      /\ logs' \in Seq(Seq(AllPoints \cup {Hole}))
      /\ content' \in [Names -> (SUBSET AllPoints) \cup {None}]
      /\ stale' \subseteq Names
      /\ LogInv' /\ DataInv'
  <2>1. CASE UNCHANGED <<storage, opened, content, stale>>
    <3>1. Quiet
      BY <1>1, <2>1 DEF Quiet, storage
    <3>2. LogInv' /\ DataInv'
      BY <1>1, <3>1, QuietKeeps DEF IInv
    <3> QED
      BY <3>1, <3>2 DEF Quiet, IInv, Types
  <2>2. CASE call[q].dim = opened[i].dim /\ UpsertPoint(q, i)
    <3>1. UNCHANGED <<dirs, stale>>
      BY <2>2 DEF UpsertPoint
    <3>2. /\ opened' \in Seq(Instances) /\ Len(opened') = Len(opened)
          /\ \A j \in 1 .. Len(opened) :
               opened'[j].name = opened[j].name /\ opened'[j].generation = opened[j].generation
          /\ logs' \in Seq(Seq(AllPoints \cup {Hole}))
          /\ content' \in [Names -> (SUBSET AllPoints) \cup {None}]
          /\ LogInv' /\ DataInv'
      BY <1>1, <1>4, <2>2, UpsertKeeps
    <3> QED
      BY <3>1, <3>2 DEF IInv, Types
  <2>3. CASE PersistCommit(i)
    <3>1. UNCHANGED <<logs, opened, content>>
      BY <2>3 DEF PersistCommit
    <3>2. /\ dirs' \in [Names -> Directories \cup {None}] /\ stale' \subseteq Names
          /\ LogInv' /\ DataInv'
      BY <1>1, <1>4, <2>3, CommitKeeps
    <3> QED
      BY <3>1, <3>2 DEF IInv, Types
  <2> QED
    BY <1>5, <2>1, <2>2, <2>3
<1>7. Refs'
  BY <1>1, <1>2, <1>6, RefsKept DEF IInv
<1>8. Types'
  <2>1. maintenance' \subseteq 1 .. Len(opened')
        /\ \A j \in maintenance' : opened'[j].generation < MaxGenerations
    BY <1>1, <1>6 DEF IInv, Types
  <2> QED
    BY <1>1, <1>2, <1>6, <2>1 DEF IInv, Types
<1> QED
  BY <1>2, <1>6, <1>7, <1>8 DEF IInv

(***************************************************************************)
(* The maintenance loop.                                                   *)
(***************************************************************************)
LEMMA WithoutTyped ==
  ASSUME NEW wal \in Wals, NEW g
  PROVE  /\ WithoutKey(wal, g) \in Wals
         /\ DOMAIN WithoutKey(wal, g) = DOMAIN wal \ {g}
         /\ \A h \in DOMAIN wal \ {g} : WithoutKey(wal, g)[h] = wal[h]
<1>1. PICK gs \in SUBSET (0 .. MaxGenerations) : wal \in [gs -> Nat]
  BY DEF Wals
<1>2. gs \ {g} \in SUBSET (0 .. MaxGenerations) /\ DOMAIN wal = gs
  BY <1>1
<1>3. WithoutKey(wal, g) \in [gs \ {g} -> Nat]
  BY <1>1, <1>2 DEF WithoutKey
<1>4. WithoutKey(wal, g) \in Wals
  BY <1>2, <1>3, WalTyped
<1> QED
  BY <1>4 DEF WithoutKey

LEMMA CheckpointStep ==
  ASSUME IInv, NEW i \in maintenance, Checkpoint(i)
  PROVE  IInv'
<1>1. /\ i \in 1 .. Len(opened) /\ opened \in Seq(Instances) /\ Len(opened) \in Nat
      /\ opened[i] \in Instances /\ opened[i].generation < MaxGenerations
      /\ logs \in Seq(Seq(AllPoints \cup {Hole})) /\ Len(logs) \in Nat
      /\ dirs \in [Names -> Directories \cup {None}]
  BY DEF IInv, Types
<1>2. /\ status = "up" /\ maintenance' = maintenance \ {i} /\ Touched(i)
      /\ UNCHANGED <<status, registry, call, waiting, permits, job, crashes, content, shared, cut>>
  BY DEF Checkpoint
<1>3. PICK k \in Names : k = opened[i].name
  BY <1>1 DEF Instances
<1>4. PICK g \in GenerationNumbers : g = opened[i].generation + 1 /\ g - 1 = opened[i].generation
  <2>1. opened[i].generation + 1 \in GenerationNumbers
    BY <1>1, Bounds DEF Instances, GenerationNumbers
  <2> QED
    BY <1>1, <2>1 DEF Instances, GenerationNumbers
<1> DEFINE log == IF g \in DOMAIN Seen(k).wal THEN Seen(k).wal[g] ELSE Len(logs) + 1
           wal  == With(WithoutKey(Seen(k).wal, g - 1), g, log)
           head == [points |-> opened[i].points, generation |-> g]
           dir  == [config |-> Seen(k).config, head |-> head, wal |-> wal]
           inst == [opened[i] EXCEPT !.generation = g, !.log = log]
<1>5. /\ logs' = IF log > Len(logs) THEN Append(logs, <<>>) ELSE logs
      /\ dirs' = [dirs EXCEPT ![k] =
                    [Seen(k) EXCEPT !.head = head, !.wal = With(WithoutKey(@, g - 1), g, log)]]
      /\ opened' = [opened EXCEPT ![i].generation = g, ![i].log = log]
  BY <1>3, <1>4 DEF Checkpoint, Seen
<1>6. /\ Seen(k) = [config |-> Seen(k).config, head |-> Seen(k).head, wal |-> Seen(k).wal]
      /\ Seen(k).config \in Dims \cup {None} /\ Seen(k).wal \in Wals
      /\ LogsOf(k) = {Seen(k).wal[h] : h \in DOMAIN Seen(k).wal}
  BY SeenTyped DEF IInv
<1>7. /\ (log \in LogsOf(k) /\ log \in 1 .. Len(logs)) \/ log = Len(logs) + 1
      /\ g \notin DOMAIN Seen(k).wal => log = Len(logs) + 1
      /\ log \in Nat
  <2>1. CASE g \in DOMAIN Seen(k).wal
    <3>1. log \in LogsOf(k)
      BY <1>6, <2>1
    <3>2. log \in 1 .. Len(logs)
      BY <3>1 DEF IInv, LogInv
    <3> QED
      BY <2>1, <3>1, <3>2
  <2>2. CASE g \notin DOMAIN Seen(k).wal
    BY <1>1, <2>2
  <2> QED
    BY <2>1, <2>2
<1> HIDE DEF log
<1>8. /\ logs' \in Seq(Seq(AllPoints \cup {Hole})) /\ Len(logs') \in Nat
      /\ Len(logs') >= Len(logs) /\ log \in 1 .. Len(logs')
      /\ \A l \in 1 .. Len(logs) : logs'[l] = logs[l]
      /\ log = Len(logs) + 1 => logs'[log] = <<>>
  <2>1. CASE log = Len(logs) + 1
    <3>1. logs' = Append(logs, <<>>) /\ <<>> \in Seq(AllPoints \cup {Hole})
      BY <1>1, <1>5, <2>1
    <3> QED
      BY <1>1, <2>1, <3>1
  <2>2. CASE log \in 1 .. Len(logs)
    <3>1. logs' = logs
      BY <1>1, <1>5, <2>2
    <3> QED
      BY <1>1, <2>2, <3>1
  <2> QED
    BY <1>7, <2>1, <2>2
<1>9. /\ inst \in Instances /\ inst.name = k /\ inst.dim = opened[i].dim
      /\ inst.points = opened[i].points /\ inst.generation = g /\ inst.log = log
  BY <1>1, <1>3, <1>7 DEF Instances
<1>10. /\ opened' \in Seq(Instances) /\ Len(opened') = Len(opened) /\ opened'[i] = inst
       /\ \A j \in 1 .. Len(opened) : j # i => opened'[j] = opened[j]
  <2>1. opened' = [opened EXCEPT ![i] = inst]
    BY <1>5
  <2> HIDE DEF inst
  <2> QED
    BY <1>1, <1>9, <2>1, UpdatedSeq
<1>11. /\ wal \in Wals
       /\ DOMAIN wal = (DOMAIN Seen(k).wal \ {g - 1}) \cup {g} /\ wal[g] = log
       /\ \A h \in DOMAIN Seen(k).wal \ {g - 1, g} : wal[h] = Seen(k).wal[h]
  <2> DEFINE rest == WithoutKey(Seen(k).wal, g - 1)
  <2>1. /\ rest \in Wals /\ DOMAIN rest = DOMAIN Seen(k).wal \ {g - 1}
        /\ \A h \in DOMAIN Seen(k).wal \ {g - 1} : rest[h] = Seen(k).wal[h]
    BY <1>6, WithoutTyped
  <2>2. wal = With(rest, g, log)
    OBVIOUS
  <2> HIDE DEF rest, wal
  <2>3. With(rest, g, log) \in Wals
    BY <1>7, <2>1, WithTyped
  <2>4. /\ With(rest, g, log)[g] = log
        /\ DOMAIN With(rest, g, log) = DOMAIN rest \cup {g}
        /\ \A h \in DOMAIN rest \ {g} : With(rest, g, log)[h] = rest[h]
    BY DEF With
  <2> QED
    BY <2>1, <2>2, <2>3, <2>4
<1>12. head \in Heads /\ head # None /\ head.generation = g /\ head.points = opened[i].points
  <2>1. head \in Heads
    BY <1>1 DEF Heads, Instances, GenerationNumbers
  <2> QED
    BY <2>1, NoneAssumption
<1>13. /\ dirs' = [dirs EXCEPT ![k] = dir] /\ dir \in Directories /\ dir # None
       /\ dir.config = Seen(k).config /\ dir.head = head /\ dir.wal = wal
  <2>1. wal = With(WithoutKey(Seen(k).wal, g - 1), g, log)
    OBVIOUS
  <2> HIDE DEF wal, head
  <2>3. [Seen(k) EXCEPT !.head = head, !.wal = wal] = dir
    <3>1. PICK some : some = [Seen(k) EXCEPT !.head = head]
      OBVIOUS
    <3>2. some = [config |-> Seen(k).config, head |-> head, wal |-> Seen(k).wal]
      BY <1>6, <3>1
    <3>3. some.config = Seen(k).config /\ some.head = head
      BY <3>2
    <3>4. [some EXCEPT !.wal = wal] = [config |-> some.config, head |-> some.head, wal |-> wal]
      BY <3>2
    <3>5. [Seen(k) EXCEPT !.head = head, !.wal = wal] = [some EXCEPT !.wal = wal]
      BY <3>1
    <3> QED
      BY <3>3, <3>4, <3>5
  <2>2. dir \in Directories /\ dir # None
    BY <1>6, <1>11, <1>12, DirectoryTyped
  <2>4. [Seen(k) EXCEPT !.head = head, !.wal = With(WithoutKey(@, g - 1), g, log)] = dir
    BY <2>1, <2>3
  <2>5. dirs' = [dirs EXCEPT ![k] = dir]
    BY <1>5, <2>4 DEF head
  <2> QED
    BY <2>2, <2>5
<1> HIDE DEF wal, head, dir, inst
<1>14. /\ dirs' \in [Names -> Directories \cup {None}] /\ dirs'[k] = dir
       /\ \A n \in Names : n # k => dirs'[n] = dirs[n]
  BY <1>1, <1>13, Updated
<1>15. stale' = (IF registry[k] = i THEN stale ELSE stale \cup {k}) /\ stale' \subseteq Names
  BY <1>2, <1>3 DEF Touched, Registered, IInv, Types
<1>16. Types'
  <2>1. maintenance' \subseteq 1 .. Len(opened')
        /\ \A j \in maintenance' : opened'[j].generation < MaxGenerations
    BY <1>2, <1>10 DEF IInv, Types
  <2> QED
    BY <1>2, <1>8, <1>10, <1>14, <1>15, <2>1 DEF IInv, Types
<1>17. Refs'
  <2>1. \A j \in 1 .. Len(opened) : opened'[j].name = opened[j].name
    BY <1>3, <1>9, <1>10
  <2>2. \A r \in Calls : Holds(r)' => Holds(r)
    BY <1>2 DEF Holds
  <2> QED
    BY <1>2, <1>10, <2>1, <2>2, RefsKept DEF IInv
<1>18. JobsInv' /\ BridgeInv'
  BY <1>2 DEF IInv, JobsInv, BridgeInv, InFlight, Idle
<1>19. LogsOf(k)' \subseteq LogsOf(k) \cup {log}
  <2>1. LogsOf(k)' = {wal[h] : h \in DOMAIN wal}
    BY <1>13, <1>14 DEF LogsOf
  <2> QED
    BY <1>6, <1>11, <2>1
<1>20. \A j \in 1 .. Len(opened') :
         opened'[j].log = log \/ (j \in 1 .. Len(opened) /\ opened'[j].log = opened[j].log)
  BY <1>9, <1>10
<1>21. LogInv' /\ \A n \in Names : n # k => log \notin LogsOf(n)
  <2>1. log \in LogsOf(k) \/ log > Len(logs)
    BY <1>1, <1>7
  <2> QED
    BY <1>1, <1>8, <1>14, <1>19, <1>20, <2>1, LogsGrow DEF IInv
<1>22. UpInv /\ Refs
  BY <1>2 DEF IInv, DataInv
<1>23. ASSUME k \notin shared' \cup stale'
       PROVE  OwnInv(k)'
  <2>1. registry[k] = i /\ i # None /\ stale' = stale
    BY <1>1, <1>15, <1>23, NoneAssumption
  <2>2. OwnInv(k)
    BY <1>2, <1>22, <1>23, <2>1 DEF UpInv
  <2>3. /\ \A r \in Calls : ~Changes(r, k)
        /\ dirs[k] # None /\ dirs[k].config = opened[i].dim /\ Seen(k) = dirs[k]
    BY <2>1, <2>2 DEF OwnInv, Seen
  <2>4. \A r \in Calls : ~Changes(r, k)'
    BY <1>2, <2>3 DEF Changes
  <2>5. LogUsers(k)'
    <3> SUFFICES ASSUME NEW j \in 1 .. Len(opened'), opened'[j].log \in LogsOf(k)', j # i
                 PROVE  FALSE
      BY <1>2, <2>1 DEF LogUsers
    <3>1. opened[j].log \in LogsOf(k) \cup {log} /\ j \in 1 .. Len(opened)
      BY <1>10, <1>19
    <3>2. opened[j].log \in 1 .. Len(logs)
      BY <3>1 DEF IInv, LogInv
    <3>3. opened[j].log \in LogsOf(k)
      BY <1>1, <1>7, <3>1, <3>2
    <3> QED
      BY <2>1, <2>2, <2>3, <3>1, <3>3 DEF OwnInv, LogUsers
  <2>6. dirs'[k] # None /\ dirs'[k].config = opened'[i].dim
    BY <1>9, <1>10, <1>13, <1>14, <2>3
  <2>7. ASSUME k \notin cut
        PROVE  Served(k, i)'
    <3>1. Served(k, i) /\ Sound(k)
      BY <2>1, <2>2, <2>7 DEF OwnInv, Served
    <3>2. DOMAIN Seen(k).wal = {g - 1}
      BY <1>4, <2>3, <3>1 DEF Served, Sound
    <3>3. DOMAIN wal = {g} /\ log = Len(logs) + 1
      BY <1>4, <1>7, <1>11, <3>2 DEF GenerationNumbers
    <3>4. Generation(dirs[k])' = g /\ LogOf(dirs[k])' = log
      BY <1>11, <1>12, <1>13, <1>14 DEF Generation, LogOf
    <3>5. /\ Readable(logs'[log]) = {} /\ \A j \in 1 .. Len(logs'[log]) : logs'[log][j] # Hole
      BY <1>8, <3>3, EmptyLog
    <3>6. Recovered(dirs[k], dirs[k].config)' = opened[i].points
      BY <1>12, <1>13, <1>14, <3>4, <3>5 DEF Recovered
    <3>7. opened[i].points = content[k]
      BY <3>1 DEF Served
    <3>8. Sound(k)'
      BY <1>2, <1>13, <1>14, <3>3, <3>4, <3>5, <3>6, <3>7 DEF Sound
    <3> QED
      BY <1>2, <1>9, <1>10, <3>4, <3>7, <3>8 DEF Served
  <2>8. ~Changing(k)'
    BY <2>4 DEF Changing, Changes
  <2> QED
    BY <1>2, <2>1, <2>4, <2>5, <2>6, <2>7, <2>8 DEF OwnInv
<1>24. UpInv'
  <2>1. \A n \in Names : registry'[n] = registry[n] /\ content'[n] = content[n]
    BY <1>2
  <2>2. registry'[k] = None <=> content'[k] = None
    BY <1>22, <2>1 DEF UpInv
  <2>3. ASSUME NEW n \in Names, n # k
        PROVE  /\ \A l \in LogsOf(n) : logs'[l] = logs[l]
               /\ \A j \in 1 .. Len(opened') : opened'[j].log \in LogsOf(n) =>
                    j \in 1 .. Len(opened) /\ opened'[j].log = opened[j].log
    BY <1>8, <1>20, <1>21, <2>3 DEF IInv, LogInv
  <2>4. \A j \in 1 .. Len(opened) : opened[j].name # k => opened'[j] = opened[j]
    BY <1>3, <1>10
  <2>5. \A r \in Calls : call'[r] = call[r]
    BY <1>2
  <2>6. stale \subseteq stale' /\ shared \subseteq shared' /\ cut' = cut
    BY <1>2, <1>15
  <2> QED
    BY <1>14, <1>22, <1>23, <2>1, <2>2, <2>3, <2>4, <2>5, <2>6, OtherNames
<1> QED
  BY <1>2, <1>16, <1>17, <1>18, <1>21, <1>24 DEF IInv, DataInv

(***************************************************************************)
(* Stops and starts.                                                       *)
(***************************************************************************)
LEMMA CrashStep ==
  ASSUME IInv, Crash
  PROVE  IInv'
<1>1. /\ status = "up" /\ status' = "down" /\ crashes < MaxCrashes /\ crashes' = crashes + 1
      /\ registry' = [n \in Names |-> None] /\ opened' = <<>>
      /\ waiting' = <<>> /\ permits' = MaxInflight
      /\ job' = [q \in Calls |-> "none"] /\ maintenance' = {}
      /\ cut' = cut \cup {n \in Names : Changing(n)}
      /\ UNCHANGED <<dirs, logs, content, shared, stale>>
  BY DEF Crash, storage
<1>2. /\ call' \in [Calls -> CallStates]
      /\ \A q \in Calls : call'[q].at \in {"uncalled", "answered", "cancelled", "cut"}
  <2> DEFINE kept(q) == call[q].at \in {"uncalled", "answered", "cancelled"}
  <2>1. call' = [q \in Calls |-> IF kept(q) THEN call[q] ELSE [at |-> "cut"]]
    BY <1>1 DEF Crash
  <2>2. \A q \in Calls : call[q] \in CallStates
    BY DEF IInv, Types
  <2>3. [at |-> "cut"] \in CallStates /\ [at |-> "cut"].at = "cut"
    BY DEF CallStates
  <2>4. ASSUME NEW q \in Calls
        PROVE  call'[q] \in CallStates /\ call'[q].at \in {"uncalled", "answered", "cancelled", "cut"}
    <3>1. CASE kept(q)
      BY <2>1, <2>2, <3>1
    <3>2. CASE ~kept(q)
      BY <2>1, <2>3, <3>2
    <3> QED
      BY <3>1, <3>2
  <2> QED
    BY <2>1, <2>4
<1>3. Types'
  <2>1. crashes' \in 0 .. MaxCrashes
    BY <1>1, Bounds DEF IInv, Types
  <2>2. cut' \subseteq Names
    BY <1>1 DEF IInv, Types
  <2>3. job' \in [Calls -> JobStates] /\ permits' \in Int /\ waiting' \in Seq(Calls)
    BY <1>1, Bounds DEF JobStates
  <2>4. registry' \in [Names -> Nat \cup {None}] /\ opened' \in Seq(Instances)
    BY <1>1
  <2> QED
    BY <1>1, <1>2, <2>1, <2>2, <2>3, <2>4 DEF IInv, Types
<1>4. \A q \in Calls : ~Holds(q)' /\ job'[q] = "none" /\ Idle(q)'
  BY <1>1, <1>2 DEF Holds, Idle
<1>5. Refs'
  <2>1. \A q \in Calls : call'[q].at # "insert"
    BY <1>2
  <2> QED
    BY <1>1, <1>4, <2>1 DEF Refs
<1>6. InFlight' = {}
  BY <1>4 DEF InFlight
<1>7. JobsInv'
  BY <1>1, <1>4, <1>6 DEF JobsInv
<1>8. BridgeInv'
  <2>1. permits' >= 0 /\ permits' + Cardinality(InFlight') = MaxInflight
    BY <1>1, <1>6, FS_EmptySet, Bounds
  <2>2. Len(waiting') = 0
    BY <1>1
  <2> QED
    BY <1>2, <2>1, <2>2 DEF BridgeInv
<1>9. LogInv'
  <2>1. \A n \in Names : LogsOf(n)' = LogsOf(n)
    BY <1>1 DEF LogsOf
  <2>2. Len(opened') = 0 /\ logs' = logs
    BY <1>1
  <2> QED
    BY <2>1, <2>2 DEF IInv, LogInv
<1>10. ASSUME NEW n \in Names \ (shared' \cup stale' \cup cut')
       PROVE  /\ dirs'[n] = None <=> content'[n] = None
              /\ dirs'[n] # None => dirs'[n].config # None /\ Sound(n)'
  <2>1. UpInv /\ n \in Names \ (shared \cup stale) /\ n \notin cut /\ ~Changing(n)
    BY <1>1, <1>10 DEF IInv, DataInv
  <2>2. OwnInv(n) /\ (registry[n] = None <=> content[n] = None)
    BY <2>1 DEF UpInv
  <2>3. CASE registry[n] = None
    <3>1. dirs[n] = None
      BY <2>1, <2>2, <2>3 DEF OwnInv
    <3> QED
      BY <1>1, <2>2, <2>3, <3>1
  <2>4. CASE registry[n] # None
    <3>1. dirs[n] # None /\ dirs[n].config = opened[registry[n]].dim /\ Sound(n)
      BY <2>1, <2>2, <2>4 DEF OwnInv, Served
    <3>2. opened[registry[n]] \in Instances
      BY <2>4 DEF IInv, Refs, InstanceOf, Types
    <3>3. dirs[n].config # None
      BY <3>1, <3>2, NoneAssumption DEF Instances
    <3>4. Sound(n)'
      BY <1>1, <3>1, SoundKept
    <3> QED
      BY <1>1, <2>2, <2>4, <3>1, <3>3, <3>4
  <2> QED
    BY <2>3, <2>4
<1>11. DownInv'
  BY <1>1, <1>10 DEF DownInv
<1> QED
  BY <1>1, <1>3, <1>5, <1>7, <1>8, <1>9, <1>11 DEF IInv, DataInv

Place(order, n) == CHOOSE i \in DOMAIN order : order[i] = n

LEMMA Ordered ==
  ASSUME NEW S, IsFiniteSet(S)
  PROVE  /\ SetToSeq(S) \in Seq(S) /\ Len(SetToSeq(S)) \in Nat
         /\ DOMAIN SetToSeq(S) = 1 .. Len(SetToSeq(S))
         /\ \A n \in S : /\ Place(SetToSeq(S), n) \in 1 .. Len(SetToSeq(S))
                         /\ SetToSeq(S)[Place(SetToSeq(S), n)] = n
         /\ \A i \in 1 .. Len(SetToSeq(S)) :
              SetToSeq(S)[i] \in S /\ Place(SetToSeq(S), SetToSeq(S)[i]) = i
<1> DEFINE c == Cardinality(S)
<1>1. c \in Nat /\ ExistsBijection(1 .. c, S)
  BY FS_CardinalityType
<1>2. PICK f \in Bijection(1 .. c, S) : TRUE
  BY <1>1 DEF ExistsBijection
<1>3. f \in [1 .. c -> S] /\ IsInjective(f)
  BY <1>2 DEF Bijection, Injection
<1>4. SetToSeq(S) \in [1 .. c -> S] /\ IsInjective(SetToSeq(S))
  BY <1>3 DEF SetToSeq
<1>5. PICK o : o = SetToSeq(S)
  OBVIOUS
<1>6. o \in [1 .. c -> S] /\ IsInjective(o)
  BY <1>4, <1>5
<1>7. o \in Injection(1 .. c, S)
  BY <1>6 DEF Injection
<1>8. IsFiniteSet(1 .. c) /\ Cardinality(1 .. c) = c
  <2>1. 1 \in Int /\ c \in Int
    BY <1>1
  <2>2. Cardinality(1 .. c) = IF 1 > c THEN 0 ELSE c - 1 + 1
    BY <2>1, FS_Interval
  <2> QED
    BY <1>1, <2>1, <2>2, FS_Interval
<1>9. o \in Surjection(1 .. c, S)
  BY <1>7, <1>8, FS_Injection
<1> HIDE DEF c
<1>10. o \in Seq(S) /\ Len(o) = c /\ DOMAIN o = 1 .. c
  BY <1>1, <1>6
<1>11. ASSUME NEW n \in S
       PROVE  Place(o, n) \in 1 .. c /\ o[Place(o, n)] = n
  <2>1. \E i \in DOMAIN o : o[i] = n
    BY <1>9, <1>10 DEF Surjection
  <2> QED
    BY <1>10, <2>1 DEF Place
<1>12. ASSUME NEW i \in 1 .. c
       PROVE  o[i] \in S /\ Place(o, o[i]) = i
  <2>1. o[i] \in S
    BY <1>6
  <2>2. Place(o, o[i]) \in 1 .. c /\ o[Place(o, o[i])] = o[i]
    BY <1>11, <2>1
  <2> QED
    BY <1>6, <1>10, <2>1, <2>2 DEF IsInjective
<1> QED
  BY <1>1, <1>5, <1>10, <1>11, <1>12

LEMMA RecoveredTyped ==
  ASSUME Types, LogInv, NEW n \in Names, dirs[n] # None
  PROVE  Recovered(dirs[n], dirs[n].config) \in SUBSET AllPoints
<1>1. Seen(n) = dirs[n]
  BY DEF Seen
<1>2. (IF dirs[n].head = None THEN {} ELSE dirs[n].head.points) \subseteq AllPoints
  BY <1>1, SeenTyped
<1>3. CASE Generation(dirs[n]) \in DOMAIN dirs[n].wal
  <2>1. LogOf(dirs[n]) \in LogsOf(n)
    BY <1>3 DEF LogsOf, LogOf
  <2>2. logs[LogOf(dirs[n])] \in Seq(AllPoints \cup {Hole})
    BY <2>1 DEF LogInv, Types
  <2>3. Readable(logs[LogOf(dirs[n])]) \subseteq AllPoints
    BY <2>2, ReadableTyped
  <2> QED
    BY <1>2, <2>3 DEF Recovered
<1>4. CASE Generation(dirs[n]) \notin DOMAIN dirs[n].wal
  BY <1>2, <1>4 DEF Recovered
<1> QED
  BY <1>3, <1>4

LEMMA StartStep ==
  ASSUME IInv, Start
  PROVE  IInv'
<1>1. /\ status = "down" /\ status' = "up" /\ \A n \in Stored : dirs[n].config # None
      /\ UNCHANGED <<call, waiting, permits, job, maintenance, crashes, shared, stale, cut>>
  BY DEF Start
<1>2. PICK stored \in SUBSET Names : stored = Stored /\ stored = {n \in Names : dirs[n] # None}
  BY DEF Stored
<1>3. PICK order : order = SetToSeq(stored)
  OBVIOUS
<1>4. PICK length \in Nat : length = Len(order)
  BY <1>2, <1>3, BridgeAssumption, FS_Subset, Ordered
<1>5. /\ order \in Seq(stored) /\ DOMAIN order = 1 .. length
      /\ \A n \in stored : Place(order, n) \in 1 .. length /\ order[Place(order, n)] = n
      /\ \A i \in 1 .. length : order[i] \in stored /\ Place(order, order[i]) = i
  <2>1. IsFiniteSet(stored)
    BY <1>2, BridgeAssumption, FS_Subset
  <2> QED
    BY <1>3, <1>4, <2>1, Ordered
<1> DEFINE Log(i) == IF Generation(dirs[order[i]]) \in DOMAIN dirs[order[i]].wal
                     THEN LogOf(dirs[order[i]]) ELSE Len(logs) + i
           Recover(n) == Recovered(dirs[n], dirs[n].config)
           Instance(i) == [name |-> order[i], dim |-> dirs[order[i]].config,
                           points |-> Recover(order[i]),
                           generation |-> Generation(dirs[order[i]]), log |-> Log(i)]
<1>6. /\ opened' = [i \in DOMAIN order |-> Instance(i)]
      /\ registry' = [n \in Names |-> IF n \in stored THEN Place(order, n) ELSE None]
      /\ logs' = logs \o [i \in DOMAIN order |-> <<>>]
      /\ dirs' = [n \in Names |-> IF n \notin stored THEN None
                    ELSE [dirs[n] EXCEPT !.wal = With(@, Generation(dirs[n]), Log(Place(order, n)))]]
      /\ content' = [n \in Names |-> IF n \notin cut \cup shared \cup stale THEN content[n]
                       ELSE IF n \in stored THEN Recover(n) ELSE None]
  BY <1>2, <1>3 DEF Start, Place
<1>7. PICK place \in [stored -> 1 .. length] :
        /\ \A n \in stored : place[n] = Place(order, n) /\ order[place[n]] = n
        /\ \A i \in 1 .. length : order[i] \in stored /\ place[order[i]] = i
  <2> DEFINE p == [n \in stored |-> Place(order, n)]
  <2>1. p \in [stored -> 1 .. length] /\ \A n \in stored : p[n] = Place(order, n)
    BY <1>5
  <2> HIDE DEF p
  <2> QED
    BY <1>5, <2>1
<1>8. ASSUME NEW n \in stored
      PROVE  /\ n \in Names /\ dirs[n] # None /\ dirs[n].config \in Dims
             /\ dirs[n] = [config |-> dirs[n].config, head |-> dirs[n].head, wal |-> dirs[n].wal]
             /\ dirs[n].head \in Heads \cup {None} /\ dirs[n].wal \in Wals
             /\ Generation(dirs[n]) \in GenerationNumbers
             /\ Recover(n) \in SUBSET AllPoints
  <2>1. n \in Names /\ dirs[n] # None /\ dirs[n].config # None /\ Seen(n) = dirs[n]
    BY <1>1, <1>2 DEF Seen
  <2> QED
    BY <2>1, DirectoryFields, SeenTyped, RecoveredTyped DEF IInv
<1>9. PICK log \in [stored -> Nat] :
        \A n \in stored :
          /\ log[n] = Log(place[n])
          /\ Generation(dirs[n]) \in DOMAIN dirs[n].wal => log[n] = LogOf(dirs[n])
          /\ log[n] \in LogsOf(n) \/ log[n] = Len(logs) + place[n]
          /\ log[n] \in 1 .. Len(logs) + length
  <2> DEFINE l == [n \in stored |-> Log(place[n])]
  <2>1. ASSUME NEW n \in stored
        PROVE  /\ Generation(dirs[n]) \in DOMAIN dirs[n].wal => Log(place[n]) = LogOf(dirs[n])
               /\ Log(place[n]) \in LogsOf(n) \/ Log(place[n]) = Len(logs) + place[n]
               /\ Log(place[n]) \in 1 .. Len(logs) + length
    <3>1. order[place[n]] = n /\ place[n] \in 1 .. length /\ Len(logs) \in Nat
      BY <1>7 DEF IInv, Types
    <3>2. Log(place[n]) = IF Generation(dirs[n]) \in DOMAIN dirs[n].wal
                          THEN LogOf(dirs[n]) ELSE Len(logs) + place[n]
      BY <3>1
    <3> HIDE DEF Log
    <3>3. CASE Generation(dirs[n]) \in DOMAIN dirs[n].wal
      <4>1. LogOf(dirs[n]) \in LogsOf(n)
        BY <1>8, <3>3 DEF LogsOf, LogOf
      <4>2. LogOf(dirs[n]) \in 1 .. Len(logs)
        BY <1>8, <4>1 DEF IInv, LogInv
      <4> QED
        BY <1>4, <3>1, <3>2, <3>3, <4>1, <4>2
    <3>4. CASE Generation(dirs[n]) \notin DOMAIN dirs[n].wal
      BY <1>4, <3>1, <3>2, <3>4
    <3> QED
      BY <3>3, <3>4
  <2>2. Len(logs) \in Nat
    BY DEF IInv, Types
  <2> HIDE DEF Log
  <2>3. l \in [stored -> Nat] /\ \A n \in stored : l[n] = Log(place[n])
    BY <1>4, <2>1, <2>2
  <2> HIDE DEF l
  <2> QED
    BY <2>1, <2>3
<1>10. /\ opened' \in Seq(Instances) /\ Len(opened') = length
       /\ \A i \in 1 .. length :
            /\ opened'[i].name = order[i] /\ opened'[i].dim = dirs[order[i]].config
            /\ opened'[i].points = Recover(order[i])
            /\ opened'[i].generation = Generation(dirs[order[i]])
            /\ opened'[i].log = log[order[i]]
  <2>1. ASSUME NEW i \in 1 .. length
        PROVE  /\ Instance(i) \in Instances
               /\ Instance(i).name = order[i] /\ Instance(i).dim = dirs[order[i]].config
               /\ Instance(i).points = Recover(order[i])
               /\ Instance(i).generation = Generation(dirs[order[i]])
               /\ Instance(i).log = log[order[i]]
    <3>1. order[i] \in stored /\ place[order[i]] = i
      BY <1>7
    <3>2. Log(i) = log[order[i]] /\ log[order[i]] \in Nat
      BY <1>9, <3>1
    <3>3. /\ order[i] \in Names /\ dirs[order[i]].config \in Dims
          /\ Generation(dirs[order[i]]) \in GenerationNumbers
          /\ Recover(order[i]) \in SUBSET AllPoints
      BY <1>8, <3>1
    <3> HIDE DEF Log, Recover
    <3> QED
      BY <3>2, <3>3 DEF Instances
  <2> HIDE DEF Instance
  <2>2. opened' = [i \in 1 .. length |-> Instance(i)]
    BY <1>5, <1>6
  <2> QED
    BY <1>4, <2>1, <2>2
<1>11. /\ registry' \in [Names -> Nat \cup {None}]
       /\ \A n \in stored : registry'[n] = place[n] /\ registry'[n] # None
       /\ \A n \in Names \ stored : registry'[n] = None
  <2>1. registry' = [n \in Names |-> IF n \in stored THEN Place(order, n) ELSE None]
    BY <1>6
  <2>2. \A n \in stored : Place(order, n) \in Nat /\ Place(order, n) = place[n] /\ Place(order, n) # None
    BY <1>4, <1>5, <1>7, NoneAssumption
  <2> QED
    BY <2>1, <2>2
<1>12. /\ logs' \in Seq(Seq(AllPoints \cup {Hole})) /\ Len(logs') = Len(logs) + length
       /\ Len(logs) \in Nat
       /\ \A l \in 1 .. Len(logs) : logs'[l] = logs[l]
  <2> DEFINE more == [i \in 1 .. length |-> <<>>]
  <2>1. more \in Seq(Seq(AllPoints \cup {Hole})) /\ Len(more) = length
    BY <1>4
  <2>2. logs' = logs \o more
    BY <1>5, <1>6
  <2>3. logs \in Seq(Seq(AllPoints \cup {Hole})) /\ Len(logs) \in Nat
    BY DEF IInv, Types
  <2> HIDE DEF more
  <2>4. /\ logs \o more \in Seq(Seq(AllPoints \cup {Hole})) /\ Len(logs \o more) = Len(logs) + Len(more)
        /\ \A l \in 1 .. Len(logs) + Len(more) :
             (logs \o more)[l] = IF l <= Len(logs) THEN logs[l] ELSE more[l - Len(logs)]
    BY <2>1, <2>3, ConcatProperties
  <2>5. \A l \in 1 .. Len(logs) : l \in 1 .. Len(logs) + Len(more) /\ l <= Len(logs)
    BY <1>4, <2>1, <2>3
  <2> QED
    BY <2>1, <2>2, <2>3, <2>4, <2>5
<1>13. /\ dirs' \in [Names -> Directories \cup {None}]
       /\ \A n \in Names \ stored : dirs'[n] = None
       /\ \A n \in stored :
            /\ dirs'[n] # None /\ dirs'[n].config = dirs[n].config /\ dirs'[n].head = dirs[n].head
            /\ dirs'[n].wal = With(dirs[n].wal, Generation(dirs[n]), log[n])
  <2> DEFINE wal(n) == With(dirs[n].wal, Generation(dirs[n]), log[n])
             dir(n) == [config |-> dirs[n].config, head |-> dirs[n].head, wal |-> wal(n)]
  <2>1. ASSUME NEW n \in stored
        PROVE  /\ dirs'[n] = dir(n) /\ dir(n) \in Directories /\ dir(n) # None
               /\ dir(n).config = dirs[n].config /\ dir(n).head = dirs[n].head /\ dir(n).wal = wal(n)
    <3>1. log[n] = Log(Place(order, n)) /\ n \in Names
      BY <1>2, <1>7, <1>9
    <3> HIDE DEF Log
    <3>2. dirs'[n] = [dirs[n] EXCEPT !.wal = With(@, Generation(dirs[n]), Log(Place(order, n)))]
      BY <1>6, <3>1
    <3>3. /\ dirs[n] = [config |-> dirs[n].config, head |-> dirs[n].head, wal |-> dirs[n].wal]
          /\ dirs[n].config \in Dims /\ dirs[n].head \in Heads \cup {None} /\ dirs[n].wal \in Wals
          /\ Generation(dirs[n]) \in GenerationNumbers
      BY <1>8
    <3>4. With(dirs[n].wal, Generation(dirs[n]), log[n]) \in Wals
      BY <1>9, <3>3, WithTyped
    <3>5. dirs'[n] = [dirs[n] EXCEPT !.wal = wal(n)]
      BY <3>1, <3>2
    <3> HIDE DEF wal
    <3>6. dirs'[n] = dir(n)
      BY <3>3, <3>5
    <3>7. dir(n) \in Directories /\ dir(n) # None
      BY <3>3, <3>4, DirectoryTyped DEF wal
    <3> QED
      BY <3>6, <3>7
  <2> HIDE DEF dir
  <2>2. \A n \in Names \ stored : dirs'[n] = None
    BY <1>6
  <2>3. dirs' = [n \in Names |-> dirs'[n]]
    BY <1>6
  <2> QED
    BY <2>1, <2>2, <2>3
<1>14. /\ content' \in [Names -> (SUBSET AllPoints) \cup {None}]
       /\ \A n \in Names \ (cut \cup shared \cup stale) : content'[n] = content[n]
       /\ \A n \in Names : n \in cut \cup shared \cup stale => (content'[n] = None <=> n \notin stored)
  <2>1. ASSUME NEW n \in stored
        PROVE  Recover(n) \in SUBSET AllPoints /\ Recover(n) # None
    BY <1>8, NoneAssumption
  <2> HIDE DEF Recover
  <2>2. content \in [Names -> (SUBSET AllPoints) \cup {None}]
    BY DEF IInv, Types
  <2>3. content' = [n \in Names |-> IF n \notin cut \cup shared \cup stale THEN content[n]
                      ELSE IF n \in stored THEN Recover(n) ELSE None]
    BY <1>6
  <2> QED
    BY <2>1, <2>2, <2>3
<1> HIDE DEF Instance, Log
<1>15. maintenance = {} /\ \A q \in Calls : job[q] = "none" /\ Idle(q)
  BY <1>1 DEF IInv, JobsInv
<1>16. Types'
  BY <1>1, <1>10, <1>11, <1>12, <1>13, <1>14, <1>15 DEF IInv, Types
<1>17. \A q \in Calls : ~Holds(q)' /\ job'[q] = "none" /\ Idle(q)'
                        /\ \A n \in Names : ~Changes(q, n)'
  BY <1>1, <1>15 DEF Holds, Idle, Changes
<1>18. Refs'
  <2>1. ASSUME NEW n \in Names, registry'[n] # None
        PROVE  InstanceOf(n, registry[n])'
    <3>1. n \in stored /\ registry'[n] = place[n] /\ place[n] \in 1 .. length /\ order[place[n]] = n
      BY <1>7, <1>11, <2>1
    <3> QED
      BY <1>10, <3>1 DEF InstanceOf
  <2>2. \A q \in Calls : call'[q].at # "insert"
    BY <1>17 DEF Idle
  <2> QED
    BY <1>17, <2>1, <2>2 DEF Refs
<1>19. JobsInv' /\ BridgeInv'
  <2>1. InFlight' = InFlight
    BY <1>1 DEF InFlight
  <2>2. InFlight' = {}
    BY <1>17 DEF InFlight
  <2>3. JobsInv'
    BY <1>1, <1>17, <2>2 DEF JobsInv
  <2> QED
    BY <1>1, <2>1, <2>3 DEF IInv, BridgeInv
<1>20. ASSUME NEW n \in stored
       PROVE  /\ DOMAIN dirs'[n].wal = DOMAIN dirs[n].wal \cup {Generation(dirs[n])}
              /\ dirs'[n].wal[Generation(dirs[n])] = log[n]
              /\ \A h \in DOMAIN dirs[n].wal \ {Generation(dirs[n])} : dirs'[n].wal[h] = dirs[n].wal[h]
  <2> DEFINE w == With(dirs[n].wal, Generation(dirs[n]), log[n])
  <2>1. /\ DOMAIN w = DOMAIN dirs[n].wal \cup {Generation(dirs[n])} /\ w[Generation(dirs[n])] = log[n]
        /\ \A h \in DOMAIN dirs[n].wal \ {Generation(dirs[n])} : w[h] = dirs[n].wal[h]
    BY DEF With
  <2>2. dirs'[n].wal = w
    BY <1>13
  <2> HIDE DEF w
  <2> QED
    BY <2>1, <2>2
<1>21. ASSUME NEW n \in Names
       PROVE  /\ n \in stored => LogsOf(n)' \subseteq LogsOf(n) \cup {log[n]} /\ log[n] \in LogsOf(n)'
              /\ n \notin stored => LogsOf(n)' = {}
  <2>1. CASE n \in stored
    <3>1. LogsOf(n)' = {dirs'[n].wal[h] : h \in DOMAIN dirs'[n].wal}
      BY <1>13, <2>1 DEF LogsOf
    <3>2. LogsOf(n) = {dirs[n].wal[h] : h \in DOMAIN dirs[n].wal}
      BY <1>8, <2>1 DEF LogsOf
    <3> QED
      BY <1>20, <2>1, <3>1, <3>2
  <2>2. CASE n \notin stored
    BY <1>13, <2>2 DEF LogsOf
  <2> QED
    BY <2>1, <2>2
<1>22. ASSUME NEW m \in Names, NEW n \in Names, m # n
       PROVE  LogsOf(m)' \cap LogsOf(n)' = {}
  <2>1. CASE m \in stored /\ n \in stored
    <3>1. /\ LogsOf(m) \cap LogsOf(n) = {} /\ LogsOf(m) \subseteq 1 .. Len(logs)
          /\ LogsOf(n) \subseteq 1 .. Len(logs)
      BY <1>22 DEF IInv, LogInv
    <3>2. place[m] # place[n] /\ place[m] \in 1 .. length /\ place[n] \in 1 .. length
      BY <1>7, <1>22, <2>1
    <3>3. log[m] # log[n]
      <4>1. /\ log[m] \in LogsOf(m) \/ log[m] = Len(logs) + place[m]
            /\ log[n] \in LogsOf(n) \/ log[n] = Len(logs) + place[n]
            /\ Len(logs) \in Nat
        BY <1>4, <1>9, <2>1
      <4> QED
        BY <3>1, <3>2, <4>1
    <3>4. log[m] \notin LogsOf(n) /\ log[n] \notin LogsOf(m)
      BY <1>4, <1>9, <1>12, <2>1, <3>1, <3>2
    <3> QED
      BY <1>21, <2>1, <3>1, <3>3, <3>4
  <2>2. CASE m \notin stored \/ n \notin stored
    BY <1>21, <2>2
  <2> QED
    BY <2>1, <2>2
<1>23. LogInv'
  <2>1. ASSUME NEW n \in Names
        PROVE  LogsOf(n)' \subseteq 1 .. Len(logs')
    <3>1. LogsOf(n) \subseteq 1 .. Len(logs)
      BY DEF IInv, LogInv
    <3>2. LogsOf(n) \subseteq 1 .. Len(logs')
      BY <1>4, <1>12, <3>1
    <3>3. CASE n \in stored
      <4>1. log[n] \in 1 .. Len(logs') /\ LogsOf(n)' \subseteq LogsOf(n) \cup {log[n]}
        BY <1>9, <1>12, <1>21, <3>3
      <4> QED
        BY <3>2, <4>1
    <3>4. CASE n \notin stored
      <4>1. LogsOf(n)' = {}
        BY <1>21, <3>4
      <4> QED
        BY <4>1
    <3> QED
      BY <3>3, <3>4
  <2>2. ASSUME NEW i \in 1 .. Len(opened')
        PROVE  opened'[i].log \in 1 .. Len(logs')
    <3>1. i \in 1 .. length /\ order[i] \in stored
      BY <1>7, <1>10
    <3>2. opened'[i].log = log[order[i]]
      BY <1>10, <3>1
    <3>3. log[order[i]] \in 1 .. Len(logs) + length
      BY <1>9, <3>1
    <3> QED
      BY <1>12, <3>2, <3>3
  <2> QED
    BY <1>22, <2>1, <2>2 DEF LogInv
<1>24. ASSUME NEW n \in Names \ (shared \cup stale)
       PROVE  OwnInv(n)'
  <2>1. \A q \in Calls : ~Changes(q, n)'
    BY <1>17
  <2>2. ~Changing(n)'
    BY <2>1 DEF Changing, Changes
  <2>3. CASE n \notin stored
    <3>1. dirs'[n] = None /\ registry'[n] = None /\ LogsOf(n)' = {}
      BY <1>11, <1>13, <1>21, <2>3
    <3> QED
      BY <2>1, <3>1 DEF OwnInv, LogUsers
  <2>4. CASE n \in stored
    <3>1. PICK i \in 1 .. length : i = place[n] /\ registry'[n] = i /\ registry'[n] # None /\ order[i] = n
      BY <1>7, <1>11, <2>4
    <3>2. dirs'[n] # None /\ dirs'[n].config = opened'[i].dim
      BY <1>10, <1>13, <2>4, <3>1
    <3>3. LogUsers(n)'
      <4> SUFFICES ASSUME NEW j \in 1 .. Len(opened'), opened'[j].log \in LogsOf(n)'
                   PROVE  registry'[n] = j
        BY DEF LogUsers
      <4>1. j \in 1 .. length /\ order[j] \in stored /\ place[order[j]] = j
            /\ opened'[j].log = log[order[j]]
        BY <1>7, <1>10
      <4>2. opened'[j].log \in LogsOf(order[j])' /\ order[j] \in Names
        BY <1>2, <1>21, <4>1
      <4>3. order[j] = n
        BY <1>22, <4>2
      <4> QED
        BY <3>1, <4>1, <4>3
    <3>4. ASSUME n \notin cut
          PROVE  Served(n, i)'
      <4>1. Sound(n)
        BY <1>1, <1>8, <1>24, <2>4, <3>4 DEF IInv, DataInv, DownInv
      <4>2. DOMAIN dirs[n].wal = {Generation(dirs[n])} /\ log[n] = LogOf(dirs[n])
        BY <1>9, <2>4, <4>1 DEF Sound
      <4>3. log[n] \in LogsOf(n)
        BY <1>8, <2>4, <4>2 DEF LogsOf, LogOf
      <4>4. logs'[log[n]] = logs[log[n]]
        BY <1>12, <4>3 DEF IInv, LogInv
      <4>5. /\ DOMAIN dirs'[n].wal = {Generation(dirs[n])}
            /\ dirs'[n].wal[Generation(dirs[n])] = log[n]
        BY <1>20, <2>4, <4>2
      <4>6. Generation(dirs[n])' = Generation(dirs[n]) /\ LogOf(dirs[n])' = log[n]
        BY <1>13, <2>4, <4>5 DEF Generation, LogOf
      <4>7. Recovered(dirs[n], dirs[n].config)' = Recover(n)
        BY <1>13, <2>4, <4>2, <4>4, <4>5, <4>6 DEF Recovered
      <4>8. content'[n] = content[n] /\ Recover(n) = content[n]
        BY <1>14, <1>24, <3>4, <4>1 DEF Sound
      <4>9. Sound(n)'
        BY <4>1, <4>2, <4>4, <4>5, <4>6, <4>7, <4>8 DEF Sound
      <4> QED
        BY <1>10, <3>1, <4>6, <4>8, <4>9 DEF Served
    <3>5. n \notin cut' => Served(n, registry[n])'
      <4> SUFFICES ASSUME n \notin cut'
                   PROVE  Served(n, registry[n])'
        OBVIOUS
      <4>1. Served(n, i)'
        BY <1>1, <3>4
      <4> QED
        BY <3>1, <4>1 DEF Served
    <3> QED
      BY <2>1, <2>2, <3>1, <3>2, <3>3, <3>5 DEF OwnInv
  <2> QED
    BY <2>3, <2>4
<1>25. UpInv'
  <2>1. ASSUME NEW n \in Names
        PROVE  registry'[n] = None <=> content'[n] = None
    <3>1. CASE n \in cut \cup shared \cup stale
      BY <1>11, <1>14, <3>1
    <3>2. CASE n \notin cut \cup shared \cup stale
      <4>1. dirs[n] = None <=> content[n] = None
        BY <1>1, <3>2 DEF IInv, DataInv, DownInv
      <4> QED
        BY <1>2, <1>11, <1>14, <3>2, <4>1
    <3> QED
      BY <3>1, <3>2
  <2> QED
    BY <1>1, <1>24, <2>1 DEF UpInv
<1> QED
  BY <1>1, <1>16, <1>18, <1>19, <1>23, <1>25 DEF IInv, DataInv

(***************************************************************************)
(* The theorems.                                                           *)
(***************************************************************************)
LEMMA InitIInv == Init => IInv
<1> SUFFICES ASSUME Init PROVE IInv
  OBVIOUS
<1> DEFINE First(dim) == {Point(Old, dim)}
           Starting(used, dim, order) ==
    /\ status = "up"
    /\ registry = [n \in Names |-> IF n \in used THEN Place(order, n) ELSE None]
    /\ opened = [i \in DOMAIN order |->
                   [name |-> order[i], dim |-> dim, points |-> First(dim),
                    generation |-> 1, log |-> i]]
    /\ dirs = [n \in Names |-> IF n \in used
                 THEN [config |-> dim, wal |-> With(<<>>, 1, registry[n]),
                       head |-> [points |-> First(dim), generation |-> 1]]
                 ELSE None]
    /\ logs = [i \in DOMAIN order |-> <<>>]
    /\ call = [q \in Calls |-> Uncalled]
    /\ waiting = <<>> /\ permits = MaxInflight
    /\ job = [q \in Calls |-> "none"]
    /\ maintenance = {}
    /\ crashes = 0
    /\ content = [n \in Names |-> IF n \in used THEN First(dim) ELSE None]
    /\ shared = {} /\ stale = {} /\ cut = {}
<1>1. PICK used \in SUBSET Names, dim \in Dims : Starting(used, dim, SetToSeq(used))
  BY DEF Init, Place
<1>2. PICK order : order = SetToSeq(used)
  OBVIOUS
<1>3. /\ order \in Seq(used) /\ Len(order) \in Nat /\ DOMAIN order = 1 .. Len(order)
      /\ \A n \in used : Place(order, n) \in 1 .. Len(order) /\ order[Place(order, n)] = n
      /\ \A i \in 1 .. Len(order) : order[i] \in used /\ Place(order, order[i]) = i
  BY <1>2, BridgeAssumption, FS_Subset, Ordered
<1>4. First(dim) \in SUBSET AllPoints /\ First(dim) # None
  <2>1. First(dim) \in SUBSET AllPoints
    BY DEF Point, AllPoints
  <2> QED
    BY <2>1, NoneAssumption
<1>5. Starting(used, dim, order)
  BY <1>1, <1>2
<1> HIDE DEF First
<1>6. 1 \in GenerationNumbers
  BY Bounds DEF GenerationNumbers
<1>7. /\ opened \in Seq(Instances) /\ Len(opened) = Len(order)
      /\ \A i \in 1 .. Len(order) :
           /\ opened[i].name = order[i] /\ opened[i].dim = dim /\ opened[i].points = First(dim)
           /\ opened[i].generation = 1 /\ opened[i].log = i
  <2> DEFINE Instance(i) == [name |-> order[i], dim |-> dim, points |-> First(dim),
                             generation |-> 1, log |-> i]
  <2>1. ASSUME NEW i \in 1 .. Len(order)
        PROVE  /\ Instance(i) \in Instances
               /\ Instance(i).name = order[i] /\ Instance(i).dim = dim
               /\ Instance(i).points = First(dim) /\ Instance(i).generation = 1 /\ Instance(i).log = i
    <3>1. order[i] \in Names /\ i \in Nat
      BY <1>3
    <3> QED
      BY <1>4, <1>6, <3>1 DEF Instances
  <2>2. opened = [i \in 1 .. Len(order) |-> Instance(i)]
    BY <1>3, <1>5
  <2> HIDE DEF Instance, Starting
  <2> QED
    BY <1>3, <2>1, <2>2
<1>8. /\ registry \in [Names -> Nat \cup {None}]
      /\ \A n \in used : /\ registry[n] \in 1 .. Len(order) /\ registry[n] # None
                         /\ order[registry[n]] = n
      /\ \A n \in Names \ used : registry[n] = None
  <2>1. registry = [n \in Names |-> IF n \in used THEN Place(order, n) ELSE None]
    BY <1>5
  <2>2. \A n \in used : Place(order, n) \in Nat /\ Place(order, n) # None
    BY <1>3, NoneAssumption
  <2> HIDE DEF Starting
  <2> QED
    BY <1>3, <2>1, <2>2
<1>9. ASSUME NEW n \in used
      PROVE  /\ dirs[n] \in Directories /\ dirs[n] # None /\ dirs[n].config = dim
             /\ dirs[n].head # None /\ dirs[n].head.points = First(dim)
             /\ dirs[n].head.generation = 1
             /\ DOMAIN dirs[n].wal = {1} /\ dirs[n].wal[1] = registry[n]
  <2> DEFINE wal  == With(<<>>, 1, registry[n])
             head == [points |-> First(dim), generation |-> 1]
             dir  == [config |-> dim, head |-> head, wal |-> wal]
  <2>1. dirs[n] = dir
    <3>1. n \in Names
      OBVIOUS
    <3> QED
      BY <1>5, <3>1
  <2>2. wal \in Wals /\ DOMAIN wal = {1} /\ wal[1] = registry[n]
    <3>1. registry[n] \in Nat
      BY <1>8
    <3>2. With(<<>>, 1, registry[n]) \in Wals
      BY <1>6, <3>1, EmptyWal, WithTyped
    <3> QED
      BY <3>2, OneLog
  <2>3. head \in Heads
    BY <1>4, <1>6 DEF Heads, GenerationNumbers
  <2>4. head # None /\ head.points = First(dim) /\ head.generation = 1
    BY <2>3, NoneAssumption
  <2> HIDE DEF wal, head
  <2>5. dir \in Directories /\ dir # None
    BY <2>2, <2>3, DirectoryTyped
  <2>6. dir.config = dim /\ dir.head = head /\ dir.wal = wal
    OBVIOUS
  <2> HIDE DEF dir
  <2> QED
    BY <2>1, <2>2, <2>4, <2>5, <2>6
<1>10. dirs \in [Names -> Directories \cup {None}] /\ \A n \in Names \ used : dirs[n] = None
  <2>1. dirs = [n \in Names |-> dirs[n]] /\ \A n \in Names \ used : dirs[n] = None
    BY <1>5
  <2> HIDE DEF Starting
  <2> QED
    BY <1>9, <2>1
<1>11. /\ logs \in Seq(Seq(AllPoints \cup {Hole})) /\ Len(logs) = Len(order)
       /\ \A i \in 1 .. Len(order) : logs[i] = <<>>
  <2>1. logs = [i \in 1 .. Len(order) |-> <<>>]
    BY <1>3, <1>5
  <2> HIDE DEF Starting
  <2> QED
    BY <1>3, <2>1
<1>12. /\ status = "up" /\ call = [q \in Calls |-> Uncalled] /\ waiting = <<>>
       /\ permits = MaxInflight /\ job = [q \in Calls |-> "none"] /\ maintenance = {}
       /\ crashes = 0 /\ shared = {} /\ stale = {} /\ cut = {}
       /\ content = [n \in Names |-> IF n \in used THEN First(dim) ELSE None]
  BY <1>5
<1> HIDE DEF Starting
<1>13. content \in [Names -> (SUBSET AllPoints) \cup {None}]
       /\ \A n \in Names : content[n] = IF n \in used THEN First(dim) ELSE None
  BY <1>4, <1>12
<1>14. \A q \in Calls : call[q].at = "uncalled" /\ job[q] = "none" /\ Idle(q)
  BY <1>12 DEF Uncalled, Idle
<1>15. Types
  <2>1. call \in [Calls -> CallStates] /\ job \in [Calls -> JobStates]
    BY <1>12 DEF CallStates, JobStates
  <2>2. permits \in Int /\ crashes \in 0 .. MaxCrashes /\ waiting \in Seq(Calls)
    BY <1>12, Bounds
  <2> QED
    BY <1>7, <1>8, <1>10, <1>11, <1>12, <1>13, <2>1, <2>2 DEF Types
<1>16. Refs
  <2>1. ASSUME NEW n \in Names, registry[n] # None
        PROVE  InstanceOf(n, registry[n])
    <3>1. n \in used
      BY <1>8, <2>1
    <3> QED
      BY <1>7, <1>8, <3>1 DEF InstanceOf
  <2> QED
    BY <1>14, <2>1 DEF Refs, Holds
<1>17. JobsInv /\ BridgeInv
  <2>1. InFlight = {}
    BY <1>14 DEF InFlight
  <2>2. permits >= 0 /\ permits + Cardinality(InFlight) = MaxInflight
    BY <1>12, <2>1, FS_EmptySet, Bounds
  <2>3. Len(waiting) = 0
    BY <1>12
  <2> QED
    BY <1>12, <1>14, <2>1, <2>2, <2>3 DEF JobsInv, BridgeInv
<1>18. ASSUME NEW n \in Names
       PROVE  LogsOf(n) = IF n \in used THEN {registry[n]} ELSE {}
  <2>1. CASE n \in used
    <3>1. LogsOf(n) = {dirs[n].wal[g] : g \in {1}}
      BY <1>9, <2>1 DEF LogsOf
    <3> QED
      BY <1>9, <2>1, <3>1
  <2>2. CASE n \notin used
    BY <1>10, <2>2 DEF LogsOf
  <2> QED
    BY <2>1, <2>2
<1>19. LogInv
  <2>1. ASSUME NEW m \in Names, NEW n \in Names, m # n
        PROVE  LogsOf(m) \cap LogsOf(n) = {}
    BY <1>8, <1>18, <2>1
  <2> QED
    BY <1>7, <1>8, <1>11, <1>18, <2>1 DEF LogInv
<1>20. ASSUME NEW n \in Names
       PROVE  OwnInv(n)
  <2>1. \A q \in Calls : ~Changes(q, n)
    BY <1>14 DEF Changes
  <2>2. CASE n \notin used
    <3>1. dirs[n] = None /\ registry[n] = None /\ LogsOf(n) = {}
      BY <1>8, <1>10, <1>18, <2>2
    <3> QED
      BY <2>1, <3>1 DEF OwnInv, LogUsers
  <2>3. CASE n \in used
    <3>1. PICK i \in 1 .. Len(order) : i = registry[n] /\ registry[n] # None
      BY <1>8, <2>3
    <3>2. LogUsers(n)
      <4>1. \A j \in 1 .. Len(opened) : opened[j].log \in LogsOf(n) => registry[n] = j
        BY <1>7, <1>18, <2>3
      <4> QED
        BY <4>1 DEF LogUsers
    <3>3. Generation(dirs[n]) = 1 /\ LogOf(dirs[n]) = i /\ DOMAIN dirs[n].wal = {1}
      BY <1>9, <2>3, <3>1 DEF Generation, LogOf
    <3>4. Readable(logs[i]) = {} /\ \A k \in 1 .. Len(logs[i]) : logs[i][k] # Hole
      BY <1>11, EmptyLog
    <3>5. Recovered(dirs[n], dirs[n].config) = First(dim) /\ content[n] = First(dim)
      BY <1>9, <1>13, <2>3, <3>3, <3>4 DEF Recovered
    <3>6. Served(n, i)
      BY <1>7, <3>3, <3>4, <3>5 DEF Served, Sound
    <3>7. Served(n, registry[n])
      BY <3>1, <3>6
    <3> QED
      BY <1>7, <1>9, <2>1, <2>3, <3>1, <3>2, <3>7 DEF OwnInv
  <2> QED
    BY <2>2, <2>3
<1>21. UpInv
  BY <1>4, <1>8, <1>13, <1>20 DEF UpInv
<1> QED
  BY <1>12, <1>15, <1>16, <1>17, <1>19, <1>21 DEF IInv, DataInv

LEMMA StutterStep ==
  ASSUME IInv, UNCHANGED vars
  PROVE  IInv'
<1>1. UNCHANGED <<status, registry, opened, dirs, logs, call, waiting, permits, job, maintenance,
                  crashes, content, shared, stale, cut>>
  BY DEF vars, process, storage, history
<1>2. Types'
  BY <1>1 DEF IInv, Types
<1>3. Refs' /\ JobsInv' /\ BridgeInv'
  BY <1>1 DEF IInv, Refs, InstanceOf, Holds, JobsInv, BridgeInv, InFlight, Idle
<1>4. Quiet /\ \A q \in Calls, n \in Names : call'[q] = call[q]
  BY <1>1 DEF Quiet
<1> QED
  BY <1>2, <1>3, <1>4, QuietKeeps DEF IInv

LEMMA NextIInv == IInv /\ [Next]_vars => IInv'
<1> SUFFICES ASSUME IInv, [Next]_vars PROVE IInv'
  OBVIOUS
<1>1. ASSUME NEW q \in Calls, NEW op \in Operations, NEW n \in Names, NEW dim \in Dims,
             Invoke(q, op, n, dim)
      PROVE  IInv'
  BY <1>1, InvokeStep
<1>2. ASSUME NEW q \in Calls, Create(q)
      PROVE  IInv'
  BY <1>2, CheckFreeStep, OpenDirectoryStep, WriteConfigStep, ReadLogStep, LoadStep, InsertNewStep
     DEF Create
<1>3. ASSUME NEW q \in Calls, Drop(q)
      PROVE  IInv'
  BY <1>3, UnregisterStep, RemoveFileStep, RemoveBlockedStep DEF Drop
<1>4. ASSUME NEW q \in Calls, Request(q)
      PROVE  IInv'
  BY <1>4, LookupStep, SpawnStep, ReceiveStep DEF Request
<1>5. ASSUME NEW q \in Calls, Pool(q)
      PROVE  IInv'
  BY <1>5, StartJobStep, EndJobStep DEF Pool
<1>6. ASSUME NEW q \in Calls, Cancel(q)
      PROVE  IInv'
  BY <1>6, CancelStep
<1>7. CASE Maintain
  BY <1>7, WakeStep, CheckpointStep DEF Maintain
<1>8. CASE Crash \/ FailToStart \/ Start
  BY <1>8, CrashStep, FailToStartStep, StartStep
<1>9. CASE UNCHANGED vars
  BY <1>9, StutterStep
<1> QED
  BY <1>1, <1>2, <1>3, <1>4, <1>5, <1>6, <1>7, <1>8, <1>9 DEF Next

(* The directory of every name no race has touched has one owner at a      *)
(* time, which knows what is in it (service.rs:137-162, 372-381): the      *)
(* create that made it, the drop that removes it, or the registered        *)
(* collection, whose log nobody else writes.                               *)
THEOREM ServerInvariant == Spec => []IInv
  BY InitIInv, NextIInv, PTL DEF Spec

(* A permit is out for every job in flight and for nothing else, whoever   *)
(* hangs up and whatever panics, and the semaphore's queue is the calls    *)
(* that wait (blocking.rs:53-73).                                          *)
THEOREM TypeCorrect == Spec => []TypeOK
<1>1. IInv => TypeOK
  <2> SUFFICES ASSUME IInv PROVE TypeOK
    OBVIOUS
  <2>1. permits \in 0 .. MaxInflight /\ permits + Cardinality(InFlight) = MaxInflight
    <3>1. permits \in Int /\ permits >= 0 /\ permits + Cardinality(InFlight) = MaxInflight
      BY DEF IInv, Types, BridgeInv
    <3>2. Cardinality(InFlight) \in Nat
      BY FiniteInFlight
    <3> QED
      BY <3>1, <3>2, Bounds
  <2>2. ASSUME NEW q \in Calls
        PROVE  call[q].at = "acquire" <=> q \in ToSet(waiting)
    <3>1. DOMAIN waiting = 1 .. Len(waiting)
      BY DEF IInv, Types
    <3> QED
      BY <3>1 DEF IInv, BridgeInv, ToSet
  <2>3. ASSUME NEW n \in Names, registry[n] # None
        PROVE  opened[registry[n]].name = n /\ content[n] # None
    BY <2>3 DEF IInv, Refs, InstanceOf, DataInv, UpInv, DownInv
  <2> QED
    BY <2>1, <2>2, <2>3 DEF TypeOK, IInv, Types
<1> QED
  BY <1>1, ServerInvariant, PTL

(* What a name answers is what was put into it since its last drop, and a  *)
(* restart would answer the same, unless a race of create or of a late     *)
(* checkpoint has touched it (service.rs:137-162, 372-381, lib.rs:74-88).  *)
THEOREM ServesWhatWasAcked == Spec => []ServesExactly
<1>1. IInv => ServesExactly
  <2> SUFFICES ASSUME IInv, status = "up", NEW n \in Names, Settled(n)
               PROVE  IF registry[n] = None
                      THEN dirs[n] = None /\ content[n] = None
                      ELSE /\ dirs[n] # None /\ dirs[n].config = opened[registry[n]].dim
                           /\ opened[registry[n]].points = content[n]
                           /\ Recovered(dirs[n], dirs[n].config) = content[n]
    BY DEF ServesExactly
  <2>1. OwnInv(n) /\ (registry[n] = None <=> content[n] = None) /\ ~Changing(n) /\ n \notin cut
    BY DEF Settled, IInv, DataInv, UpInv
  <2>2. CASE registry[n] = None
    BY <2>1, <2>2 DEF OwnInv
  <2>3. CASE registry[n] # None
    BY <2>1, <2>3 DEF OwnInv, Served, Sound
  <2> QED
    BY <2>2, <2>3
<1> QED
  BY <1>1, ServerInvariant, PTL

(* The process starts again with every collection that was created and not *)
(* dropped, unless a stop cut a create or a drop short or the same races   *)
(* have happened (recover_all, service.rs:117-134).                         *)
THEOREM StartsAfterStops == Spec => []StartsAgain
<1>1. IInv => StartsAgain
  <2> SUFFICES ASSUME IInv PROVE StartsAgain
    OBVIOUS
  <2>1. status = "failed" => cut \cup shared \cup stale # {}
    BY DEF IInv, DataInv, DownInv
  <2>2. ASSUME status = "up", NEW n \in Stored, dirs[n].config = None, ~Changing(n),
               n \notin shared \cup stale
        PROVE  FALSE
    <3>1. n \in Names /\ dirs[n] # None
      BY DEF Stored
    <3>2. OwnInv(n)
      BY <2>2, <3>1 DEF IInv, DataInv, UpInv
    <3>3. registry[n] # None /\ dirs[n].config = opened[registry[n]].dim
      BY <2>2, <3>1, <3>2 DEF OwnInv
    <3>4. opened[registry[n]] \in Instances
      BY <3>1, <3>3 DEF IInv, Refs, InstanceOf, Types
    <3>5. dirs[n].config \in Dims
      BY <3>3, <3>4 DEF Instances
    <3> QED
      BY <2>2, <3>5, NoneAssumption
  <2> QED
    BY <2>1, <2>2 DEF StartsAgain
<1> QED
  BY <1>1, ServerInvariant, PTL
=============================================================================
