------------------------------- MODULE Server -------------------------------
(***************************************************************************)
(* The service of the server: collections by name, each in a directory of  *)
(* its own, created, dropped and used by concurrent calls; the bridge that *)
(* runs their work on a pool of threads; the maintenance loop; stops and   *)
(* recovery.  A collection is its points, each write is one step: what     *)
(* happens inside one is in Durable and DurableConc.                       *)
(***************************************************************************)
EXTENDS Integers, Sequences, SequencesExt, FiniteSets

CONSTANTS
  None,
  Names,
  Dims,
  CallsMade,      \* calls are numbered in the order they are made
  Operations,     \* what is called
  Old,            \* a point the collections have from the start
  Threads, MaxInflight,   \* of the bridge
  MaxGenerations, MaxCrashes

Calls == 1 .. CallsMade

ASSUME BridgeAssumption ==
  /\ {Threads, MaxInflight, MaxGenerations} \subseteq Nat \ {0}
  /\ {CallsMade, MaxCrashes} \subseteq Nat
  /\ IsFiniteSet(Names)
  /\ Operations \subseteq {"create", "drop", "upsert", "commit", "query"}

VARIABLES
  status,      \* of the process: up, down, or failed to start
  registry,    \* name -> what it is served by
  opened,      \* every DurableCollection this process has opened
  dirs,        \* name -> its directory
  logs,        \* every log file, also those no directory has any more
  call,        \* where each call is
  waiting,     \* calls queueing for a permit
  permits,
  job,         \* what the pool has of each call
  maintenance, \* collections this round of the loop has still to visit
  crashes,

  (* History.                                                              *)
  content,     \* name -> what its callers have put into it
  shared,      \* names of which create opened a directory it did not make
  stale,       \* names whose directory was written after their drop
  cut          \* names a stop has caught between being and not being

process == <<registry, opened, call, waiting, permits, job, maintenance>>
storage == <<dirs, logs>>
history == <<content, shared, stale, cut>>
vars    == <<status, process, storage, crashes, history>>

Point(id, dim) == [id |-> id, dim |-> dim]

(* Where a log was cut off under the hands of its writer: what the writer  *)
(* appends from then on is behind zeros, and nothing reads past those.     *)
Hole == Point(None, None)

Readable(log) ==
  {log[i] : i \in {j \in DOMAIN log : \A k \in 1 .. j : log[k] # Hole}}

(* What a collection can hold and a directory consist of; None is none of  *)
(* it.                                                                     *)
AllPoints   == [id : Calls \cup {Old}, dim : Dims]
Heads       == [points : SUBSET AllPoints, generation : 0 .. MaxGenerations]
Directories == [config : Dims \cup {None}, head : Heads \cup {None},
                wal : UNION {[gs -> Nat] : gs \in SUBSET (0 .. MaxGenerations)}]

ASSUME NoneAssumption ==
  /\ None \notin Nat \cup Dims
  /\ \A points \in SUBSET AllPoints : None # points
  /\ None \notin Heads
  /\ None \notin Directories

NoDirectory == [config |-> None, head |-> None, wal |-> <<>>]

(* Generation 0 is the log of a directory without HEAD.                    *)
Generation(dir) == IF dir.head = None THEN 0 ELSE dir.head.generation
LogOf(dir)      == dir.wal[Generation(dir)]

WithoutKey(f, key) == [k \in DOMAIN f \ {key} |-> f[k]]
With(f, key, value) ==
  [k \in DOMAIN f \cup {key} |-> IF k = key THEN value ELSE f[k]]

(* Points of the log whose dimension is not the collection's are skipped.  *)
Recovered(dir, dim) ==
  (IF dir.head = None THEN {} ELSE dir.head.points) \cup
  (IF Generation(dir) \in DOMAIN dir.wal
   THEN {p \in Readable(logs[LogOf(dir)]) : p.dim = dim}
   ELSE {})

Fresh(op, name, dim) == [op |-> op, name |-> name, dim |-> dim, at |-> "begin"]

Uncalled == [at |-> "uncalled"]

(* Each name is free, or served from a directory with one checkpoint.      *)
Init ==
  \E used \in SUBSET Names, dim \in Dims : LET order == SetToSeq(used) IN
    /\ status = "up"
    /\ registry = [n \in Names |-> IF n \in used
                     THEN CHOOSE i \in DOMAIN order : order[i] = n ELSE None]
    /\ opened = [i \in DOMAIN order |->
                   [name |-> order[i], dim |-> dim, points |-> {Point(Old, dim)},
                    generation |-> 1, log |-> i]]
    /\ dirs = [n \in Names |-> IF n \in used
                 THEN [config |-> dim, wal |-> With(<<>>, 1, registry[n]),
                       head |-> [points |-> {Point(Old, dim)}, generation |-> 1]]
                 ELSE None]
    /\ logs = [i \in DOMAIN order |-> <<>>]
    /\ call = [q \in Calls |-> Uncalled]
    /\ waiting = <<>> /\ permits = MaxInflight
    /\ job = [q \in Calls |-> "none"]
    /\ maintenance = {}
    /\ crashes = 0
    /\ content = [n \in Names |-> IF n \in used THEN {Point(Old, dim)} ELSE None]
    /\ shared = {} /\ stale = {} /\ cut = {}

At(q, step) == status = "up" /\ call[q].at = step
Name(q)     == call[q].name

Goto(q, step)   == call' = [call EXCEPT ![q].at = step]
Answer(q, what) == call' = [call EXCEPT ![q] = [at |-> "answered", what |-> what,
                              op |-> call[q].op, name |-> call[q].name, dim |-> call[q].dim]]

Invoke(q, op, name, dim) ==
  /\ status = "up" /\ call[q] = Uncalled
  /\ \A r \in 1 .. q - 1 : call[r] # Uncalled
  /\ op \in Operations
  /\ call' = [call EXCEPT ![q] = Fresh(op, name, dim)]
  /\ UNCHANGED <<status, registry, opened, waiting, permits, job, maintenance,
                 storage, crashes, history>>

-----------------------------------------------------------------------------
(***************************************************************************)
(* create_collection: one handler, no await, so nothing cancels it.        *)
(***************************************************************************)
CreateOnly(q) == /\ call[q].op = "create"
                 /\ UNCHANGED <<status, waiting, permits, job, maintenance, crashes>>

CheckFree(q) ==
  /\ At(q, "begin") /\ CreateOnly(q)
  /\ IF registry[Name(q)] # None THEN Answer(q, "already_exists") ELSE Goto(q, "open")
  /\ UNCHANGED <<registry, opened, storage, history>>

(* DurableCollection::open: create_dir_all.                                *)
OpenDirectory(q) ==
  /\ At(q, "open") /\ CreateOnly(q)
  /\ IF dirs[Name(q)] = None
     THEN dirs' = [dirs EXCEPT ![Name(q)] = NoDirectory] /\ UNCHANGED shared
     ELSE shared' = shared \cup {Name(q)} /\ UNCHANGED dirs
  /\ Goto(q, "config")
  /\ UNCHANGED <<registry, opened, logs, content, stale, cut>>

(* Faulty variant: the config is left to a later save.                     *)
SkipConfig(q) ==
  /\ At(q, "config") /\ CreateOnly(q)
  /\ IF dirs[Name(q)] = None THEN Answer(q, "internal") ELSE Goto(q, "read")
  /\ UNCHANGED <<registry, opened, storage, history>>

WriteConfigIfAbsent(q) ==
  /\ At(q, "config") /\ CreateOnly(q)
  /\ IF dirs[Name(q)] = None
     THEN Answer(q, "internal") /\ UNCHANGED dirs
     ELSE /\ dirs' = IF dirs[Name(q)].config # None THEN dirs
                     ELSE [dirs EXCEPT ![Name(q)].config = call[q].dim]
          /\ Goto(q, "read")
  /\ UNCHANGED <<registry, opened, logs, history>>

(* Wal::open reads the log to find its end ...                             *)
ReadLog(q) ==
  LET dir == IF dirs[Name(q)] = None THEN NoDirectory ELSE dirs[Name(q)]
      g   == Generation(dir)
      end == IF g \in DOMAIN dir.wal THEN Cardinality(Readable(logs[dir.wal[g]])) ELSE 0
  IN /\ At(q, "read") /\ CreateOnly(q)
     /\ call' = [call EXCEPT ![q] = [op |-> "create", name |-> Name(q), dim |-> call[q].dim,
                   at |-> "load", generation |-> g, end |-> end]]
     /\ UNCHANGED <<registry, opened, storage, history>>

(* ... then makes the file or cuts it off there, and the collection is     *)
(* rebuilt from what the directory now has.                                *)
Load(q) ==
  LET n      == Name(q)
      g      == call[q].generation
      dir    == IF dirs[n] = None THEN NoDirectory ELSE dirs[n]
      exists == g \in DOMAIN dir.wal
      log    == IF exists THEN dir.wal[g] ELSE Len(logs) + 1
      points == (IF dir.head = None THEN {} ELSE dir.head.points) \cup
                {p \in Readable(logs'[log]) : p.dim = call[q].dim}
  IN /\ At(q, "load") /\ CreateOnly(q)
     /\ logs' = IF ~exists THEN Append(logs, <<>>)
                ELSE IF Len(logs[log]) > call[q].end
                THEN [logs EXCEPT ![log] = Append(SubSeq(@, 1, call[q].end), Hole)]
                ELSE logs
     /\ dirs' = [dirs EXCEPT ![n] = [dir EXCEPT !.wal = With(@, g, log)]]
     /\ opened' = Append(opened, [name |-> n, dim |-> call[q].dim, points |-> points,
                                  generation |-> g, log |-> log])
     /\ call' = [call EXCEPT ![q] = [op |-> "create", name |-> n, dim |-> call[q].dim,
                   at |-> "insert", inst |-> Len(opened) + 1]]
     /\ UNCHANGED <<registry, history>>

InsertNew(q) ==
  /\ At(q, "insert") /\ CreateOnly(q)
  /\ IF registry[Name(q)] # None
     THEN Answer(q, "already_exists") /\ UNCHANGED <<registry, content>>
     ELSE /\ Answer(q, "ok")
          /\ registry' = [registry EXCEPT ![Name(q)] = call[q].inst]
          /\ content' = [content EXCEPT ![Name(q)] = {}]
  /\ UNCHANGED <<opened, storage, shared, stale, cut>>

-----------------------------------------------------------------------------
(***************************************************************************)
(* drop_collection.  remove_dir_all takes the files in any order.          *)
(***************************************************************************)
DropOnly(q) == /\ call[q].op = "drop"
               /\ UNCHANGED <<status, opened, waiting, permits, job, maintenance,
                              logs, crashes>>

Unregister(q) ==
  /\ At(q, "begin") /\ DropOnly(q)
  /\ IF registry[Name(q)] = None
     THEN Answer(q, "not_found") /\ UNCHANGED <<registry, content>>
     ELSE /\ registry' = [registry EXCEPT ![Name(q)] = None]
          /\ content' = [content EXCEPT ![Name(q)] = None]
          /\ Goto(q, "remove")
  /\ UNCHANGED <<dirs, shared, stale, cut>>

(* Faulty variant: the registry entry is all there is to remove.           *)
KeepFiles(q) ==
  /\ At(q, "remove") /\ DropOnly(q)
  /\ Answer(q, "ok")
  /\ UNCHANGED <<registry, dirs, history>>

RemoveFile(q) ==
  /\ At(q, "remove") /\ DropOnly(q)
  /\ \/ /\ dirs[Name(q)] \in {None, NoDirectory}
        /\ dirs' = [dirs EXCEPT ![Name(q)] = None]
        /\ Answer(q, "ok")
     \/ /\ dirs[Name(q)] \notin {None, NoDirectory}
        /\ \E kept \in {[dirs[Name(q)] EXCEPT !.config = None],
                        [dirs[Name(q)] EXCEPT !.head = None],
                        [dirs[Name(q)] EXCEPT !.wal = <<>>]} \ {dirs[Name(q)]} :
             dirs' = [dirs EXCEPT ![Name(q)] = kept]
        /\ UNCHANGED call
  /\ UNCHANGED <<registry, history>>

(* A file that appeared after the last look is in the way of rmdir; only a *)
(* create or a late checkpoint or commit makes one.                        *)
RemoveBlocked(q) ==
  /\ At(q, "remove") /\ DropOnly(q)
  /\ Name(q) \in shared \cup stale
  /\ dirs[Name(q)] \notin {None, NoDirectory}
  /\ Answer(q, "internal")
  /\ UNCHANGED <<registry, dirs, history>>

-----------------------------------------------------------------------------
(***************************************************************************)
(* Calls on a collection, through the bridge.                              *)
(***************************************************************************)
Lookup(q) ==
  /\ At(q, "begin") /\ call[q].op \in {"upsert", "commit", "query"}
  /\ IF registry[Name(q)] = None
     THEN Answer(q, "not_found") /\ UNCHANGED waiting
     ELSE /\ call' = [call EXCEPT ![q] = [op |-> call[q].op, name |-> Name(q),
                        dim |-> call[q].dim, at |-> "acquire", inst |-> registry[Name(q)]]]
          /\ waiting' = Append(waiting, q)
  /\ UNCHANGED <<status, registry, opened, permits, job, maintenance, storage, crashes, history>>

(* Faulty variant: nobody waits.                                           *)
SpawnAlways(q) ==
  /\ At(q, "acquire") /\ waiting # <<>> /\ Head(waiting) = q
  /\ permits' = permits - 1
  /\ waiting' = Tail(waiting)
  /\ job' = [job EXCEPT ![q] = "spawned"]
  /\ Goto(q, "receive")
  /\ UNCHANGED <<status, registry, opened, maintenance, storage, crashes, history>>

(* The semaphore is fair: the first in the queue gets the permit.          *)
Spawn(q) ==
  /\ At(q, "acquire") /\ waiting # <<>> /\ Head(waiting) = q
  /\ permits > 0
  /\ permits' = permits - 1
  /\ waiting' = Tail(waiting)
  /\ job' = [job EXCEPT ![q] = "spawned"]
  /\ Goto(q, "receive")
  /\ UNCHANGED <<status, registry, opened, maintenance, storage, crashes, history>>

StartJob(q) ==
  /\ status = "up" /\ job[q] = "spawned"
  /\ Cardinality({r \in Calls : job[r] = "running"}) < Threads
  /\ job' = [job EXCEPT ![q] = "running"]
  /\ UNCHANGED <<status, registry, opened, call, waiting, permits, maintenance,
                 storage, crashes, history>>

(* The effect of the call on its collection, which may have been dropped.  *)
Registered(i) == registry[opened[i].name] = i

Touched(i) == stale' = IF Registered(i) THEN stale ELSE stale \cup {opened[i].name}

UpsertPoint(q, i) ==
  /\ logs' = [logs EXCEPT ![opened[i].log] = Append(@, Point(q, call[q].dim))]
  /\ opened' = [opened EXCEPT ![i].points = @ \cup {Point(q, call[q].dim)}]
  /\ content' = IF ~Registered(i) THEN content
                ELSE [content EXCEPT ![Name(q)] = @ \cup {Point(q, call[q].dim)}]
  /\ UNCHANGED <<dirs, stale>>

(* Segments and versions are written; what is missing of the path is made. *)
PersistCommit(i) ==
  /\ dirs' = IF dirs[opened[i].name] # None THEN dirs
             ELSE [dirs EXCEPT ![opened[i].name] = NoDirectory]
  /\ Touched(i)
  /\ UNCHANGED <<logs, opened, content>>

(* A query may panic (version/store.rs:111).  Nothing is changed then.     *)
Outcome(q, what) ==
  LET i == call[q].inst IN
  CASE call[q].op = "upsert" /\ call[q].dim # opened[i].dim ->
         what = "invalid" /\ UNCHANGED <<storage, opened, content, stale>>
    [] call[q].op = "upsert" /\ call[q].dim = opened[i].dim ->
         what = "ok" /\ UpsertPoint(q, i)
    [] call[q].op = "commit" ->
         what = "ok" /\ PersistCommit(i)
    [] call[q].op = "query" ->
         what \in {"ok", "internal"} /\ UNCHANGED <<storage, opened, content, stale>>

(* Faulty variant: the permit is not given back after a panic.             *)
EndJobKeepingPermit(q, what) ==
  /\ status = "up" /\ job[q] = "running"
  /\ Outcome(q, what)
  /\ permits' = IF what = "internal" THEN permits ELSE permits + 1
  /\ job' = [job EXCEPT ![q] = what]
  /\ UNCHANGED <<status, registry, call, waiting, maintenance, crashes, shared, cut>>

(* Panics are caught, so the permit always goes back.                      *)
EndJob(q, what) ==
  /\ status = "up" /\ job[q] = "running"
  /\ Outcome(q, what)
  /\ permits' = permits + 1
  /\ job' = [job EXCEPT ![q] = what]
  /\ UNCHANGED <<status, registry, call, waiting, maintenance, crashes, shared, cut>>

Results == {"ok", "invalid", "internal"}

Receive(q) ==
  /\ At(q, "receive") /\ job[q] \in Results
  /\ Answer(q, job[q])
  /\ UNCHANGED <<status, registry, opened, waiting, permits, job, maintenance,
                 storage, crashes, history>>

(* The client hangs up and the future is dropped at its await.             *)
Cancel(q) ==
  /\ \/ At(q, "receive") /\ UNCHANGED waiting
     \/ /\ At(q, "acquire")
        /\ \E i \in DOMAIN waiting : waiting[i] = q /\ waiting' = RemoveAt(waiting, i)
  /\ Goto(q, "cancelled")
  /\ UNCHANGED <<status, registry, opened, permits, job, maintenance, storage, crashes, history>>

-----------------------------------------------------------------------------
(***************************************************************************)
(* The maintenance loop, which works outside the bridge.                   *)
(***************************************************************************)
Wake ==
  /\ status = "up" /\ maintenance = {}
  /\ maintenance' = {registry[n] : n \in Names} \ {None}
  /\ maintenance' # {}
  /\ \A i \in maintenance' : opened[i].generation < MaxGenerations
  /\ UNCHANGED <<status, registry, opened, call, waiting, permits, job, storage, crashes, history>>

(* DurableCollection::checkpoint: the next log is made, HEAD is swapped,   *)
(* the old log is removed, all by path.                                    *)
Checkpoint(i) ==
  LET n   == opened[i].name
      g   == opened[i].generation + 1
      dir == IF dirs[n] = None THEN NoDirectory ELSE dirs[n]
      log == IF g \in DOMAIN dir.wal THEN dir.wal[g] ELSE Len(logs) + 1
  IN /\ status = "up" /\ i \in maintenance
     /\ logs' = IF log > Len(logs) THEN Append(logs, <<>>) ELSE logs
     /\ dirs' = [dirs EXCEPT ![n] =
                   [dir EXCEPT !.head = [points |-> opened[i].points, generation |-> g],
                               !.wal = With(WithoutKey(@, g - 1), g, log)]]
     /\ opened' = [opened EXCEPT ![i].generation = g, ![i].log = log]
     /\ maintenance' = maintenance \ {i}
     /\ Touched(i)
     /\ UNCHANGED <<status, registry, call, waiting, permits, job, crashes, content, shared, cut>>

-----------------------------------------------------------------------------
(***************************************************************************)
(* Stops and starts.                                                       *)
(***************************************************************************)
Changing(n) == \E q \in Calls :
  call[q].at \in {"config", "read", "load", "insert", "remove"} /\ call[q].name = n

Crash ==
  /\ status = "up" /\ crashes < MaxCrashes
  /\ status' = "down"
  /\ crashes' = crashes + 1
  /\ registry' = [n \in Names |-> None]
  /\ opened' = <<>>
  /\ call' = [q \in Calls |-> IF call[q].at \in {"uncalled", "answered", "cancelled"}
                              THEN call[q] ELSE [at |-> "cut"]]
  /\ waiting' = <<>> /\ permits' = MaxInflight
  /\ job' = [q \in Calls |-> "none"]
  /\ maintenance' = {}
  /\ cut' = cut \cup {n \in Names : Changing(n)}
  /\ UNCHANGED <<storage, content, shared, stale>>

Stored == {n \in Names : dirs[n] # None}

(* recover_all gives up at the first directory without a config ...        *)
FailToStart ==
  /\ status = "down"
  /\ \E n \in Stored : dirs[n].config = None
  /\ status' = "failed"
  /\ UNCHANGED <<process, storage, crashes, history>>

(* ... and otherwise opens them all.                                       *)
Start ==
  LET order == SetToSeq(Stored)
      Log(i) == IF Generation(dirs[order[i]]) \in DOMAIN dirs[order[i]].wal
                THEN LogOf(dirs[order[i]]) ELSE Len(logs) + i
      Points(n) == Recovered(dirs[n], dirs[n].config)
  IN /\ status = "down"
     /\ \A n \in Stored : dirs[n].config # None
     /\ status' = "up"
     /\ opened' = [i \in DOMAIN order |->
                     [name |-> order[i], dim |-> dirs[order[i]].config,
                      points |-> Points(order[i]),
                      generation |-> Generation(dirs[order[i]]), log |-> Log(i)]]
     /\ registry' = [n \in Names |-> IF n \in Stored
                       THEN CHOOSE i \in DOMAIN order : order[i] = n ELSE None]
     /\ logs' = logs \o [i \in DOMAIN order |-> <<>>]
     /\ dirs' = [n \in Names |-> IF n \notin Stored THEN None
                   ELSE [dirs[n] EXCEPT !.wal = With(@, Generation(dirs[n]),
                           Log(CHOOSE i \in DOMAIN order : order[i] = n))]]
     /\ content' = [n \in Names |-> IF n \notin cut \cup shared \cup stale THEN content[n]
                       ELSE IF n \in Stored THEN Points(n) ELSE None]
     /\ UNCHANGED <<call, waiting, permits, job, maintenance, crashes, shared, stale, cut>>

-----------------------------------------------------------------------------

Create(q)  == CheckFree(q) \/ OpenDirectory(q) \/ WriteConfigIfAbsent(q) \/ ReadLog(q)
              \/ Load(q) \/ InsertNew(q)
Drop(q)    == Unregister(q) \/ RemoveFile(q) \/ RemoveBlocked(q)
Request(q) == Lookup(q) \/ Spawn(q) \/ Receive(q)
Pool(q)    == StartJob(q) \/ \E what \in Results : EndJob(q, what)
Maintain   == Wake \/ \E i \in maintenance : Checkpoint(i)

Next ==
  \/ \E q \in Calls, op \in Operations, n \in Names, dim \in Dims : Invoke(q, op, n, dim)
  \/ \E q \in Calls : Create(q) \/ Drop(q) \/ Request(q) \/ Pool(q) \/ Cancel(q)
  \/ Maintain
  \/ Crash \/ FailToStart \/ Start

(* Handlers and pool threads keep running and the loop keeps ticking;      *)
(* nobody has to call, hang up, stop the process or start it.              *)
Fairness ==
  /\ \A q \in Calls : WF_vars(Create(q) \/ Drop(q) \/ Request(q)) /\ WF_vars(Pool(q))
  /\ WF_vars(Maintain)

Spec == Init /\ [][Next]_vars /\ Fairness

-----------------------------------------------------------------------------

InFlight == {q \in Calls : job[q] \in {"spawned", "running"}}

(* Types, and the backpressure of the bridge: a permit is out for every    *)
(* job in flight and for nothing else, whoever hangs up and whatever       *)
(* panics (blocking.rs:53-73).                                             *)
TypeOK ==
  /\ status \in {"up", "down", "failed"}
  /\ \A n \in Names : registry[n] # None => opened[registry[n]].name = n
  /\ permits \in 0 .. MaxInflight /\ permits + Cardinality(InFlight) = MaxInflight
  /\ \A q \in Calls : call[q].at = "acquire" <=> q \in ToSet(waiting)
  /\ crashes \in 0 .. MaxCrashes
  /\ \A n \in Names : registry[n] # None => content[n] # None

Settled(n) == ~Changing(n) /\ n \notin shared \cup stale \cup cut

(* What a name answers is what was put into it since its last drop, and a  *)
(* restart would answer the same: a create that returned outlives a stop,  *)
(* a dropped point never comes back.  It holds unless create opened a      *)
(* directory someone else was still using, or the collection was           *)
(* checkpointed or committed after its drop (service.rs:137-162, 372-381,  *)
(* lib.rs:74-88).                                                          *)
ServesExactly ==
  status = "up" => \A n \in Names : Settled(n) =>
    IF registry[n] = None
    THEN dirs[n] = None /\ content[n] = None
    ELSE /\ dirs[n] # None /\ dirs[n].config = opened[registry[n]].dim
         /\ opened[registry[n]].points = content[n]
         /\ Recovered(dirs[n], dirs[n].config) = content[n]

(* recover_all opens every collection or none: the process starts again,   *)
(* with every collection that was created and not dropped, unless a stop   *)
(* cut a create or a drop short, or the same two races have happened.      *)
StartsAgain ==
  /\ status = "failed" => cut \cup shared \cup stale # {}
  /\ status = "up" => \A n \in Stored : dirs[n].config = None =>
       Changing(n) \/ n \in shared \cup stale

(* Every call that is not given up is answered: backpressure delays calls  *)
(* and never loses one, and no permit is lost to panics or hang-ups.       *)
Answered == \A q \in Calls :
  call[q].at # "uncalled" ~> call[q].at \in {"answered", "cancelled", "cut"}
=============================================================================
