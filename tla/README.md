# vecvec in TLA+

vecvec is an embedded vector database with a server: vectors with payloads are
appended to a collection, deleted by tombstone, searched through HNSW indexes,
committed into a git-like line of versions that stay searchable, and made durable by
a write-ahead log and checkpoints. This directory models it from the log to the user
interface: what is kept, what a crash or a race may take, what a version shows, what a
search answers, and what server and clients make of it. Paths below are relative to
`src/crates/vecvec-core/src/` unless they start with another crate's name.

## 1. Inventory

| Part | State | Operations | What makes it correct |
|---|---|---|---|
| Version store, `version/store.rs` | manifests by version id, HEAD, branches, tags, next id | commit, set_tag, set_branch, plan_gc/gc, resolve, diff | history is a line, manifests never change, ids are never given out twice, GC reports exactly the unreferenced segments |
| Collection, `collection.rs` | appendable segment, working segment set, master registry of segments, tombstones, payloads, version store, two id allocators | insert, delete, seal, commit, restore, compact, gc, search, search_at, scroll, recommend, diff | versions are snapshots; sealing and compaction are invisible; live count and diffs are exact; no lock cycle |
| Durable collection, `durable.rs` | the collection, the active log and its generation, set of segments known to be on disk; on disk: `wal.N.log`, `HEAD`, `versions`, `segments/*.seg` | open, write_batch, delete, commit, restore, tag, branch, checkpoint, compact, gc, export, import | every acked operation survives a crash; the directory can always be opened; ids are never reused |
| Log and atomic files, `persist/` | bytes of files | append, flush, read_all, write_atomic, read_framed | a torn tail is dropped, never an acked record; a file is the old or the new one |
| Triggers, `version/policy.rs`, `durable.rs:111` | write counter, last commit and compaction time | record_writes, should_commit, note_commit, should_compact | commits lag by a bound, nothing due is forgotten |
| HNSW index, `index/hnsw/` | layered graph, pool of visited lists | parallel build, search | bounds on links, entry on top, no lost edge, full answers |
| Search, `index/mod.rs`, `segment/`, `payload.rs`, `quantization/`, `query.rs` | none | top-k, filters, merge, rescoring, fusion | the answers are the best live rows that pass, whatever the layout |
| Server, `vecvec-server` (`service.rs`, `registry.rs`, `blocking.rs`, `lib.rs`) | registry of collections, permits and threads of the bridge, maintenance timer, directories | create, drop, every request, recover_all | served is what was acked, the server starts again, calls are answered |
| Front ends, `rest.rs`, `grpc.rs`, `vecvec-cli` | none | translate requests, outcomes and errors | the same service behind each |
| Explorer, `src/vvui/src/store.ts` | selected collection and version, points, diff, highlight, loading flag | init, select, load, write, query | it shows the collection and version it names |
| Client crate, `sdk/`, `demos/`, `deploy/` | none | | placeholder, generated stubs, examples |

Interactions. The explorer, the command line and other clients send requests to the REST
and gRPC front ends, which call the service. It takes the collection from the registry and
runs the work on the bridge's pool under a permit. A write takes the log mutex, appends and
fsyncs, then changes the collection; a commit, restore, tag, branch or GC changes the
collection's version store and then calls `persist_versions`, without the log mutex. The
maintenance loop compacts and checkpoints beside the requests. Readers take no log lock: they
read the appendable under a read lock, the working set through an atomically swapped
pointer, and old versions through the registry of segments.

Hard behaviours: a stop between any two file operations; a file operation that fails and
leaves the process running; ids that come back after recovery; GC against files still
named somewhere; seals, compactions and checkpoints beside readers and each other; two
locks per trigger decision; lock order; create and drop racing for a directory; answers that
arrive out of order. `PROJECT.json` lists each hazard at its line with the properties that
would catch it.

## 2. Modules

| Module | Models | How it corresponds to the code |
|---|---|---|
| `VersionOps` | version store as a value | one operator per `VersionStore` method; also used for the contents of the file `versions` |
| `VersionStore` | version store as a machine | each method runs under the `versions` mutex, so each is one step; the caller's segments and tombstones are arbitrary |
| `CollectionOps` | `Collection` as a value | one operator per call made with no other call running |
| `Durable` | `DurableCollection` and its directory | calls are split at every effect on the directory; `task` is what is left of the running call; `Crash` may come between any two effects |
| `DurableHistory` | `Durable` with history variables | what each version held when committed, which segment ids a crash handed back |
| `DurableFaults` | `DurableHistory` with failing file operations | one action per place where `?` leaves a call, with what the failed effect left behind |
| `DurableConc` | `DurableCollection` used by several threads | extends `CollectionOps`; each call is split where another thread can run: between two locks, swaps or files. `owner` is the thread in the log mutex; `races` counts what each known window has cost |
| `Triggers` | auto-commit and auto-compaction | the lock sections of `write_batch` after its writes and of the maintenance loop; the collection is how many writes are uncommitted and how many segments it has |
| `Server` | `Service`, `Registry`, `BlockingBridge`, maintenance, directories | one action per registry access, file operation, permit, start and end of a job; `Crash` stops the process, `Start` is `recover_all` |
| `Hnsw` | `ConcurrentBuilder`, `GraphLayers`, `search_layer` | one step per locked list; with one worker it is the sequential builder |
| `Visited` | `VisitedPool`, `VisitedList` | lists taken, marked, put back; generations wrap |
| `Search` | the read path | pure operators, one per function |
| `FrontEnds` | `rest.rs`, `grpc.rs`, CLI commands | a request becomes a call or a refusal, an outcome a status |
| `Locks` | the collection's locks | a call is the sequence of locks it asks for, with how long it keeps each; a waiting writer keeps readers out |
| `Explorer` | `store.ts`, `api.ts` | each asynchronous action split at its awaits; the server answers any request in flight, or it fails |
| `AckedStore`, `Timeline` | promises, no implementation | the abstract specifications `Durable` is checked to implement |
| `VersionStoreProofs`, `DurableProofs`, `FaultsProofs`, `DurableConcProofs`, `TriggersProofs`, `AlgorithmsProofs`, `ServerProofs`, `ExplorerProofs` | theorems, section 4 | each extends the module it is about; `AlgorithmsProofs` all of `Visited`, `Locks` and `FrontEnds`, `FaultsProofs` also `DurableProofs` |
| `MCVersionStore`, `MCDurable`, `MCDurableConc`, `MCTriggers`, `MCHnsw` | constants for TLC | |
| `MCAlgorithms` | inputs for `Search` and the steps of `Visited`, `FrontEnds` and `Locks`, one part per behaviour | |

Operators commented as a *faulty variant* are not part of the model. They are plausible
bugs of the operation defined after them; putting one in its place makes TLC report the
property named in `PROJECT.json` ("mutants").

Abstractions.
* A row is its global id. Ids are allocated once, so an id stands for one vector; scores,
  filters and the index structure do not change which rows are live. In `Search` a row has a
  score and a payload as well, in `Hnsw` a distance to every other.
* `working` is a set of segments; the code keeps a vector. `Search` keeps the order and
  shows that it does not matter (`CompactionInvisible`, `ReadsComplete`). Segments carry
  their rows because readers hold them by `Arc`.
* Every point has a payload, so that losing one is visible.
* In `Durable`, `write_batch`'s explicit commit and the auto-commit that fires after it are one
  flag: with one call at a time they do the same. `DurableConc` and `Triggers` tell them
  apart.
* A log is a sequence of records. Of the records fsync has not covered a stop keeps any
  prefix; framing and checksums turn a half-written record into one that ends the log.
* `FsyncMode::Sync` only. Records that survive a stop are durable from then on. The
  creation of `wal.0.log` is assumed durable (the code does not fsync its directory).
* In `Durable` and its extensions one call runs at a time; a crash or a fault may hit any
  point of it. In `DurableConc` many run and none fails; a stop there is not a step but
  the question whether `open` would succeed (`Opens`: every segment that HEAD or `versions` names
  has its file) and what it would then rebuild (`Reopened`).
* In `Server` a write, a commit and a checkpoint are single steps on a set of points: what
  happens inside them is the subject of the modules above.
* Of the server, `Explorer` keeps what its collections' answers depend on: revisions and versions. In
  `FrontEnds` a request is well-formed JSON or protobuf; types and values may be wrong.
* Floating-point scores are integers; NaN and rounding are left out.

## 3. Runs

No run has a state constraint; the bounds are guards in the modules.

**Passing.**
* `versions` (145 000 states): all operations, a tag and a branch, two segments, two
  deletion vectors, four versions, all rules with `keep_last` in {None, 0, 1, 2}. Four versions
  give GC something to keep and to drop on both sides of a pointer.
* `crash` (1 034 000 states): writes and deletes in batches of up to two, commits,
  checkpoints and compactions, one stop. Invariants such as `AckedSurvives` are about
  *every* state in which a second stop could come: they compare memory with what `open`
  would rebuild. Two ids, three segments and two log generations are the least with
  which a compaction, a checkpoint and a write behind it fit into one behaviour.
  `ImplementsAckedStore` says the same as a refinement: the collection behaves as a set
  that a write changes when it is acked, and a crash by at most a prefix of the one write
  in flight. `LenExact` says `len()`, a difference of two counts, counts live points.
* `timeline` (505 000 states): no crash, with restore, tags, branches and GC. The refinement
  `ImplementsTimeline`: versions are snapshots; a restore brings one back as a new version;
  GC forgets whole versions, never the newest. It can hold under GC only because every
  segment a version names stays registered, which `ReferencedRegistered` states.
* `faults` (788 000 states): one failing file operation at every place one can fail, and one
  stop, with commits and a compaction. `CanAlwaysOpen` holds whatever fails; acked writes
  survive (`AckedDespiteCleanFaults`) unless half a record stayed in the log or HEAD failed
  after its rename. `VersionsIntact`, over the history variables of `DurableHistory`, says that
  every version reads back as it was committed, and after a reopen as well, provided no segment id of
  it was handed back, and that `diff` tells two versions apart by the points they held. `diff`
  reads only the id ranges of segments, so it also counts ids that a failed write took
  between two rows (`doubtful`). Three ids are the least with such a gap; two versions
  and one checkpoint are enough for every action to fail with a write, a commit, a retry and a stop
  behind it.
* `conc` (2 375 000 states): two clients with a call each (write, write with commit,
  delete, commit), a maintenance thread that compacts or checkpoints, a reader, and two segments
  found at opening, so that there is something to merge. One call per thread is enough:
  each window is a pair of calls, and the third thread sees or worsens it. The properties
  say what a race may cost, and nothing else may be lost: a row on the move between
  appendable and segment (`Moving`), a segment sealed while a compaction merged
  (`overwritten`), a delete that looked for a moving row (`missed`), rows a checkpoint did not
  fold because they moved (`unfolded`), a versions file overwritten by an older copy
  (`clobbered`). `CommitCovers` adds for the commit a batch asks for, which keeps the log mutex, that
  its version shows exactly the batch and what was written before it, with the same exceptions.
  `DiskExact` speaks of every moment at which `open` would succeed; `NamedFilesComing` says when
  it would not: only while one commit has copied another's version to the file and that one is
  about to write the segments. Batches are of one row or one delete here (`MaxBatch = 1`), so whether
  readers see a batch as a whole is not asked; they need not (known disagreements, below).
* `trigger` (438 000 states): two writers, batches of up to two, five pending writes, a clock
  that is over or not, three commit policies and two compaction policies. Two writers are what it takes
  for one `note_commit` to undo the other's count. `StalenessBound` is the doc's "once
  this many writes have accumulated" with the price of the race; `WritesGetCommitted` and
  `CompactionHappens` are liveness.
* `server` (290 000 states): two calls on one name out of create with either of two dimensions, drop, upsert, commit
  and query, one pool thread, one permit, one stop. Two calls make every race over the
  directory between the registry check and the files; one permit makes the second call
  wait for the first's. `ServesExactly`: what a registered collection answers is what was acked to
  it. `StartsAgain`: after any stop recovery succeeds, unless it hit a directory half made or half
  removed. `Answered`: every call ends, even after a panic or a cancelled caller ahead of it.
* `hnsw` (596 000 states): five points and three workers, on a line, on a folded line and
  compared by dot product; flat levels, alternating ones and three points that race to become the
  entry. Base lists of two and beams of two are short enough for pruning and eviction
  to happen with five points. Queries with tombstones, filters and coarse ranks follow.
* `algos` (1 517 000 states): all collections of four rows in several layouts over segments, filters,
  k and partly reached graphs; coarse against exact distances; three lists of three ids; two
  visited lists and four generations (`GenerationCount`, 2^32 in the code, a `u32`), so that the counter wraps; every request through
  REST, gRPC and CLI after every sequence that fits three points and two versions, enough for each
  call to succeed and to fail for each of its reasons; four threads on
  the locks, the least for a circle of two readers and the two writers queued between them.
* `ui` (631 000 states): three overlapping actions, two collections, one failure. Two loads and
  something that invalidates them need three. `ShowsWhatItSays` (points, diff and
  highlights belong to what is selected) holds under the conditions its comment gives, which name the overlaps `store.ts` does not guard
  against.

Deadlock is checked in the other runs: `Read` keeps an open collection live, so a deadlock in
the `Durable` family is a directory that cannot be opened. `conc` and `server` bound
the calls and stop when all are made, and `algos` contains the lock circle described below:
these three have `CHECK_DEADLOCK FALSE`, and `Answered` and `OneInversion` ask the
question instead.

**Violations**: the code disagrees with what its documentation says. Each is one property,
described with its lines in `PROJECT.json` ("findings").

| Run | What TLC shows |
|---|---|
| `segment_reuse` | commit, stop, reopen: the segment id of the version is allocated again and the version's content changes |
| `acked_race` | a checkpoint runs while a commit's seal holds rows that are neither in the appendable nor published: HEAD is written without them and the log that has them is retired; until the rows are folded again a stop, after which `open` succeeds, loses them |

**Known disagreements without a run.** They are explained by a few lines of code; the passing
properties exclude exactly them, by a condition or by the operations a run has.
* `gc` without `keep_tagged` or `keep_branch_heads` drops versions that tags or branches
  still name; `search_at` and `scroll` then panic on `expect("resolved version exists")`
  (`collection.rs:325`, `:495`). The theorem `ResolveCorrect` has the condition.
* A stop while a batch is logged keeps a prefix of it (`durable.rs:352`; the comment at 320
  calls the batch indivisible). `ImplementsAckedStore` allows exactly a prefix.
* Nor is a batch indivisible to readers, as the same comment says: its ops are applied one at a time under
  the log mutex (`durable.rs:369`), which readers and the seals of other commits do not take, so a
  search or a version may show part of one.
* The commit a batch asks for "reflects exactly this batch" (`durable.rs:327`, `:381`), because nobody else
  writes while it holds the log mutex. But an auto-commit or a `commit()` seals without that
  mutex: if its seal has taken the batch's rows from the appendable (`collection.rs:351`) and not yet
  published the segment (`:363`) when the batch's commit reads the working set, the version lacks them.
  `CommitCovers` excepts exactly the rows on the move at that read (`away`), the batch's own included.
* Two commits that overlap leave a moment in which the directory cannot be opened. A version is in
  the version store before its commit writes the segments (`durable.rs:423`), and the other's
  `persist_versions` may copy it to the file meanwhile; after a stop there `open` fails on the missing
  segment (`durable.rs:208`, `:219`). `NamedFilesComing` says that there is no other such moment. In
  `Server` a commit is one step, so `StartsAgain` does not see it.
* After checkpoint, commit and `gc`, HEAD lists removed segment files and `open` fails
  (`durable.rs:531`). `crash` has no `gc`; the server does not call it.
* A restore is undone by a restart, which rebuilds the working set from HEAD and the log
  (`durable.rs:462`). `crash` has no restore.
* `diff` counts ids in a gap between rows of a segment (`version/store.rs:240`): ids that failed
  writes took, which `VersionsIntact` allows, and after a restore and a compaction ids of
  discarded rows; `VersionsIntact` is checked without restore.
* An append that failed half-way hides later acked writes from recovery (`wal.rs:100`), and
  when HEAD's directory fsync fails after the rename, later acked writes go to a log HEAD
  does not name (`atomic.rs:121`): the two conditions of `AckedDespiteCleanFaults`.
* A scroll of a version keeps `payloads` and asks for `all_segments`; `search_at` does the
  opposite (`collection.rs:489`, `:328`). With a writer queued on each the four block for
  ever: the exception of `OneInversion`.
* A checkpoint, or a job that still has the collection, writes into a directory that `drop`
  has removed and makes it again without a config, and two creates of one name can share
  a directory; the conditions of `ServesExactly` and `StartsAgain` name these.
* In the explorer an older load that ends later shows its own points, and a query answered
  after a switch highlights ids of another collection.

## 4. Proofs

Every proof module holds for all values of the constants that satisfy the named assumptions
of the module it extends; TLC evaluates these on the instances. Most assumptions only keep
kinds apart (`None` is no integer, `Idle` no call, bounds are naturals). Five proofs also
restrict the operations or threads, in a definition their theorems name as hypothesis, which
the constants of the matching run satisfy:

| Hypothesis | Says | Why it is needed |
|---|---|---|
| `KeepsHistory` | no restore, no gc; crashes anywhere | both break recovery in the code (section 3): gc removes files HEAD lists, a restart undoes a restore |
| `KeepsRunning` | no crash; restore and gc included | a reopened collection gives segment ids of versions out again (`segment_reuse`) |
| `OneMaintainer` | one maintenance thread | compaction loads the working set and replaces it later. With two maintenance threads, three calls and six segments TLC finds a compaction that brings back what the other merged away, and `MemoryExact` fails; the server runs one loop |
| rules keep pointers (`ResolveCorrect`) | gc with `keep_tagged` and `keep_branch_heads` | without them a tag may name a dropped version (section 3) |

**`VersionStoreProofs`**
* `TypeCorrect`: `TypeOK`, inductive by itself.
* `HistoryCorrect`: `HeadIsNewest`, `LinearHistory` and `PointersBelowNext`. None is inductive
  alone: that the new manifest's parent is the previous id needs HEAD to be the newest
  version, that HEAD stays retained needs `retained_versions` to contain it
  (`CollectEffect`), and a commit adds a version below `next` only because
  `next` grows past it. Their conjunction with `TypeOK` is inductive.
* `ManifestsNeverChange`: from `HistoryCorrect`, since `next` is no retained id.
* `GcReportCorrect`: `plan_gc`'s two loops equal the difference of what is referenced
  before and after, in every typed state.
* `GcKeepsWhatItPromises`: the `keep_last` newest versions survive a gc, by counting the
  versions above the one that would be dropped.
* `ResolveCorrect`: under rules that keep pointers, pointers name retained versions, and so
  does HEAD.

**`DurableProofs`** (`KeepsHistory`). The properties speak of what `open` would rebuild if
the machine stopped now, and of every position of the running call, so none of them is
inductive. `IInv` says instead what the log is to memory: `Log` is the log of HEAD's
generation, its first `Done` records have been applied and the rest are the batch in flight.
* Its parts: the shape of memory and files; the call in progress (which effects are still to
  come and what they will write); the rows in memory are those of HEAD's segments and of the
  `Done` records, the tombstones likewise (`UpsertedUpTo`, `TombstonedUpTo`, which follow the
  log's order because a delete only marks what is present); ids and segment ids in use are
  below their allocators; a payload for every row; every named segment has its file and is
  registered.
* Seal, commit and compaction all move rows between appendable and segments and change
  nothing else (`Rearranged`), so that one lemma (`RearrangeStep`) carries the invariant
  through each. The hard steps are `SwapHead`, where the base changes and
  the log is replaced by an empty one, and `Crash`, where any prefix of the unsynced
  records survives (`SurvivingPrefix`).
* From `IInv` follow `AckedWritesSurvive`, `OpenFindsItsFiles`, `IdsStayUnique`, `PayloadsSurvive`
  and `NamedSegmentsRegistered`.
* `DurableImplementsAckedStore`: under the mapping `Durable` gives, logging a batch starts the
  abstract write, applying it ends it, a crash takes the part of the batch whose records
  survived (`RefinedCrash`), and every other effect is a stutter because `Rearranged`
  leaves the live ids alone (`RearrangedLive`).

**`DurableProofs`, second part** (`KeepsRunning`). The invariant is about memory: ids that any row, tombstone or
version holds are below the allocator, the upserts in flight are held by nothing
(`FreshBatch`), HEAD is the newest version, what a version names is registered. `FreshBatch` is
what makes versions snapshots: a row added later cannot be one an old version shows.
* `ReferencesStayRegistered`: gc drops a segment from the registry only when neither the
  working set nor a retained version names it.
* `DurableImplementsTimeline`: an applied batch, a delete, a commit, a restore, a gc and a pointer
  map to the abstract step of that name, everything that touches only files to a stutter.

**`FaultsProofs`** (`KeepsHistory`). With effects that fail, the log may hold records nobody
applied, half a record, or belong to a generation HEAD no longer names. `FInv` keeps the parts of
`IInv` about files and the running call, and replaces the rest:
* `GenerationsInv`: writes go to HEAD's log or to the one before it, and in the second case
  HEAD's log is empty, so that the next open finds nothing to replay.
* `HeadIdsInv`, `LogIdsInv`, `MemoryIdsInv`, `AllocatorInv`: every id below the allocator is a
  row's, or in `doubtful`; and so it stays whatever prefix of the log a stop leaves, because
  each upsert in the log has the ids before it earlier in the log, in HEAD or in doubt. This is
  what `diff`, which reads ranges, needs.
* `SegmentsInv`: what the versions file names is in memory with the same manifest; a segment id is
  below the allocator or was handed back (`tainted`); and a file in `persisted` holds the registered
  rows unless its id was handed back. A write marked as done before it succeeds breaks this.
* `FrozenInv`: what each version held when committed is what its manifest's segments hold, and what its
  ranges cover up to ids in doubt.
* `CleanInv`: after clean faults only, memory and HEAD with the log differ in doubtful ids, and
  records not yet fsynced belong to failed writes or to the batch in flight.

`Crash` goes from the memory half of these to the file half, `Open` back: what `open` reads of a
log is a prefix without torn records (`ValidPrefix`), and the allocator it rebuilds lies above
ids that are all accounted for (`FRecoveredIds`). From `FInv` follow `OpensWhateverFails`,
`AckedSurvivesCleanFaults` and `VersionsStayIntact`, for any number of faults and stops.

**`DurableConcProofs`** (`OneMaintainer`). The invariant says where each acked row is: appendable,
working segment, on the move in a seal (`Moving`), or in a segment a compaction
overwrote; and what log, HEAD and a checkpoint in progress know of it. Each thread's label
comes with what it has read so far and what must still be true of it (`ThreadInv`). While a batch's own
commit runs, the thread keeps the mutex (`Explicit`), so memory holds nothing but known rows
and, while a batch is applied, rows of that batch (`KnownInv`): what makes its version exact. For `Opens`
the invariant also follows which files HEAD and the versions name.
A step changes one thread and part of the shared state; `OthersKeep` says once for which
changes (`Grows`) the other threads' parts survive, and a step lemma per lock section
shows that it makes no other. From it follow the six properties the run `conc` checks:
`MemoryStaysExact`, `DiskStaysExact`, `CommitsCover`, `SearchesAreExact`, `NamedFilesCome`,
`ReturnedVersionsAreStored`.

**`TriggersProofs`**. `CommitsInTime` is an account: unless a commit is due, the uncommitted
writes are those applied and not yet counted (`Uncounted`), those counted (`Counted`), and those a
late `note_commit` took off the counter though they came after its commit (`Forgotten`), at
most one `Slack` for each writer through with noting. Each of the three is bounded,
and a step moves writes from one to the next. `TypeCorrect` is the ranges this counts in.

**`AlgorithmsProofs`**. `ListsAreExact` is about lists in use, but what a list shows after the
next `get` depends on what the pool holds. The strengthening is that no list has a stamp from its own
future (`NoFutureStamp`), which the clearing at the wrap restores.

Calls other than `search_at` take locks along one order (`PayloadsFirst`), calls
other than `scroll_at` along another (`SegmentsFirst`). A circle without both kinds
would follow one order; its thread that waits for the highest lock would wait for a thread
that keeps it and waits for a lock higher still (`NoCircleInOrder`). No induction over
the length of the circle is needed, so the theorem (`LocksInOrder`) is for any number of threads.

`FrontEndsAgree` needs no invariant: for every content of a collection the two front ends make the
same call of the same request (`CallsAgree`), and every outcome of the service (`ServeOutcome`) is one
for which the two status tables have parallel entries.

**`ServerProofs`**. `ServesExactly` looks at a name between two changes; what makes it true is
who may touch the name's directory meanwhile. The invariant has these parts:
* `OwnInv`: while the process runs, the directory of a name that no race has touched
  belongs to the one create that found it missing, to the one drop that took it out of the
  registry, or to the registered instance; else there is none. `MadeBy` is how far a
  create has got, `Served` that instance, log, HEAD and acked content agree.
* `LogUsers` and `LogInv`: no two names share a log, and into a log that such a directory has only
  the registered instance or the create about to register writes, or nobody
  (`WritesItsOwn`, for a running job). A dropped collection's late jobs therefore write into a log that is
  gone, or make the name `stale`.
* `Refs`: whoever holds an instance has one of the name he asked for, and the one a create
  has still to register is his alone.
* `BridgeInv` and `JobsInv`: permits and jobs in flight together are `MaxInflight`, who
  waits for a permit is queued once; a process that is down has no jobs.
* `DownInv`: what a stopped process leaves is what the next start can open. `Crash` goes from
  `OwnInv` to it, `cut` excepted, and `Start` back.

From it follow `TypeCorrect`, `ServesWhatWasAcked` and `StartsAfterStops`, for any number of
names, calls, threads, permits and stops. It assumes only that names are finitely many, that the bound
on log generations leaves room for one checkpoint, and that `None` is none of the data.

**`ExplorerProofs`**. `ShowsWhatItSays` speaks of the points once the load begun last has ended. The
invariant follows that load through its requests: while it is under way it is of the selected
collection and, from its scroll on, of the selected version, and the page it has fetched is no older
than the last acked write (`Timely`). Whatever invalidates this (a selection, another version, a
change) begins a load, after which no earlier one counts (`BeginStep`). A page is fresh because the
server's revision never goes back (`EffectForward`) and every acked write is below it (`Acked`).
For highlights, queries under way are about the selected collection unless `crossed`
(`OnTopic`). It holds for any number of actions, collections and failures.

**Model-checked only.**
* `LenExact` (a sum over segments), what the recursive operators of `Search` and `Hnsw` compute
  (`SearchSound`, `ReadsComplete`, `CompactionInvisible`, `RankingsKept`, `WellFormed`,
  `EntryIsTop`, `LosesNoEdge`, `SearchFills`): induction over data, which the installed provers cannot do.
* Everything with fairness: `WritesGetCommitted`, `CompactionHappens`, `Answered` and the
  explorer's liveness.

## 5. Fairness and liveness

* `Triggers`: weak fairness of the rest of a batch once begun (it runs on a pool thread and takes
  uncontended or fair locks), of the maintenance loop (a tokio interval) and of the clock. Nobody
  has to write: `WritesGetCommitted` therefore assumes that batches keep coming, which the
  interval policy needs, since it is looked at only when one is written.
* `Server`: weak fairness of each call's handler, of the pool for each job (threads take spawned jobs and
  jobs end), of the maintenance loop. A stopped process need not start again. The bridge's semaphore
  is fair, which is in the model as a queue; callers need not cancel and nothing has to crash.
* `Explorer`: weak fairness of the network, which answers or fails, and of the code after an
  `await`. The user is under no obligation.
* The other modules state safety only.

## 6. Plan

Done: version store, collection, durable collection with crashes, faults, history and
concurrency; abstract specifications; triggers; server and bridge; HNSW; search; front
ends; locks; explorer; the proofs of section 4.

Left, in this order:
1. `FsyncMode::Async` in `Durable`: acks before the fsync, and commits that persist segments
   whose records are not on disk.
2. restore and gc as steps in `DurableConc` (commit against GC, restore against writers).

**Not modelled**: distance kernels, int8 encoding and recall (numeric or statistical); segment
encoding (pure serialisation with round-trip tests); export and import (whole-directory file
copies by another process); JSON and protobuf layout, CORS, tonic and axum themselves; the
explorer's components; `vecvec-client` (a placeholder), `sdk/`, `demos/`, `deploy/`.
