# A TLA+ model of the egglog engine

egglog runs rules over a database of functions and keeps that database closed
under equality. This directory models the part of the repository that carries
this logic: the concurrency library, the union-finds, the tables with their
indexes, the rebuild loop with containers, semi-naive evaluation and its
scheduler, extraction, and the driver of programs. All paths below are relative
to `src/egglog/` unless they start with `src/`.

* [The system](#the-system): inventory of the parts.
* [The models](#the-models): which module stands for which code, and how.
* [The runs](#the-runs): what TLC checks, with which bounds.
* [The proofs](#the-proofs): what TLAPS proves, and from what.
* [Disagreements with the source](#disagreements-with-the-source).
* [What is not modelled](#what-is-not-modelled) and [the plan](#the-plan).

`PROJECT.json` holds the same facts in machine-readable form: the lines each
definition stands for, the hazards each property is aimed at, and for each
property a mutant of the model that violates it.

## The system

From the bottom up:

| part | state it keeps | operations | what makes it hard | what makes it correct |
|---|---|---|---|---|
| notification (`concurrency/src/notification.rs`) | a flag, a mutex, a condition variable | wait, wait_timeout, notify | wake-up lost between test and sleep, spurious wake-ups, timeout racing notify | every waiter returns; the answer is right |
| read-optimized lock (`concurrency/src/lib.rs`) | an atomically swapped reference to a token | read, lock, drops of their guards | token addresses are reused; readers of the old token are still inside after the swap | a writer is alone; whoever waits is notified |
| vectors over that lock (`concurrent_vec.rs`, `parallel_writer.rs`, `notification_list.rs`, `bitset.rs`, `resettable_oncelock.rs`) | a vector, an atomic length or flags | push, reserve, write, notify, reset | unsynchronized writes to ranges claimed to be disjoint; a head loaded before the lock is taken | nothing unwritten is read, nothing written is lost, every notified id is reported |
| thread pool (`concurrency/src/threadpool/mod.rs`) | a shared queue, one deque per worker, scopes with counters | scope, spawn, spawn_local, wait, drop | closures that borrow the scope's frame; nested waits; workers that help, stall, donate and hire; panics | a scope outlives its jobs; every scope returns; panics arrive |
| concurrent union-find (`union-find/src/concurrent/`) | a growable array of atomic links | find, same_set, merge, reset, deep_copy | lock-free path splitting and linking over relaxed or acquire/release accesses | links lead to the representative; each displaced id is reported once; no answer is behind what its caller knew |
| counters and intern table (`core-relations/src/free_join/mod.rs`, `core-relations/src/common.rs`) | a high-water mark with a free list of ranges; shards over one vector | reserve, hand out, give back, clone; intern | ranges given back are taken by others; shards push to one vector that grows | no id twice; interning is a bijection |
| union-find table (`core-relations/src/uf/mod.rs`) | serial links, rows of displaced ids by timestamp, a lookup table | stage, merge (serial or parallel), clear, fast_subset, updates_since | unions of one merge span timestamps; groups run in parallel | an id is recorded when it is first displaced |
| sorted-writes table (`core-relations/src/table/mod.rs`) | rows by timestamp, sharded hash table, timestamp index, queues | stage, remove, merge (serial or parallel), compact, clear, subsets, versions | shards append batches concurrently; compaction moves rows under readers' cursors | the rows are what was staged; ranges and cursors are exact |
| hash indexes (`core-relations/src/hash_index/mod.rs`, `core-relations/src/free_join/mod.rs`) | row lists in a buffer with free lists, a version, a catalog | look up, refresh, merge, clear, clone | several readers refresh; tables change, are cleared and compacted underneath | a reader sees every live row with its key |
| rebuild (`egglog-bridge/src/lib.rs`, `core-relations/src/table/rebuild.rs`, `core-relations/src/free_join/mod.rs`) | the loop, one cursor per table | run_iteration, deferred iterations, rebuild_now, apply_rebuild, merge_all | rewriting makes unions that make more rewriting; two ways to find the rows | rules see the congruence closure; the loop ends |
| containers (`core-relations/src/containers/mod.rs`) | three maps | intern, rebuild | interning races; rebuilding changes containers under rows that mention their ids | equal containers have one id; changed rows count as new |
| rules (`egglog-bridge/src/lib.rs`, `egglog-bridge/src/rule.rs`) | the time of each row's last change and of each rule's last run | run_rules, with or without rebuild, commands | rows are merged, restamped and rebuilt between runs; actions panic | no match is missed |
| schedulers (`src/scheduler.rs`, `src/egglog-experimental/src/scheduling.rs`) | matches held back, bans, limits | step, can_stop, push, pop | matches outlive unions, clones and panics | no match is dropped; stopping means saturated |
| queries (`core-relations/src/{query.rs,free_join}`) | plans, tries | planning, joining | adaptive orders over cached indexes | the join is the join |
| extraction (`src/extract.rs`) | costs, ranks, dirty rows, parent edges | sweep, choose, build | zero costs and cyclic classes; sweeps that update behind their cursor | cheapest terms, which can be built |
| driver (`src/lib.rs`, `src/process_program.rs`, `src/typechecking.rs`) | signatures, functions, globals, a batch of prepared actions and its cache, pushed e-graphs | commands | an error leaves behind what was done before it; cached metadata outlives declarations | batching cannot be observed; what typechecks can be used |
| around it (`src/egglog-experimental`, `src/slotted-reference`, `src/egraph-isomorphism`, `src/semantics`, `src/benchmarking`, ...) | | | | |

How they interact. The driver turns a command into rules and actions of the
bridge. A thread that runs rules stages rows in buffers of the tables; dropping
a buffer moves its rows to the table's queues and puts the table on a
notification list. `merge_all`, with the database to itself, merges the notified
tables until none has anything staged; a merge may run the table's merge
function, which can stage unions and rows in other tables, and may split its
work over the thread pool, whose tasks append through `ParallelVecWriter`. Cached
indexes of the tables that changed are reset and refreshed by the next reader.
If the union-find table has grown, `rebuild` rebuilds containers, lets every
table rewrite the rows that mention displaced ids and merges again, until a
round changes nothing. The timestamp counter is advanced only between merges,
when nothing is staged, and semi-naive evaluation compares it with the time of
each rule's last run. The concurrent union-find is a library of its own; the
table uses the scoped form of the serial one, whose parallel phase runs the same
`find` and `merge` code over relaxed accesses.

## The models

### ConcurrentUnionFind, UnionFindSpec

One step per load and compare-exchange of `find_impl_with_order`,
`merge_impl_with_order` and `same_set`, plus the steps of `Buffer::with_access`
that grow the array under the write lock. `deep_copy` loads slot after slot.
`parent` is the latest value of every slot. Weak memory is in `mem` and `view`:
`mem[i]` has every value slot `i` has held with the view its writer released,
and a load returns any value no older than the reader's view; an acquire load
joins the released view into the reader's, a relaxed one does not. `Scoped`
selects the relaxed, fixed-size form (`AtomicUnionFindAccess` in
`union-find/src/lib.rs`). The write side of the lock appears as `Claim`,
`Grow`/`ReInit`; that it excludes readers is what `ReadOptimizedLock` shows.
`rep`, `returned` and `start` are history variables.

`UnionFindSpec` is the abstract union-find: a request to union two ids is
answered only once they share a class, and classes are joined only for a request.

### Notification, ReadOptimizedLock

`Notification` has a step for each access to the flag, the mutex and the
condition variable, with spurious wake-ups (external: the standard library's
contract) and timeouts at any time. `ReadOptimizedLock` keeps, for every thread,
the tokens it holds references to. `Tokens` is a pool of *addresses*: one is
handed out again as soon as nothing refers to it (`New`, external), so the
pointer comparison in `lock` is exposed to reuse exactly as in the program.

### ConcurrentVec, NotificationList, InternTable, ParallelVecWriter, Counters

`ConcurrentVec` is the vector as a subroutine of its two clients: a push or a
resize is a sequence of steps of the calling thread, over the data lock by what
`ReadOptimizedLock` shows of it. `NotificationList` has each step of `notify` and
`reset`; the list itself is a bag, since only membership is used. `InternTable`
has the shard's lock, the lookup through numbers, and the push. In
`ParallelVecWriter` memory nobody has written is `Junk`, writers may reserve at
any time, and `Take` and `finish` end a round. `Counters` has reservations, the
free list and clones of the database made while reservations are out. A size of
1 is a plain `fetch_add`, so the model has `Size >= 2`.

### ThreadPool

Threads are stacks of frames. What callbacks do is open: at any time one may
open a scope, spawn on its own or an enclosing scope (to the shared queue or to
the local deque), return or panic, within `MaxScopes` and `MaxJobs`; so a run
covers every program of that size. A job is known only by its scope. Raising
`expected` and pushing the job is one step: nobody can see the counter between
them except through a completion, which needs the job. `Backups` is a pool of
names for backup workers and `MaxDepth` stands for
`MAX_INLINE_SCOPE_HELP_DEPTH` (64).

### DisplacedTable

Writers stage rows and drop buffers. `MergeBegin` takes the queue, a merge applies its
rows one at a time, and `MergeEnd` ends it. A row's place is its buffer and its index there.
`InsertRow` is `insert_impl`, with path halving, for the rows of a serial group, which is all
of them in one thread; `UnionRow` is the union of a task that works on a chunk of a large
group, in any interleaving of the chunks, and `PublishKid` the publication afterwards. The
groups of `union_work` and the chunks of `push_union_run` are given in closed form, by the
rows that lie between two (`GroupOf`, `ChunkOf`). `Tick` asks that no buffer be open, as the
bridge sees to, but not that the queue be merged: the table takes rows of several timestamps
in one merge, and the grouping that this needs is part of the model.

### SortedWritesTable

Rows are a sequence; the hash table is a set of row ids per shard whose keys are
read through the rows, so that double and dangling entries can be expressed.
`key % NShards` stands for hashing and the minimum for the merge function.
`MergeBegin` deletes and decides between the serial and the parallel path. Each
shard's queue is drained (`Drain`), one shard after the other in the serial
merge, which then takes up one row at a time (`Insert`). A task of the parallel
merge merges rows of one key in a batch (`Coalesce`), appends the batch to the
rows (`WriteBatch`) and publishes it row by row in its shard (`Publish`), all in
any interleaving with the other tasks; that batches land apart is
`ParallelVecWriter!WriterIsSafe`. `MergeEnd` extends the timestamp index and
compacts. `Slack` and `Share` are the 16 and the 2 of `maybe_rehash`; a parallel
compaction may put rows of one timestamp and shard in any order (`Places`), as
the order of the hash table has it. Failed assertions are recorded in `ok`.
`ref`, which no action reads, is what the table should hold: removals first, then the
least value of each key.

### Indexes

Index, catalog, `ResettableOnceLock` and the buffer with its free lists by size
class. Two readers look up, refresh and read; staging, `merge_all`,
`clear_table`, `Clone` and `Restore` have the database to themselves. A table is
what `SortedWritesTable` promises: rows appended, marked stale and at times
compacted. Which of the refresh algorithms runs is left open, there is one shard
(each has its own keys and buffer) and one index per table, and clones are made
when nothing is staged.

### Rebuild

Composes the promises of the two tables: the union-find is the map to least
members and the set of displaced ids (`DisplacedTable!DisplacedExact`), a
table is its live rows with removals before inserts
(`SortedWritesTable!SortedExact`). In `rules`, rules stage unions and rows
over ids that are in rows or fresh. `EndRules` ends an iteration, eager
(`run_iteration`) or deferred (`run_rules_no_rebuild`,
`flush_updates_no_rebuild`). `MergeUnions` and `MergeTable` are `merge_all`, in
any order. A round visits each table, which scans all rows or looks up the
displaced ids since its cursor; which one, the code decides by costs, and the
model leaves open for the functions in `Large` (the lookup is tried only on
tables of more than 100 rows). Staged rows are bags: the merge functions in the
model are commutative, so how often a row is staged matters and in what order
does not. `owed` says that deferred unions still wait for a rebuild.

### Containers

Containers are sets of ids, ids of containers included. Interning from several
threads is a step per map access. A rebuild takes containers out, by scan or
through the index of displaced ids, and puts them back in any order; a row whose
container changed in place is marked new. The tables appear as rows of one
function, staged, merged and rebuilt as in `Rebuild`.

### SemiNaive, Scheduler

`SemiNaive` has a function merged by minimum, a union-find and three rules
(one joins two atoms, one unites, one has no atoms); each query becomes its
variants by timestamp as in `egglog-bridge/src/rule.rs`. Iterations may be eager
or deferred, run some rules or all, and an action may panic after part of its
writes, upon which the bridge's recovery runs. `Scheduler` splits the same rules
into queries and actions and adds `step_rules_with_scheduler` with the back-off
scheduler; match lists are sets, a queue of matches is at an address that a push
shares or copies as the derived clones do. An e-graph is used plainly or with a
scheduler throughout, and queries do not panic. `factor` is 2 to the power
`times_banned`, by which the code shifts the match limit and the length of a ban; a
rule is not banned so often that the shifts overflow. `BanLength >= 1`: with 0,
`can_stop` ignores matches held back. The union-find is given by what it promises:
`Join` has for classes the least sets that no class and no pair leads out of.

### Extraction

`TreeExtractor` over every e-graph of up to five rows: the search over sorts,
the sweeps that relax dirty rows behind and ahead of a cursor, ranks, parent
edges, terms and variants. Costs are those of `AdditiveCostModel`, saturating at
`MaxCost`; a container stands as its elements, and subsumed rows are left out.

### FrontEnd

A command goes through typechecking (which registers names), shadowing, global
removal and execution; each may refuse, and keeps what was done before. Closed
constructor actions are prepared from a cache and queued. All constructors take
nothing or one literal, all globals have one sort; `fail` wraps insertions and
checks only; there are no proofs mode, includes, rulesets or macros. A loop over
desugared commands that ends at the first refusal is `Pass`, three steps long, since
no command here is desugared into more than three.

### The harnesses

Components that share no state are checked in one run, each in behaviours of its
own: a variable (`part`, in the union-find `program`) chosen at the start names
the component, and the variables of the others keep their first values or have none
(`MCConcurrency`, `MCTables`, `MCContainers`, `MCRules`, `MCConcurrentUnionFind`).
The state count of a run is the sum over its parts, not the product. `ThreadPool`
and the expected violations are run directly.
`MCConcurrency` and `MCRules` instantiate some of their parts, or the proof modules of
these, under names that `ConcurrencyProofs` and `RulesProofs` use too, and `MCTables`
extends `Rebuild` as `MCContainers` extends `Containers`, so that the theorems are about
the very properties that the runs check; the assumptions of the parts
(`PartsAssumption`, `FrontEndAssumption`) are evaluated by TLC there.

## The runs

| run | module, cfg | bounds | time |
|---|---|---|---|
| `uf` | `MCConcurrentUnionFind`, `UF.cfg` | 2 threads, array of 2 growing to 4 ids; both merge, find, copy and reset, or both merge and compare | 2 min |
| `concurrency` | `MCConcurrency`, `Concurrency.cfg` | 3 threads, 6 token addresses, 2 notified ids, 3 keys in 2 shards, 5 elements, 2 databases with ranges of 2 ids, 2 callers of the union-find | 3 min |
| `pool` | `ThreadPool`, `Pool.cfg` | the owner, 1 worker, 2 backup workers, help depth 1, 3 scopes, 3 jobs, any callback may panic | 1 min |
| `tables` | `MCTables`, `Tables.cfg` | 3 unions; 3 staged changes of 2 keys in 2 shards, a rewrite, a clear and a read, 4 of these in all; 2 unions and 2 terms to rebuild, 3 in all; 2 readers of a cached index and one clone, clear or restore | 2 min |
| `containers` | `MCContainers`, `Containers.cfg` | 2 threads, 3 elements, 5 ids, 2 unions, 3 rows; every e-graph of at most 5 rows to extract from | 2 min |
| `rules` | `MCRules`, `Rules.cfg` | 3 ids, 5 timestamps, 4 scheduler steps, one command, panic or push; 5 commands over 3 names | 2 min |
| `rebuild_sums`, `containers_merge`, `rules_stop`, `rules_pop`, `rules_stale`, `extract_saturates` | the same modules | smaller | seconds |

The last six are expected to be violated; see
[Disagreements](#disagreements-with-the-source).

What the passing runs check (a property that is a conjunction is given with its
parts):

* `uf`: `TypeOK`; `LinksLeadToRep`, that the links in memory lead from every id
  to its abstract representative; `ChildReturnedOnce`; `StaleLoadsHarmless`, that
  whatever value a load may still return is an ancestor in the same class;
  `AnswersAreTrue` = `SameSetIsTruth` (no "yes" without a union, no "no" about ids
  the caller was bound to know as equal), `FindIsCanonical`, `CopyIsForest`; the
  action property `LinksNeverIncrease`; and the refinement `ImplementsUnionFind`.
* `concurrency`: `AnswerIsRight` for `Notification`; `Exclusive` for the lock;
  `ReadsAreInitialized` for `ConcurrentVec`; `ListIsComplete` =
  `NotifiedIsReported`, `FlagsAreBacked`; `InternedRightly` = `InternedOnce`,
  `LookupsInBounds`; `WriterIsSafe` = `WritesInBounds`, `WritesSurvive`,
  `FinishedIsWritten`; `IdsAreFresh` for counters and their clones; and, as
  liveness, `WaitersReturn` and `OperationsReturn`.
* `pool`: `ScopesAreSafe` = `ScopeOutlivesJobs` (what erasing the lifetime of
  closures relies on), `SignalledOnce`; `WaitsAreBalanced` = `HelpDepthExact`,
  `BackupsJoined`; `PanicsArrive`; and, as liveness, `PoolDrains`.
* `tables`: `DisplacedExact` and `SortedExact`, what the two tables promise to
  `Rebuild`; `ReadersUpToDate`, for whoever follows a table by its versions;
  `SumsExact` with scans only; `RebuildComplete`, that rules see the congruence
  closure; `RoundsShrink`, that every round of a rebuild leaves less to do;
  `AnswersExact` and `SlotsOwnedOnce` for cached indexes and their buffers.
* `containers`: `ContainersKnown` = `InternedRight`, `IndexCovers`;
  `AllCanonical` after a rebuild; `OldRowsMeanTheSame`, that a row whose container
  changed counts as new; `CostsSettle` = `CostsAreLeast`, `CleanRowsRelaxed`;
  `TermsCostTheLeast`.
* `rules`: `SeminaiveComplete` = `OldMatchesWereSeen`, `VariantsPartition`;
  `SaturatedIsRight` = `SaturatedIsFixpoint`, `RowsCanonical`; `MatchesAreKept` =
  `NoMatchDropped`, `StopAfterSeeking`; `BatchIsSequential` and `CacheIsCurrent` for
  batched actions; `NamesAreSound` = `DeclaredIsUsable`, `OneMeaning`.

Each bound is a constant of its module. They are the smallest at which the
interesting cases happen: a growth of the array under readers needs ids beyond the first two; the reuse of a
token address needs as many tokens as `PoolIsLarge` asks for and a third thread that
still holds the old one; a nested wait beyond the help depth needs three scopes;
a rebuild needs a row over two displaced ids; a clone of a database has to hand
out ids from a range that was recycled before. The mutants in `PROJECT.json`
show for every property that a plausible mistake in the code it is about is
found within these bounds. The `uf` run has `Scoped = FALSE`; the proofs cover
both forms. `OperationsReturn` is checked without resets.

Deadlock checking is off (`CHECK_DEADLOCK FALSE`) where a bounded environment may
simply have nothing left to do: an ended pool, tables whose writers have used up
their rows, e-graphs after their last command. It is on in `uf` and
`concurrency`.

### Fairness

* Weak fairness for the steps of each thread, in `Notification`,
  `ReadOptimizedLock`, `ThreadPool` and `ConcurrentUnionFind`: the operating
  system runs every thread that can run. Starting a call, a timeout and a
  spurious wake-up are not in the fair steps; nothing may rely on them.
* A contended mutex is not promised to any particular thread; critical sections
  end because they are straight-line code.
* Callbacks of the pool end because `MaxJobs` and `MaxScopes` bound them; a
  callback that never returns blocks its scope by design.
* A `merge` retries while others win; it returns since every lost
  compare-exchange lowered a link, and links are bounded below.
* The rebuild loop is shown to end by the measure `RoundsShrink` instead of by
  fairness, and rules have no liveness: whether they saturate is up to the
  program.

### What the checks taught

* The union-find needs acquire and release for `same_set` only. `merge` and `find`
  are right under relaxed loads too (`StaleLoads` holds in both modes), which is
  what lets the scoped form use them.
* `push` and `resize_with` must not be mixed on one `ConcurrentVec`: the first
  leaves slots behind `head` uninitialized that the second would publish. The
  repository never mixes them; `SlotsOK` in `ConcurrencyProofs` is where this is used.
* Reading the two counts of a scope again after the increment, instead of
  comparing the result of one `fetch_add`, would signal twice
  (`CompleteReread`).

## The proofs

Eight modules prove, for any set of threads and any value of the other constants:

| module | theorems |
|---|---|
| `ConcurrentUnionFindProofs` | `TypeCorrect`, `StaleLoads`, `ChildOnce`, `LinksDecrease`, `Refinement` (implements `UnionFindSpec`), `LinksLead` (`LinksLeadToRep`), `ViewsSound`, `Answers` (`AnswersAreTrue`) |
| `ConcurrencyProofs` | `ReadersAwaited`, `MutualExclusion`, `ReservationsHold`, `WritesAreSafe`, `RangesStayApart`, `FreshIds`, `VectorsHold`, `HandlesAreInitialized` (`ReadsAreInitialized`), `InterningIsRight` (`InternedRightly`), `NothingIsSilenced` (`ListIsComplete`), `AnswersRight` (`AnswerIsRight`), `WriterIsAlone` (`Exclusive`), `ParallelWritesAreSafe` (`WriterIsSafe`), `CountersAreFresh` (`IdsAreFresh`) |
| `ThreadPoolProofs` | `PoolHolds`, `ScopesKept` (`ScopesAreSafe`), `CareHolds`, `WaitsBalance` (`WaitsAreBalanced`), `PanicsReturn` (`PanicsArrive`) |
| `DisplacedTableProofs` | `DisplacedTableInvariant`, `DisplacedTableIsExact`, `ReadersAreUpToDate` |
| `SortedWritesProofs` | `SortedTableInvariant`, `SortedTableIsExact` |
| `RebuildProofs` | `RebuildInvariant`, `RebuildIsComplete` (`RebuildComplete`), `RebuildEnds` (`RoundsShrink`), `UnionFindTableIsExact` (`DisplacedExact`), `SortedTableStaysExact` (`SortedExact`), `TrackersSeeEverything` (`ReadersUpToDate`) |
| `ContainersProofs` | `ContainersInvariant`, `ContainersAreKnown` (`ContainersKnown`), `AllIsCanonical` (`AllCanonical`), `OldRowsKeepTheirMeaning` (`OldRowsMeanTheSame`) |
| `RulesProofs` | `DriverHolds`, `OldIsSeen`, `SeminaiveMissesNothing` (`SeminaiveComplete`), `DatabaseHolds`, `SaturationIsFixpoint` (`SaturatedIsRight`), `HeldBackMatchesCount` (`MatchesAreKept`), `BatchingIsInvisible` (`BatchIsSequential`), `CacheExpires` (`CacheIsCurrent`), `NamesHold` (`NamesAreSound`) |

So every safety property of the runs `uf`, `concurrency`, `pool` and `rules` is proved as
well as checked, and so are the three of `containers` that are about containers, and
all of `tables` but those about sums and cached indexes. `DisplacedTableProofs` and
`SortedWritesProofs` are about one table each; `RebuildProofs`, which extends the module of
the run, carries their invariants along the run's behaviours (`TablesHold`).

Assumptions: `SizeAssumption` (capacity a power of two, the initial length within
it), `ThreadAssumption`, `ModeAssumption` (the scoped form has a fixed array and only
merges), `PoolIsLarge` (there is always an address that nothing refers to: the
allocator does not fail), `CountersAssumption` (reservations of at least 2 ids),
`WriterAssumption`, `VecAssumption`, `InternAssumption` and `ListAssumption` (the
special values are none of the ordinary ones, ids and keys are naturals, threads
are finitely many), `SemiNaiveAssumption` and `SchedulerAssumption` (the bounds are
naturals, and a ban lasts at least one step) and `ContainersAssumption` (ids are
naturals up to the bound, the ordinary ones are the first that the counter gave out,
and `None` is none) and `RebuildAssumption` (the bounds are naturals, functions are
finitely many and none has two kinds) and `TableAssumption` (the bounds are naturals, a chunk
has at least one row, `None` is no row id) and `SortedWritesAssumption` (the same of its bounds,
at least one shard, and the two special values are no numbers). TLC evaluates all of them. The driver's
proofs use no assumption.

### The union-find

The argument is one inductive invariant, `IInv`. None of the properties is
inductive alone: that a splitting write is harmless depends on the local
variables that feed it, and those on which values loads could return. So `IInv`
has `TypeOK`; `RepsOK`, that `rep` is idempotent and decreasing; `SlotOK(i)`,
that every value in `mem[i]` lies between the latest link and `i` in `i`'s
class, that a root is its own representative, and that `returned[i]` counts; and
`CallOK(t)`, that each local of a running call is in the class of the argument
it came from, and that the grandparent about to be written is no smaller than
the link it was read through and smaller than the parent it replaces. There is
one lemma per action. `LocalStep` covers actions that only change one thread's
locals, `OtherCall` the locals of bystanders when links or classes change,
`SwapTypes` the two compare-exchanges. The refinement maps `Link` to `Union`
(or to a stutter), `Return` of a merge to `Answer`, `ReInit` to `Reset`, and
everything else to stuttering.

The answers need more: what a thread is *bound* to know. `KInv` adds that every
view, of a thread or released with a value, is `Sound`: following the oldest
values it allows, an id is joined to every older value of its slot. `Chained`
says why: a value that replaced another was read from the slot of that other.
The locals of a call are joined, in its view, to the arguments as they were when
the call got its reader. A walk along links has no bound known in advance, so what
`RootOf` computes is characterized first (`Follows`), by the least-counterexample
argument on the set of ids for which the characterization fails, which the
provers accept where they do not accept an induction scheme.

### The lock, the writer and the counters

*Lock.* Exclusion is not inductive, since a reader enters long before a writer
looks at it. `IInv` says: one writer holds the mutex; a token that is loaded is
readable as long as it is stored; every reader of a replaced token is awaited
by the writer that replaced it, through the very address it holds (this is where
reuse of addresses would bite); a token is notified only after its last
reference is gone, and a notification that is due belongs to a dropped token.

*Writer.* The reserved ranges of the threads and the completed ones partition
what `fetch_add` has handed out; room that a writer has seen stays, since
buffers only grow; what is written stays written, because a reallocation waits
for the readers. `WritesSurvive` is a conjunct of its own invariant.

*Counters.* The ranges that can still hand out ids (of execution states and on the
free lists), of one database and its clones, are unused, below the high-water
mark and apart from each other.

*Notification.* A thread whose call began after the notification leaves at the
first test of the flag, so an answer "no" is never late.

### The vectors

`ConcurrencyProofs` states the invariant of `ConcurrentVec` once (`VecInv`): one thread
writes at a time, at or after `head` and where there is room; what it published
it has written; slots below `head` are written; and either nobody resizes or
nobody pushes and all slots are initialized. Every step of the vector keeps it
and satisfies `VecFrame`: published slots stay as they are, `head` does not
shrink, other threads' calls do not move. The clients use only these two facts.
`NextPowerOfTwo` is shown to be at least its argument (`DoublingEnds`,
`PowerIsLarge`), again by least counterexample.

*Interning.* A shard's numbers are of published keys of that shard, each once; the
holder of the shard's lock sees all of them below the `head` it loaded; whoever
is about to push a key has found that its shard does not have it.

*Notification list.* For each id the places that will report it (entries in
the list, threads about to list it, batches of resets) are counted with
`Cardinality`, and the count is 1 exactly while the flag is set and published, else
0. That makes every step a local one: setting the flag adds a reporter, pushing
and taking pass it on, clearing removes the last one. Flags beyond `head` are
unset, so growth adds no unbacked flag.

### The thread pool

`ScopesAreSafe` is not inductive: that a scope has not returned follows from a count,
and the count is right because every callback of the scope is *somewhere*. `Pending(s)`
is the set of these places: positions in the shared queue, in the deques, among
the jobs a donating worker has yet to send, and the frames of callbacks that run or
have ended and not counted themselves. `PoolInv` says, with the types,

* `CountsOK`: `expected = completed + Cardinality(Pending(s))`;
* `StacksOK` and `BackupsOK`: what may lie on what. A scope's wait lies on a running
  callback of its parent, a job on a loop or on a wait that helps, and a backup worker
  that is not hired has no stack;
* `OpenOK` and `RootsOK`: whatever still expects a callback, or is to be told, is
  open; an open scope has its wait on one stack and only there;
* `SignalsOK`: the message is with one thread that is about to send it, or in the
  channel, or received, and only when the count is full.

Two lemmas carry the hard steps. `EnclosingRuns`: every scope a running callback
can name, through any number of parents, still expects a callback, so `spawn` never
raises the count of a full scope (the race that `complete_one` relies on not
having). `PendingIsOpen`: what is pending keeps its scope open, so `Return`, which
needs the message and hence a full count, finds nothing left. The rest are lemmas
on places: a send, a pop or a push maps the places one-to-one onto the others
(`Mapped`) and adds or removes one (`Added`, `Removed`), with the deques taken
from both ends. There is one lemma per action; `QuietMove` and `GotoStep` serve the
many that only go on.

The other two properties need a second invariant, `CareInv`, preserved with `PoolInv`:

* `BossOK`: a hired backup worker belongs to a thread whose wait is asleep, no two to
  the same thread. A sleeping wait is the top of its stack, so nothing else on that
  thread can hire, and the wait rises only after it has released the worker: hence
  `BackupsJoined`.
* `HelpOK`: `depth[u]` is the number of frames of `u` that help (`HelpersOf`). Opening a
  wait adds one such frame only below `MaxDepth`, leaving removes it, and all other
  steps keep the set.
* `PanicOK`: a scope that is open has panicked iff its slot, or a marked frame, says
  so: its own wait with a panic of the closure, or a job that is about to record one.
  `WaitKnows` gives the end of it: when the count is full no job of the scope is left
  to record, so the mark is the wait's own or the slot has it, and these two are what
  `scope` looks at. `Kept` and `Gentle` describe the many steps that leave every mark
  where it was.

### Rules and schedulers

The three rules are fixed; ids, rows, timestamps, runs, panics and commands are not.

*Nothing is missed.* `SeenInv` says of the present rows: a match all of whose rows are
older than its rule's `last_run_at` is in `done` or `lost`, or waits in the scheduler's
list. A write may replace many rows at once, so the steps are described by what they
have in common, `Later`: each row is as it was or is stamped no earlier than `ts`, which
is no earlier than any `last_run_at`. Hence a match that is old after a step was there
before it. That a run finds every match that is not old is `FoundOrOld`. The invariant
also speaks of the clone that `push` leaves: the list it shares or copied is at an
address the scheduler at work does not write (`CloneOK`), as long as both ends of the
list are the same; that they may not be is the finding of `rules_pop`.

*What was run for holds* (`HoldFor`). A rule that was run for a match and is not run
again must hold of the database later. For `compress` that is `y <= z` of the match
itself, because the value merged by minimum was no greater; for `knot` it is that both ids
are of one class, and classes only grow (`Join` is shown to be a closure: idempotent,
decreasing, monotone). `RunForAllIsClosed` concludes: a database whose matches were all
run for is closed.

*Without a scheduler* `PlainOK` adds that the rules of `calm` were run for all matches,
and `RowsTidy`: no row mentions an id the table has been rebuilt for, and none a displaced
one unless a rebuild is owed. The first clause is what makes a rebuild by lookup, which
looks for the ids since its cursor only, as good as a scan.

*With a scheduler* rows written by an action are rebuilt at the end of the step, and a
large table may keep displaced ids (the finding of `rules_stale`), so `RowsTidy` fails.
`StopOK` has the weaker `Settled`: a rebuild would change nothing. It holds between steps,
and within a step until an action changes something; so the rebuild at the end of a step
to no effect has none either, and the matches at the end of the step are those at its
beginning. `StepOK` says where they are: run for, or kept from, or in the list, the last
only for rules that are still to come, banned, or delayed by the node limit. When
`can_stop` says yes below the node limit, nothing is left in the list.

`Join` was first a fold over the pairs, of which these provers can show nothing; the
closed form has the same values (the runs reach the same states), and its properties
follow from the definition.

### The union-find table

`DisplacedExact` relates three descriptions of the same classes: the links, the rows of the
table, and the rows applied so far. `IInv` of `DisplacedTableProofs` has

* `RecordInv`: the links lead each id to the least of its class by the applied rows
  (`IsCanon`), each id that is not the least has exactly one row, or one child of the running
  group that waits to be published, and `lookup_table` names the row;
* `TimeInv`: timestamps never decrease along the way a row takes: applied, taken by the merge,
  queued, staged. It is why a group can be told by its neighbours, and why what is displaced
  by a row of time `ts` was canonical by all rows before `ts` (`NowDisplaced`), however the
  tasks of the group interleave;
* `ReaderInv`: until a clear, a reader knows the rows below its version.

Following links is defined by recursion. That the recursion has a solution (`FindExists`) and
leads to a root (`FindIsRoot`) is shown of the least id for which it would fail, since links
lead down. Halving a path keeps all roots (`SameRoots`), linking two joins their trees
(`LinkJoins`), and a canonical form by one row more is the joined one (`JoinOne`); there is only
one (`CanonIsOne`), so the links and the definition by closed sets agree. `fast_subset` is right
because a set of row ids that has with each those before it is a range from the first
(`FirstRows`). `Clear` starts over, and leaves entries in `lookup_table` that name no row; so
`RecordInv` speaks of the ids that have one.

The model had folds over the queue and its groups first, of which these provers can show
nothing; a merge takes its rows one at a time now, which also lets staging interleave with
it at each row.

### The sorted-writes table

What a merge leaves does not show how it was made: rows may have met in a batch or in the
shard, been written in any order by tasks that run at the same time, and moved by a
compaction. `IInv` of `SortedWritesProofs` says where everything is at each step:

* `QueueInv`: what is queued for a shard is of that shard and of the present time, and a
  removal by row id names a row that is there, with the key it had. It would not survive a
  merge, and does not have to: `Rewrite` drops its buffer before it returns, and a merge takes
  the removals first.
* `TaskInv` and `RowsInv`: a task has drained its queue before it has a batch, and rows written
  but not published before it has another batch. The entries of a shard are the live rows with
  its keys except those not yet published; keys are unique in each of the two. Timestamps never
  decrease along the rows, those since the start of a parallel merge are all of the
  present, and stale rows are counted, with those that the tasks have marked.
* `OffsetInv`: the index covers the rows before the merge. A row in a shard that it does not
  cover is due to a task that has a timestamp to report, which is why `MergeEnd` can put the
  start of the new timestamp at the first row of the merge, whichever task wrote that.
* `ContentInv`, on which the contents rest: of each key, the value in `ref` is the least of all
  values on their way to it (`Sources`: the row in the shard, rows not published, in the batch,
  and not yet taken up), or there is none. A step moves a value from one place to the next,
  or drops one that is no less than another which stays; `Coalesce` and `Publish` do that by the merge
  function, `Drain` extends both sides. Between merges the row in the shard is the only source.
* `ReaderInv`: a reader of this generation knows the live rows up to its version. Only a
  compaction or a clear changes a row's id, and both begin a generation.

A compaction is any injection of the live rows that keeps the order of time (`CutIs`,
`PlacesAre`); the index is made anew from the rows it leaves (`OffsetsOfAre`). That each range
of `fast_subset` is exact follows from `OffsetInv` alone (`RangesFromIInv`). The model folded
over the queues before, in one step per batch; one step per row is closer to the code, and the
provers can follow it. `IInv` was checked by TLC before it was proved.

### Rebuilding

That rules meet the congruence closure is a statement about the end of a loop whose rounds
may visit tables in any order, by scan or by lookup, and merge them in any order, with
unions appearing in between. `IInv` of `RebuildProofs` has two halves, each about *every*
equivalence of ids, so that neither speaks of how the work is done:

* `Complete`: an equivalence that contains the union-find and the unions staged for it
  contains all unions that rules made, and relates each row that was ever set to a row of
  its table as it will be (`Here`: kept rows and staged ones).
* `Sound`: an equivalence that satisfies what rules wrote contains the union-find and the
  staged unions, and relates each row of a table to one that was set.

`HalvesKept` says what a step must do to keep both: trade rows for rows that say the same
and unions for the classes they make. A visit trades rows for canonical ones
(`CanonicalSaysTheSame`); a merge of a table trades rows for the union of their values;
the merge of the union-find trades the unions for larger classes, no larger than asked
(`JoinIsCanon`, `JoinIsLeast`). When nothing is staged, rules may go on only with each cursor
at the end (`LoopInv`), so by `NoneLeftBehind` every row is canonical; `ClosedAtTheEnd` then
applies both halves to the union-find itself, and the equivalences are gone. The lookup
needs `NoneLeftBehind` all along: it is why a row that mentions no id after the cursor is
canonical. `IInv` was checked by TLC on the instance of the run before it was proved.

`Join`, and the merge of a bag of rows into a table, were folds first. The closed form of
the latter stages a union for every two values at a key, where the code stages those of
values that happen to meet; the classes are the same.

That the loop ends is `RoundsShrink`: what is left to do after a round that asks for
another, the number of classes and then that of rows that are not canonical, is less, in the
lexicographic order, than before it. `ShrinkInv` carries the round's beginning through it.
Either classes have been joined since, or the union-find is what it was, all cursors are at
the end of it, and whatever is staged or was changed is due to a row that was not canonical
at the beginning; at the end of such a round none is left. The measure was one number first,
with a bound on rows as the weight of a class; the pair needs no bound, so the loop
ends for any number of rows as long as there are finitely many. Merge
functions that make new ids, which the code allows and `Rebuild` leaves out, are outside it.

### Containers

The difficulty is that containers change *under* their ids: a row `f(k) = i` is untouched
while the container of `i` becomes another one. `IInv` has, besides the types and where the
threads are,

* `IdsInv`. `Rep` is the union-find as it will be when the staged unions are merged. An id
  is *alive* if a container has it, or one that was taken out and will be put back; an id
  that is alive is its own representative, because only containers found equal are
  united, and the lesser id keeps the container. Everything that mentions a container's id
  leads, by `Rep`, to one that is alive.
* `MapsInv`: ids lead to containers and back, `val_index` covers the contents, and a
  container that waits to be put back is canonical and has an id nobody else has.
* `CursorInv`: between rebuilds no container and no row mentions an id before the cursor;
  during one, a container that is not canonical is in the queue. This is what makes the
  scan by the index as good as the full one.
* `RowsInv`: a row that is not new means what it was matched as, or else there is a reason
  that will make it new. Its value has been united with another id, is itself marked
  (taken out or dirty), or its container has an element of which that is true.

`RowsInv` is what lets the order in which containers are put back be left open. `Fits` is
the same claim of any union-find and maps, and `FitsStays` shows that a step keeps it if
marks are only exchanged for unions (`Carries`); each kind of step is an instance. The
closure around the dirty ids reaches a row whose reason is an element of its container
(`ContainersDone`), and the loop of the bridge goes on until no reason is left:
`OldRowsMeanTheSame` follows when rules run again. Containers are nested two levels deep in
this module and have at most two elements, so that is what the theorems are about.

`Join` was first a fold here too (as in `Rebuild`), with the same states in the run. `JoinIs` says what the
closed form computes: the least end or representative that no pair separates from an id.
`JoinOne` says that one more pair puts one representative under another, which `Rep` needs
when `InsertOwned` stages a union.

### The driver

None of the three properties of `FrontEnd` is inductive. `FEInv` says of the e-graph and
of every snapshot:

* `TablesOK`: two constructors have two tables, numbers are below `next`, and rows are of
  tables. Without it a row could appear in the table a later declaration makes.
* `NamesOK`: what has a table is in `sigs` and in `names`, what is bound is in `names`,
  sorts are no signatures. This is how typechecking and `check_shadowing` together keep
  one name to one meaning, although they look at different sets and the first registers
  before the second refuses.
* `UsableOK`, which is `DeclaredIsUsable` of one e-graph; and `WantIs`: the rows, with
  those that wait, are the ones that were asked for.

A declaration goes through three passes and a binding, and any may stop. For each there
is a lemma on its first `k` steps that says what it keeps and what it has added
(`AfterTyping`, `AfterShadowing` and the like). The case that matters is a refusal after
typechecking has replaced a signature: the names of the refused command are then in
`refused`, and no other name was touched (`RefusedMore`). `RunPass` uses that
shadowing has passed: the functions about to be declared were in no table before, and are
different from each other, so `declare_function` never meets one it has.
An action is prepared with the cache or without, and the answers are the same as long as
the cache is current (`PrepareIs`), which it is because whatever can change a signature, a
table or the e-graph itself goes through `Committed`, which empties it.

`Pass` was a fold and `Bind` a step of it; they are now written out, with the same states
in the runs.

### What is only model-checked

* Liveness (`WaitersReturn`, `OperationsReturn`, `PoolDrains`): the prover has neither
  `ENABLED` nor fairness.
* Results of folds and of sums over data. Induction theorems take an operator as a parameter,
  which the installed provers cannot instantiate; a least counterexample does the same for a
  recursive function over numbers (`FindIsRoot`, `DoublingEnds`), but not for the folds of the
  libraries.
* `CostsSettle` and `TermsCostTheLeast` of `containers`: costs and ranks are recursive over
  terms.
* Of the run `tables`: `SumsExact`, sums over bags; `AnswersExact` and `SlotsOwnedOnce`, about
  sequences of buffers filled by folds.

## Disagreements with the source

Six runs exhibit them; the findings in `PROJECT.json` quote the lines.

* `rebuild_sums`: `rebuild_incremental` (`core-relations/src/table/rebuild.rs:186`)
  stages a row once per displaced id that it mentions, the copies meet in the
  merge function, and `(+ old new)` counts the row twice. The full scan, meant to
  be equivalent, does not. It takes a table of more than 100 rows and two
  displaced ids in one row within one cursor window.
* `containers_merge`: two containers found equal by `rebuild_containers` still meet
  as two ids in the merge function of the same round, although the comment at
  `egglog-bridge/src/lib.rs:1393` says that rebuilding containers first avoids it.
* `rules_stop`: `can_stop` of the back-off scheduler is true although a banned rule was
  never queried for the last change (`src/scheduler.rs:411`).
* `rules_pop`: after a step, a push and a pop, the scheduler reads a list that its
  queries no longer write to (`src/scheduler.rs:459`).
* `rules_stale`: a match held back across a union is applied with a displaced id, and a
  rebuild by lookup leaves its row (`src/scheduler.rs:346`).
* `extract_saturates`: a row whose cost has reached the largest value keeps its class's
  old rank when its child becomes cheaper, and no row can be chosen
  (`src/extract.rs:865`).

Observed and not run:

* `DisplacedTable::clear` (`core-relations/src/uf/mod.rs:304`) leaves `lookup_table`
  behind and does not change the generation, although `table_spec.rs:240` says
  that clearing a nonempty table does. Nothing in the repository clears the
  union-find table. `DisplacedExact` does not speak of keys without a row, nor
  `ReadersUpToDate` of readers across such a clear.
* `typecheck_function` (`src/typechecking.rs:1296`) inserts a new signature before it
  returns `FunctionAlreadyBound`: a refused redeclaration replaces the signature,
  and a later use panics at `egglog-bridge/src/rule.rs:353`. A datatype refused at
  a later variant leaves earlier constructors typed without tables
  (`src/lib.rs:3266`). `(let $taken 1)`, refused for shadowing, leaves an entry in
  `global_sorts` whose later read panics at `remove_globals.rs:24`. They matter
  where a session goes on after an error, as the plain REPL does
  (`src/cli.rs:314`). `NamesAreSound` speaks of names no refused declaration has
  touched.

## What is not modelled

Within modelled parts: metrics, `install` and the parallel iterators of the pool,
and failures to enqueue on a pool that is already gone; scans and refinement of
rows and deep copies of tables; the cost heuristics that choose between
algorithms, whose choice the models leave open; the radix sort and the shards of
indexes; `refresh_rows_for_values`; registration of types, tables and external
functions; the rule-driven rebuild (used only if the union-find table had no
rebuilder); type inference and desugaring; writes through the API with ids a
caller kept from before a union, which callers are expected to canonicalize.

Not at all, with the reasons in `PROJECT.json`: the shared arena; free join, as planner
and executor (`SemiNaive` has the join by its definition); storage primitives;
the instruction interpreter; the term and proof encoding, which the repository
verifies in Lean; sorts; support crates; the slotted reference, isomorphism and
semantics; benchmarks and the paper.

## The plan

Done: the modules above with their runs, and the proofs of all safety properties of
`uf`, `concurrency`, `pool` and `rules` and of `Containers`, `DisplacedTable` and
`SortedWritesTable`, and that rebuilding is complete and ends. Next, in this order:

1. `Indexes!SlotsOwnedOnce`, once buffers are filled in one step instead of by a fold.
2. A model of free join against the definition of a join.
