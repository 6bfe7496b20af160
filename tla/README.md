# goSpark in TLA+

goSpark runs Spark-like jobs: a driver plans an RDD graph into stages, schedules
the tasks of each stage on workers over HTTP, recovers lost shuffle outputs from
lineage, and commits saved output with one manifest. These modules model the
parts of it where order, failure and concurrency decide correctness, check them
with TLC on small instances and prove the main safety properties with TLAPS for
every value of the constants.

## The system

| Part | State | Operations | Hard behaviour | Module |
|---|---|---|---|---|
| Lineage scheduler (`scheduler.go`) | accepted results, attempt counters, repairs, sampled boundaries | stage loop, sampling, waves, retries, repair | a repair while answers or snapshots are outstanding; recursion into parents; cancellation | `Scheduler` |
| Distributed save (`distributed_output.go`) | attempt files, `_SUCCESS` | write, verify, conditional publish, reread | two drivers, late writers, puts of unknown outcome, crashes | `OutputCommit` |
| Worker (`worker.go`, `executor.go`) | tasks in the handler, their counters, caches | `/task`, `/cleanup/`, `/unpersist/` | cancelled tasks that go on; cleanup racing tasks; restart | `Worker` |
| Disk budget (`shuffle_budget.go`, `shuffle_download.go`, `record_stream.go`, `file_shuffle.go`) | reservations per file, total | reserve, remove, rename, reseed | failures between reserve, write and rename; files nobody reserved | `Worker` |
| Planner (`planner.go`, `dependency.go`) | none (pure) | stages, parents, fingerprint, cache hints, required buckets | shared lineage, diamonds, non-identity mappings | `RddGraph`, `Planner`, `JobPlan` |
| Input splits (`input_splits.go`, `rdd_creators.go`) | splits shipped with the job | cut, pack, read from the middle of a file | a directory that changes or cannot be listed; boundaries inside a line; empty files | `TextInput`, `Planner`, `JobPlan` |
| Pipelines (`pipeline.go`) | phase, broadcasts | plan, reduce, broadcast, run | the final plan is fixed before the reductions run | `JobPlan` |
| Cache placement (`scheduler.go`, `schedule_cache.go`) | where cached partitions are believed to be | remember, drop, pick a worker, unpersist | restarted workers, lost calls, releases that fail half way | `CachedJob` |
| Accumulators (`accumulator.go`) | the driver's value, updates in results | add, carry, merge | retries, repairs, cached partitions | `CachedJob` |
| Persistence and checkpoints (`persist.go`, `checkpoint.go`, `rdd.go`) | memory and disk cache, checkpoint directories | persist, unpersist, checkpoint, read, stop | torn files, failures between steps, removal that stops half way | `LocalStore` |
| Local shuffle (`file_shuffle.go`, `record_stream.go`, `shuffle_combine.go`) | bucket files, batches | write, combine, install, stream | more buckets than open files, batches cut by memory | `LocalEngine` |
| External sort and aggregation (`external_*.go`, `pair_rdd.go`) | chunks, levels of runs | spill, merge, group, join | memory limit, stability, order of values | `SortedRuns`, `LocalEngine` |
| Partitioners, range boundaries (`partitioner.go`, `range_sort.go`) | boundaries | sample, choose, look up | few samples, equal keys, oversized keys | `Partitioning`, `LocalEngine` |
| Actions and operators (`rdd_actions.go`, `tree_actions.go`, `rdd_transformations.go`) | none | collect, reduce, take, zip, coalesce, product | empty partitions, order | `RddOps`, `LocalEngine`, `JobPlan` |
| Local save, storage (`save.go`, `output_commit.go`, `memfs.go`, `s3_*.go`) | temporary and final files, uploads | create, write, close, rename | failures and unknown outcomes of each call | `OutputWriter`, `LocalEngine` |
| Context (`context.go`) | closers, stores | stop | stop during tasks, use after stop | `Worker`, `LocalStore` |
| Registry, codecs (`distributed.go`, `codec.go`) | name tables | register, look up, encode | none | not modelled |
| Kubernetes backend (`k8s_*.go`, `cmd/gospark-worker`) | pods and jobs | apply, wait, delete | text generation and external calls | not modelled |
| `mllib` | none | numerics | floating point | not modelled |

The driver's scheduler hands a task to a worker with the manifests of the map
attempts it may read; the worker fetches them, computes, and answers with a map
manifest, records or an output attempt. A worker that cannot read a map answers
with a `FetchError`, which the scheduler turns into a repair. The last stage of
a save writes attempt files, of which the driver commits one per partition. When
the scheduler returns it asks every worker to clean up.

## Modules

**`Scheduler`**. A task is `<<stage, partition>>`; the plan is a constant. What
a task computes is abstracted to its lineage: attempt number, attempts of the
maps it was given, and the boundaries it was given (identified by the number of
repairs made when they were sampled). `accepted`, `attempts`, `repairs`,
`sampled` and `bounds` are the fields of `lineageScheduler`; `pc`, `cur`,
`next`, `before` and `wave` the locals of `scheduleResults`, `sampleStage` and
`runStage`; `active` and `call` the activations of `ensureRetry`, at most one
per stage because it recurses from a stage into its parents. The runners of a
wave answer one by one in any order; the coordinator handles the answers in
partition order after the last, as the code does. Parents are collected in any
order, which includes the code's. A worker may answer anything that
`ExecContext` can return for a task. An answer that fails `validateTaskResult`
is an error.

**`LineageSpec`** is what the scheduler promises, without waves, retries and
recursion: results stand on complete accepted parents, a loss withdraws exactly
what was derived from the lost map, a job succeeds only when all stand at once.

**`OutputCommit`** has the writers of attempt files, the drivers of several jobs
that save to one path, and the store. File content is absent, partial or full.
On an object store (`ObjectStore`) a file appears when its writer closes and a
conditional put may be applied although, or after, its caller saw an error; on a
local directory the file is visible from its creation and publishing is a hard
link. The scheduler is abstracted to fresh attempt numbers, one awaited attempt
per partition, withdrawal of results. **`CommitSpec`** is its promise: the path
goes from empty to the whole dataset of one job, once, and drivers report what
is there.

**`Worker`** is one worker process. A task goes through the `/task` handler:
counted and given a cache (`Receive`), a bucket reserved and fetched into its
scratch directory, the map output reserved and written unit by unit into its
map-pending directory, renamed into place (`Publish`), scratch removed
(`Stop`), answered (`Respond`), uncounted (`Leave`). Each may fail on the way, with
the removals of the code's deferred calls. A task that persists on disk also puts a
partition into its scratch directory (`PutOnDisk`, `diskCache.put`); nothing
reserves it, and only a restart that finds the file counts it, as `newDiskBudget`
counts every file there is without comparing the total with the limit. The driver sends tasks, gives up on
them (they go on), ends the job and asks for its cleanup; names of reusable
caches are unpersisted; the process dies and restarts on the same directory. A
unit stands for what one reservation asks for. The environment variable that
injects a lost save response in tests is left out.

**`LocalEngine`** is one action of a local context over a shuffled RDD, from the
slices of the input to the records or the files: the sampling pass of a range
sort, one map task after the other with its bucket writers and its combining
batch, and one goroutine per partition that opens its buckets, sorts them
externally, yields and, in a save, writes. Values are numbered in input order and
the user's function is concatenation, so any lost, doubled or misplaced value
changes the result. Its parts are operators in modules of their own:
`Partitioning` (slices, partitioners, reservoirs, boundaries), `SortedRuns`
(stable sort, levels of runs, merges, groups, cogroup and joins), `OutputWriter`
(the writers and renames of the local, the in-memory and the S3 file systems, each
call of which may fail with or without effect), `RddOps` (actions and narrow
operators).

**`JobPlan`** is a pipeline on the driver and its tasks on workers. `TextInput`
cuts and reads files; `RddGraph` has the dependencies and partition mappings of
the operators, `Planner` the stages, hints, fingerprints, splits and buckets. The
final graph is planned first, each reduction is a job whose value is broadcast,
and every task rebuilds the graph from what the driver shipped, compares
fingerprints, installs the buckets found for it and computes its partition, while
files come and go in the input directory. Listing it may fail, because the listing
does or because a file is gone when its size is asked for; `textInputPartitions`
drops the error and plans one empty partition, so a job then runs on without that
input. A call of `Compute` is the RDD, the number of the partition and the RDD that
made the partition object: `Map`, `Zip` and `ZipWithIndex` hand on the one they are
given. Under `Zip` the second side so reads the first side's partition, which is
the same for numbered partitions, reads the first side's spans when both are texts,
and panics when only the second is. A record is its origin, so that what a partition
reads can be compared with the input.

**`CachedJob`** has the placement of tasks that `Scheduler` leaves open, the
caches of the workers and the accumulator. Several map stages read one input that
adds one for every partition it computes; workers keep partitions for a job or
under a reusable name, crash and return under another identity, and answers and
map outputs get lost. The driver's `ScheduleCache` releases the name worker by
worker; a call that fails leaves the name registered.

**`LocalStore`** has what a local context keeps: partitions at four storage
levels, shuffle files, checkpoint directories. A stored partition is absent, torn
or whole. `Checkpoint` is one step per file it writes, so that a failure, a crash
or a removal by the application falls between any two. An action (`Compute`) is
one step: it runs while no other call does, and its outcome is a function of what
is stored and of which writes fail. **`Storage`** puts `CachedJob` and `LocalStore`
side by side: they share no state, and a behaviour moves one of them only.

`SchedulerInv`, `WorkerInv` and the last section of `OutputCommit` hold the
inductive invariants; the `MC` modules give plans and assignments for TLC. An
operator introduced by "Variant" or "a plausible slip" is a wrong version of the
definition after it, used to see that a property fails when the code is wrong;
no specification uses it.

## Runs

| Run | Instance | Checks |
|---|---|---|
| `scheduler_branch` | five stages, two branches from one map stage, one with a range sort; 2 runners, 2 attempts, 1 repair | `LineageConsistent`, `SharedBounds`, `AttemptsFresh`, `SuccessComplete`, `RepairSelective`, `ImplementsLineage`, types |
| `scheduler_chain` | three stages in a chain, range sort first; 2 runners, 2 attempts, 2 repairs | `SnapshotCurrent`, `NoStaleFailure`, `AttemptBound`, `Termination`, the inductive invariant |
| `scheduler_range_retry` | a range sort that reads a shuffle | expected violation of `SampledBeforeDispatch` |
| `output_commit_objects` | two jobs, one partition, 2 attempts, object store | `CommittedReadable`, `ReportsTrue`, `CommitStable`, `ImplementsCommit`, types |
| `output_commit_local` | one job, 2 partitions, 2 attempts, local directory | `CommittedReadable`, the inductive invariant |
| `worker_budget` | one job, two map attempts of two units, one of which fetches a bucket and one persists a partition on disk; limit 4; one restart | `BudgetSound`, `OutputKept`, `CleanedReleased`, `CleanupServed`, types, the inductive invariant |
| `worker_caches` | three jobs, two with the same reusable cache, one task with a disk cache | `CacheShared`, `NoFilesPulled` |
| `worker_release` | as `worker_budget`, without the disk cache | expected violation of `ReleasedWhenRemoved` |
| `local_engine` | every list of up to 4 records over 3 keys (3 over both sides of a join), 1 to 3 maps, 2 reducers; 13 operations; saves of up to 3 records on 3 file systems | `ResultExact`, `FailureJustified`, `SpillBounded`, `SaveSound` |
| `job_plan` | fifteen pipelines over four files; 2 attempts, 2 changes of the directory, any listing may fail | `PlanSound`, `TaskInputsCovered`, `InputExact` |
| `job_plan_union` | a union with a coalesced shuffle | expected violation of `RequiredReached` |
| `storage` | 2 workers, 3 partitions, 2 map stages, 1 recovery, up to 3 faults; and, apart from it, 2 RDDs of 2 partitions, 2 checkpoints, 3 calls, 1 full disk | `AccumulatorsOnce`, `ForgottenIsReleased`, `StoredExact` |

Bounds. The branching plan is the smallest in which a loss found by one branch
withdraws a finished other branch; a chain of three is the smallest in which
`ensureRetry` recurses and a repair happens below a collecting activation. Two
runners and two partitions give waves with an accepted, a failed and an
unhandled answer. Two attempts give a retry, and with repairs, recomputation
under fresh numbers. Two drivers are enough for one to lose, and the second
attempt of a partition for a late writer. Two map tasks of two units each and
one fetched bucket need five units under a limit of four, so every reservation
is refused in some interleaving; with a disk cache beside four reserved units, a
restart leaves the total above the limit.
`MaxRestarts` bounds a counter; the proofs do not depend on its value.

In `local_engine`, memory for one, two or three records makes every list longer
than that spill; four spills of one record are the first to merge two levels. One
open file for two reducers suspends a writer at each change of bucket. Tokens of
keys, keys and hashes are ordered differently, one key is too large to be sampled,
and a map output of four large records exceeds its limit, so every failure occurs. In
`job_plan`, the graphs have a shared shuffle, a diamond, each operator with a
mapping of its own and a sorted stage after a reduction, texts zipped with each kind
of partition, and unions whose tasks or plans panic; the files are empty, end
without a newline, have an empty line and a line too long to read; chunks end
inside and at the ends of lines. In `storage`, three partitions on two workers
leave one worker with two, two map stages read the cached input twice, and three
faults let a worker crash, return and lose an answer in one job. The jobs and the
local store are checked in one run; the programs of `MCStorage` are jobs of an uncached, a
cached and a reusable input.

Deadlock is not checked in the commit, worker and storage runs: writers, drivers
and workers may be done for good. `LocalEngine` and `JobPlan` have an explicit
last step instead.

Fairness. The coordinator is one goroutine that never waits for anything but
`ExecContext`, which has a deadline and a heartbeat: weak fairness of the
coordinator and the workers' answers together, none of cancellation. In the
worker, a task in the handler goes on (user code that loops forever is not
considered), and the cleanup client asks again after every 409. The other modules have safety
properties only: what they run is driven by the scheduler, whose termination is
checked, or is a loop over finite data.

Three runs show disagreements between the code and its comments:

* `scheduler_range_retry`: a repair inside `ensureRetry` deletes the boundaries
  of the range stage being retried, and the retry is dispatched without them.
  The worker refuses such a task, so the job fails although the loss was
  repaired. `SharedBounds` still holds: no map is ever accepted without.
* `worker_release`: a map task cancelled after its output was published removes
  it with `os.RemoveAll`, and its reservation stays until the job's cleanup.
  `CleanedReleased` shows that the cleanup does release it. It also says what
  survives a cleanup: the scratch directory of a task that died with the process,
  and the map output of a task that arrived late.
* `job_plan_union`: `Union` maps a partition of one branch into the other too,
  with an index outside it. Where that branch is a `Coalesce`, finding the buckets
  of the task panics; otherwise buckets are downloaded that the task never reads.
  A `ZipWithIndex` or `ZipPartitions` below a union panics likewise, and on the
  driver if the planner looks for cached partitions there. `TaskInputsCovered` shows
  that these are the only graphs whose walk panics, and that in the others a task's
  buckets include all it reads; `InputExact` allows a panic in no others but those
  that zip a text second.

## Proofs

The theorems hold for all values of the constants, from the assumptions stated
beside their declaration: stages are numbered after their parents, the result
stage is last and no range sort, a stage that reads a shuffle has a partition;
limits are natural numbers and there is a runner; `NoJob` is no job; tasks on a
worker are finitely many; in `CachedJob` there are a runner and a map stage, a
task has an attempt (`scheduleResults` replaces a limit below one) and the
other numbers are natural. `LocalStore` needs that the number of partitions is
natural, and `TextInput` nothing.

| Component | Theorems | Proofs |
|---|---|---|
| `Scheduler` | `TypeOK`, `LineageConsistent`, `SnapshotCurrent`, `NoStaleFailure`, `SharedBounds`, `SuccessComplete`, `AttemptsFresh`, `AttemptBound`, `RepairSelective`, `ImplementsLineage` | `SchedulerProofs` |
| `OutputCommit` | `TypeOK`, `CommittedReadable`, `ReportsTrue`, `CommitStable`, `ImplementsCommit` | `OutputCommitProofs` |
| `Worker` | `TypeOK`, `BudgetSound`, `OutputKept`, `CacheShared`, `CleanedReleased`, `NoFilesPulled` | `WorkerProofs` |
| `CachedJob` | `ForgottenIsReleased`, `AccumulatorsOnce` | `CachedJobProofs`, `StorageProofs` |
| `LocalStore` | `StoredExact` | `LocalStoreProofs` |
| `Storage` | the three above, of the composition | `StorageProofs` |
| `TextInput` | every line is read once | `TextInputProofs` |

`DataTheorems` has what several of them need: every nonempty set of natural
numbers has a least element, hence induction for a set of numbers; remainders; and
sums. `SumFunctionOnSet` is a recursive function over finite sets whose definition
says nothing until a function with its equations is shown to exist. The cardinality
of a bar chart (`Bars`) is one, and choosing the summands in another order
changes nothing: adding an index adds its value, changing one value changes the
sum by the difference, larger values give larger sums.

*Scheduler*. `LineageConsistent` is
not inductive: whether the next acceptance keeps it depends on the wave and on
the snapshots being collected. `IInv` adds that as long as no repair was made
since a wave began (`WaveValid`) earlier stages are complete, the tasks of the
wave are distinct, missing and on current snapshots (`EarlierDone`,
`CursorInv`, `WaveInv`); that an activation of `ensureRetry` works on a missing
task, and what it collected is current unless it will notice a repair
(`CallInv`); that boundaries exist exactly for sampled stages; that attempt
numbers in use are below the counters. There is one lemma per action.

Of every step it is then shown what it does to the lineage (`StepEffect`): it
leaves the accepted results alone, ends the job, accepts one missing result whose
parents are accepted, or calls `invalidate` for an accepted map. `RepairSelective`
follows from the last case: what `invalidate` withdraws is closed under
descendants, all of it is reached from the lost map, and because stages are
numbered after their parents only the lost map reads none of the rest. The same
cases are the steps of `LineageSpec`, or stutter, which is the refinement.

`AttemptBound` needs an account of dispatches (`AttemptInv`): since the last
repair an unaccepted task was dispatched once with its wave, and once more for
each failure its activation of `ensureRetry` has counted, below the limit. A
task that is accepted is not dispatched; one that a repair withdraws starts a new
account, whatever the old one had left.

*Output commit* (`OutputCommitProofs`). `IInv` says that closed and reported
attempts are full, that unused numbers have no file, that accepted attempts were
reported, and that a driver past selection, a put in flight and the marker name
only reported attempts; keys of different attempts differ, so no late writer
touches them. From it `CommittedReadable`, `ReportsTrue`, `CommitStable`, and
that the specification implements `CommitSpec`.

*Worker* (`WorkerProofs`). `IInv` says that the counters are the numbers of
tasks inside the handler (by cardinality of finite sets), what each phase of a
task says about its four paths, that a successful map output stays until the
cleanup, and that a task inside the handler of a cleaned job arrived late. A
counter at zero then means nobody is inside, which is what lets `Cleanup` and
`Unpersist` go ahead. From it `OutputKept`, `CacheShared`, `CleanedReleased`,
`NoFilesPulled`, and that every unit of a map output or a fetched bucket is reserved.
`TotalInv` is the
arithmetic of the budget: each action changes the reservations of one path, of a
few (a rename, a removal) or of all (a restart, which reserves again what it finds
on the disk), and the running total by the same amount. A restart
finds no more in those paths than was reserved for them, so they stay within the
limit; what it finds of disk caches, which belong to dead tasks only, comes on top.
Together they are `BudgetSound`.

*Forgotten names* (`CachedJobProofs`). That a name is forgotten only when released
speaks of one step at the end of a loop over the workers. The invariant says, of a
release in progress that has met no error, that each worker it passed holds
nothing under the name or has run a task since; a release that met an error does
not forget. One lemma per action gives `ForgottenIsReleased`.

*Accumulators* (`CachedJobProofs`, `StorageProofs`). `CountInv` follows a job
through waves, retries and repairs: every accepted result carries what its task
may add, and until a repair sends the loop back, every task it has passed is
accepted or pending (`Fine`). When the last stage ends, all are accepted, and the
sum that `mergeAccumulators` adds is one per map task of an uncached input and at
most that of a cached one. The exact value for a cached input is a statement
about placement. Without faults, partition `q` is read on runner
`q % Workers` by every stage (`PlaceInv`): the first stage deals partitions out
in turn, the later ones find one runner with a better score than all others. So a
task finds its partition unless it is the first ever to read it (`CacheInv`), and
the sum is the number of partitions. `pickWorkerIndexFor` itself is shown to
return a live free runner with the best score, and of those the next in turn.

*Local store* (`LocalStoreProofs`). The first invariant ties the step of a running
`Checkpoint` to the files of the directory it writes: there is no manifest before
the last part is whole, no RDD reads from the directory before it is published, and
a removal, however far it gets, makes files absent and never torn, which
`ReadCheckpoint` sees. It gives `CheckpointsComplete`. The second says that a
partition is stored only while what it was computed from is still there, the map
outputs or a checkpoint of the first RDD; that no store has anything of an
unpersisted RDD; and so that an action which skipped the shuffle can compute what
turns out torn. An action computes partition after partition, so this is shown by
induction over the partitions. `StorageProofs` carries the result to
`Storage`, whose behaviours are those of either part.

*Text input* (`TextInputProofs`). The chunks of a file tile it (they are of equal size,
and the last one takes the remainder), and a reader takes the lines
that start in its chunk: it skips to the next line unless the byte before the chunk
is a newline. So each
line of any file is read by exactly one partition (`LineOnce`): what `InputExact`
checks of the files of the instance, for one file of any content.

Only model-checked: `Termination` and `CleanupServed`, which are liveness
properties under fairness, out of this prover's reach; the properties of `JobPlan`
(`PlanSound`, `TaskInputsCovered`, `InputExact`), whose graph operators are declared
RECURSIVE, for which the provers have no rule; and those of `LocalEngine`
(`ResultExact`, `FailureJustified`, `SpillBounded`, `SaveSound`), which compare the
records of whole programs with a sequential reading: that takes an induction for
each fold of the engine (stable sorts, merges of runs, groups, combiners), which
the library above would allow but which has not been carried out.

## Not modelled

* The Kubernetes backend: generation of manifests and calls of external programs.
* `mllib`: floating-point numerics.
* Codecs, the registry of jobs and the parsing of configuration: no state, or state
  fixed at start-up. `/shuffle/` and `/health` of the worker only read.
* `RunPipelineLocal`, `AddBroadcast` called by hand, `SaveAsTextFileWith`,
  `RunPartition`, two local savers of one path.
* The in-memory shuffle manager and the writer of `DiskShuffleStore`, which the
  streaming path does not use.
* Declarations and mismatches of accumulators (in `Scheduler` a merge may fail), float
  sums; the sampling stage together with cache placement.
* Spill files of external sorts on a worker, which reserve in its scratch directory
  what they write; errors of the operating system when a directory is removed or
  renamed in the worker, or a bucket is written in the local shuffle.
* `TextFile` of a single file, nested directories and hidden names. A listing is one
  step with either outcome, so a file that appears half way through it is found or not.
* `Unpersist` called in a task, which reports dropped partitions to the scheduler.
* Element-wise operators: they apply a user function to one record.
