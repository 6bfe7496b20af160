------------------------------ MODULE Scheduler ------------------------------
(***************************************************************************)
(* The driver's lineage scheduler (scheduler.go): one coordinator          *)
(* goroutine walks the stages of a plan in topological order, dispatches   *)
(* the missing partitions of a stage in waves of at most one task per      *)
(* runner, accepts completions in partition order, retries failed tasks    *)
(* synchronously (ensureRetry, which recurses into the parents of a task), *)
(* and repairs lost map outputs: a FetchError removes the map it names and *)
(* every result of every stage downstream of it.                           *)
(*                                                                         *)
(* A task is <<stage, partition>>.  What a worker computes is abstracted   *)
(* to the lineage of the result: the attempt number, the attempts of the   *)
(* upstream maps it was given and the range boundaries it was given.       *)
(* Workers answer any task with success, an ordinary error (timeouts, lost *)
(* connections and results whose identity does not match included) or a    *)
(* FetchError naming one of the upstream maps of the task.                 *)
(***************************************************************************)
EXTENDS Integers, FiniteSets

CONSTANTS
  NumStages,      \* the plan's stages are 1..NumStages in topological order
  NumPartitions,  \* partitions of each stage
  Parents,        \* the map stages each stage reads
  RangeSort,      \* the map stages that partition by sampled boundaries
  NumRunners,     \* len(runners)
  MaxAttempts,    \* ScheduleOpts.MaxAttempts as given, 0 for the default
  MaxRecoveries   \* ScheduleOpts.MaxRecoveries as given, 0 for the default

Stages == 1..NumStages

(* The planner numbers a stage after its parents, and the result stage     *)
(* last; no stage reads the result stage.                                  *)
ASSUME PlanAssumption ==
  /\ NumStages \in Nat \ {0}
  /\ NumPartitions \in [Stages -> Nat]
  /\ Parents \in [Stages -> SUBSET Stages]
  /\ \A s \in Stages : \A q \in Parents[s] : q < s
  /\ RangeSort \subseteq Stages \ {NumStages}

(* A stage that reads a shuffle has a partition for each of its reducers,  *)
(* and a shuffle has at least one (a partitioner divides by their number). *)
ASSUME ReducerAssumption ==
  \A s \in Stages : Parents[s] # {} => NumPartitions[s] > 0

(* scheduleResults refuses negative limits and an empty runner list. *)
ASSUME OptsAssumption ==
  /\ NumRunners \in Nat \ {0}
  /\ MaxAttempts \in Nat
  /\ MaxRecoveries \in Nat

AttemptLimit == IF MaxAttempts = 0 THEN 3 ELSE MaxAttempts
RecoveryLimit == IF MaxRecoveries = 0 THEN 2 ELSE MaxRecoveries

Parts(s) == 0..(NumPartitions[s] - 1)
Tasks == UNION {{s} \X Parts(s) : s \in Stages}
UpTasks(s) == {u \in Tasks : u[1] \in Parents[s]}

None == -1
Attempt == Nat \cup {None}

(* The upstream manifests of a task: the attempt of each map, None for a   *)
(* map that is not (or not yet) in the list.                               *)
Snapshot == [Tasks -> Attempt]
NoUp == [u \in Tasks |-> None]

(* An entry of the accepted map; attempt None is a missing entry.  The     *)
(* boundaries of a range sort are identified by the number of repairs made *)
(* when they were sampled: a stage is sampled at most once between two.    *)
Result == [attempt : Attempt, up : Snapshot, bounds : Attempt]
Absent == [attempt |-> None, up |-> NoUp, bounds |-> None]

(* A taskCompletion of the current wave. *)
Completion == [part : Nat, attempt : Nat, up : Snapshot, bounds : Attempt,
               st : {"running", "ok", "error", "fetch"},
               lost : Tasks \cup {<<0, 0>>}]

(* The local variables of one activation of ensureRetry. *)
Call == [part : Nat, failures : Nat, before : Nat, up : Snapshot]
NoCall == [part |-> 0, failures |-> 0, before |-> 0, up |-> NoUp]

VARIABLES
  (* lineageScheduler *)
  accepted,   \* [Tasks -> Result]
  attempts,   \* [Tasks -> Nat], the next attempt number of each task
  repairs,    \* number of repairs so far
  sampled,    \* range stages whose boundaries are current
  bounds,     \* [Stages -> Attempt]
  (* scheduleResults, sampleStage and runStage *)
  pc,         \* where the coordinator is
  cur,        \* the stage it works on, NumStages + 1 after the last
  next,       \* the partition counter p of sampleStage and runStage
  before,     \* s.repairs when the stage or the wave was begun
  wave,       \* the completions of the current wave not yet handled
  left,       \* sample tasks of the current wave not yet handled
  tries,      \* failed attempts of the sample task at hand
  (* ensureRetry: it recurses from a stage into a parent of the stage, so  *)
  (* there is at most one activation per stage and the lowest runs.        *)
  active,     \* stages with an activation
  call,       \* [Stages -> Call]
  (* the caller's context, and how scheduleResults returned *)
  cancelled,
  outcome

lineage == <<accepted, attempts, repairs, sampled, bounds>>
place == <<cur, next, before, wave, left, tries>>
loop == <<pc, place>>
calls == <<active, call>>
vars == <<lineage, loop, calls, cancelled, outcome>>

Outcomes == {"running", "ok", "no workers", "retries exhausted", "canceled",
             "recovery limit", "stale failure", "callback", "accumulators",
             "encoding"}

TypeOK ==
  /\ accepted \in [Tasks -> Result]
  /\ attempts \in [Tasks -> Nat]
  /\ repairs \in Nat
  /\ sampled \subseteq Stages
  /\ bounds \in [Stages -> Attempt]
  /\ pc \in {"stage", "sample", "run", "await", "process", "retry", "returned"}
  /\ cur \in 1..(NumStages + 1)
  /\ next \in Nat
  /\ before \in Nat
  /\ wave \subseteq Completion
  /\ left \in Nat
  /\ tries \in Nat
  /\ active \subseteq Stages
  /\ call \in [Stages -> Call]
  /\ cancelled \in BOOLEAN
  /\ outcome \in Outcomes

Accepted(k) == accepted[k].attempt # None

Init ==
  /\ accepted = [k \in Tasks |-> Absent]
  /\ attempts = [k \in Tasks |-> 0]
  /\ repairs = 0
  /\ sampled = {}
  /\ bounds = [s \in Stages |-> None]
  /\ pc = "stage"
  /\ cur = 1
  /\ next = 0
  /\ before = 0
  /\ wave = {}
  /\ left = 0
  /\ tries = 0
  /\ active = {}
  /\ call = [s \in Stages |-> NoCall]
  /\ cancelled = FALSE
  /\ outcome = "running"

-----------------------------------------------------------------------------
(* Repair *)

(* The stages that depend on stage s: the least set that contains s and    *)
(* every stage with a parent in it.  invalidate computes it in one pass    *)
(* over the stages in topological order.                                   *)
Closed(C) == \A t \in Stages : Parents[t] \cap C # {} => t \in C
Affected(s) ==
  {t \in Stages : \A C \in SUBSET Stages : (s \in C /\ Closed(C)) => t \in C}
(* Variant: one level of children only. *)
DescendantsDirect(s) == {t \in Stages : s \in Parents[t]}

Descendants(s) == Affected(s) \ {s}

(* Why invalidate refuses a failure to read attempt a of map u. *)
Refusal(u, a) ==
  IF accepted[u].attempt # a THEN "stale failure"
  ELSE IF repairs >= RecoveryLimit THEN "recovery limit"
  ELSE "running"

(* Variant: the boundaries of the stage of the lost map go too. *)
InvalidateResamplesSource(u) ==
  /\ repairs' = repairs + 1
  /\ accepted' = [k \in Tasks |-> IF k = u \/ k[1] \in Descendants(u[1])
                                  THEN Absent ELSE accepted[k]]
  /\ sampled' = sampled \ Affected(u[1])
  /\ bounds' = [s \in Stages |-> IF s \in Affected(u[1]) THEN None ELSE bounds[s]]

(* Variant: the siblings of the lost map go too. *)
InvalidateWholeStage(u) ==
  /\ repairs' = repairs + 1
  /\ accepted' = [k \in Tasks |-> IF k[1] \in Affected(u[1])
                                  THEN Absent ELSE accepted[k]]
  /\ sampled' = sampled \ Descendants(u[1])
  /\ bounds' = [s \in Stages |-> IF s \in Descendants(u[1]) THEN None
                                 ELSE bounds[s]]

Invalidate(u) ==
  /\ repairs' = repairs + 1
  /\ accepted' = [k \in Tasks |-> IF k = u \/ k[1] \in Descendants(u[1])
                                  THEN Absent ELSE accepted[k]]
  /\ sampled' = sampled \ Descendants(u[1])
  /\ bounds' = [s \in Stages |-> IF s \in Descendants(u[1]) THEN None
                                 ELSE bounds[s]]

(* scheduleResults returns. *)
Exit(why) ==
  /\ pc' = "returned"
  /\ outcome' = why
  /\ UNCHANGED <<lineage, place, calls, cancelled>>

(* Variant: the stage that met the failure is run again, not its parents. *)
RestartSameStage ==
  /\ pc' = "stage"
  /\ next' = 0
  /\ before' = repairs'
  /\ wave' = {}
  /\ left' = 0
  /\ tries' = 0
  /\ cur' = cur

(* scheduleResults goes back to the first stage. *)
Restart ==
  /\ pc' = "stage"
  /\ cur' = 1
  /\ next' = 0
  /\ before' = repairs'
  /\ wave' = {}
  /\ left' = 0
  /\ tries' = 0

(* The failure to read attempt a of map u, met outside ensureRetry. *)
RepairAndRestart(u, a) ==
  IF Refusal(u, a) # "running" THEN Exit(Refusal(u, a))
  ELSE /\ Invalidate(u)
       /\ Restart
       /\ UNCHANGED <<attempts, calls, cancelled, outcome>>

-----------------------------------------------------------------------------
(* scheduleResults: the loop over the stages *)

EnterStage ==
  /\ pc = "stage"
  /\ cur <= NumStages
  /\ pc' = IF cur \in RangeSort \ sampled THEN "sample" ELSE "run"
  /\ next' = 0
  /\ before' = repairs
  /\ UNCHANGED <<lineage, cur, wave, left, tries, calls, cancelled, outcome>>

(* Every stage was run without a repair: the job is complete if the result *)
(* partitions are all there.  Merging the accumulators of the accepted     *)
(* results fails when a name or a kind is unknown.                         *)
Finish ==
  /\ pc = "stage"
  /\ cur = NumStages + 1
  /\ IF \A p \in Parts(NumStages) : Accepted(<<NumStages, p>>)
     THEN \E why \in {"ok", "accumulators"} : Exit(why)
     ELSE /\ UNCHANGED <<lineage, calls, cancelled, outcome>>
          /\ Restart

-----------------------------------------------------------------------------
(* sampleStage.  Sample tasks leave no trace in the scheduler until their  *)
(* wave is gone through in partition order, so dispatching a wave, waiting *)
(* for it and looking at the context again is one step, and the answer of  *)
(* a sample task is chosen when its turn comes.                            *)

SampleWave(n) ==
  /\ pc = "sample" /\ left = 0 /\ ~cancelled
  /\ n <= NumPartitions[cur] - next
  /\ left' = n
  /\ UNCHANGED <<lineage, pc, cur, next, before, wave, tries, calls, cancelled,
                 outcome>>

(* Variant: one completion too many is gone through. *)
SampleOKPastEnd ==
  /\ pc = "sample"
  /\ next' = next + 1
  /\ left' = left - 1
  /\ tries' = 0
  /\ UNCHANGED <<lineage, pc, cur, before, wave, calls, cancelled, outcome>>

SampleOK ==
  /\ pc = "sample" /\ left > 0
  /\ next' = next + 1
  /\ left' = left - 1
  /\ tries' = 0
  /\ UNCHANGED <<lineage, pc, cur, before, wave, calls, cancelled, outcome>>

SampleError ==
  /\ pc = "sample" /\ left > 0
  /\ IF tries + 1 < AttemptLimit
     THEN /\ tries' = tries + 1
          /\ UNCHANGED <<lineage, pc, cur, next, before, wave, left, calls,
                         cancelled, outcome>>
     ELSE Exit("retries exhausted")

SampleNoWorkers ==
  /\ pc = "sample" /\ next < NumPartitions[cur]
  /\ \/ left = 0 /\ ~cancelled
     \/ tries > 0
  /\ Exit("no workers")

SampleFetchError(u) ==
  /\ pc = "sample" /\ left > 0
  /\ u \in UpTasks(cur)
  /\ RepairAndRestart(u, accepted[u].attempt)

(* Variant: the stage is not marked as sampled. *)
SampleDoneUnmarked ==
  /\ pc = "sample" /\ next = NumPartitions[cur]
  /\ bounds' = [bounds EXCEPT ![cur] = repairs]
  /\ pc' = "run"
  /\ next' = 0
  /\ UNCHANGED <<accepted, attempts, repairs, sampled, cur, before, wave, left,
                 tries, calls, cancelled, outcome>>

SampleDone ==
  /\ pc = "sample" /\ next = NumPartitions[cur]
  /\ bounds' = [bounds EXCEPT ![cur] = repairs]
  /\ sampled' = sampled \cup {cur}
  /\ pc' = "run"
  /\ next' = 0
  /\ UNCHANGED <<accepted, attempts, repairs, cur, before, wave, left, tries, calls,
                 cancelled, outcome>>

(* The boundaries cannot be encoded. *)
SampleEncodeError ==
  /\ pc = "sample" /\ next = NumPartitions[cur]
  /\ Exit("encoding")

-----------------------------------------------------------------------------
(* runStage *)

Pending == {p \in Parts(cur) : p >= next /\ ~Accepted(<<cur, p>>)}

(* The task list is the manifests accepted now, for every parent map. *)
Upstream(s) == [u \in Tasks |-> IF u \in UpTasks(s) THEN accepted[u].attempt
                                ELSE None]

NewTask(p) ==
  [part |-> p, attempt |-> attempts[<<cur, p>>], up |-> Upstream(cur),
   bounds |-> bounds[cur], st |-> "running", lost |-> <<0, 0>>]

(* The healthy runners found take the first pending partitions, one each. *)
StartWave(W) ==
  /\ ~cancelled
  /\ W # {} /\ Cardinality(W) <= NumRunners
  /\ \A p \in W : \A q \in Pending : q < p => q \in W
  /\ wave' = {NewTask(p) : p \in W}
  /\ attempts' = [k \in Tasks |-> IF k[1] = cur /\ k[2] \in W
                                  THEN attempts[k] + 1 ELSE attempts[k]]
  /\ \E last \in W :
       /\ \A q \in W : q <= last
       /\ next' = IF W = Pending /\ Cardinality(W) < NumRunners
                  THEN NumPartitions[cur] ELSE last + 1
  /\ before' = repairs
  /\ pc' = "await"
  /\ UNCHANGED <<accepted, repairs, sampled, bounds, cur, left, tries, calls,
                 cancelled, outcome>>

NoHealthyWorkers ==
  /\ pc = "run" /\ ~cancelled /\ Pending # {}
  /\ Exit("no workers")

(* Variant: an empty wave always ends the stage. *)
StageDoneOnEmptyWave ==
  /\ pc = "run" /\ ~cancelled
  /\ pc' = "stage"
  /\ cur' = cur + 1
  /\ next' = 0
  /\ UNCHANGED <<lineage, before, wave, left, tries, calls, cancelled, outcome>>

StageDone ==
  /\ pc = "run" /\ Pending = {}
  /\ next < NumPartitions[cur] => ~cancelled
  /\ pc' = "stage"
  /\ cur' = cur + 1
  /\ next' = 0
  /\ UNCHANGED <<lineage, before, wave, left, tries, calls, cancelled, outcome>>

(* The runners of a wave answer in any order.  A range-map task without    *)
(* boundaries is refused by the worker.                                    *)
Complete(w, st, u) ==
  /\ pc = "await" /\ w \in wave /\ w.st = "running"
  /\ wave' = (wave \ {w}) \cup {[w EXCEPT !.st = st, !.lost = u]}
  /\ UNCHANGED <<lineage, pc, cur, next, before, left, tries, calls, cancelled,
                 outcome>>

TaskOK(w) ==
  /\ cur \in RangeSort => w.bounds # None
  /\ Complete(w, "ok", <<0, 0>>)

TaskError(w) == Complete(w, "error", <<0, 0>>)

TaskFetchError(w, u) ==
  /\ u \in UpTasks(cur)
  /\ Complete(w, "fetch", u)

WaveAnswered ==
  /\ pc = "await" /\ ~cancelled
  /\ \A w \in wave : w.st # "running"
  /\ pc' = "process"
  /\ UNCHANGED <<lineage, place, calls, cancelled, outcome>>

(* The wave is gone through in partition order. *)
First(w) == w \in wave /\ \A v \in wave : w.part <= v.part

ResultOf(t) == [attempt |-> t.attempt, up |-> t.up, bounds |-> t.bounds]

(* OnTaskComplete runs after the result is accepted and may fail the job. *)
AcceptCompletion(w) ==
  /\ pc = "process" /\ First(w) /\ w.st = "ok"
  /\ accepted' = [accepted EXCEPT ![<<cur, w.part>>] = ResultOf(w)]
  /\ wave' = wave \ {w}
  /\ \/ UNCHANGED <<pc, outcome>>
     \/ pc' = "returned" /\ outcome' = "callback"
  /\ UNCHANGED <<attempts, repairs, sampled, bounds, cur, next, before, left,
                 tries, calls, cancelled>>

FetchFailed(w) ==
  /\ pc = "process" /\ First(w) /\ w.st = "fetch"
  /\ RepairAndRestart(w.lost, w.up[w.lost])

(* Variant: the failed dispatch of the wave is not counted. *)
RetryCompletionUncounted(w) ==
  /\ pc = "process" /\ First(w) /\ w.st = "error"
  /\ IF AttemptLimit = 1 THEN Exit("retries exhausted")
     ELSE IF cancelled THEN Exit("canceled")
     ELSE /\ active' = {cur}
          /\ call' = [call EXCEPT ![cur] = [part |-> w.part, failures |-> 0,
                                            before |-> repairs, up |-> NoUp]]
          /\ wave' = wave \ {w}
          /\ pc' = "retry"
          /\ UNCHANGED <<lineage, cur, next, before, left, tries, cancelled,
                         outcome>>

(* The failed dispatch of the wave is the first failure of ensureRetry. *)
RetryCompletion(w) ==
  /\ pc = "process" /\ First(w) /\ w.st = "error"
  /\ IF AttemptLimit = 1 THEN Exit("retries exhausted")
     ELSE IF cancelled THEN Exit("canceled")
     ELSE /\ active' = {cur}
          /\ call' = [call EXCEPT ![cur] = [part |-> w.part, failures |-> 1,
                                            before |-> repairs, up |-> NoUp]]
          /\ wave' = wave \ {w}
          /\ pc' = "retry"
          /\ UNCHANGED <<lineage, cur, next, before, left, tries, cancelled,
                         outcome>>

WaveDone ==
  /\ pc = "process" /\ wave = {}
  /\ pc' = "run"
  /\ UNCHANGED <<lineage, place, calls, cancelled, outcome>>

-----------------------------------------------------------------------------
(* ensureRetry *)

Running(s) == pc = "retry" /\ s \in active /\ \A t \in active : s <= t
Collected(s) == \A u \in UpTasks(s) : call[s].up[u] # None

(* Variant: a repair made while the snapshot was collected goes unnoticed. *)
ReadyUnchecked(s) == Running(s) /\ Collected(s)

Ready(s) == Running(s) /\ Collected(s) /\ call[s].before = repairs
TaskOf(s) == <<s, call[s].part>>

(* Variant: beforeRepair is read once, before the loop. *)
AgainSameBefore(s, n) ==
  call' = [call EXCEPT ![s].up = NoUp, ![s].failures = n]

(* The loop is entered anew: the parent snapshot is collected from scratch. *)
Again(s, n) ==
  call' = [call EXCEPT ![s].up = NoUp, ![s].before = repairs', ![s].failures = n]

(* An upstream map is accepted: its manifest joins the snapshot. *)
CollectParent(s, u) ==
  /\ Running(s)
  /\ u \in UpTasks(s) /\ call[s].up[u] = None /\ Accepted(u)
  /\ call' = [call EXCEPT ![s].up[u] = accepted[u].attempt]
  /\ UNCHANGED <<lineage, loop, active, cancelled, outcome>>

(* An upstream map is missing: ensure recurses into it. *)
EnsureParent(s, u) ==
  /\ Running(s) /\ ~cancelled
  /\ u \in UpTasks(s) /\ call[s].up[u] = None /\ ~Accepted(u)
  /\ active' = active \cup {u[1]}
  /\ call' = [call EXCEPT ![u[1]] = [part |-> u[2], failures |-> 0,
                                     before |-> repairs, up |-> NoUp]]
  /\ UNCHANGED <<lineage, loop, cancelled, outcome>>

(* A repair happened while the snapshot was collected: rebuild it. *)
RebuildSnapshot(s) ==
  /\ Running(s) /\ ~cancelled
  /\ Collected(s) /\ call[s].before # repairs
  /\ repairs' = repairs
  /\ Again(s, call[s].failures)
  /\ UNCHANGED <<accepted, attempts, sampled, bounds, loop, active, cancelled,
                 outcome>>

(* Variant: a retry reuses the attempt number. *)
DispatchReuse(k) == attempts' = attempts

Dispatch(k) == attempts' = [attempts EXCEPT ![k] = @ + 1]

(* Variant: the rest of the wave is handled whatever was repaired. *)
ReturnToWave(s) ==
  /\ active' = active \ {s}
  /\ call' = [call EXCEPT ![s] = NoCall]
  /\ IF active = {s}
     THEN pc' = "process" /\ UNCHANGED place
     ELSE UNCHANGED loop

(* ensureRetry returns; at the end of the outermost one runStage returns   *)
(* too if there was a repair meanwhile, dropping the rest of the wave.     *)
Return(s) ==
  /\ active' = active \ {s}
  /\ call' = [call EXCEPT ![s] = NoCall]
  /\ IF active = {s}
     THEN IF repairs # before THEN Restart
          ELSE pc' = "process" /\ UNCHANGED place
     ELSE UNCHANGED loop

RetryOK(s) ==
  /\ Ready(s) /\ ~cancelled
  /\ s \in RangeSort => bounds[s] # None
  /\ Dispatch(TaskOf(s))
  /\ accepted' = [accepted EXCEPT ![TaskOf(s)] =
                    [attempt |-> attempts[TaskOf(s)], up |-> call[s].up,
                     bounds |-> bounds[s]]]
  /\ UNCHANGED <<repairs, sampled, bounds, cancelled>>
  /\ \/ outcome' = outcome /\ Return(s)
     \/ outcome' = "callback" /\ pc' = "returned" /\ UNCHANGED <<place, calls>>

RetryError(s) ==
  /\ Ready(s) /\ ~cancelled
  /\ Dispatch(TaskOf(s))
  /\ repairs' = repairs
  /\ Again(s, call[s].failures + 1)
  /\ IF call[s].failures + 1 >= AttemptLimit
     THEN pc' = "returned" /\ outcome' = "retries exhausted"
     ELSE UNCHANGED <<pc, outcome>>
  /\ UNCHANGED <<accepted, sampled, bounds, place, active, cancelled>>

RetryNoWorkers(s) ==
  /\ Ready(s)
  /\ Dispatch(TaskOf(s))
  /\ pc' = "returned"
  /\ outcome' = "no workers"
  /\ UNCHANGED <<accepted, repairs, sampled, bounds, place, calls, cancelled>>

RetryFetchError(s, u) ==
  /\ Ready(s) /\ ~cancelled
  /\ u \in UpTasks(s)
  /\ Dispatch(TaskOf(s))
  /\ outcome' = Refusal(u, call[s].up[u])
  /\ IF outcome' = "running"
     THEN Invalidate(u) /\ Again(s, call[s].failures) /\ pc' = pc
     ELSE pc' = "returned" /\ UNCHANGED <<accepted, repairs, sampled, bounds, call>>
  /\ UNCHANGED <<place, active, cancelled>>

-----------------------------------------------------------------------------
(* The caller cancels the context; the coordinator sees it where it looks: *)
(* before and after a wave, at the top of ensureRetry's loop and after a   *)
(* retried task was executed.                                              *)

Cancel ==
  /\ ~cancelled /\ pc # "returned"
  /\ cancelled' = TRUE
  /\ UNCHANGED <<lineage, loop, calls, outcome>>

SeeCancel ==
  /\ cancelled
  /\ \/ pc = "sample" /\ next < NumPartitions[cur] /\ left = 0
     \/ pc = "run" /\ next < NumPartitions[cur]
     \/ pc = "await" /\ \A w \in wave : w.st # "running"
     \/ \E s \in Stages : /\ Running(s)
                          /\ \/ Collected(s)
                             \/ \E u \in UpTasks(s) :
                                  call[s].up[u] = None /\ ~Accepted(u)
  /\ Exit("canceled")

(* scheduleResults has returned. *)
Returned ==
  /\ pc = "returned"
  /\ UNCHANGED vars

Loop ==
  \/ EnterStage
  \/ Finish
  \/ \E n \in 1..NumRunners : SampleWave(n)
  \/ SampleOK
  \/ SampleError
  \/ SampleNoWorkers
  \/ \E u \in Tasks : SampleFetchError(u)
  \/ SampleDone
  \/ SampleEncodeError
  \/ pc = "run" /\ \E W \in SUBSET Pending : StartWave(W)
  \/ NoHealthyWorkers
  \/ StageDone
  \/ WaveAnswered
  \/ \E w \in wave : AcceptCompletion(w)
  \/ \E w \in wave : FetchFailed(w)
  \/ \E w \in wave : RetryCompletion(w)
  \/ WaveDone

Retry ==
  \/ \E s \in Stages, u \in Tasks : CollectParent(s, u)
  \/ \E s \in Stages, u \in Tasks : EnsureParent(s, u)
  \/ \E s \in Stages : RebuildSnapshot(s)
  \/ \E s \in Stages : RetryOK(s)
  \/ \E s \in Stages : RetryError(s)
  \/ \E s \in Stages : RetryNoWorkers(s)
  \/ \E s \in Stages, u \in Tasks : RetryFetchError(s, u)

Workers ==
  \/ \E w \in wave : TaskOK(w)
  \/ \E w \in wave : TaskError(w)
  \/ \E w \in wave, u \in Tasks : TaskFetchError(w, u)

Next == Loop \/ Retry \/ Workers \/ Cancel \/ SeeCancel \/ Returned

(* The coordinator goroutine never blocks, and ExecContext always returns: *)
(* the client gives every RPC a deadline and a failing heartbeat ends it.  *)
Fairness ==
  WF_vars(Loop \/ Retry \/ Workers \/ SeeCancel)

Spec == Init /\ [][Next]_vars /\ Fairness
-----------------------------------------------------------------------------
(* Properties *)

(* An accepted result was computed from the map attempts that are accepted *)
(* now, all of them: a repair leaves no result derived from a withdrawn    *)
(* map behind (invalidate), and no result is accepted on a partial or      *)
(* outdated parent snapshot (runStage, ensureRetry).                       *)
LineageConsistent ==
  \A k \in Tasks : Accepted(k) =>
    \A u \in UpTasks(k[1]) : Accepted(u) /\ accepted[k].up[u] = accepted[u].attempt

(* While a task is with a worker, and until its answer is handled, the map *)
(* attempts it reads are the accepted ones: no completion of a wave races  *)
(* with a repair, and ensureRetry never dispatches a snapshot that a       *)
(* repair made while it was being collected has changed.                   *)
SnapshotCurrent ==
  /\ pc \in {"await", "process"} =>
       \A w \in wave : \A u \in UpTasks(cur) :
         Accepted(u) /\ w.up[u] = accepted[u].attempt
  /\ \A s \in active : Ready(s) =>
       \A u \in UpTasks(s) : Accepted(u) /\ call[s].up[u] = accepted[u].attempt

(* A FetchError a worker reports about its own upstream list is never      *)
(* mistaken for a stale one: "stale shuffle failure" ends no job.          *)
NoStaleFailure == outcome # "stale failure"

(* The accepted maps of a range sort were all partitioned by the same      *)
(* boundaries, the current ones: a repair that makes the scheduler sample  *)
(* again also withdraws every map cut by the old boundaries.               *)
SharedBounds ==
  \A k \in Tasks : Accepted(k) /\ k[1] \in RangeSort =>
    accepted[k].bounds # None /\ accepted[k].bounds = bounds[k[1]]

(* scheduleResults returns results only when every task of every stage,    *)
(* not just of the result stage, is accepted: mergeAccumulators counts     *)
(* each partition of the plan exactly once.                                *)
SuccessComplete == outcome = "ok" => \A k \in Tasks : Accepted(k)

(* No dispatch reuses the attempt number, and with it the output path, of  *)
(* an accepted result, of a task in flight, or of a map some result or     *)
(* task still refers to, recomputation after a repair included.            *)
AttemptsFresh ==
  /\ \A k \in Tasks : /\ accepted[k].attempt < attempts[k]
                      /\ \A u \in Tasks : accepted[k].up[u] < attempts[u]
  /\ \A w \in wave : /\ w.attempt < attempts[<<cur, w.part>>]
                     /\ \A u \in Tasks : w.up[u] < attempts[u]

(* Retries and repairs are bounded together: a task is dispatched at most  *)
(* MaxAttempts times between two repairs, whatever mixture of waves,       *)
(* retries and recursive ensures dispatches it.                            *)
AttemptBound == \A k \in Tasks : attempts[k] <= AttemptLimit * (repairs + 1)

(* An accepted result is never overwritten, and is withdrawn only by a     *)
(* repair; of the results one repair withdraws exactly one reads none of   *)
(* the others: the lost map, whose siblings and unrelated branches stay.   *)
Withdrawn == {k \in Tasks : Accepted(k) /\ accepted'[k] # accepted[k]}
RepairSelective ==
  [][Withdrawn # {} =>
       /\ repairs' = repairs + 1
       /\ \A k \in Withdrawn : accepted'[k] = Absent
       /\ \E u \in Withdrawn :
            \A k \in Withdrawn : (UpTasks(k[1]) \cap Withdrawn = {}) <=> k = u]_vars

(* scheduleResults returns, whatever the workers answer. *)
Termination == <>(outcome # "running")

(* "sampleStage reads a bounded reservoir from each map input partition    *)
(* before any range-map attempt is dispatched" (scheduler.go:242).         *)
SampledBeforeDispatch ==
  /\ pc = "await" /\ cur \in RangeSort => \A w \in wave : w.bounds # None
  /\ \A s \in active \cap RangeSort : Ready(s) => bounds[s] # None

(* The scheduler implements LineageSpec. *)
ReadsMap(k, u) == u[1] \in Parents[k[1]]
Status == IF outcome \in {"running", "ok"} THEN outcome ELSE "failed"
Abstract == INSTANCE LineageSpec WITH
              Reads <- ReadsMap,
              done <- {k \in Tasks : Accepted(k)},
              losses <- repairs,
              status <- Status

(* Every behaviour of the scheduler is one of the abstract lineage: in     *)
(* particular invalidate withdraws exactly the results derived from the    *)
(* lost map, and every accepted result stands on accepted parents.         *)
ImplementsLineage == Abstract!ASpec
=============================================================================
