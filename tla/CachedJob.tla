------------------------------ MODULE CachedJob ------------------------------
(* Jobs over a shared input, as in the cached fan-out: several shuffle-map   *)
(* stages read the partitions of one narrow-lineage input, which adds one to *)
(* an accumulator for every partition it really computes, and a result task  *)
(* reads the map outputs. The driver places tasks by what it believes the    *)
(* workers cache, the workers keep partitions for the job or for a reusable  *)
(* identity, and the driver's ScheduleCache releases that identity. Workers  *)
(* crash and come back, responses are lost, map outputs disappear.           *)
(* Stages are 1 .. MapStages and the result stage; a task is <<stage, part>>.*)
EXTENDS Integers, Sequences, FiniteSets, FiniteSetsExt

CONSTANTS
    Workers,       \* number of runners, indexed from 0
    Parts,         \* partitions of the shared input
    MapStages,     \* map stages that read it
    MaxRecoveries,
    Programs       \* [cached, reuse, attempts, jobs, faults]: Cache on the input, a
                   \* reusable identity, ScheduleOpts.MaxAttempts; and bounds on the
                   \* jobs and on the crashes, lost calls and lost map outputs

ASSUME SizesAssumption ==
    /\ Workers \in Nat \ {0} /\ Parts \in Nat /\ MapStages \in Nat \ {0}
    /\ MaxRecoveries \in Nat
    /\ Programs \subseteq [cached : BOOLEAN, reuse : BOOLEAN, attempts : Nat \ {0},
                           jobs : Nat, faults : Nat]

VARIABLES
    program,
    s,             \* lineageScheduler of the current job
    pc,            \* where scheduleResults is
    submitted, succeeded,
    acc,           \* the driver's accumulator
    up, inc,       \* worker processes and their incarnations (WorkerID)
    jobCache, reusable, \* partitions a worker holds for the job, the identity
    named, closed, \* ScheduleCache: the identity is registered; Stop was called
    persisted,     \* Persist returned a spec with the identity
    rel,           \* the release in progress: [op, worker, err], or NoRelease
    released,      \* history: some release began
    touched,       \* history: a task ran on the worker since a release came to it
    faults

job == <<s, pc, submitted, succeeded, acc>>
worker == <<up, inc, jobCache, reusable, touched>>
handle == <<named, closed, persisted, rel, released>>
vars == <<program, job, worker, handle, faults>>

W == 0..(Workers - 1)
ResultStage == MapStages + 1
NumPartitions(st) == IF st = ResultStage THEN 1 ELSE Parts
MapTasks == (1..MapStages) \X (0..(Parts - 1))
Tasks == MapTasks \cup {<<ResultStage, 0>>}
None == -1
NoRelease == [op |-> "none", worker |-> 0, err |-> FALSE]
NoCall == [task |-> <<0, 0>>, worker |-> None, state |-> "none", added |-> 0, lost |-> <<0, 0>>]

NewScheduler ==
    [stage |-> 1, p |-> 0, wave |-> <<>>, before |-> 0, retry |-> <<>>, call |-> NoCall,
     accepted |-> [t \in Tasks |-> None], locations |-> {}, ids |-> [w \in W |-> 0],
     worker |-> 0, repairs |-> 0]

-----------------------------------------------------------------------------
(* Placement. locations holds <<partition, worker>> pairs.                   *)
StageCacheHints(t) == IF program.cached /\ t \in MapTasks THEN {t[2]} ELSE {}

DropWorkerCache(locations, ws) == {l \in locations : l[2] \notin ws}

RememberWorkerCache(locations, w, cached, dropped) ==
    (locations \ (dropped \X {w})) \cup (cached \X {w})

(* pickWorkerIndexFor probes every runner not in used: it forgets what dead  *)
(* and replaced workers held, notes the identities, and takes the first      *)
(* worker, from s.worker on, with the most hinted partitions.                *)
PickWorkerIndexFor(sch, used, hints) ==
    LET probed == W \ used
        live == {w \in probed : up[w]}
        replaced == {w \in live : sch.ids[w] \notin {0, inc[w]}}
        locations == DropWorkerCache(sch.locations, (probed \ live) \cup replaced)
        score(w) == Cardinality({h \in hints : <<h, w>> \in locations})
        turn(w) == (w + Workers - sch.worker) % Workers
        best == CHOOSE w \in live : \A v \in live \ {w} :
                    score(w) > score(v) \/ (score(w) = score(v) /\ turn(w) < turn(v))
        index == IF live = {} THEN None ELSE best
    IN  [index |-> index,
         sch |-> [sch EXCEPT !.locations = locations,
                     !.ids = [w \in W |-> IF w \in live THEN inc[w] ELSE @[w]],
                     !.worker = IF index = None THEN @ ELSE (index + 1) % Workers]]

-----------------------------------------------------------------------------
(* The result is accepted: what it added to the accumulator, what it cached. *)
(* It drops nothing: no function of these jobs calls Unpersist in a task.    *)
Accept(sch, e) ==
    [sch EXCEPT !.accepted[e.task] = e.added,
                !.locations = RememberWorkerCache(@, e.worker, StageCacheHints(e.task), {})]

(* mergeAccumulators over the accepted results of every stage.               *)
MergeAccumulators(accepted) ==
    acc + MapThenSumSet(LAMBDA t : accepted[t], {t \in Tasks : accepted[t] # None})

(* invalidate: the lost map output and everything below it are to run again. *)
Invalidate(sch, m) ==
    [sch EXCEPT !.accepted[m] = None, !.accepted[<<ResultStage, 0>>] = None, !.repairs = @ + 1]

(* scheduleResults starts over with the first stage after a repair.          *)
Restart(sch) == [sch EXCEPT !.stage = 1, !.p = 0, !.wave = <<>>, !.before = sch.repairs]

Init ==
    /\ program \in Programs
    /\ s = NewScheduler /\ pc = "idle"
    /\ submitted = 0 /\ succeeded = 0 /\ acc = 0
    /\ up = [w \in W |-> TRUE] /\ inc = [w \in W |-> 1]
    /\ jobCache = [w \in W |-> {}] /\ reusable = [w \in W |-> {}]
    /\ named = FALSE /\ closed = FALSE /\ persisted = FALSE
    /\ rel = NoRelease /\ released = FALSE
    /\ touched = [w \in W |-> FALSE]
    /\ faults = 0

-----------------------------------------------------------------------------
(* scheduleResults and runStage.                                             *)
Submit ==
    /\ pc = "idle" /\ submitted < program.jobs
    /\ program.reuse => persisted
    /\ s' = NewScheduler
    /\ pc' = "fill"
    /\ submitted' = submitted + 1
    /\ jobCache' = [w \in W |-> {}]      \* a new job ID
    /\ UNCHANGED <<program, succeeded, acc, up, inc, reusable, touched, handle, faults>>

(* A plausible slip: the contributions of a failed job are added too.        *)
EndJobMerging(ok) ==
    /\ acc' = MergeAccumulators(s.accepted)
    /\ succeeded' = IF ok THEN succeeded + 1 ELSE succeeded
    /\ pc' = "idle" /\ s' = NewScheduler
    /\ UNCHANGED <<program, submitted, worker, handle, faults>>

EndJob(ok) ==
    /\ acc' = IF ok THEN MergeAccumulators(s.accepted) ELSE acc
    /\ succeeded' = IF ok THEN succeeded + 1 ELSE succeeded
    /\ pc' = "idle" /\ s' = NewScheduler
    /\ UNCHANGED <<program, submitted, worker, handle, faults>>

Step(sch, next) ==
    /\ s' = sch /\ pc' = next
    /\ UNCHANGED <<program, submitted, succeeded, acc, worker, handle, faults>>

WaveFull == s.p = NumPartitions(s.stage) \/ Len(s.wave) = Workers

(* One pass of the loop that fills a wave.                                   *)
FillWave ==
    /\ pc = "fill" /\ ~WaveFull
    /\ LET t == <<s.stage, s.p>>
           pick == PickWorkerIndexFor(s, {s.wave[i].worker : i \in DOMAIN s.wave}, StageCacheHints(t))
           sent == [NoCall EXCEPT !.task = t, !.worker = pick.index, !.state = "sent"]
       IN  IF s.accepted[t] # None THEN Step([s EXCEPT !.p = @ + 1], "fill")
           ELSE IF pick.index # None
           THEN Step([pick.sch EXCEPT !.wave = Append(@, sent), !.p = @ + 1], "fill")
           ELSE IF s.wave = <<>> THEN EndJob(FALSE)       \* no healthy workers
           ELSE Step(pick.sch, "exec")

CloseWave ==
    /\ pc = "fill" /\ WaveFull
    /\ IF s.wave # <<>> THEN Step(s, "exec")
       ELSE IF s.stage # ResultStage THEN Step([s EXCEPT !.stage = @ + 1, !.p = 0], "fill")
       ELSE EndJob(TRUE)

-----------------------------------------------------------------------------
(* Calls in flight: those of the wave, or (0) the one of a retry.            *)
Calls == IF pc = "exec" THEN DOMAIN s.wave ELSE IF pc = "call" THEN {0} ELSE {}
Call(i) == IF i = 0 THEN s.call ELSE s.wave[i]
SetCall(i, e) == IF i = 0 THEN [s EXCEPT !.call = e] ELSE [s EXCEPT !.wave[i] = e]
Answered(e) == e.state \in {"ok", "error", "fetch"}
Answering(i, e) ==
    /\ s' = SetCall(i, e)
    /\ UNCHANGED <<program, pc, submitted, succeeded, acc, handle>>

(* The task computes the input partition it reads, or finds it in the cache  *)
(* shared by the worker's tasks; withCacheUpdates reports both. Its response *)
(* may be lost on the way. The worker releases no cache in the middle: see   *)
(* ReleaseWorker.                                                            *)
Holds(w) == IF program.reuse THEN reusable[w] ELSE jobCache[w]

RunTask(i, lost) ==
    LET e == Call(i)
        reads == IF e.task \in MapTasks THEN {e.task[2]} ELSE {}
        computed == IF program.cached THEN reads \ Holds(e.worker) ELSE reads
        puts == IF program.cached THEN reads ELSE {}
    IN  /\ e.state = "sent" /\ up[e.worker]
        /\ lost => faults < program.faults
        /\ faults' = IF lost THEN faults + 1 ELSE faults
        /\ Answering(i, IF lost THEN [e EXCEPT !.state = "error"]
                        ELSE [e EXCEPT !.state = "ok", !.added = Cardinality(computed)])
        /\ IF program.reuse
           THEN reusable' = [reusable EXCEPT ![e.worker] = @ \cup puts] /\ UNCHANGED jobCache
           ELSE jobCache' = [jobCache EXCEPT ![e.worker] = @ \cup puts] /\ UNCHANGED reusable
        /\ touched' = IF program.reuse THEN [touched EXCEPT ![e.worker] = TRUE] ELSE touched
        /\ UNCHANGED <<up, inc>>

(* A result task finds that an accepted map output is gone.                  *)
FetchFails(i, m) ==
    LET e == Call(i)
    IN  /\ e.state = "sent" /\ up[e.worker]
        /\ e.task[1] = ResultStage /\ faults < program.faults
        /\ faults' = faults + 1
        /\ Answering(i, [e EXCEPT !.state = "fetch", !.lost = m])
        /\ UNCHANGED worker

(* The connection is refused, or the heartbeat finds the worker gone.        *)
CallFails(i) ==
    LET e == Call(i)
    IN  /\ ~Answered(e) /\ ~up[e.worker]
        /\ Answering(i, [e EXCEPT !.state = "error"])
        /\ UNCHANGED <<worker, faults>>

-----------------------------------------------------------------------------
(* The completions of a wave, in partition order, once all have answered.    *)
AcceptWave ==
    /\ pc = "exec" /\ \A i \in DOMAIN s.wave : Answered(s.wave[i])
    /\ LET e == Head(s.wave)
           rest == [s EXCEPT !.wave = Tail(@)]
           next == IF Len(s.wave) = 1 THEN "fill" ELSE "exec"
       IN  \/ e.state = "ok" /\ Step(Accept(rest, e), next)
           \/ /\ e.state = "fetch"
              /\ IF s.repairs >= MaxRecoveries THEN EndJob(FALSE)
                 ELSE Step(Restart(Invalidate(s, e.lost)), "fill")
           \/ /\ e.state = "error"
              /\ IF program.attempts = 1 THEN EndJob(FALSE)
                 ELSE Step([rest EXCEPT !.retry = << [task |-> e.task, failures |-> 1] >>], "ensure")

(* ensureRetry returns: to the call that ensures a child, or to runStage,    *)
(* which gives the stage up when a repair happened meanwhile.                *)
Return(sch) ==
    LET back == [sch EXCEPT !.retry = Tail(@), !.call = NoCall]
    IN  IF Len(sch.retry) > 1 THEN Step(back, "ensure")
        ELSE IF sch.repairs # sch.before THEN Step(Restart(back), "fill")
        ELSE Step(back, IF sch.wave = <<>> THEN "fill" ELSE "exec")

(* One pass of ensureRetry's loop: parents first, then a worker.             *)
EnsureRetry ==
    /\ pc = "ensure"
    /\ LET t == Head(s.retry).task
           missing == IF t[1] = ResultStage THEN {m \in MapTasks : s.accepted[m] = None} ELSE {}
           first == CHOOSE m \in missing : \A n \in missing :
                        m[1] < n[1] \/ (m[1] = n[1] /\ m[2] <= n[2])
           pick == PickWorkerIndexFor(s, {}, StageCacheHints(t))
       IN  IF missing # {}
           THEN Step([s EXCEPT !.retry = << [task |-> first, failures |-> 0] >> \o @], "ensure")
           ELSE IF pick.index = None THEN EndJob(FALSE)
           ELSE Step([pick.sch EXCEPT !.call = [NoCall EXCEPT !.task = t, !.worker = pick.index,
                                                   !.state = "sent"]], "call")

RetryAnswered ==
    /\ pc = "call" /\ Answered(s.call)
    /\ LET e == s.call
           again == [s EXCEPT !.call = NoCall]
       IN  \/ e.state = "ok" /\ Return(Accept(s, e))
           \/ /\ e.state = "fetch"
              /\ IF s.repairs >= MaxRecoveries THEN EndJob(FALSE)
                 ELSE Step(Invalidate(again, e.lost), "ensure")
           \/ /\ e.state = "error"
              /\ IF Head(s.retry).failures + 1 >= program.attempts THEN EndJob(FALSE)
                 ELSE Step([again EXCEPT !.retry[1].failures = @ + 1], "ensure")

-----------------------------------------------------------------------------
(* Worker processes.                                                         *)
Crash(w) ==
    /\ up[w] /\ faults < program.faults
    /\ up' = [up EXCEPT ![w] = FALSE]
    /\ jobCache' = [jobCache EXCEPT ![w] = {}] /\ reusable' = [reusable EXCEPT ![w] = {}]
    /\ faults' = faults + 1
    /\ UNCHANGED <<program, job, inc, touched, handle>>

Replace(w) ==
    /\ ~up[w]
    /\ up' = [up EXCEPT ![w] = TRUE] /\ inc' = [inc EXCEPT ![w] = @ + 1]
    /\ UNCHANGED <<program, job, jobCache, reusable, touched, handle, faults>>

-----------------------------------------------------------------------------
(* ScheduleCache; its mutex is held from the start of a release to its end.  *)
Persist ==
    /\ program.reuse /\ rel = NoRelease /\ ~closed
    /\ named' = TRUE /\ persisted' = TRUE
    /\ UNCHANGED <<program, job, worker, closed, rel, released, faults>>

Unpersist ==
    /\ persisted /\ rel = NoRelease
    /\ rel' = [NoRelease EXCEPT !.op = "unpersist"] /\ released' = TRUE
    /\ UNCHANGED <<program, job, worker, named, closed, persisted, faults>>

Stop ==
    /\ program.reuse /\ rel = NoRelease
    /\ closed' = TRUE
    /\ rel' = IF named THEN [NoRelease EXCEPT !.op = "stop"] ELSE rel
    /\ released' = TRUE
    /\ UNCHANGED <<program, job, worker, named, persisted, faults>>

(* UnpersistCacheContext on the next runner succeeds: /unpersist/ answers OK *)
(* once no task of the identity is in the handler, and 409 until then, so a  *)
(* release comes before or after a task of the worker, never within it.      *)
ReleaseWorker ==
    LET w == rel.worker
    IN  /\ rel # NoRelease /\ w < Workers
        /\ up[w]
        /\ reusable' = [reusable EXCEPT ![w] = {}]
        /\ touched' = [touched EXCEPT ![w] = FALSE]
        /\ rel' = [rel EXCEPT !.worker = @ + 1]
        /\ UNCHANGED <<program, job, up, inc, jobCache, named, closed, persisted, released, faults>>

(* It fails: the worker is gone, or the call is lost, or the caller's        *)
(* context ends while tasks are active.                                      *)
ReleaseFails ==
    LET w == rel.worker
    IN  /\ rel # NoRelease /\ w < Workers
        /\ up[w] => faults < program.faults
        /\ faults' = IF up[w] THEN faults + 1 ELSE faults
        /\ touched' = [touched EXCEPT ![w] = FALSE]
        /\ rel' = [rel EXCEPT !.worker = @ + 1, !.err = TRUE]
        /\ UNCHANGED <<program, job, up, inc, jobCache, reusable, named, closed, persisted, released>>

(* A plausible slip: the name is forgotten although a worker kept its cache. *)
EndReleaseForgets ==
    /\ rel # NoRelease /\ rel.worker = Workers
    /\ named' = FALSE
    /\ rel' = NoRelease
    /\ UNCHANGED <<program, job, worker, closed, persisted, released, faults>>

EndRelease ==
    /\ rel # NoRelease /\ rel.worker = Workers
    /\ named' = (named /\ rel.err)
    /\ rel' = NoRelease
    /\ UNCHANGED <<program, job, worker, closed, persisted, released, faults>>

Next ==
    \/ Submit \/ FillWave \/ CloseWave \/ AcceptWave \/ EnsureRetry \/ RetryAnswered
    \/ \E i \in Calls : \/ CallFails(i)
                        \/ \E lost \in BOOLEAN : RunTask(i, lost)
                        \/ \E m \in MapTasks : FetchFails(i, m)
    \/ \E w \in W : Crash(w) \/ Replace(w)
    \/ Persist \/ Unpersist \/ Stop \/ ReleaseWorker \/ ReleaseFails \/ EndRelease

Spec == Init /\ [][Next]_vars

-----------------------------------------------------------------------------
(* mergeAccumulators counts what accepted attempts computed, once: however   *)
(* many attempts ran, responses were lost, map outputs repaired and jobs     *)
(* failed, an uncached input is counted exactly once per map task of every   *)
(* job that succeeded, and a cached one at most that often. Without faults   *)
(* and releases the placement finds every cached partition again: it is      *)
(* computed once per job, or once in all under a reusable identity.          *)
AccumulatorsOnce ==
    LET tasks == succeeded * Cardinality(MapTasks)
    IN  /\ ~program.cached => acc = tasks
        /\ acc <= tasks
        /\ program.cached /\ faults = 0 /\ ~released =>
              acc = IF program.reuse /\ succeeded > 0 THEN Parts ELSE succeeded * Parts

(* ScheduleCache.Unpersist and Stop forget a name only when every worker has *)
(* released it: whatever calls failed, in this release or an earlier one, a  *)
(* worker that holds partitions of the name at that moment has run a task of *)
(* a job that was still going since the release passed it.                   *)
ForgottenIsReleased ==
    [][named /\ ~named' => \A w \in W : reusable[w] # {} => touched[w]]_vars
==============================================================================
