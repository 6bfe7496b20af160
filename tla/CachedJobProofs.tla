--------------------------- MODULE CachedJobProofs ---------------------------
(* Jobs over a shared input, for any number of workers, partitions, stages,  *)
(* jobs, retries, recoveries and faults.                                     *)
(* A ScheduleCache forgets a name only when every worker has released it:    *)
(* rel.worker runs over the runners, and as long as no call failed, each     *)
(* runner behind it holds nothing of the name, or has run a task of the name *)
(* since the release passed it.                                              *)
(* mergeAccumulators adds what accepted attempts of the map tasks computed:  *)
(* at most one each, exactly one without a cache, for jobs that succeed. The *)
(* proof follows every task that runStage has passed: it is accepted, or in  *)
(* the wave, or at the bottom of the recursion of ensureRetry, unless a      *)
(* repair makes scheduleResults start over.                                  *)
(* As long as nothing fails, partition q of a cached input is read on worker *)
(* q % Workers in every stage: the first stage deals the partitions out in   *)
(* turn, the later ones and later jobs follow what the scheduler believes    *)
(* the workers hold (PlaceInv).                                              *)
EXTENDS CachedJob, DataTheorems

(* Leaves that name no prover are Zenon's.                                   *)
USE ZenonT(60)

(* What a release is, and that the caches are functions on the runners.      *)
Ops == {"none", "unpersist", "stop"}
Releases == [op : Ops, worker : Nat, err : BOOLEAN]

ReleaseType ==
    /\ rel \in Releases
    /\ DOMAIN reusable = W
    /\ DOMAIN touched = W

(* The runners the release has passed, up to now without an error, are clean *)
(* or were used again.                                                       *)
Clean(w) == reusable[w] # {} => touched[w]

Passed == ~rel.err => \A w \in W : w \in 0..(rel.worker - 1) => Clean(w)

RInv == ReleaseType /\ Passed

(* Whatever calls of a release failed, now or before, ScheduleCache.Unpersist *)
(* and Stop drop the name only when no worker holds partitions of it, except *)
(* those filled by jobs that still used the name after the release.          *)
THEOREM ForgottenCorrect == Spec => ForgottenIsReleased
(* No runner is behind a release that has not begun.                         *)
<1>NoneYet. NoRelease \in Releases /\ NoRelease.worker = 0
  <2>1. 0 \in Nat BY SMTT(30)
  <2> QED BY <2>1 DEF NoRelease, Releases, Ops
(* A release begins at the first runner.                                   *)
<1>Fresh. ASSUME NEW op \in Ops
      PROVE  /\ [NoRelease EXCEPT !.op = op] \in Releases
             /\ [NoRelease EXCEPT !.op = op].worker = 0
  <2>1. 0 \in Nat BY SMTT(30)
  <2> QED BY <2>1 DEF NoRelease, Releases, Ops
(* No runner is before it.                                                 *)
<1>BeforeZero. \A w \in W : w \notin 0..(0 - 1)
  BY SMTT(30) DEF W
(* In the initial states no release is in progress.                          *)
<1>InitRelease. Init => RInv
  <2> SUFFICES ASSUME Init PROVE RInv OBVIOUS
  <2>1. rel = NoRelease BY DEF Init
  <2>2. DOMAIN reusable = W /\ DOMAIN touched = W BY DEF Init
  <2>3. Passed BY <2>1, <1>NoneYet, <1>BeforeZero DEF Passed
  <2> QED BY <2>1, <2>2, <2>3, <1>NoneYet DEF RInv, ReleaseType
(* A step that leaves the release and the workers alone keeps the invariant. *)
<1>Aside. ASSUME RInv, UNCHANGED <<rel, reusable, touched>>
      PROVE RInv'
  BY <1>Aside DEF RInv, ReleaseType, Passed, Clean
(* A release that begins has passed no runner.                               *)
<1>Begins. ASSUME RInv, NEW op \in Ops, rel' = [NoRelease EXCEPT !.op = op], UNCHANGED <<reusable, touched>>
      PROVE RInv'
  <2> USE <1>Begins
  <2>1. rel' \in Releases /\ rel'.worker = 0 BY <1>Fresh
  <2>2. DOMAIN reusable' = W /\ DOMAIN touched' = W BY DEF RInv, ReleaseType
  <2>3. Passed' BY <2>1, <1>BeforeZero DEF Passed
  <2> QED BY <2>1, <2>2, <2>3 DEF RInv, ReleaseType
(* A runner that released the name is clean.                               *)
<1>ReleaseWorkerInv. RInv /\ ReleaseWorker => RInv'
  <2> SUFFICES ASSUME RInv, ReleaseWorker PROVE RInv' OBVIOUS
  <2>1. rel \in Releases /\ DOMAIN reusable = W /\ DOMAIN touched = W BY DEF RInv, ReleaseType
  <2>2. /\ rel' = [rel EXCEPT !.worker = @ + 1]
        /\ reusable' = [reusable EXCEPT ![rel.worker] = {}]
        /\ touched' = [touched EXCEPT ![rel.worker] = FALSE] BY DEF ReleaseWorker
  <2>3. rel' \in Releases /\ rel'.worker = rel.worker + 1 /\ rel'.err = rel.err
    <3>1. rel.worker \in Nat BY <2>1 DEF Releases
    <3>2. rel.worker + 1 \in Nat BY SMTT(30), <3>1
    <3> QED BY <2>1, <2>2, <3>2 DEF Releases
  <2>4. DOMAIN reusable' = W /\ DOMAIN touched' = W BY <2>1, <2>2
  <2>5. Passed'
    <3> SUFFICES ASSUME ~rel'.err, NEW w \in W, w \in 0..(rel'.worker - 1) PROVE Clean(w)' BY DEF Passed
    <3>1. CASE w = rel.worker
      <4>1. reusable'[w] = {} BY <2>1, <2>2, <3>1
      <4> QED BY <4>1 DEF Clean
    <3>2. CASE w # rel.worker
      <4>1. rel.worker \in Nat BY <2>1 DEF Releases
      <4>2. w \in 0..(rel.worker - 1) BY SMTT(30), <2>3, <3>2, <4>1
      <4>3. Clean(w) BY <2>3, <4>2 DEF RInv, Passed
      <4>4. reusable'[w] = reusable[w] /\ touched'[w] = touched[w] BY <2>1, <2>2, <3>2
      <4> QED BY <4>3, <4>4 DEF Clean
    <3> QED BY <3>1, <3>2
  <2> QED BY <2>3, <2>4, <2>5 DEF RInv, ReleaseType
(* A runner that did not is remembered as an error.                        *)
<1>ReleaseFailsInv. RInv /\ ReleaseFails => RInv'
  <2> SUFFICES ASSUME RInv, ReleaseFails PROVE RInv' OBVIOUS
  <2>1. rel \in Releases /\ DOMAIN reusable = W /\ DOMAIN touched = W BY DEF RInv, ReleaseType
  <2>2. /\ rel' = [rel EXCEPT !.worker = @ + 1, !.err = TRUE]
        /\ reusable' = reusable
        /\ touched' = [touched EXCEPT ![rel.worker] = FALSE] BY DEF ReleaseFails
  <2>3. rel' \in Releases /\ rel'.err
    <3>1. rel.worker \in Nat BY <2>1 DEF Releases
    <3>2. rel.worker + 1 \in Nat BY SMTT(30), <3>1
    <3> QED BY <2>1, <2>2, <3>2 DEF Releases
  <2>4. DOMAIN reusable' = W /\ DOMAIN touched' = W BY <2>1, <2>2
  <2> QED BY <2>3, <2>4 DEF RInv, ReleaseType, Passed
(* A task fills a worker's cache and marks the worker as used.               *)
<1>RunTaskInv. ASSUME RInv, NEW i, NEW lost, RunTask(i, lost)
      PROVE RInv'
  <2> USE <1>RunTaskInv
  <2> DEFINE v == Call(i).worker
  <2>1. rel \in Releases /\ DOMAIN reusable = W /\ DOMAIN touched = W BY DEF RInv, ReleaseType
  <2>2. rel' = rel BY DEF RunTask, Answering, handle
  <2>3. CASE program.reuse
    <3>1. PICK puts : reusable' = [reusable EXCEPT ![v] = @ \cup puts]
      BY <2>3 DEF RunTask
    <3>2. touched' = [touched EXCEPT ![v] = TRUE] BY <2>3 DEF RunTask
    <3>3. ASSUME NEW w \in W, Clean(w) PROVE Clean(w)'
      <4>1. CASE w = v
        <5>1. touched'[w] BY <2>1, <3>2, <4>1
        <5> QED BY <5>1 DEF Clean
      <4>2. CASE w # v
        <5>1. reusable'[w] = reusable[w] /\ touched'[w] = touched[w] BY <2>1, <3>1, <3>2, <4>2
        <5> QED BY <3>3, <5>1 DEF Clean
      <4> QED BY <4>1, <4>2
    <3>4. DOMAIN reusable' = W /\ DOMAIN touched' = W BY <2>1, <3>1, <3>2
    <3> QED BY <2>1, <2>2, <3>3, <3>4 DEF RInv, ReleaseType, Passed
  <2>4. CASE ~program.reuse
    <3>1. UNCHANGED <<reusable, touched>> BY <2>4 DEF RunTask
    <3> QED BY <2>2, <3>1, <1>Aside
  <2> QED BY <2>3, <2>4
(* A worker that crashes holds nothing.                                    *)
<1>CrashInv. ASSUME RInv, NEW v \in W, Crash(v)
      PROVE RInv'
  <2> USE <1>CrashInv
  <2>1. rel \in Releases /\ DOMAIN reusable = W /\ DOMAIN touched = W BY DEF RInv, ReleaseType
  <2>2. rel' = rel /\ touched' = touched /\ reusable' = [reusable EXCEPT ![v] = {}]
    BY DEF Crash, handle
  <2>3. ASSUME NEW w \in W, Clean(w) PROVE Clean(w)'
    <3>1. CASE w = v
      <4>1. reusable'[w] = {} BY <2>1, <2>2, <3>1
      <4> QED BY <4>1 DEF Clean
    <3>2. CASE w # v
      <4>1. reusable'[w] = reusable[w] BY <2>1, <2>2, <3>2
      <4> QED BY <2>2, <2>3, <4>1 DEF Clean
    <3> QED BY <3>1, <3>2
  <2>4. DOMAIN reusable' = W BY <2>1, <2>2
  <2> QED BY <2>1, <2>2, <2>3, <2>4 DEF RInv, ReleaseType, Passed
(* The end of a release, whatever it found, leaves none in progress.         *)
<1>EndReleaseInv. RInv /\ EndRelease => RInv'
  <2> SUFFICES ASSUME RInv, EndRelease PROVE RInv' OBVIOUS
  <2>1. rel' = NoRelease /\ UNCHANGED <<reusable, touched>> BY DEF EndRelease, worker
  <2>2. Passed' BY <2>1, <1>NoneYet, <1>BeforeZero DEF Passed
  <2> QED BY <2>1, <2>2, <1>NoneYet DEF RInv, ReleaseType
(* Every step keeps the invariant: only releases, tasks and crashes touch    *)
(* what it speaks of.                                                        *)
<1>StepRelease. RInv /\ [Next]_vars => RInv'
  <2> SUFFICES ASSUME RInv, [Next]_vars PROVE RInv' OBVIOUS
  <2> DEFINE Quiet == UNCHANGED <<rel, reusable, touched>>
  <2>1. ASSUME NEW sch, NEW next, Step(sch, next) PROVE Quiet BY <2>1 DEF Step, worker, handle
  <2>2. ASSUME NEW ok, EndJob(ok) PROVE Quiet BY <2>2 DEF EndJob, worker, handle
  <2>3. CASE Submit BY <2>3, <1>Aside DEF Submit, handle
  <2>4. CASE FillWave
    <3>1. Quiet BY <2>1, <2>2, <2>4 DEF FillWave
    <3> QED BY <3>1, <1>Aside
  <2>5. CASE CloseWave
    <3>1. Quiet BY <2>1, <2>2, <2>5 DEF CloseWave
    <3> QED BY <3>1, <1>Aside
  <2>6. CASE AcceptWave
    <3>1. Quiet BY <2>1, <2>2, <2>6 DEF AcceptWave
    <3> QED BY <3>1, <1>Aside
  <2>7. CASE EnsureRetry
    <3>1. Quiet BY <2>1, <2>2, <2>7 DEF EnsureRetry
    <3> QED BY <3>1, <1>Aside
  <2>8. CASE RetryAnswered
    <3>1. Quiet BY <2>1, <2>2, <2>8 DEF RetryAnswered, Return
    <3> QED BY <3>1, <1>Aside
  <2>9. ASSUME NEW i \in Calls, CallFails(i) PROVE RInv'
    BY <2>9, <1>Aside DEF CallFails, Answering, worker, handle
  <2>10. ASSUME NEW i \in Calls, NEW m \in MapTasks, FetchFails(i, m) PROVE RInv'
    BY <2>10, <1>Aside DEF FetchFails, Answering, worker, handle
  <2>11. ASSUME NEW i \in Calls, NEW lost \in BOOLEAN, RunTask(i, lost) PROVE RInv'
    BY <2>11, <1>RunTaskInv
  <2>12. ASSUME NEW w \in W, Crash(w) PROVE RInv' BY <2>12, <1>CrashInv
  <2>13. ASSUME NEW w \in W, Replace(w) PROVE RInv' BY <2>13, <1>Aside DEF Replace, handle
  <2>14. CASE Persist BY <2>14, <1>Aside DEF Persist, worker
  <2>15. CASE Unpersist
    <3>1. rel' = [NoRelease EXCEPT !.op = "unpersist"] /\ UNCHANGED <<reusable, touched>>
      BY <2>15 DEF Unpersist, worker
    <3>2. "unpersist" \in Ops BY DEF Ops
    <3> QED BY <3>1, <3>2, <1>Begins
  <2>16. CASE Stop
    <3>1. UNCHANGED <<reusable, touched>> BY <2>16 DEF Stop, worker
    <3>2. CASE named
      <4>1. rel' = [NoRelease EXCEPT !.op = "stop"] BY <2>16, <3>2 DEF Stop
      <4>2. "stop" \in Ops BY DEF Ops
      <4> QED BY <3>1, <4>1, <4>2, <1>Begins
    <3>3. CASE ~named
      <4>1. rel' = rel BY <2>16, <3>3 DEF Stop
      <4> QED BY <3>1, <4>1, <1>Aside
    <3> QED BY <3>2, <3>3
  <2>17. CASE UNCHANGED vars BY <2>17, <1>Aside DEF vars, worker, handle
  <2> QED
    BY <2>3, <2>4, <2>5, <2>6, <2>7, <2>8, <2>9, <2>10, <2>11, <2>12, <2>13, <2>14, <2>15,
       <2>16, <2>17, <1>ReleaseWorkerInv, <1>ReleaseFailsInv, <1>EndReleaseInv DEF Next
(* A step that forgets the name ends a release that met no error.            *)
<1>Forgets. ASSUME [Next]_vars, named, ~named'
      PROVE EndRelease /\ ~rel.err
  <2> USE <1>Forgets
  <2>1. ASSUME NEW sch, NEW next, Step(sch, next) PROVE named' = named BY <2>1 DEF Step, handle
  <2>2. ASSUME NEW ok, EndJob(ok) PROVE named' = named BY <2>2 DEF EndJob, handle
  <2>3. ~Submit BY DEF Submit, handle
  <2>4. ~FillWave BY <2>1, <2>2 DEF FillWave
  <2>5. ~CloseWave BY <2>1, <2>2 DEF CloseWave
  <2>6. ~AcceptWave BY <2>1, <2>2 DEF AcceptWave
  <2>7. ~EnsureRetry BY <2>1, <2>2 DEF EnsureRetry
  <2>8. ~RetryAnswered BY <2>1, <2>2 DEF RetryAnswered, Return
  <2>9. ~\E i \in Calls : \/ CallFails(i)
                           \/ \E lost \in BOOLEAN : RunTask(i, lost)
                           \/ \E m \in MapTasks : FetchFails(i, m)
    BY DEF CallFails, RunTask, FetchFails, Answering, handle
  <2>10. ~\E w \in W : Crash(w) \/ Replace(w) BY DEF Crash, Replace, handle
  <2>11. ~Persist /\ ~Unpersist /\ ~Stop BY DEF Persist, Unpersist, Stop
  <2>12. ~ReleaseWorker /\ ~ReleaseFails BY DEF ReleaseWorker, ReleaseFails
  <2>13. ~UNCHANGED vars BY DEF vars, handle
  <2>14. EndRelease
    BY <2>3, <2>4, <2>5, <2>6, <2>7, <2>8, <2>9, <2>10, <2>11, <2>12, <2>13 DEF Next
  <2>15. ~rel.err BY <2>14 DEF EndRelease
  <2> QED BY <2>14, <2>15
<1>1. Init => RInv BY <1>InitRelease
<1>2. RInv /\ [Next]_vars => RInv' BY <1>StepRelease
<1>3. RInv /\ [Next]_vars => [named /\ ~named' => \A w \in W : reusable[w] # {} => touched[w]]_vars
  <2> SUFFICES ASSUME RInv, [Next]_vars, named, ~named', NEW w \in W
               PROVE reusable[w] # {} => touched[w] OBVIOUS
  <2>1. EndRelease /\ ~rel.err BY <1>Forgets
  <2>2. rel.worker = Workers BY <2>1 DEF EndRelease
  <2>3. w \in 0..(rel.worker - 1) BY <2>2 DEF W
  <2>4. Clean(w) BY <2>1, <2>3 DEF RInv, Passed
  <2> QED BY <2>4 DEF Clean
<1> QED BY <1>1, <1>2, <1>3, PTL DEF Spec, ForgottenIsReleased

-----------------------------------------------------------------------------
(* Types of the scheduler, and placement                                   *)

(* The partitions of the input, the calls of the scheduler and its state.    *)
InputParts == 0..(Parts - 1)
ProgramRecs ==
    [cached : BOOLEAN, reuse : BOOLEAN, attempts : Nat \ {0}, jobs : Nat, faults : Nat]
CallRecs ==
    [task : Tasks, worker : W, state : {"sent", "ok", "error", "fetch"}, added : {0, 1},
     lost : MapTasks \cup {<<0, 0>>}]
Retries == [task : Tasks, failures : Nat]
Schedulers ==
    [stage : 1..ResultStage, p : Nat, wave : Seq(CallRecs), before : Nat, retry : Seq(Retries),
     call : CallRecs \cup {NoCall}, accepted : [Tasks -> {None, 0, 1}],
     locations : SUBSET (InputParts \X W), ids : [W -> Nat], worker : W, repairs : Nat]

(* The state of the scheduler fits the place where scheduleResults is.       *)
Typed(sch, at) ==
    /\ sch \in Schedulers
    /\ sch.p <= NumPartitions(sch.stage)
    /\ at \in {"idle", "fill", "exec", "ensure", "call"}
    /\ at = "idle" => sch = NewScheduler
    /\ at = "exec" => sch.wave # <<>>
    /\ at \in {"ensure", "call"} => sch.retry # <<>>
    /\ at = "call" => sch.call \in CallRecs /\ sch.call.task = Head(sch.retry).task

(* Places where the scheduler works, and workers as it finds them.           *)
WorkerType ==
    /\ up \in [W -> BOOLEAN] /\ inc \in [W -> Nat]
    /\ jobCache \in [W -> SUBSET InputParts] /\ reusable \in [W -> SUBSET InputParts]

(* A task is a stage and one of its partitions.                              *)
LEMMA TaskLemma ==
    /\ \A st \in Int, q \in Int :
        /\ <<st, q>> \in MapTasks <=> st \in 1..MapStages /\ q \in InputParts
        /\ <<st, q>> \in Tasks <=> st \in 1..ResultStage /\ q \in 0..(NumPartitions(st) - 1)
    /\ \A t \in Tasks : t = <<t[1], t[2]>> /\ t[1] \in Nat /\ t[2] \in Nat
    /\ MapTasks \subseteq Tasks
    /\ <<ResultStage, 0>> \in Tasks
    /\ \A t \in Tasks : t[1] = ResultStage <=> t \notin MapTasks
    /\ \A t \in Tasks : t[1] = ResultStage => t = <<ResultStage, 0>>
    /\ 0 \in W /\ <<0, 0>> \notin Tasks /\ ResultStage \in Nat /\ 1 \in 1..ResultStage
<1>1. Workers \in Nat \ {0} /\ Parts \in Nat /\ MapStages \in Nat \ {0} BY SizesAssumption
<1>2. \A st \in Int, q \in Int : <<st, q>> \in MapTasks <=> st \in 1..MapStages /\ q \in InputParts
  BY DEF MapTasks, InputParts
<1>3. \A st \in Int, q \in Int : <<st, q>> \in Tasks
                              <=> st \in 1..ResultStage /\ q \in 0..(NumPartitions(st) - 1)
  BY SMTT(30), <1>1 DEF MapTasks, Tasks, ResultStage, NumPartitions
<1>4. \A t \in Tasks : t = <<t[1], t[2]>> /\ t[1] \in Nat /\ t[2] \in Nat
  BY SMTT(30), <1>1 DEF MapTasks, Tasks, ResultStage
<1>5. \A t \in Tasks : t[1] = ResultStage <=> t \notin MapTasks
  BY SMTT(30), <1>1 DEF MapTasks, Tasks, ResultStage
<1>6. \A t \in Tasks : t[1] = ResultStage => t = <<ResultStage, 0>>
  BY SMTT(30), <1>1 DEF MapTasks, Tasks, ResultStage
<1>7. 0 \in W /\ <<0, 0>> \notin Tasks /\ ResultStage \in Nat /\ 1 \in 1..ResultStage
  BY SMTT(30), <1>1 DEF W, MapTasks, Tasks, ResultStage
<1> QED BY <1>2, <1>3, <1>4, <1>5, <1>6, <1>7 DEF Tasks

(* The scheduler of a new job, idle or about to fill its first wave.       *)
LEMMA NewTyped == NewScheduler \in Schedulers /\ Typed(NewScheduler, "idle") /\ Typed(NewScheduler, "fill")
<1>1. 0 \in W /\ 1 \in 1..ResultStage /\ 0 \in Nat BY SMTT(30), TaskLemma
<1>2. <<>> \in Seq(CallRecs) /\ <<>> \in Seq(Retries) BY SMTT(30)
<1>3. [t \in Tasks |-> None] \in [Tasks -> {None, 0, 1}] /\ [w \in W |-> 0] \in [W -> Nat] BY <1>1
<1>4. NewScheduler \in Schedulers BY <1>1, <1>2, <1>3 DEF NewScheduler, Schedulers
<1>5. NewScheduler.p = 0 /\ NewScheduler.stage = 1 BY DEF NewScheduler
<1>6. 0 <= NumPartitions(1) BY SMTT(30), SizesAssumption DEF NumPartitions
<1> QED BY <1>4, <1>5, <1>6 DEF Typed

(* A result that drops nothing only adds locations.                          *)
LEMMA RememberLemma ==
    ASSUME NEW locations, NEW w, NEW cached
    PROVE  RememberWorkerCache(locations, w, cached, {}) = locations \cup (cached \X {w})
<1>1. {} \X {w} = {} OBVIOUS
<1>2. locations \ {} = locations OBVIOUS
<1> QED BY <1>1, <1>2 DEF RememberWorkerCache

(* Hints.                                                                    *)
LEMMA HintLemma ==
    ASSUME NEW t \in Tasks
    PROVE  /\ StageCacheHints(t) = {} \/ StageCacheHints(t) = {t[2]}
           /\ StageCacheHints(t) \subseteq InputParts
<1>1. t \in MapTasks => t[2] \in InputParts BY DEF MapTasks, InputParts
<1> QED BY <1>1 DEF StageCacheHints

(* Runners differ in their turn.                                             *)
LEMMA TurnLemma ==
    ASSUME NEW c \in W, NEW v \in W, NEW w \in W
    PROVE  /\ (v + Workers - c) % Workers \in Nat
           /\ (v + Workers - c) % Workers = (w + Workers - c) % Workers => v = w
           /\ (c + Workers - c) % Workers = 0
<1>0. Workers \in Nat \ {0} BY SizesAssumption
<1> DEFINE N == Workers
           a == v + N - c
           b == w + N - c
<1>1. a \in 0..(2 * N - 1) /\ b \in 0..(2 * N - 1) /\ c + N - c = N /\ N \in 0..(2 * N - 1)
      /\ N - N = 0 /\ ~(N < N)
  BY SMTT(30), <1>0 DEF W
<1>2. \A x \in 0..(2 * N - 1) : x % N = IF x < N THEN x ELSE x - N BY <1>0, ModSmall
<1>3. N % N = 0 BY <1>1, <1>2
<1>4. v \in 0..(N - 1) /\ w \in 0..(N - 1) /\ c \in 0..(N - 1) BY DEF W
<1>7. a \in Nat BY SMTT(30), <1>1
<1> HIDE DEF a, b
<1>5. a % N = IF a < N THEN a ELSE a - N BY <1>1, <1>2
<1>6. b % N = IF b < N THEN b ELSE b - N BY <1>1, <1>2
<1>8. a % N \in Nat BY SMTT(30), <1>0, <1>1, <1>5
<1>9. a % N = b % N => v = w BY SMTT(30), <1>0, <1>1, <1>4, <1>5, <1>6 DEF a, b
<1> QED BY <1>1, <1>3, <1>8, <1>9 DEF a, b

(* There is a best runner among those that are alive.                        *)
LEMMA BestExists ==
    ASSUME NEW live \in SUBSET W, live # {}, NEW c \in W, NEW score \in [W -> {0, 1}]
    PROVE  \E w \in live : \A v \in live \ {w} :
              \/ score[w] > score[v]
              \/ score[w] = score[v] /\ (w + Workers - c) % Workers < (v + Workers - c) % Workers
<1> DEFINE turn(w) == (w + Workers - c) % Workers
           B == {w \in live : \A v \in live : score[w] >= score[v]}
           T == {turn(w) : w \in B}
<1>1. \A v \in W, w \in W : turn(v) \in Nat /\ (turn(v) = turn(w) => v = w) BY TurnLemma
<1> HIDE DEF turn
<1>2. B # {}
  <2>1. CASE \E w \in live : score[w] = 1
    <3>1. PICK w \in live : score[w] = 1 BY <2>1
    <3>2. \A v \in live : score[w] >= score[v] BY SMTT(30), <3>1
    <3> QED BY <3>2
  <2>2. CASE \A w \in live : score[w] # 1
    <3>1. PICK w \in live : TRUE OBVIOUS
    <3>2. \A v \in live : score[v] = 0 BY <2>2
    <3>3. \A v \in live : score[w] >= score[v] BY SMTT(30), <3>2
    <3> QED BY <3>3
  <2> QED BY <2>1, <2>2
<1>3. T \subseteq Nat /\ T # {} BY SMTT(30), <1>1, <1>2
<1>4. PICK x \in T : \A y \in T : x <= y BY <1>3, NatMin
<1>5. PICK w \in B : x = turn(w) BY <1>4
<1>6. ASSUME NEW v \in live \ {w}
      PROVE  score[w] > score[v] \/ (score[w] = score[v] /\ turn(w) < turn(v))
  <2>1. score[w] >= score[v] /\ score[w] \in {0, 1} /\ score[v] \in {0, 1} OBVIOUS
  <2>2. CASE score[w] # score[v]
    BY SMTT(30), <2>1, <2>2
  <2>3. CASE score[w] = score[v]
    <3>1. v \in B BY <2>3
    <3>2. turn(w) <= turn(v) /\ turn(w) # turn(v) /\ turn(w) \in Nat /\ turn(v) \in Nat
      BY SMTT(30), <1>1, <1>4, <1>5, <3>1
    <3> QED BY SMTT(30), <2>3, <3>2
  <2> QED BY <2>2, <2>3
<1> QED BY <1>5, <1>6 DEF turn

(* The runner that pickWorkerIndexFor takes: a live one that is not in use,  *)
(* when there is one, with a score no other exceeds.                         *)
Live(used) == {w \in W \ used : up[w]}

(* What is believed of the locations once the runners found dead or replaced *)
(* are dropped.                                                              *)
Located(sch, used) ==
    DropWorkerCache(sch.locations, ((W \ used) \ Live(used))
                                   \cup {w \in Live(used) : sch.ids[w] \notin {0, inc[w]}})

(* How many of the hinted partitions a worker is believed to hold.           *)
Score(locations, hints, w) == Cardinality({h \in hints : <<h, w>> \in locations})

(* With one hint a worker scores one when it is believed to hold it, else  *)
(* zero.                                                                   *)
LEMMA ScoreLemma ==
    ASSUME NEW locations, NEW hints, NEW q, hints = {} \/ hints = {q}, NEW w
    PROVE  Score(locations, hints, w) = IF hints # {} /\ <<q, w>> \in locations THEN 1 ELSE 0
<1> DEFINE H == {h \in hints : <<h, w>> \in locations}
<1>1. CASE hints # {} /\ <<q, w>> \in locations
  <2>1. H = {q} BY <1>1
  <2>2. Cardinality({q}) = 1 BY FS_Singleton
  <2> QED BY <1>1, <2>1, <2>2 DEF Score
<1>2. CASE ~(hints # {} /\ <<q, w>> \in locations)
  <2>1. H = {} BY <1>2
  <2>2. Cardinality({}) = 0 BY FS_EmptySet
  <2> QED BY <1>2, <2>1, <2>2 DEF Score
<1> QED BY <1>1, <1>2

(* What pickWorkerIndexFor returns: a live runner not in use, if there is    *)
(* one, with the best score and then the next in turn; and the scheduler     *)
(* with what the probes taught it.                                           *)
Picked(sch, used, hints, pick) ==
    /\ Live(used) = {} => pick.index = None
    /\ Live(used) # {} => pick.index \in Live(used) /\ pick.index # None
    /\ \A v \in Live(used) \ {pick.index} :
        \/ Score(Located(sch, used), hints, pick.index) > Score(Located(sch, used), hints, v)
        \/ /\ Score(Located(sch, used), hints, pick.index) = Score(Located(sch, used), hints, v)
           /\ (pick.index + Workers - sch.worker) % Workers < (v + Workers - sch.worker) % Workers
    /\ pick.sch = [sch EXCEPT !.locations = Located(sch, used),
              !.ids = [w \in W |-> IF w \in Live(used) THEN inc[w] ELSE sch.ids[w]],
              !.worker = IF pick.index = None THEN sch.worker ELSE (pick.index + 1) % Workers]
    /\ pick.sch \in Schedulers

(* pickWorkerIndexFor returns a live worker that is best by score and      *)
(* turn, and None only when none is live.                                  *)
LEMMA PickLemma ==
    ASSUME NEW sch \in Schedulers, WorkerType, NEW used, NEW hints, NEW q, hints = {} \/ hints = {q},
           NEW pick, pick = PickWorkerIndexFor(sch, used, hints)
    PROVE  Picked(sch, used, hints, pick)
<1> DEFINE live == Live(used)
           L == Located(sch, used)
           turn(w) == (w + Workers - sch.worker) % Workers
           P(w) == \A v \in live \ {w} : \/ Score(L, hints, w) > Score(L, hints, v)
                                         \/ Score(L, hints, w) = Score(L, hints, v) /\ turn(w) < turn(v)
           P0(w) == \A v \in Live(used) \ {w} :
                       \/ Score(L, hints, w) > Score(L, hints, v)
                       \/ Score(L, hints, w) = Score(L, hints, v) /\ turn(w) < turn(v)
           best == CHOOSE w \in Live(used) : P0(w)
           f == [w \in W |-> Score(L, hints, w)]
           index == IF Live(used) = {} THEN None ELSE best
<1>1. pick.index = index
  BY DEF PickWorkerIndexFor, Located, Score, Live
<1>2. pick.sch = [sch EXCEPT !.locations = L,
                     !.ids = [w \in W |-> IF w \in live THEN inc[w] ELSE sch.ids[w]],
                     !.worker = IF pick.index = None THEN sch.worker ELSE (pick.index + 1) % Workers]
  <2>1. pick.sch = [sch EXCEPT !.locations = L,
                     !.ids = [w \in W |-> IF w \in Live(used) THEN inc[w] ELSE sch.ids[w]],
                     !.worker = IF index = None THEN sch.worker ELSE (index + 1) % Workers]
    BY DEF PickWorkerIndexFor, Located, Score, Live
  <2> HIDE DEF index, L
  <2> QED BY <1>1, <2>1
<1>3. f \in [W -> {0, 1}] BY ScoreLemma
<1>4. sch.worker \in W /\ live \in SUBSET W BY DEF Schedulers, Live
<1>5. ASSUME live # {} PROVE best \in live /\ P(best)
  <2>1. \E w \in live : \A v \in live \ {w} :
              \/ f[w] > f[v]
              \/ f[w] = f[v] /\ (w + Workers - sch.worker) % Workers < (v + Workers - sch.worker) % Workers
    <3> HIDE DEF f
    <3> QED BY <1>3, <1>4, <1>5, BestExists
  <2>2. \E w \in Live(used) : P0(w) BY <2>1, <1>4
  <2>3. best \in Live(used) /\ P0(best) BY <2>2
  <2> HIDE DEF best
  <2> QED BY <2>3
<1>6. live # {} => pick.index \in live /\ P(pick.index) BY <1>1, <1>5
<1>7. None \notin W /\ Workers \in Nat \ {0} BY SMTT(30), SizesAssumption DEF None, W
<1>8. live # {} => pick.index # None BY <1>4, <1>6, <1>7
<1>9. L \in SUBSET (InputParts \X W) BY DEF Located, DropWorkerCache, Schedulers
<1>10. [w \in W |-> IF w \in live THEN inc[w] ELSE sch.ids[w]] \in [W -> Nat]
  BY DEF Schedulers, WorkerType
<1>11. (IF pick.index = None THEN sch.worker ELSE (pick.index + 1) % Workers) \in W
  <2>1. CASE pick.index = None BY <1>4, <2>1
  <2>2. CASE pick.index # None
    <3>1. pick.index \in W BY <1>1, <1>4, <1>6, <2>2
    <3>2. pick.index + 1 \in Nat BY SMTT(30), <3>1, <1>7 DEF W
    <3>3. (pick.index + 1) % Workers \in 0..(Workers - 1) BY <1>7, <3>2, ModRange
    <3> QED BY <2>2, <3>3 DEF W
  <2> QED BY <2>1, <2>2
<1> HIDE DEF L, turn
<1>12. pick.sch \in Schedulers BY <1>2, <1>9, <1>10, <1>11 DEF Schedulers
<1>13. live = {} => pick.index = None BY <1>1
<1>14. \A v \in live \ {pick.index} : 
                \/ Score(L, hints, pick.index) > Score(L, hints, v)
                \/ /\ Score(L, hints, pick.index) = Score(L, hints, v)
                   /\ turn(pick.index) < turn(v) BY <1>6
<1> QED BY <1>2, <1>6, <1>8, <1>12, <1>13, <1>14 DEF L, turn, Picked

(* Lengths of sequences.                                                     *)
LEMMA LenFacts ==
    /\ Len(<<>>) = 0
    /\ \A S : \A q \in Seq(S) : Len(q) \in Nat /\ DOMAIN q = 1..Len(q) /\ (Len(q) = 0 => q = <<>>)
<1>1. Len(<<>>) = 0 BY SMTT(30)
<1>2. ASSUME NEW S, NEW q \in Seq(S)
      PROVE  Len(q) \in Nat /\ DOMAIN q = 1..Len(q) /\ (Len(q) = 0 => q = <<>>)
  BY SMTT(30)
<1> QED BY <1>1, <1>2

(* The types of the fields of a scheduler.                                 *)
LEMMA Fields ==
    ASSUME NEW sch \in Schedulers
    PROVE  /\ sch.stage \in 1..ResultStage /\ sch.stage \in Nat /\ sch.p \in Nat
           /\ sch.wave \in Seq(CallRecs) /\ sch.before \in Nat /\ sch.retry \in Seq(Retries)
           /\ sch.call \in CallRecs \cup {NoCall} /\ sch.accepted \in [Tasks -> {None, 0, 1}]
           /\ sch.locations \in SUBSET (InputParts \X W) /\ sch.ids \in [W -> Nat]
           /\ sch.worker \in W /\ sch.repairs \in Nat
           /\ NumPartitions(sch.stage) \in Nat
<1>1. sch.stage \in 1..ResultStage BY DEF Schedulers
<1>2. sch.stage \in Nat BY SMTT(30), <1>1, TaskLemma
<1>3. NumPartitions(sch.stage) \in Nat BY SMTT(30), SizesAssumption DEF NumPartitions
<1> QED BY <1>1, <1>2, <1>3 DEF Schedulers

(* Head and tail of a sequence that is not empty.                          *)
LEMMA SeqLemma ==
    ASSUME NEW S, NEW q \in Seq(S), q # <<>>
    PROVE  /\ Head(q) \in S /\ Head(q) = q[1] /\ Tail(q) \in Seq(S) /\ Len(Tail(q)) = Len(q) - 1
           /\ Len(q) \in Nat \ {0} /\ (Len(q) = 1 => Tail(q) = <<>>)
           /\ (Tail(q) = <<>> => Len(q) = 1)
           /\ DOMAIN q = 1..Len(q) /\ DOMAIN Tail(q) = 1..(Len(q) - 1)
           /\ \A i \in 1..(Len(q) - 1) : Tail(q)[i] = q[i + 1]
<1>1. Len(q) \in Nat \ {0} /\ DOMAIN q = 1..Len(q) BY SMTT(30)
<1>2. Head(q) = q[1] /\ 1 \in 1..Len(q) BY SMTT(30)
<1>3. Head(q) \in S BY SMTT(30), <1>1, <1>2
<1>4. Tail(q) \in Seq(S) /\ Len(Tail(q)) = Len(q) - 1 BY SMTT(30)
<1>5. DOMAIN Tail(q) = 1..(Len(q) - 1) BY SMTT(30), <1>4
<1>6. \A i \in 1..(Len(q) - 1) : Tail(q)[i] = q[i + 1] BY SMTT(30)
<1>9. Len(<<>>) = 0 /\ (Tail(q) # <<>> => Len(Tail(q)) \in Nat \ {0}) BY <1>4, LenFacts
<1>10. Len(q) = 1 => Len(Tail(q)) = 0 BY SMTT(30), <1>4
<1>7. Len(q) = 1 => Tail(q) = <<>> BY <1>9, <1>10
<1>8. Tail(q) = <<>> => Len(q) = 1
  <2>1. \A n \in Nat : n - 1 = 0 => n = 1 BY SMTT(30)
  <2> QED BY <1>1, <1>4, <1>9, <2>1
<1> QED BY <1>1, <1>2, <1>3, <1>4, <1>5, <1>6, <1>7, <1>8

(* The task a wave is to take next.                                        *)
LEMMA Places ==
    ASSUME NEW sch \in Schedulers
    PROVE  /\ <<sch.stage, sch.p>> \in Tasks <=> sch.p < NumPartitions(sch.stage)
<1>1. sch.stage \in Int /\ sch.p \in Int BY SMTT(30), Fields
<1>2. <<sch.stage, sch.p>> \in Tasks <=>
         sch.stage \in 1..ResultStage /\ sch.p \in 0..(NumPartitions(sch.stage) - 1)
  BY <1>1, TaskLemma
<1>3. sch.stage \in 1..ResultStage /\ sch.p \in Nat /\ NumPartitions(sch.stage) \in Nat BY Fields
<1> HIDE DEF NumPartitions
<1> QED BY SMTT(30), <1>2, <1>3

(* Taking the first call off the wave.                                     *)
LEMMA TailLemma ==
    ASSUME NEW sch \in Schedulers, sch.wave # <<>>, NEW new, new = [sch EXCEPT !.wave = Tail(@)]
    PROVE  new \in Schedulers /\ new.wave = Tail(sch.wave)
<1>1. sch.wave \in Seq(CallRecs) BY Fields
<1>2. Tail(sch.wave) \in Seq(CallRecs) BY <1>1, SeqLemma
<1> QED BY <1>2 DEF Schedulers

-----------------------------------------------------------------------------
(* What is counted, and what is still due                                  *)

(* What an accepted attempt of t adds: at most one, for the partition it     *)
(* reads, and exactly one where nothing is cached.                           *)
Counts(c, t, n) == IF t \in MapTasks THEN n \in {0, 1} /\ (~c => n = 1) ELSE n = 0

(* An answered call carries a count, or names the map that was lost.         *)
Entry(c, e) ==
    /\ e.state = "ok" => Counts(c, e.task, e.added)
    /\ e.state = "fetch" => e.lost \in MapTasks

(* Tasks that runStage has passed, and those of them that are still to be    *)
(* accepted: in the wave, or at the bottom of ensureRetry's recursion.       *)
Due(sch, t) == t[1] < sch.stage \/ (t[1] = sch.stage /\ t[2] < sch.p)
InWave(sch, t) == \E i \in DOMAIN sch.wave : sch.wave[i].task = t
Retried(sch) == sch.retry[Len(sch.retry)].task
Pending(sch, at, t) == InWave(sch, t) \/ (at \in {"ensure", "call"} /\ t = Retried(sch))

(* Accepted results and answers carry counts; until a repair is made, every  *)
(* task that runStage has passed is accepted or pending.                     *)
Counted(c, sch, at) ==
    /\ \A i \in DOMAIN sch.wave : Entry(c, sch.wave[i])
    /\ at = "call" => Entry(c, sch.call)
    /\ \A t \in Tasks : sch.accepted[t] # None => Counts(c, t, sch.accepted[t])
    /\ sch.before <= sch.repairs
    /\ at \in {"idle", "fill", "exec"} => sch.repairs = sch.before
    /\ sch.repairs = sch.before =>
        \A t \in Tasks : Due(sch, t) => sch.accepted[t] # None \/ Pending(sch, at, t)

(* What is kept true of the scheduler of a job.                              *)
Fine(c, sch, at) == Typed(sch, at) /\ Counted(c, sch, at)

(* Nothing is due in a new job.                                            *)
LEMMA NewFine ==
    ASSUME NEW c
    PROVE  Fine(c, NewScheduler, "idle") /\ Fine(c, NewScheduler, "fill")
<1>1. /\ NewScheduler.wave = <<>> /\ NewScheduler.before = 0 /\ NewScheduler.repairs = 0
      /\ NewScheduler.stage = 1 /\ NewScheduler.p = 0 /\ NewScheduler.accepted = [t \in Tasks |-> None]
  BY DEF NewScheduler
<1>2. DOMAIN NewScheduler.wave = {} /\ NewScheduler.before <= NewScheduler.repairs BY SMTT(30), <1>1
<1>3. \A t \in Tasks : ~Due(NewScheduler, t)
  <2>1. \A t \in Tasks : t[1] \in Nat \ {0} /\ t[2] \in Nat
    BY SMTT(30), SizesAssumption DEF Tasks, MapTasks, ResultStage
  <2> HIDE DEF Tasks
  <2> QED BY SMTT(30), <1>1, <2>1 DEF Due
<1> QED BY <1>1, <1>2, <1>3, NewTyped DEF Fine, Counted

(* With an empty wave, everything behind runStage is accepted.               *)
LEMMA StageDone ==
    ASSUME NEW c, NEW sch, Fine(c, sch, "fill"), sch.wave = <<>>, sch.p = NumPartitions(sch.stage)
    PROVE  \A t \in Tasks : t[1] <= sch.stage => sch.accepted[t] # None
<1>1. sch \in Schedulers BY DEF Fine, Typed
<1>2. DOMAIN sch.wave = {} BY SMTT(30)
<1>3. ASSUME NEW t \in Tasks, t[1] <= sch.stage PROVE Due(sch, t)
  <2>1. t = <<t[1], t[2]>> /\ t[1] \in Nat /\ t[2] \in Nat BY TaskLemma
  <2>2. t[1] \in Int /\ t[2] \in Int BY SMTT(30), <2>1
  <2>3. t[2] \in 0..(NumPartitions(t[1]) - 1)
    <3>1. <<t[1], t[2]>> \in Tasks BY <2>1
    <3> QED BY <2>2, <3>1, TaskLemma
  <2>4. sch.stage \in Nat /\ NumPartitions(sch.stage) \in Nat BY <1>1, Fields
  <2>5. t[1] < sch.stage \/ t[1] = sch.stage BY SMTT(30), <1>3, <2>1, <2>4
  <2>6. t[1] = sch.stage => t[2] < sch.p
    <3>1. \A m \in Nat : t[2] \in 0..(m - 1) => t[2] < m BY SMTT(30), <2>1
    <3> QED BY <2>3, <2>4, <3>1
  <2> QED BY <2>5, <2>6 DEF Due
<1> QED BY <1>2, <1>3 DEF Fine, Counted, Pending, InWave

(* Accepted results count, one more, and the wave without its first call.    *)
AllCount(c, sch) == \A t \in Tasks : sch.accepted[t] # None => Counts(c, t, sch.accepted[t])
SameLoop(new, sch) ==
    /\ new.stage = sch.stage /\ new.p = sch.p /\ new.before = sch.before /\ new.repairs = sch.repairs
Accepts(c, sch, e, new) ==
    /\ new \in Schedulers
    /\ AllCount(c, new)
    /\ \A t \in Tasks : new.accepted[t] # None <=> sch.accepted[t] # None \/ t = e.task
    /\ SameLoop(new, sch)
    /\ new.wave = sch.wave /\ new.retry = sch.retry /\ new.call = sch.call
Without(c, sch, e, rest) ==
    /\ sch \in Schedulers /\ rest \in Schedulers /\ e \in CallRecs /\ Entry(c, e)
    /\ SameLoop(rest, sch)
    /\ rest.accepted = sch.accepted
    /\ \A i \in DOMAIN rest.wave : Entry(c, rest.wave[i])
    /\ \A t \in Tasks : InWave(sch, t) => t = e.task \/ InWave(rest, t)
    /\ Len(sch.wave) # 1 => rest.wave # <<>>

(* The entries of a tail, and where they were.                             *)
LEMMA TailIndex ==
    ASSUME NEW S, NEW q \in Seq(S), q # <<>>
    PROVE  /\ 1 \in DOMAIN q
           /\ \A i \in DOMAIN Tail(q) : i + 1 \in DOMAIN q /\ Tail(q)[i] = q[i + 1]
           /\ \A j \in DOMAIN q : j # 1 => j - 1 \in DOMAIN Tail(q) /\ Tail(q)[j - 1] = q[j]
<1>1. /\ Len(q) \in Nat \ {0} /\ DOMAIN q = 1..Len(q) /\ DOMAIN Tail(q) = 1..(Len(q) - 1)
      /\ \A i \in 1..(Len(q) - 1) : Tail(q)[i] = q[i + 1]
  BY SeqLemma
<1>2. \A n \in Nat \ {0} :
        /\ 1 \in 1..n
        /\ \A i \in 1..(n - 1) : i + 1 \in 1..n
        /\ \A j \in 1..n : j # 1 => j - 1 \in 1..(n - 1) /\ (j - 1) + 1 = j
  BY SMTT(30)
<1>3. 1 \in DOMAIN q BY <1>1, <1>2
<1>4. \A i \in DOMAIN Tail(q) : i + 1 \in DOMAIN q /\ Tail(q)[i] = q[i + 1] BY <1>1, <1>2
<1>5. ASSUME NEW j \in DOMAIN q, j # 1 PROVE j - 1 \in DOMAIN Tail(q) /\ Tail(q)[j - 1] = q[j]
  <2>1. j - 1 \in 1..(Len(q) - 1) /\ (j - 1) + 1 = j BY <1>1, <1>2, <1>5
  <2>2. Tail(q)[j - 1] = q[(j - 1) + 1] BY <1>1, <2>1
  <2> QED BY <1>1, <2>1, <2>2
<1> QED BY <1>3, <1>4, <1>5

-----------------------------------------------------------------------------
(* The value of the accumulator                                            *)

(* There are MapStages * Parts map tasks.                                  *)
LEMMA TasksFinite == IsFiniteSet(MapTasks) /\ IsFiniteSet(Tasks) /\ Cardinality(MapTasks) = MapStages * Parts
<1>1. MapStages \in Nat /\ Parts \in Nat BY SizesAssumption
<1>2. IsFiniteSet(1..MapStages) /\ Cardinality(1..MapStages) = MapStages
  <2>1. MapStages \in Int /\ 1 \in Int BY SMTT(30), <1>1
  <2>2. /\ IsFiniteSet(1..MapStages)
        /\ Cardinality(1..MapStages) = IF 1 > MapStages THEN 0 ELSE MapStages - 1 + 1 BY <2>1, FS_Interval
  <2> QED BY SMTT(30), <1>1, <2>2
<1>3. IsFiniteSet(0..(Parts - 1)) /\ Cardinality(0..(Parts - 1)) = Parts
  <2>1. Parts - 1 \in Int /\ 0 \in Int BY SMTT(30), <1>1
  <2>2. /\ IsFiniteSet(0..(Parts - 1))
        /\ Cardinality(0..(Parts - 1)) = IF 0 > Parts - 1 THEN 0 ELSE (Parts - 1) - 0 + 1 BY <2>1, FS_Interval
  <2> QED BY SMTT(30), <1>1, <2>2
<1>4. IsFiniteSet(MapTasks) /\ Cardinality(MapTasks) = MapStages * Parts
  <2> DEFINE A == 1..MapStages
             B == 0..(Parts - 1)
  <2>1. IsFiniteSet(A) /\ Cardinality(A) = MapStages /\ IsFiniteSet(B) /\ Cardinality(B) = Parts
        /\ MapTasks = A \X B
    BY <1>2, <1>3 DEF MapTasks
  <2> HIDE DEF A, B
  <2>2. IsFiniteSet(A \X B) /\ Cardinality(A \X B) = Cardinality(A) * Cardinality(B) BY <2>1, FS_Product
  <2> QED BY <2>1, <2>2
<1>5. IsFiniteSet({<<ResultStage, 0>>}) BY FS_Singleton
<1> QED BY <1>4, <1>5, FS_Union DEF Tasks

(* Every task is accepted, with a count.                                     *)
Complete(c, accepted) ==
    /\ accepted \in [Tasks -> {None, 0, 1}]
    /\ \A t \in Tasks : accepted[t] # None /\ Counts(c, t, accepted[t])

(* With everything accepted, mergeAccumulators adds what the map tasks did.  *)
LEMMA MergeLemma ==
    ASSUME NEW c, NEW accepted, Complete(c, accepted)
    PROVE  /\ MergeAccumulators(accepted) = acc + SumFunctionOnSet(accepted, MapTasks)
           /\ \A t \in MapTasks : accepted[t] \in {0, 1} /\ (~c => accepted[t] = 1)
<1> DEFINE D == {t \in Tasks : accepted[t] # None}
<1>0. /\ accepted \in [Tasks -> {None, 0, 1}]
      /\ \A t \in Tasks : accepted[t] # None /\ Counts(c, t, accepted[t])
  BY DEF Complete
<1>1. D = Tasks BY <1>0
<1>2. MapThenSumSet(LAMBDA t : accepted[t], D) = SumFunctionOnSet(accepted, D)
  BY DEF MapThenSumSet, MapThenFoldSet, SumFunctionOnSet, FoldFunctionOnSet
<1>3. MergeAccumulators(accepted) = acc + SumFunctionOnSet(accepted, D) BY <1>2 DEF MergeAccumulators
<1>4. \A t \in Tasks : accepted[t] \in Nat
  <2>1. \A t \in Tasks : accepted[t] \in {0, 1} BY <1>0
  <2> QED BY SMTT(30), <2>1
<1>5. MapTasks \in SUBSET Tasks BY TaskLemma
<1>6. SumFunctionOnSet(accepted, Tasks) =
        SumFunctionOnSet(accepted, MapTasks) + SumFunctionOnSet(accepted, Tasks \ MapTasks)
  BY SMTT(30), <1>4, <1>5, TasksFinite, SumSplit
<1>7. Tasks \ MapTasks = {<<ResultStage, 0>>}
  <2>1. <<ResultStage, 0>> \notin MapTasks BY SMTT(30), SizesAssumption DEF MapTasks, ResultStage
  <2> QED BY <2>1 DEF Tasks
<1>8. accepted[<<ResultStage, 0>>] = 0
  <2>1. <<ResultStage, 0>> \in Tasks /\ <<ResultStage, 0>> \notin MapTasks BY <1>7
  <2> QED BY <1>0, <2>1 DEF Counts
<1>9. SumFunctionOnSet(accepted, {<<ResultStage, 0>>}) = 0
  <2>1. 0 \in Nat BY SMTT(30)
  <2> QED BY <1>8, <2>1, SumOne
<1>10. \A t \in MapTasks : accepted[t] \in {0, 1} /\ (~c => accepted[t] = 1) BY <1>0, <1>5 DEF Counts
<1>11. SumFunctionOnSet(accepted, MapTasks) \in Nat BY <1>4, <1>5, TasksFinite, SumNat
<1>12. SumFunctionOnSet(accepted, Tasks) = SumFunctionOnSet(accepted, MapTasks)
  <2> DEFINE k == SumFunctionOnSet(accepted, MapTasks)
  <2>1. \A n \in Nat : n + 0 = n BY SMTT(30)
  <2> QED BY <1>6, <1>7, <1>9, <1>11, <2>1
<1> QED BY <1>1, <1>3, <1>10, <1>12

(* At most one each, and exactly one where nothing is cached.                *)
LEMMA OnceLemma ==
    ASSUME NEW c, NEW accepted, \A t \in MapTasks : accepted[t] \in {0, 1} /\ (~c => accepted[t] = 1)
    PROVE  /\ SumFunctionOnSet(accepted, MapTasks) \in Nat
           /\ SumFunctionOnSet(accepted, MapTasks) <= Cardinality(MapTasks)
           /\ ~c => SumFunctionOnSet(accepted, MapTasks) = Cardinality(MapTasks)
<1> DEFINE ones == [t \in MapTasks |-> 1]
<1>1. \A t \in MapTasks : ones[t] \in Nat /\ ones[t] = 1 BY SMTT(30)
<1>2. \A t \in MapTasks : accepted[t] \in Nat /\ accepted[t] <= 1 BY SMTT(30)
<1>3. \A t \in MapTasks : accepted[t] <= ones[t] BY <1>1, <1>2
<1> HIDE DEF ones
<1>4. SumFunctionOnSet(accepted, MapTasks) <= SumFunctionOnSet(ones, MapTasks)
  BY SMTT(30), <1>1, <1>2, <1>3, TasksFinite, SumMonotonic
<1>5. SumFunctionOnSet(ones, MapTasks) = Cardinality(MapTasks) BY <1>1, TasksFinite, SumOnes
<1>6. SumFunctionOnSet(accepted, MapTasks) \in Nat BY <1>2, TasksFinite, SumNat
<1>7. ~c => SumFunctionOnSet(accepted, MapTasks) = Cardinality(MapTasks) BY TasksFinite, SumOnes
<1> QED BY <1>4, <1>5, <1>6, <1>7

(* What the proof of the accumulator's value carries along.                  *)
CountInv ==
    /\ program \in ProgramRecs /\ WorkerType
    /\ acc \in Nat /\ succeeded \in Nat /\ faults \in Nat
    /\ Fine(program.cached, s, pc)
    /\ acc <= succeeded * Cardinality(MapTasks)
    /\ ~program.cached => acc = succeeded * Cardinality(MapTasks)

(* CountInv holds before the first job.                                    *)
LEMMA InitCount == Init => CountInv
<1> SUFFICES ASSUME Init PROVE CountInv OBVIOUS
<1>1. program \in ProgramRecs BY SizesAssumption DEF Init, ProgramRecs
<1>2. WorkerType
  <2>1. 1 \in Nat BY SMTT(30)
  <2> QED BY <2>1 DEF Init, WorkerType
<1>3. acc = 0 /\ succeeded = 0 /\ faults = 0 BY DEF Init
<1>4. Fine(program.cached, s, pc) BY NewFine DEF Init
<1>5. Cardinality(MapTasks) \in Nat BY TasksFinite, FS_CardinalityType
<1>6. 0 \in Nat /\ 0 * Cardinality(MapTasks) = 0 /\ 0 <= 0 BY SMTT(30), <1>5
<1> QED BY <1>1, <1>2, <1>3, <1>4, <1>6 DEF CountInv

(* A job that succeeds adds what its accepted map tasks did.               *)
LEMMA SuccessCount ==
    ASSUME CountInv, EndJob(TRUE), \A t \in Tasks : s.accepted[t] # None
    PROVE  CountInv' /\ acc' = acc + SumFunctionOnSet(s.accepted, MapTasks)
<1>1. /\ s' = NewScheduler /\ pc' = "idle" /\ program' = program /\ succeeded' = succeeded + 1
      /\ faults' = faults /\ acc' = MergeAccumulators(s.accepted)
  BY DEF EndJob
<1>2. UNCHANGED <<up, inc, jobCache, reusable>> BY DEF EndJob, worker
<1>3. Fine(program.cached, s, pc)' BY <1>1, NewFine
<1> DEFINE c == program.cached
           a == s.accepted
           n == SumFunctionOnSet(s.accepted, MapTasks)
           k == Cardinality(MapTasks)
<1>4. Complete(c, a) BY Fields DEF CountInv, Fine, Typed, Counted, Complete
<1>5. /\ MergeAccumulators(a) = acc + n
      /\ \A t \in MapTasks : a[t] \in {0, 1} /\ (~c => a[t] = 1)
  <2> HIDE DEF a, c
  <2>1. /\ MergeAccumulators(a) = acc + SumFunctionOnSet(a, MapTasks)
        /\ \A t \in MapTasks : a[t] \in {0, 1} /\ (~c => a[t] = 1)
    BY SMTT(30), <1>4, MergeLemma
  <2> QED BY <2>1 DEF a
<1>6. n \in Nat /\ n <= k /\ (~c => n = k) BY <1>5, OnceLemma
<1>7. k \in Nat BY TasksFinite, FS_CardinalityType
<1>8. acc \in Nat /\ succeeded \in Nat /\ acc <= succeeded * k /\ (~c => acc = succeeded * k) BY DEF CountInv
<1> HIDE DEF n, k
<1>9. (succeeded + 1) * k = succeeded * k + k /\ succeeded * k \in Nat BY SMTT(30), <1>7, <1>8
<1>10. acc + n \in Nat /\ acc + n <= (succeeded + 1) * k /\ (~c => acc + n = (succeeded + 1) * k)
       /\ succeeded + 1 \in Nat
  BY SMTT(30), <1>6, <1>7, <1>8, <1>9
<1>11. acc' = acc + n BY <1>1, <1>5
<1> QED BY <1>1, <1>2, <1>3, <1>10, <1>11 DEF CountInv, WorkerType, n, k

(* What counts of a placement.                                               *)
Picks(sch, used, pick) ==
    /\ pick.sch \in Schedulers
    /\ pick.sch.stage = sch.stage /\ pick.sch.p = sch.p /\ pick.sch.wave = sch.wave
    /\ pick.sch.before = sch.before /\ pick.sch.retry = sch.retry /\ pick.sch.call = sch.call
    /\ pick.sch.accepted = sch.accepted /\ pick.sch.repairs = sch.repairs
    /\ pick.index # None => pick.index \in Live(used)

(* Placement changes locations, identities and the next worker, nothing    *)
(* else.                                                                   *)
LEMMA PickSame ==
    ASSUME WorkerType, NEW sch \in Schedulers, NEW used, NEW t \in Tasks, NEW pick,
           pick = PickWorkerIndexFor(sch, used, StageCacheHints(t))
    PROVE  Picks(sch, used, pick)
<1> DEFINE hints == StageCacheHints(t)
<1>1. hints = {} \/ hints = {t[2]} BY HintLemma
<1>2. Picked(sch, used, hints, pick)
  <2> HIDE DEF hints
  <2> QED BY <1>1, PickLemma DEF hints
<1>3. /\ pick.sch.stage = sch.stage /\ pick.sch.p = sch.p /\ pick.sch.wave = sch.wave
      /\ pick.sch.before = sch.before /\ pick.sch.retry = sch.retry /\ pick.sch.call = sch.call
      /\ pick.sch.accepted = sch.accepted /\ pick.sch.repairs = sch.repairs
  BY <1>2 DEF Schedulers, Picked
<1> QED BY <1>2, <1>3 DEF Picks, Picked

(* What happens to a wave that is full or at the end of its stage.         *)
LEMMA CloseLemma ==
    ASSUME CountInv, CloseWave
    PROVE  /\ pc = "fill" /\ Fine(program.cached, s, "fill")
           /\ s.wave # <<>> => Step(s, "exec")
           /\ s.wave = <<>> => s.p = NumPartitions(s.stage)
           /\ s.wave = <<>> /\ s.stage # ResultStage => Step([s EXCEPT !.stage = @ + 1, !.p = 0], "fill")
           /\ s.wave = <<>> /\ s.stage = ResultStage => EndJob(TRUE)
<1>1. pc = "fill" /\ (s.p = NumPartitions(s.stage) \/ Len(s.wave) = Workers) BY DEF CloseWave, WaveFull
<1>2. s.wave = <<>> => Len(s.wave) # Workers
  <2>1. Workers # 0 BY SizesAssumption
  <2>2. Len(<<>>) = 0 BY LenFacts
  <2> QED BY <2>1, <2>2
<1> QED BY <1>1, <1>2 DEF CloseWave, CountInv

(* The call that is answered, and the scheduler with its answer.             *)
LEMMA CallLemma ==
    ASSUME CountInv, NEW i \in Calls
    PROVE  /\ Call(i) \in CallRecs /\ Call(i).task \in Tasks /\ Call(i).worker \in W
           /\ \/ pc = "exec" /\ i \in DOMAIN s.wave /\ i # 0 /\ Call(i) = s.wave[i]
              \/ pc = "call" /\ i = 0 /\ Call(i) = s.call
<1>1. s \in Schedulers /\ (pc = "call" => s.call \in CallRecs) BY DEF CountInv, Fine, Typed
<1>2. s.wave \in Seq(CallRecs) BY <1>1, Fields
<1>3. \A j \in DOMAIN s.wave : s.wave[j] \in CallRecs /\ j # 0 BY SMTT(30), <1>2
<1>4. CASE pc = "exec"
  <2>1. i \in DOMAIN s.wave BY <1>4 DEF Calls
  <2>2. i # 0 /\ s.wave[i] \in CallRecs BY <1>3, <2>1
  <2>3. Call(i) = s.wave[i] BY <2>2 DEF Call
  <2>4. s.wave[i].task \in Tasks /\ s.wave[i].worker \in W BY <2>2 DEF CallRecs
  <2> QED BY <1>4, <2>1, <2>2, <2>3, <2>4
<1>5. CASE pc = "call"
  <2>1. i = 0 BY <1>5 DEF Calls
  <2> QED BY <1>1, <1>5, <2>1 DEF Call, CallRecs
<1> QED BY <1>4, <1>5 DEF Calls

(* What a task reads, computes and keeps.                                    *)
Reads(t) == IF t \in MapTasks THEN {t[2]} ELSE {}
Computed(t, w) == IF program.cached THEN Reads(t) \ Holds(w) ELSE Reads(t)
Puts(t) == IF program.cached THEN Reads(t) ELSE {}

(* RunTask in these words.                                                 *)
LEMMA RunLemma ==
    ASSUME CountInv, NEW i, NEW lost \in BOOLEAN, RunTask(i, lost), NEW e, e = Call(i)
    PROVE  /\ e.state = "sent" /\ up[e.worker]
           /\ faults' = IF lost THEN faults + 1 ELSE faults
           /\ Answering(i, IF lost THEN [e EXCEPT !.state = "error"]
                           ELSE [e EXCEPT !.state = "ok", !.added = Cardinality(Computed(e.task, e.worker))])
           /\ program.reuse => /\ reusable' = [reusable EXCEPT ![e.worker] = @ \cup Puts(e.task)]
                               /\ jobCache' = jobCache
           /\ ~program.reuse => /\ jobCache' = [jobCache EXCEPT ![e.worker] = @ \cup Puts(e.task)]
                                /\ reusable' = reusable
           /\ up' = up /\ inc' = inc
BY DEF RunTask, Reads, Computed, Puts

(* A task computes one partition: when it is a map task and does not find  *)
(* it cached.                                                              *)
LEMMA ComputedLemma ==
    ASSUME NEW t \in Tasks, NEW w
    PROVE  /\ Counts(program.cached, t, Cardinality(Computed(t, w)))
           /\ Cardinality(Computed(t, w)) \in {0, 1}
           /\ Cardinality(Computed(t, w)) =
                IF t \in MapTasks /\ (program.cached => t[2] \notin Holds(w)) THEN 1 ELSE 0
           /\ Puts(t) \subseteq InputParts
<1>1. t \in MapTasks => t[2] \in InputParts BY DEF MapTasks, InputParts
<1>2. Cardinality({}) = 0 /\ Cardinality({t[2]}) = 1 BY FS_EmptySet, FS_Singleton
<1>3. CASE t \in MapTasks /\ (program.cached => t[2] \notin Holds(w))
  <2>1. Computed(t, w) = {t[2]} BY <1>3 DEF Computed, Reads
  <2> QED BY <1>1, <1>2, <1>3, <2>1 DEF Counts, Puts, Reads
<1>4. CASE ~(t \in MapTasks /\ (program.cached => t[2] \notin Holds(w)))
  <2>1. Computed(t, w) = {} BY <1>4 DEF Computed, Reads
  <2> QED BY <1>1, <1>2, <1>4, <2>1 DEF Counts, Puts, Reads
<1> QED BY <1>3, <1>4

(* Every step keeps CountInv.                                              *)
LEMMA NextCount == CountInv /\ [Next]_vars => CountInv'
(* Accepting a result changes what is accepted and where partitions are    *)
(* believed to be.                                                         *)
<1>AcceptLemma. ASSUME NEW sch \in Schedulers, NEW e \in CallRecs, NEW new, new = Accept(sch, e)
      PROVE  /\ new \in Schedulers
             /\ new = [sch EXCEPT !.accepted = [@ EXCEPT ![e.task] = e.added],
                                  !.locations = @ \cup (StageCacheHints(e.task) \X {e.worker})]
  <2> USE <1>AcceptLemma
  <2>1. e.task \in Tasks /\ e.added \in {0, 1} /\ e.worker \in W BY DEF CallRecs
  <2>2. StageCacheHints(e.task) \subseteq InputParts BY <2>1, HintLemma
  <2>3. new = [sch EXCEPT !.accepted = [@ EXCEPT ![e.task] = e.added],
                          !.locations = @ \cup (StageCacheHints(e.task) \X {e.worker})]
    <3>1. RememberWorkerCache(sch.locations, e.worker, StageCacheHints(e.task), {})
            = sch.locations \cup (StageCacheHints(e.task) \X {e.worker})
      BY RememberLemma
    <3> QED BY <3>1 DEF Accept
  <2>4. [sch.accepted EXCEPT ![e.task] = e.added] \in [Tasks -> {None, 0, 1}] BY <2>1 DEF Schedulers
  <2>5. sch.locations \cup (StageCacheHints(e.task) \X {e.worker}) \in SUBSET (InputParts \X W)
    BY <2>1, <2>2 DEF Schedulers
  <2>6. new \in Schedulers BY <2>3, <2>4, <2>5 DEF Schedulers
  <2> QED BY <2>3, <2>6
(* Invalidating a lost map output, and the result below it.                *)
<1>InvalidateLemma. ASSUME NEW sch \in Schedulers, NEW m \in MapTasks, NEW new, new = Invalidate(sch, m)
      PROVE  /\ new \in Schedulers
             /\ new = [sch EXCEPT !.accepted = [@ EXCEPT ![m] = None, ![<<ResultStage, 0>>] = None],
                                  !.repairs = @ + 1]
  <2> USE <1>InvalidateLemma
  <2>1. m \in Tasks /\ <<ResultStage, 0>> \in Tasks BY TaskLemma
  <2>2. new = [sch EXCEPT !.accepted = [@ EXCEPT ![m] = None, ![<<ResultStage, 0>>] = None],
                                  !.repairs = @ + 1]
    BY DEF Invalidate, Schedulers
  <2>3. [sch.accepted EXCEPT ![m] = None, ![<<ResultStage, 0>>] = None] \in [Tasks -> {None, 0, 1}]
    BY <2>1 DEF Schedulers
  <2>4. sch.repairs + 1 \in Nat BY SMTT(30), Fields
  <2>5. new \in Schedulers BY <2>2, <2>3, <2>4 DEF Schedulers
  <2> QED BY <2>2, <2>5
(* Starting over with the first stage.                                     *)
<1>RestartLemma. ASSUME NEW sch \in Schedulers, NEW new, new = Restart(sch)
      PROVE  /\ Typed(new, "fill") /\ new.wave = <<>> /\ new.stage = 1 /\ new.p = 0
             /\ new.before = sch.repairs /\ new.repairs = sch.repairs /\ new.accepted = sch.accepted
  <2> USE <1>RestartLemma
  <2>1. sch.repairs \in Nat /\ <<>> \in Seq(CallRecs) /\ 0 \in Nat /\ 1 \in 1..ResultStage BY SMTT(30), Fields, TaskLemma
  <2>2. new \in Schedulers /\ new.wave = <<>> /\ new.stage = 1 /\ new.p = 0
             /\ new.before = sch.repairs /\ new.repairs = sch.repairs /\ new.accepted = sch.accepted
    BY <2>1 DEF Restart, Schedulers
  <2>3. NumPartitions(new.stage) \in Nat BY <2>2, Fields
  <2>4. 0 <= NumPartitions(new.stage) BY SMTT(30), <2>3
  <2> QED BY <2>2, <2>4 DEF Typed
(* Placement changes nothing that counts.                                    *)
<1>SameFine. ASSUME NEW c, NEW sch, NEW at, Fine(c, sch, at), at # "idle", NEW new \in Schedulers,
             new.stage = sch.stage, new.p = sch.p, new.wave = sch.wave, new.before = sch.before,
             new.retry = sch.retry, new.call = sch.call, new.accepted = sch.accepted, new.repairs = sch.repairs
      PROVE  Fine(c, new, at)
  BY <1>SameFine DEF Fine, Typed, Counted, Due, Pending, InWave, Retried
(* Closing a wave changes nothing that counts.                             *)
<1>ExecFine. ASSUME NEW c, NEW sch, Fine(c, sch, "fill"), sch.wave # <<>>
      PROVE  Fine(c, sch, "exec")
  BY <1>ExecFine DEF Fine, Typed, Counted, Pending
(* An answer of a call of the wave: the task stays pending.                *)
<1>AnswerWaveFine. ASSUME NEW c, NEW sch, Fine(c, sch, "exec"), NEW i \in DOMAIN sch.wave, NEW e \in CallRecs,
             e.task = sch.wave[i].task, Entry(c, e), NEW new, new = [sch EXCEPT !.wave[i] = e]
      PROVE  Fine(c, new, "exec")
  <2> USE <1>AnswerWaveFine
  <2>1. sch \in Schedulers BY DEF Fine, Typed
  <2>2. sch.wave \in Seq(CallRecs) BY <2>1, Fields
  <2> DEFINE v == [sch.wave EXCEPT ![i] = e]
  <2>3. v \in Seq(CallRecs) /\ DOMAIN v = DOMAIN sch.wave /\ Len(v) = Len(sch.wave) /\ v # <<>>
    BY SMTT(30), <2>2
  <2>4. v[i] = e /\ \A j \in DOMAIN sch.wave : j # i => v[j] = sch.wave[j] BY <2>2
  <2> HIDE DEF v
  <2>5. new = [sch EXCEPT !.wave = v] BY <2>1 DEF Schedulers, v
  <2>6. new \in Schedulers BY <2>1, <2>3, <2>5 DEF Schedulers
  <2>7. /\ new.stage = sch.stage /\ new.p = sch.p /\ new.wave = v /\ new.before = sch.before
        /\ new.accepted = sch.accepted /\ new.repairs = sch.repairs
    BY <2>1, <2>5 DEF Schedulers
  <2>8. Typed(new, "exec") BY <2>3, <2>6, <2>7 DEF Fine, Typed
  <2>9. \A j \in DOMAIN v : Entry(c, v[j])
    <3> TAKE j \in DOMAIN v
    <3>1. j \in DOMAIN sch.wave BY <2>3
    <3> QED BY <2>4, <3>1 DEF Fine, Counted
  <2>10. \A t \in Tasks : InWave(sch, t) => InWave(new, t)
    <3> SUFFICES ASSUME NEW t \in Tasks, NEW j \in DOMAIN sch.wave, sch.wave[j].task = t PROVE InWave(new, t)
      BY DEF InWave
    <3>1. v[j].task = t BY <2>4
    <3> QED BY <2>3, <2>7, <3>1 DEF InWave
  <2>11. Counted(c, new, "exec") BY <2>7, <2>9, <2>10 DEF Fine, Counted, Pending, Due
  <2> QED BY <2>8, <2>11 DEF Fine
(* The same for the call of a retry.                                       *)
<1>AnswerCallFine. ASSUME NEW c, NEW sch, Fine(c, sch, "call"), NEW e \in CallRecs,
             e.task = sch.call.task, Entry(c, e), NEW new, new = [sch EXCEPT !.call = e]
      PROVE  Fine(c, new, "call")
  <2> USE <1>AnswerCallFine
  <2>1. sch \in Schedulers BY DEF Fine, Typed
  <2>2. /\ new \in Schedulers /\ new.call = e
        /\ new.stage = sch.stage /\ new.p = sch.p /\ new.wave = sch.wave /\ new.before = sch.before
        /\ new.accepted = sch.accepted /\ new.repairs = sch.repairs /\ new.retry = sch.retry
    BY <2>1 DEF Schedulers
  <2>3. Typed(new, "call") BY <2>2 DEF Fine, Typed
  <2>4. Counted(c, new, "call") BY <2>2 DEF Fine, Counted, Pending, Due, InWave, Retried
  <2> QED BY <2>3, <2>4 DEF Fine
(* An accepted result counts as its attempt did.                           *)
<1>AcceptCounts. ASSUME NEW c, NEW sch \in Schedulers, NEW e \in CallRecs, Entry(c, e), e.state = "ok",
             AllCount(c, sch), NEW new, new = Accept(sch, e)
      PROVE  Accepts(c, sch, e, new)
  <2> USE <1>AcceptCounts
  <2>1. /\ new \in Schedulers
        /\ new = [sch EXCEPT !.accepted = [@ EXCEPT ![e.task] = e.added],
                             !.locations = @ \cup (StageCacheHints(e.task) \X {e.worker})]
    BY <1>AcceptLemma
  <2>2. /\ new.accepted = [sch.accepted EXCEPT ![e.task] = e.added]
        /\ new.stage = sch.stage /\ new.p = sch.p /\ new.wave = sch.wave /\ new.before = sch.before
        /\ new.repairs = sch.repairs /\ new.retry = sch.retry /\ new.call = sch.call
    BY <2>1 DEF Schedulers
  <2>3. DOMAIN sch.accepted = Tasks /\ e.task \in Tasks /\ e.added \in {0, 1}
    BY DEF Schedulers, CallRecs
  <2>4. e.added # None BY SMTT(30), <2>3 DEF None
  <2> QED BY <2>1, <2>2, <2>3, <2>4 DEF Entry, Accepts, AllCount, SameLoop
(* The wave without its first call.                                          *)
<1>RestLemma. ASSUME NEW c, NEW sch, Fine(c, sch, "exec"), NEW e, e = Head(sch.wave),
             NEW rest, rest = [sch EXCEPT !.wave = Tail(@)]
      PROVE  Without(c, sch, e, rest)
  <2> USE <1>RestLemma
  <2>1. sch \in Schedulers /\ sch.wave # <<>> BY DEF Fine, Typed
  <2>2. sch.wave \in Seq(CallRecs) BY <2>1, Fields
  <2>3. e \in CallRecs /\ e = sch.wave[1] /\ (Tail(sch.wave) = <<>> => Len(sch.wave) = 1)
    BY <2>1, <2>2, SeqLemma
  <2>4. rest \in Schedulers /\ rest.wave = Tail(sch.wave) BY <2>1, TailLemma
  <2>5. /\ rest.stage = sch.stage /\ rest.p = sch.p /\ rest.before = sch.before
        /\ rest.accepted = sch.accepted /\ rest.repairs = sch.repairs
    BY <2>1 DEF Schedulers
  <2>6. /\ 1 \in DOMAIN sch.wave
        /\ \A i \in DOMAIN Tail(sch.wave) : i + 1 \in DOMAIN sch.wave /\ Tail(sch.wave)[i] = sch.wave[i + 1]
        /\ \A j \in DOMAIN sch.wave : j # 1 => /\ j - 1 \in DOMAIN Tail(sch.wave)
                                               /\ Tail(sch.wave)[j - 1] = sch.wave[j]
    BY <2>1, <2>2, TailIndex
  <2>7. \A i \in DOMAIN sch.wave : Entry(c, sch.wave[i]) BY DEF Fine, Counted
  <2>8. Entry(c, e) BY <2>3, <2>6, <2>7
  <2>9. \A i \in DOMAIN rest.wave : Entry(c, rest.wave[i]) BY <2>4, <2>6, <2>7
  <2>10. ASSUME NEW t \in Tasks, NEW j \in DOMAIN sch.wave, sch.wave[j].task = t, j # 1
         PROVE  InWave(rest, t)
    <3>1. j - 1 \in DOMAIN rest.wave /\ rest.wave[j - 1].task = t BY <2>4, <2>6, <2>10
    <3> QED BY <3>1 DEF InWave
  <2>11. \A t \in Tasks : InWave(sch, t) => t = e.task \/ InWave(rest, t) BY <2>3, <2>10 DEF InWave
  <2> QED BY <2>1, <2>3, <2>4, <2>5, <2>8, <2>9, <2>11 DEF Without, SameLoop
(* Back at the first stage nothing has been passed.                          *)
<1>RestartFine. ASSUME NEW c, NEW sch \in Schedulers, NEW new, new = Restart(sch),
             AllCount(c, sch)
      PROVE  Fine(c, new, "fill")
  <2> USE <1>RestartFine
  <2>1. /\ Typed(new, "fill") /\ new.wave = <<>> /\ new.stage = 1 /\ new.p = 0
        /\ new.before = sch.repairs /\ new.repairs = sch.repairs /\ new.accepted = sch.accepted
    BY <1>RestartLemma
  <2>2. \A t \in Tasks : ~Due(new, t)
    <3>1. \A t \in Tasks : t[1] \in Nat \ {0} /\ t[2] \in Nat
      BY SMTT(30), SizesAssumption DEF Tasks, MapTasks, ResultStage
    <3> HIDE DEF Tasks
    <3> QED BY SMTT(30), <2>1, <3>1 DEF Due
  <2>3. DOMAIN new.wave = {} /\ new.before <= new.repairs
    <3>1. sch.repairs \in Nat BY Fields
    <3> QED BY SMTT(30), <2>1, <3>1
  <2> QED BY <2>1, <2>2, <2>3 DEF Fine, Counted, AllCount
(* A lost map output takes accepted results away, and adds none.             *)
<1>InvalidateCounts. ASSUME NEW c, NEW sch \in Schedulers, NEW m \in MapTasks, NEW new, new = Invalidate(sch, m),
             AllCount(c, sch)
      PROVE  /\ new \in Schedulers
             /\ AllCount(c, new)
             /\ new.stage = sch.stage /\ new.p = sch.p /\ new.wave = sch.wave /\ new.before = sch.before
             /\ new.repairs = sch.repairs + 1 /\ new.retry = sch.retry /\ new.call = sch.call
  <2> USE <1>InvalidateCounts
  <2>1. /\ new \in Schedulers
        /\ new = [sch EXCEPT !.accepted = [@ EXCEPT ![m] = None, ![<<ResultStage, 0>>] = None],
                             !.repairs = @ + 1]
    BY <1>InvalidateLemma
  <2>2. /\ new.accepted = [sch.accepted EXCEPT ![m] = None, ![<<ResultStage, 0>>] = None]
        /\ new.stage = sch.stage /\ new.p = sch.p /\ new.wave = sch.wave /\ new.before = sch.before
        /\ new.repairs = sch.repairs + 1 /\ new.retry = sch.retry /\ new.call = sch.call
    BY <2>1 DEF Schedulers
  <2>3. DOMAIN sch.accepted = Tasks BY DEF Schedulers
  <2>4. \A t \in Tasks : new.accepted[t] # None => new.accepted[t] = sch.accepted[t] BY <2>2, <2>3
  <2> QED BY <2>1, <2>2, <2>4 DEF AllCount
(* A step of the scheduler within a job keeps it.                          *)
<1>StepCount. ASSUME CountInv, NEW sch, NEW at, Step(sch, at), Fine(program.cached, sch, at)
      PROVE  CountInv'
  <2> USE <1>StepCount
  <2>1. s' = sch /\ pc' = at /\ program' = program /\ acc' = acc /\ succeeded' = succeeded /\ faults' = faults
    BY DEF Step
  <2>2. UNCHANGED <<up, inc, jobCache, reusable>> BY DEF Step, worker
  <2>3. Fine(program.cached, s, pc)' BY <2>1
  <2> QED BY <2>1, <2>2, <2>3 DEF CountInv, WorkerType
(* A failed job adds nothing.                                              *)
<1>FailCount. ASSUME CountInv, EndJob(FALSE)
      PROVE  CountInv'
  <2> USE <1>FailCount
  <2>1. /\ s' = NewScheduler /\ pc' = "idle" /\ program' = program /\ acc' = acc /\ succeeded' = succeeded
        /\ faults' = faults
    BY DEF EndJob
  <2>2. UNCHANGED <<up, inc, jobCache, reusable>> BY DEF EndJob, worker
  <2>3. Fine(program.cached, s, pc)' BY <2>1, NewFine
  <2> QED BY <2>1, <2>2, <2>3 DEF CountInv, WorkerType
(* So it keeps what is counted.                                            *)
<1>PickFine. ASSUME NEW c, NEW sch, NEW at, Fine(c, sch, at), at # "idle", NEW used, NEW pick, Picks(sch, used, pick)
      PROVE  Fine(c, pick.sch, at)
  BY <1>PickFine, <1>SameFine DEF Picks
(* A new job begins.                                                       *)
<1>SubmitCount. CountInv /\ Submit => CountInv'
  <2> SUFFICES ASSUME CountInv, Submit PROVE CountInv' OBVIOUS
  <2>1. /\ s' = NewScheduler /\ pc' = "fill" /\ program' = program /\ acc' = acc /\ succeeded' = succeeded
        /\ faults' = faults /\ UNCHANGED <<up, inc, reusable>> /\ jobCache' = [w \in W |-> {}]
    BY DEF Submit
  <2>2. WorkerType' BY <2>1 DEF CountInv, WorkerType
  <2>3. Fine(program.cached, s, pc)' BY <2>1, NewFine
  <2> QED BY <2>1, <2>2, <2>3 DEF CountInv
(* The wave is filled: a task is passed or sent, or no worker is healthy.  *)
<1>FillCount. CountInv /\ FillWave => CountInv'
      (* Passing an accepted task keeps the types.                               *)
  <2>SkipTyped. ASSUME NEW sch, Typed(sch, "fill"), sch.p # NumPartitions(sch.stage), NEW new,
               new = [sch EXCEPT !.p = @ + 1]
        PROVE  Typed(new, "fill")
    <3> USE <2>SkipTyped
    <3>1. sch \in Schedulers BY DEF Typed
    <3>2. sch.p \in Nat /\ NumPartitions(sch.stage) \in Nat /\ sch.p <= NumPartitions(sch.stage) BY <3>1, Fields DEF Typed
    <3>3. sch.p + 1 \in Nat /\ sch.p + 1 <= NumPartitions(sch.stage) BY SMTT(30), <3>2
    <3>4. new \in Schedulers /\ new.p = sch.p + 1 /\ new.stage = sch.stage BY <3>1, <3>3 DEF Schedulers
    <3> QED BY <3>3, <3>4 DEF Typed
  (* So does adding a call to the wave,                                      *)
  <2>PlaceTyped. ASSUME NEW sch, Typed(sch, "fill"), sch.p # NumPartitions(sch.stage), NEW e \in CallRecs, NEW new,
               new = [sch EXCEPT !.wave = Append(@, e), !.p = @ + 1]
        PROVE  Typed(new, "fill") /\ new.wave \in Seq(CallRecs) /\ Len(new.wave) = Len(sch.wave) + 1
    <3> USE <2>PlaceTyped
    <3>1. sch \in Schedulers BY DEF Typed
    <3>2. sch.p \in Nat /\ NumPartitions(sch.stage) \in Nat /\ sch.p <= NumPartitions(sch.stage) BY <3>1, Fields DEF Typed
    <3>3. sch.p + 1 \in Nat /\ sch.p + 1 <= NumPartitions(sch.stage) BY SMTT(30), <3>2
    <3>4. sch.wave \in Seq(CallRecs) BY <3>1, Fields
    <3>5. Append(sch.wave, e) \in Seq(CallRecs) /\ Len(Append(sch.wave, e)) = Len(sch.wave) + 1 BY SMTT(30), <3>4
    <3>6. new \in Schedulers /\ new.p = sch.p + 1 /\ new.stage = sch.stage /\ new.wave = Append(sch.wave, e)
      BY <3>1, <3>3, <3>5 DEF Schedulers
    <3> QED BY <3>3, <3>5, <3>6 DEF Typed
  (* A task that is passed has been accepted.                                *)
  <2>SkipFine. ASSUME NEW c, NEW sch, Fine(c, sch, "fill"), sch.p # NumPartitions(sch.stage), NEW new,
               new = [sch EXCEPT !.p = @ + 1], sch.accepted[<<sch.stage, sch.p>>] # None
        PROVE  Fine(c, new, "fill")
    <3> USE <2>SkipFine
    <3>1. sch \in Schedulers BY DEF Fine, Typed
    <3>2. Typed(new, "fill") BY <2>SkipTyped DEF Fine
    <3>3. /\ new.stage = sch.stage /\ new.p = sch.p + 1 /\ new.wave = sch.wave /\ new.before = sch.before
          /\ new.accepted = sch.accepted /\ new.repairs = sch.repairs
      BY <3>1 DEF Schedulers
    <3>4. ASSUME NEW t \in Tasks, Due(new, t) PROVE Due(sch, t) \/ t = <<sch.stage, sch.p>>
      <4>1. t = <<t[1], t[2]>> /\ t[1] \in Nat /\ t[2] \in Nat BY TaskLemma
      <4>2. sch.p \in Nat BY <3>1, Fields
      <4>3. t[2] < sch.p + 1 => t[2] < sch.p \/ t[2] = sch.p BY SMTT(30), <4>1, <4>2
      <4> QED BY <3>3, <3>4, <4>1, <4>3 DEF Due
    <3>5. Counted(c, new, "fill") BY <3>3, <3>4 DEF Fine, Counted, Pending, InWave
    <3> QED BY <3>2, <3>5 DEF Fine
  (* A task that is sent is pending in the wave.                             *)
  <2>PlaceFine. ASSUME NEW c, NEW sch, Fine(c, sch, "fill"), sch.p # NumPartitions(sch.stage), NEW e \in CallRecs,
               e.state = "sent", e.task = <<sch.stage, sch.p>>,
               NEW new, new = [sch EXCEPT !.wave = Append(@, e), !.p = @ + 1]
        PROVE  Fine(c, new, "fill")
    <3> USE <2>PlaceFine
    <3>1. sch \in Schedulers BY DEF Fine, Typed
    <3>2. Typed(new, "fill") BY <2>PlaceTyped DEF Fine
    <3>3. /\ new.stage = sch.stage /\ new.p = sch.p + 1 /\ new.wave = Append(sch.wave, e)
          /\ new.before = sch.before /\ new.accepted = sch.accepted /\ new.repairs = sch.repairs
      BY <3>1 DEF Schedulers
    <3>4. ASSUME NEW t \in Tasks, Due(new, t) PROVE Due(sch, t) \/ t = <<sch.stage, sch.p>>
      <4>1. t = <<t[1], t[2]>> /\ t[1] \in Nat /\ t[2] \in Nat BY TaskLemma
      <4>2. sch.p \in Nat BY <3>1, Fields
      <4>3. t[2] < sch.p + 1 => t[2] < sch.p \/ t[2] = sch.p BY SMTT(30), <4>1, <4>2
      <4> QED BY <3>3, <3>4, <4>1, <4>3 DEF Due
    <3>5. sch.wave \in Seq(CallRecs) BY <3>1, Fields
    <3>6. /\ DOMAIN new.wave = DOMAIN sch.wave \cup {Len(sch.wave) + 1}
          /\ new.wave[Len(sch.wave) + 1] = e
          /\ \A i \in DOMAIN sch.wave : new.wave[i] = sch.wave[i]
      BY SMTT(30), <3>3, <3>5
    <3>7. \A i \in DOMAIN new.wave : Entry(c, new.wave[i])
      BY <3>6 DEF Entry, Fine, Counted
    <3>8. \A t \in Tasks : InWave(sch, t) \/ t = <<sch.stage, sch.p>> => InWave(new, t)
      BY <3>6 DEF InWave
    <3>9. Counted(c, new, "fill") BY <3>3, <3>4, <3>7, <3>8 DEF Fine, Counted, Pending
    <3> QED BY <3>2, <3>9 DEF Fine
  <2> SUFFICES ASSUME CountInv, FillWave PROVE CountInv' OBVIOUS
  <2> DEFINE c == program.cached
             t == <<s.stage, s.p>>
             used == {s.wave[i].worker : i \in DOMAIN s.wave}
             pick == PickWorkerIndexFor(s, used, StageCacheHints(t))
             sent == [NoCall EXCEPT !.task = t, !.worker = pick.index, !.state = "sent"]
  <2>1. pc = "fill" /\ s.p # NumPartitions(s.stage) BY DEF FillWave, WaveFull
  <2>2. Fine(c, s, "fill") /\ s \in Schedulers /\ WorkerType BY <2>1 DEF CountInv, Fine, Typed
  <2>3. t \in Tasks
    <3>1. s.p \in Nat /\ NumPartitions(s.stage) \in Nat BY <2>2, Fields
    <3>2. s.p <= NumPartitions(s.stage) BY <2>2 DEF Fine, Typed
    <3>3. s.p < NumPartitions(s.stage) BY SMTT(30), <2>1, <3>1, <3>2
    <3> QED BY <2>2, <3>3, Places
  <2>4. Picks(s, used, pick) BY <2>2, <2>3, PickSame
  <2>5. Fine(c, pick.sch, "fill") BY <2>2, <2>4, <1>PickFine
  <2>6. IF s.accepted[t] # None THEN Step([s EXCEPT !.p = @ + 1], "fill")
        ELSE IF pick.index # None
        THEN Step([pick.sch EXCEPT !.wave = Append(@, sent), !.p = @ + 1], "fill")
        ELSE IF s.wave = <<>> THEN EndJob(FALSE)
        ELSE Step(pick.sch, "exec")
    BY DEF FillWave
  <2> HIDE DEF pick, used
  <2>7. CASE s.accepted[t] # None
    <3>1. Step([s EXCEPT !.p = @ + 1], "fill") BY <2>6, <2>7
    <3>2. Fine(c, [s EXCEPT !.p = @ + 1], "fill") BY <2>1, <2>2, <2>7, <2>SkipFine
    <3> QED BY <3>1, <3>2, <1>StepCount
  <2>8. CASE s.accepted[t] = None /\ pick.index # None
    <3>1. Step([pick.sch EXCEPT !.wave = Append(@, sent), !.p = @ + 1], "fill") BY <2>6, <2>8
    <3>2. pick.index \in W BY <2>4, <2>8 DEF Picks, Live
    <3>3. sent \in CallRecs /\ sent.task = t /\ sent.state = "sent"
      <4> HIDE DEF t
      <4> QED BY <2>3, <3>2 DEF NoCall, CallRecs
    <3>4. pick.sch.p # NumPartitions(pick.sch.stage) /\ t = <<pick.sch.stage, pick.sch.p>> BY <2>1, <2>4 DEF Picks
    <3> HIDE DEF sent, t
    <3>5. Fine(c, [pick.sch EXCEPT !.wave = Append(@, sent), !.p = @ + 1], "fill")
      BY <2>5, <3>3, <3>4, <2>PlaceFine
    <3> QED BY <3>1, <3>5, <1>StepCount
  <2>9. CASE s.accepted[t] = None /\ pick.index = None /\ s.wave = <<>>
    <3>1. EndJob(FALSE) BY <2>6, <2>9
    <3> QED BY <3>1, <1>FailCount
  <2>10. CASE s.accepted[t] = None /\ pick.index = None /\ s.wave # <<>>
    <3>1. Step(pick.sch, "exec") BY <2>6, <2>10
    <3>2. pick.sch.wave # <<>> BY <2>4, <2>10 DEF Picks
    <3>3. Fine(c, pick.sch, "exec") BY <2>5, <3>2, <1>ExecFine
    <3> QED BY <3>1, <3>3, <1>StepCount
  <2> QED BY <2>7, <2>8, <2>9, <2>10
(* The wave is closed, the stage ends, or the job with everything          *)
(* accepted.                                                               *)
<1>CloseCount. CountInv /\ CloseWave => CountInv'
      (* and going on to the next stage.                                         *)
  <2>StageTyped. ASSUME NEW sch, Typed(sch, "fill"), sch.stage # ResultStage, NEW new,
               new = [sch EXCEPT !.stage = @ + 1, !.p = 0]
        PROVE  Typed(new, "fill")
    <3> USE <2>StageTyped
    <3>1. sch \in Schedulers BY DEF Typed
    <3>2. sch.stage \in 1..ResultStage /\ ResultStage \in Nat BY <3>1, Fields, TaskLemma
    <3>3. sch.stage + 1 \in 1..ResultStage /\ 0 \in Nat BY SMTT(30), <3>2
    <3>4. new \in Schedulers /\ new.p = 0 /\ new.stage = sch.stage + 1 BY <3>1, <3>3 DEF Schedulers
    <3>5. NumPartitions(new.stage) \in Nat BY <3>4, Fields
    <3>6. 0 <= NumPartitions(new.stage) BY SMTT(30), <3>5
    <3> QED BY <3>4, <3>6 DEF Typed
  (* A stage whose wave is empty leaves nothing behind.                      *)
  <2>StageFine. ASSUME NEW c, NEW sch, Fine(c, sch, "fill"), sch.stage # ResultStage, sch.wave = <<>>,
               sch.p = NumPartitions(sch.stage), NEW new, new = [sch EXCEPT !.stage = @ + 1, !.p = 0]
        PROVE  Fine(c, new, "fill")
    <3> USE <2>StageFine
    <3>1. sch \in Schedulers BY DEF Fine, Typed
    <3>2. Typed(new, "fill") BY <2>StageTyped DEF Fine
    <3>3. /\ new.stage = sch.stage + 1 /\ new.p = 0 /\ new.wave = sch.wave /\ new.before = sch.before
          /\ new.accepted = sch.accepted /\ new.repairs = sch.repairs
      BY <3>1 DEF Schedulers
    <3>4. \A t \in Tasks : t[1] <= sch.stage => sch.accepted[t] # None BY StageDone
    <3>5. ASSUME NEW t \in Tasks, Due(new, t) PROVE t[1] <= sch.stage
      <4>1. t[1] \in Nat /\ t[2] \in Nat BY TaskLemma
      <4>2. sch.stage \in Nat BY <3>1, Fields
      <4> QED BY SMTT(30), <3>3, <3>5, <4>1, <4>2 DEF Due
    <3>6. Counted(c, new, "fill") BY <3>3, <3>4, <3>5 DEF Fine, Counted
    <3> QED BY <3>2, <3>6 DEF Fine
  <2> SUFFICES ASSUME CountInv, CloseWave PROVE CountInv' OBVIOUS
  <2> DEFINE c == program.cached
  <2>1. /\ pc = "fill" /\ Fine(c, s, "fill")
        /\ s.wave # <<>> => Step(s, "exec")
        /\ s.wave = <<>> => s.p = NumPartitions(s.stage)
        /\ s.wave = <<>> /\ s.stage # ResultStage => Step([s EXCEPT !.stage = @ + 1, !.p = 0], "fill")
        /\ s.wave = <<>> /\ s.stage = ResultStage => EndJob(TRUE)
    BY CloseLemma
  <2>2. CASE s.wave # <<>>
    <3>1. Fine(c, s, "exec") BY <2>1, <2>2, <1>ExecFine
    <3> QED BY <2>1, <2>2, <3>1, <1>StepCount
  <2>3. CASE s.wave = <<>> /\ s.stage # ResultStage
    <3>1. Fine(c, [s EXCEPT !.stage = @ + 1, !.p = 0], "fill") BY <2>1, <2>3, <2>StageFine
    <3> QED BY <2>1, <2>3, <3>1, <1>StepCount
  <2>4. CASE s.wave = <<>> /\ s.stage = ResultStage
    <3>1. \A t \in Tasks : t[1] <= s.stage => s.accepted[t] # None BY <2>1, <2>4, StageDone
    <3>2. \A t \in Tasks : t[1] <= ResultStage
      <4>1. \A t \in Tasks : t = <<t[1], t[2]>> /\ t[1] \in Nat /\ t[2] \in Nat BY TaskLemma
      <4>2. \A t \in Tasks : t[1] \in 1..ResultStage
        BY SMTT(30), SizesAssumption DEF Tasks, MapTasks, ResultStage
      <4>3. ResultStage \in Nat BY TaskLemma
      <4> QED BY SMTT(30), <4>1, <4>2, <4>3
    <3>3. \A t \in Tasks : s.accepted[t] # None BY <2>4, <3>1, <3>2
    <3> QED BY <2>1, <2>4, <3>3, SuccessCount
  <2> QED BY <2>2, <2>3, <2>4
(* The completions of a wave: accepted, repaired, retried, or the end of   *)
(* the job.                                                                *)
<1>AcceptCount. CountInv /\ AcceptWave => CountInv'
      (* Accepting the first call of the wave.                                   *)
  <2>AcceptFine. ASSUME NEW c, NEW sch, Fine(c, sch, "exec"), NEW e, e = Head(sch.wave), e.state = "ok",
               NEW rest, rest = [sch EXCEPT !.wave = Tail(@)], NEW new, new = Accept(rest, e),
               NEW at, at = IF Len(sch.wave) = 1 THEN "fill" ELSE "exec"
        PROVE  Fine(c, new, at)
    <3> USE <2>AcceptFine
    <3>1. Without(c, sch, e, rest) BY <1>RestLemma
    <3>2. at \in {"fill", "exec"} /\ at # "call" /\ at # "idle" /\ at # "ensure"
          /\ (at = "exec" => rest.wave # <<>>)
      BY <3>1 DEF Without
    <3>3. AllCount(c, rest) /\ rest \in Schedulers /\ e \in CallRecs /\ Entry(c, e)
      BY <3>1 DEF Without, AllCount, Fine, Counted
    <3>4. Accepts(c, rest, e, new) BY <3>3, <1>AcceptCounts
    <3>5. /\ \A t \in Tasks : Due(sch, t) => sch.accepted[t] # None \/ InWave(sch, t)
          /\ sch.p <= NumPartitions(sch.stage)
          /\ sch.before <= sch.repairs /\ sch.repairs = sch.before
      BY DEF Fine, Counted, Pending, Typed
    <3>6. new.stage = sch.stage /\ new.p = sch.p /\ new.before = sch.before /\ new.repairs = sch.repairs
      BY <3>1, <3>4 DEF Without, Accepts, SameLoop
    <3>7. new.wave = rest.wave /\ new \in Schedulers /\ AllCount(c, new) BY <3>4 DEF Accepts
    <3>8. Typed(new, at) BY <3>2, <3>5, <3>6, <3>7 DEF Typed
    <3>9. \A i \in DOMAIN new.wave : Entry(c, new.wave[i]) BY <3>1, <3>7 DEF Without
    <3>10. \A t \in Tasks : InWave(sch, t) => t = e.task \/ InWave(new, t)
      <4>1. \A t \in Tasks : InWave(sch, t) => t = e.task \/ InWave(rest, t) BY <3>1 DEF Without
      <4>2. \A t \in Tasks : InWave(rest, t) => InWave(new, t) BY <3>7 DEF InWave
      <4> QED BY <4>1, <4>2
    <3>11. \A t \in Tasks : new.accepted[t] # None <=> sch.accepted[t] # None \/ t = e.task
      BY <3>1, <3>4 DEF Without, Accepts
    <3>12. \A t \in Tasks : Due(new, t) => Due(sch, t) BY <3>6 DEF Due
    <3>13. \A t \in Tasks : Due(new, t) => new.accepted[t] # None \/ Pending(new, at, t)
      BY <3>5, <3>10, <3>11, <3>12 DEF Pending
    <3>14. new.before <= new.repairs /\ new.repairs = new.before BY <3>5, <3>6
    <3>15. Counted(c, new, at) BY <3>2, <3>7, <3>9, <3>13, <3>14 DEF Counted, AllCount
    <3> QED BY <3>8, <3>15 DEF Fine
  (* The first call failed: its task moves from the wave to the retries.     *)
  <2>RetryFine. ASSUME NEW c, NEW sch, Fine(c, sch, "exec"), NEW e, e = Head(sch.wave),
               NEW rest, rest = [sch EXCEPT !.wave = Tail(@)],
               NEW new, new = [rest EXCEPT !.retry = << [task |-> e.task, failures |-> 1] >>]
        PROVE  Fine(c, new, "ensure")
    <3> USE <2>RetryFine
    <3>1. Without(c, sch, e, rest) BY <1>RestLemma
    <3> DEFINE r == [task |-> e.task, failures |-> 1]
    <3>2. r \in Retries /\ r.task = e.task
      <4>1. 1 \in Nat /\ e.task \in Tasks BY SMTT(30), <3>1 DEF CallRecs, Without
      <4> QED BY <4>1 DEF Retries
    <3>3. new = [rest EXCEPT !.retry = <<r>>] /\ rest \in Schedulers BY <3>1 DEF Without
    <3> HIDE DEF r
    <3>4. <<r>> \in Seq(Retries) /\ <<r>> # <<>> /\ Len(<<r>>) = 1 /\ <<r>>[1] = r BY SMTT(30), <3>2
    <3>5. SameLoop(new, rest) /\ new.wave = rest.wave /\ new.accepted = rest.accepted /\ new.retry = <<r>>
      BY <3>3 DEF Schedulers, SameLoop
    <3>6. new \in Schedulers BY <3>3, <3>4 DEF Schedulers
    <3>7. /\ \A t \in Tasks : Due(sch, t) => sch.accepted[t] # None \/ InWave(sch, t)
          /\ sch.p <= NumPartitions(sch.stage)
          /\ sch.before <= sch.repairs
          /\ AllCount(c, sch)
      BY DEF Fine, Counted, Pending, Typed, AllCount
    <3>8. new.stage = sch.stage /\ new.p = sch.p /\ new.before = sch.before /\ new.repairs = sch.repairs
          /\ new.accepted = sch.accepted
      BY <3>1, <3>5 DEF Without, SameLoop
    <3>9. new.retry # <<>> /\ Retried(new) = e.task BY <3>2, <3>4, <3>5 DEF Retried
    <3>10. Typed(new, "ensure") BY <3>6, <3>7, <3>8, <3>9 DEF Typed
    <3>11. \A t \in Tasks : InWave(sch, t) => Pending(new, "ensure", t)
      <4>1. \A t \in Tasks : InWave(sch, t) => t = e.task \/ InWave(new, t)
        BY <3>1, <3>5 DEF Without, InWave
      <4> QED BY <3>9, <4>1 DEF Pending
    <3>12. \A i \in DOMAIN new.wave : Entry(c, new.wave[i]) BY <3>1, <3>5 DEF Without
    <3>13. \A t \in Tasks : Due(new, t) => Due(sch, t) BY <3>8 DEF Due
    <3>14. \A t \in Tasks : Due(new, t) => new.accepted[t] # None \/ Pending(new, "ensure", t)
      BY <3>7, <3>8, <3>11, <3>13
    <3>15. Counted(c, new, "ensure") BY <3>7, <3>8, <3>12, <3>14 DEF Counted, AllCount
    <3> QED BY <3>10, <3>15 DEF Fine
  <2> SUFFICES ASSUME CountInv, AcceptWave PROVE CountInv' OBVIOUS
  <2> DEFINE c == program.cached
             e == Head(s.wave)
             rest == [s EXCEPT !.wave = Tail(@)]
             at == IF Len(s.wave) = 1 THEN "fill" ELSE "exec"
  <2>1. pc = "exec" /\ Fine(c, s, "exec") BY DEF AcceptWave, CountInv
  <2>2. s \in Schedulers /\ AllCount(c, s) BY <2>1 DEF Fine, Typed, Counted, AllCount
  <2>3. \/ e.state = "ok" /\ Step(Accept(rest, e), at)
        \/ /\ e.state = "fetch"
           /\ IF s.repairs >= MaxRecoveries THEN EndJob(FALSE)
              ELSE Step(Restart(Invalidate(s, e.lost)), "fill")
        \/ /\ e.state = "error"
           /\ IF program.attempts = 1 THEN EndJob(FALSE)
              ELSE Step([rest EXCEPT !.retry = << [task |-> e.task, failures |-> 1] >>], "ensure")
    BY DEF AcceptWave
  <2>4. CASE e.state = "ok" /\ Step(Accept(rest, e), at)
    <3>1. Fine(c, Accept(rest, e), at)
      <4>1. e = Head(s.wave) /\ rest = [s EXCEPT !.wave = Tail(@)]
            /\ at = IF Len(s.wave) = 1 THEN "fill" ELSE "exec" OBVIOUS
      <4> HIDE DEF e, rest, at
      <4> QED BY <2>1, <2>4, <4>1, <2>AcceptFine
    <3> HIDE DEF e, rest, at
    <3> QED BY <2>4, <3>1, <1>StepCount
  <2>5. CASE EndJob(FALSE) BY <2>5, <1>FailCount
  <2>6. CASE e.state = "fetch" /\ Step(Restart(Invalidate(s, e.lost)), "fill")
    <3>1. Without(c, s, e, rest) BY <2>1, <1>RestLemma
    <3>2. e.lost \in MapTasks BY <2>6, <3>1 DEF Without, Entry
    <3> DEFINE inv == Invalidate(s, e.lost)
    <3> HIDE DEF e
    <3>3. inv \in Schedulers /\ AllCount(c, inv) BY <2>2, <3>2, <1>InvalidateCounts
    <3> HIDE DEF inv
    <3>4. Fine(c, Restart(inv), "fill") BY <3>3, <1>RestartFine
    <3> QED BY <2>6, <3>4, <1>StepCount DEF inv
  <2>7. CASE Step([rest EXCEPT !.retry = << [task |-> e.task, failures |-> 1] >>], "ensure")
    <3>1. Fine(c, [rest EXCEPT !.retry = << [task |-> e.task, failures |-> 1] >>], "ensure")
      <4>1. e = Head(s.wave) /\ rest = [s EXCEPT !.wave = Tail(@)] OBVIOUS
      <4> HIDE DEF e, rest
      <4> QED BY <2>1, <4>1, <2>RetryFine
    <3> HIDE DEF e, rest
    <3> QED BY <2>7, <3>1, <1>StepCount
  <2> HIDE DEF e, rest, at
  <2> QED BY <2>3, <2>4, <2>5, <2>6, <2>7
(* A pass of the loop of ensureRetry.                                      *)
<1>EnsureCount. CountInv /\ EnsureRetry => CountInv'
      (* Parents first: the recursion grows in front.                              *)
  <2>ParentFine. ASSUME NEW c, NEW sch, Fine(c, sch, "ensure"), NEW first \in Tasks,
               NEW new, new = [sch EXCEPT !.retry = << [task |-> first, failures |-> 0] >> \o @]
        PROVE  Fine(c, new, "ensure")
    <3> USE <2>ParentFine
    <3>1. sch \in Schedulers /\ sch.retry # <<>> BY DEF Fine, Typed
    <3> DEFINE r == [task |-> first, failures |-> 0]
               longer == <<r>> \o sch.retry
    <3>2. sch.retry \in Seq(Retries) BY <3>1, Fields
    <3>3. r \in Retries
      <4>1. 0 \in Nat BY SMTT(30)
      <4> QED BY <4>1 DEF Retries
    <3>4. new = [sch EXCEPT !.retry = longer] OBVIOUS
    <3> HIDE DEF r
    <3>5. /\ longer \in Seq(Retries) /\ longer # <<>> /\ longer[Len(longer)] = sch.retry[Len(sch.retry)]
      <4>1. /\ longer \in Seq(Retries) /\ Len(longer) = Len(sch.retry) + 1
            /\ \A i \in 1..Len(sch.retry) : longer[i + 1] = sch.retry[i]
        BY SMTT(30), <3>2, <3>3
      <4>2. Len(sch.retry) \in Nat \ {0} BY <3>1, <3>2, SeqLemma
      <4>3. Len(sch.retry) \in 1..Len(sch.retry) BY SMTT(30), <4>2
      <4>4. Len(longer) # 0 BY SMTT(30), <4>1, <4>2
      <4>5. Len(<<>>) = 0 BY LenFacts
      <4> HIDE DEF longer
      <4> QED BY <4>1, <4>3, <4>4, <4>5
    <3> HIDE DEF longer
    <3>6. /\ new \in Schedulers /\ new.retry = longer /\ new.wave = sch.wave /\ new.stage = sch.stage
          /\ new.p = sch.p /\ new.before = sch.before /\ new.repairs = sch.repairs
          /\ new.accepted = sch.accepted
      BY <3>1, <3>4, <3>5 DEF Schedulers
    <3>7. Retried(new) = Retried(sch) BY <3>5, <3>6 DEF Retried
    <3>8. Typed(new, "ensure") BY <3>5, <3>6 DEF Fine, Typed
    <3>9. \A t \in Tasks : Due(new, t) <=> Due(sch, t) BY <3>6 DEF Due
    <3>10. \A t \in Tasks : Pending(sch, "ensure", t) => Pending(new, "ensure", t)
      BY <3>6, <3>7 DEF Pending, InWave
    <3>11. Counted(c, new, "ensure") BY <3>6, <3>9, <3>10 DEF Fine, Counted
    <3> QED BY <3>8, <3>11 DEF Fine
  (* ensureRetry sends its task.                                             *)
  <2>CallFine. ASSUME NEW c, NEW sch, Fine(c, sch, "ensure"), NEW e \in CallRecs, e.state = "sent",
               e.task = Head(sch.retry).task, NEW new, new = [sch EXCEPT !.call = e]
        PROVE  Fine(c, new, "call")
    <3> USE <2>CallFine
    <3>1. sch \in Schedulers BY DEF Fine, Typed
    <3>2. /\ new \in Schedulers /\ new.call = e
          /\ new.stage = sch.stage /\ new.p = sch.p /\ new.wave = sch.wave /\ new.before = sch.before
          /\ new.accepted = sch.accepted /\ new.repairs = sch.repairs /\ new.retry = sch.retry
      BY <3>1 DEF Schedulers
    <3>3. Typed(new, "call") BY <3>2 DEF Fine, Typed
    <3>4. Entry(c, e) BY DEF Entry
    <3>5. Counted(c, new, "call") BY <3>2, <3>4 DEF Fine, Counted, Pending, Due, InWave, Retried
    <3> QED BY <3>3, <3>5 DEF Fine
  (* There is a first one among missing parents.                               *)
  <2>FirstLemma. ASSUME NEW missing \in SUBSET MapTasks, missing # {}
        PROVE  \E m \in missing : \A n \in missing : m[1] < n[1] \/ (m[1] = n[1] /\ m[2] <= n[2])
    <3> USE <2>FirstLemma
    <3>1. \A m \in missing : m[1] \in Nat /\ m[2] \in Nat BY TaskLemma
    <3> DEFINE A == {m[1] : m \in missing}
    <3>2. A \subseteq Nat /\ A # {} BY <3>1
    <3>3. PICK a \in A : \A y \in A : a <= y BY <3>2, NatMin
    <3> DEFINE B == {m[2] : m \in {m \in missing : m[1] = a}}
    <3>4. B \subseteq Nat /\ B # {} BY <3>1
    <3>5. PICK b \in B : \A y \in B : b <= y BY <3>4, NatMin
    <3>6. PICK m \in missing : m[1] = a /\ m[2] = b BY <3>5
    <3>7. ASSUME NEW n \in missing PROVE m[1] < n[1] \/ (m[1] = n[1] /\ m[2] <= n[2])
      <4>1. n[1] \in A BY <3>7
      <4>2. a <= n[1] BY <3>3, <4>1
      <4>3. n[1] = a => m[2] <= n[2]
        <5> SUFFICES ASSUME n[1] = a PROVE m[2] <= n[2] OBVIOUS
        <5>1. n[2] \in B OBVIOUS
        <5> QED BY <3>5, <3>6, <5>1
      <4>4. a \in Nat /\ n[1] \in Nat BY <3>1, <3>2
      <4>5. a < n[1] \/ a = n[1] BY SMTT(30), <4>2, <4>4
      <4> QED BY <3>6, <4>3, <4>5
    <3> QED BY <3>6, <3>7
  <2> SUFFICES ASSUME CountInv, EnsureRetry PROVE CountInv' OBVIOUS
  <2> DEFINE c == program.cached
             t == Head(s.retry).task
             missing == IF t[1] = ResultStage THEN {m \in MapTasks : s.accepted[m] = None} ELSE {}
             first == CHOOSE m \in missing : \A n \in missing :
                          m[1] < n[1] \/ (m[1] = n[1] /\ m[2] <= n[2])
             pick == PickWorkerIndexFor(s, {}, StageCacheHints(t))
             sent == [NoCall EXCEPT !.task = t, !.worker = pick.index, !.state = "sent"]
  <2>1. pc = "ensure" /\ Fine(c, s, "ensure") BY DEF EnsureRetry, CountInv
  <2>2. s \in Schedulers /\ s.retry # <<>> /\ WorkerType BY <2>1 DEF Fine, Typed, CountInv
  <2>3. s.retry \in Seq(Retries) BY <2>2, Fields
  <2>4. Head(s.retry) \in Retries BY <2>2, <2>3, SeqLemma
  <2>5. t \in Tasks BY <2>4 DEF Retries
  <2>6. IF missing # {}
        THEN Step([s EXCEPT !.retry = << [task |-> first, failures |-> 0] >> \o @], "ensure")
        ELSE IF pick.index = None THEN EndJob(FALSE)
        ELSE Step([pick.sch EXCEPT !.call = sent], "call")
    BY DEF EnsureRetry
  <2>7. CASE missing # {}
    <3>1. missing \in SUBSET MapTasks OBVIOUS
    <3>2. first \in missing
      <4> HIDE DEF missing
      <4>1. \E m \in missing : \A n \in missing : m[1] < n[1] \/ (m[1] = n[1] /\ m[2] <= n[2])
        BY <2>7, <3>1, <2>FirstLemma
      <4> QED BY <4>1
    <3>3. first \in Tasks BY SMTT(30), <3>1, <3>2, TaskLemma
    <3> HIDE DEF first, missing
    <3>4. Fine(c, [s EXCEPT !.retry = << [task |-> first, failures |-> 0] >> \o @], "ensure")
      BY <2>1, <3>3, <2>ParentFine
    <3> QED BY <2>6, <2>7, <3>4, <1>StepCount
  <2>8. CASE missing = {} /\ pick.index = None
    <3> HIDE DEF missing, pick
    <3>1. EndJob(FALSE) BY <2>6, <2>8
    <3> QED BY <3>1, <1>FailCount
  <2>9. CASE missing = {} /\ pick.index # None
    <3>1. Picks(s, {}, pick)
      <4> HIDE DEF t
      <4> QED BY <2>2, <2>5, PickSame
    <3> HIDE DEF missing, pick
    <3>2. Fine(c, pick.sch, "ensure") BY <2>1, <3>1, <1>PickFine
    <3>3. pick.index \in W BY <2>9, <3>1 DEF Picks, Live
    <3>4. pick.sch.retry = s.retry BY <3>1 DEF Picks
    <3>5. sent \in CallRecs /\ sent.task = t /\ sent.state = "sent"
      <4> HIDE DEF t
      <4> QED BY <2>5, <3>3 DEF NoCall, CallRecs
    <3>6. sent.task = Head(pick.sch.retry).task BY <3>4, <3>5
    <3> HIDE DEF sent, t
    <3>7. Fine(c, [pick.sch EXCEPT !.call = sent], "call") BY <3>2, <3>5, <3>6, <2>CallFine
    <3> QED BY <2>6, <2>9, <3>7, <1>StepCount
  <2> QED BY <2>7, <2>8, <2>9
(* The call of ensureRetry has been answered.                              *)
<1>RetryCount. CountInv /\ RetryAnswered => CountInv'
      (* The last entry of a sequence, when its front changes.                     *)
  <2>LastLemma. ASSUME NEW S, NEW q \in Seq(S), q # <<>>
        PROVE  /\ Len(q) > 1 => Tail(q) # <<>> /\ Tail(q)[Len(Tail(q))] = q[Len(q)]
               /\ ~(Len(q) > 1) => q[Len(q)] = Head(q)
               /\ Len(q) \in DOMAIN q
    <3> USE <2>LastLemma
    <3>1. /\ Len(q) \in Nat \ {0} /\ DOMAIN q = 1..Len(q) /\ Head(q) = q[1]
          /\ Tail(q) = <<>> => Len(q) = 1
          /\ Len(Tail(q)) = Len(q) - 1
          /\ \A i \in 1..(Len(q) - 1) : Tail(q)[i] = q[i + 1]
      BY SeqLemma
    <3>2. \A n \in Nat \ {0} : /\ n > 1 => n # 1 /\ n - 1 \in 1..(n - 1) /\ (n - 1) + 1 = n
                               /\ ~(n > 1) => n = 1
                               /\ n \in 1..n
      BY SMTT(30)
    <3>3. ASSUME Len(q) > 1 PROVE Tail(q) # <<>> /\ Tail(q)[Len(Tail(q))] = q[Len(q)]
      <4>1. Len(q) # 1 /\ Len(q) - 1 \in 1..(Len(q) - 1) /\ (Len(q) - 1) + 1 = Len(q) BY <3>1, <3>2, <3>3
      <4>2. Tail(q)[Len(q) - 1] = q[(Len(q) - 1) + 1] BY <3>1, <4>1
      <4> QED BY <3>1, <4>1, <4>2
    <3>4. ~(Len(q) > 1) => q[Len(q)] = Head(q) BY <3>1, <3>2
    <3>5. Len(q) \in DOMAIN q BY <3>1, <3>2
    <3> QED BY <3>3, <3>4, <3>5
  (* ensureRetry returns with the accepted task.                             *)
  <2>ReturnFine. ASSUME NEW c, NEW sch, Fine(c, sch, "call"), sch.call.state = "ok",
               NEW got, got = Accept(sch, sch.call),
               NEW back, back = [got EXCEPT !.retry = Tail(@), !.call = NoCall]
        PROVE  /\ Len(got.retry) > 1 => Fine(c, back, "ensure")
               /\ ~(Len(got.retry) > 1) =>
                    /\ got.repairs # got.before => Fine(c, Restart(back), "fill")
                    /\ got.repairs = got.before =>
                          Fine(c, back, IF got.wave = <<>> THEN "fill" ELSE "exec")
    <3> USE <2>ReturnFine
    <3>1. /\ sch \in Schedulers /\ sch.retry # <<>> /\ sch.call \in CallRecs
          /\ sch.call.task = Head(sch.retry).task /\ sch.p <= NumPartitions(sch.stage)
      BY DEF Fine, Typed
    <3>2. /\ AllCount(c, sch) /\ Entry(c, sch.call) /\ sch.before <= sch.repairs
          /\ \A i \in DOMAIN sch.wave : Entry(c, sch.wave[i])
          /\ sch.repairs = sch.before =>
               \A t \in Tasks : Due(sch, t) => sch.accepted[t] # None \/ InWave(sch, t) \/ t = Retried(sch)
      BY DEF Fine, Counted, AllCount, Pending
    <3>3. Accepts(c, sch, sch.call, got) BY <3>1, <3>2, <1>AcceptCounts
    <3>4. /\ got \in Schedulers /\ AllCount(c, got) /\ got.retry = sch.retry /\ got.wave = sch.wave
          /\ got.stage = sch.stage /\ got.p = sch.p /\ got.before = sch.before /\ got.repairs = sch.repairs
          /\ \A t \in Tasks : got.accepted[t] # None <=> sch.accepted[t] # None \/ t = sch.call.task
      BY <3>3 DEF Accepts, SameLoop
    <3>5. sch.retry \in Seq(Retries) BY <3>1, Fields
    <3>6. Tail(sch.retry) \in Seq(Retries) BY <3>1, <3>5, SeqLemma
    <3>7. /\ back \in Schedulers /\ back.retry = Tail(sch.retry) /\ back.wave = sch.wave
          /\ back.stage = sch.stage /\ back.p = sch.p /\ back.before = sch.before
          /\ back.repairs = sch.repairs /\ back.accepted = got.accepted
      BY <3>4, <3>6 DEF Schedulers
    <3>8. AllCount(c, back) BY <3>4, <3>7 DEF AllCount
    <3>9. \A t \in Tasks : Due(back, t) => Due(sch, t) BY <3>7 DEF Due
    <3>10. \A t \in Tasks : InWave(sch, t) => InWave(back, t) BY <3>7 DEF InWave
    <3>11. \A i \in DOMAIN back.wave : Entry(c, back.wave[i]) BY <3>2, <3>7
    <3>12. back.repairs = back.before =>
             \A t \in Tasks : Due(back, t) => back.accepted[t] # None \/ InWave(back, t) \/ t = Retried(sch)
      BY <3>2, <3>4, <3>7, <3>9, <3>10
    <3>13. ASSUME Len(sch.retry) > 1 PROVE Fine(c, back, "ensure")
      <4>1. back.retry # <<>> /\ Retried(back) = Retried(sch)
        BY <3>1, <3>5, <3>7, <3>13, <2>LastLemma DEF Retried
      <4>2. Typed(back, "ensure") BY <3>1, <3>7, <4>1 DEF Typed
      <4>3. back.repairs = back.before =>
             \A t \in Tasks : Due(back, t) => back.accepted[t] # None \/ Pending(back, "ensure", t)
        BY <3>12, <4>1 DEF Pending
      <4>4. back.before <= back.repairs BY <3>2, <3>7
      <4>5. Counted(c, back, "ensure") BY <3>8, <3>11, <4>3, <4>4 DEF Counted, AllCount
      <4> QED BY <4>2, <4>5 DEF Fine
    <3>14. Fine(c, Restart(back), "fill") BY <3>7, <3>8, <1>RestartFine
    <3>15. ASSUME ~(Len(sch.retry) > 1), sch.repairs = sch.before, NEW at \in {"fill", "exec"},
                  at = "exec" => sch.wave # <<>>
           PROVE  Fine(c, back, at)
      <4>1. Retried(sch) = sch.call.task BY <3>1, <3>5, <3>15, <2>LastLemma DEF Retried
      <4>2. at # "call" /\ at # "ensure" /\ at # "idle" BY <3>15
      <4>3. Typed(back, at) BY <3>1, <3>7, <3>15, <4>2 DEF Typed
      <4>4. Retried(sch) \in Tasks BY <3>1, <4>1 DEF CallRecs
      <4>5. back.accepted[Retried(sch)] # None BY <3>4, <3>7, <4>1, <4>4
      <4>6. \A t \in Tasks : Due(back, t) => back.accepted[t] # None \/ Pending(back, at, t)
        BY <3>7, <3>12, <3>15, <4>5 DEF Pending
      <4>7. back.before <= back.repairs /\ back.repairs = back.before BY <3>2, <3>7, <3>15
      <4>8. Counted(c, back, at) BY <3>8, <3>11, <4>2, <4>6, <4>7 DEF Counted, AllCount
      <4> QED BY <4>3, <4>8 DEF Fine
    <3>16. ASSUME ~(Len(sch.retry) > 1), sch.repairs = sch.before
           PROVE  Fine(c, back, IF got.wave = <<>> THEN "fill" ELSE "exec")
      <4>1. CASE got.wave = <<>> BY <3>4, <3>15, <3>16, <4>1
      <4>2. CASE got.wave # <<>> BY <3>4, <3>15, <3>16, <4>2
      <4> QED BY <4>1, <4>2
    <3> QED BY <3>4, <3>13, <3>14, <3>16
  (* The answer is an error: the call is over, and may be made again.          *)
  <2>AgainFine. ASSUME NEW c, NEW sch, Fine(c, sch, "call"), NEW new, new = [sch EXCEPT !.call = NoCall]
        PROVE  Fine(c, new, "ensure") /\ new.retry = sch.retry
    <3> USE <2>AgainFine
    <3>1. sch \in Schedulers BY DEF Fine, Typed
    <3>2. /\ new \in Schedulers
          /\ new.stage = sch.stage /\ new.p = sch.p /\ new.wave = sch.wave /\ new.before = sch.before
          /\ new.accepted = sch.accepted /\ new.repairs = sch.repairs /\ new.retry = sch.retry
      BY <3>1 DEF Schedulers
    <3>3. Typed(new, "ensure") BY <3>2 DEF Fine, Typed
    <3>4. Counted(c, new, "ensure") BY <3>2 DEF Fine, Counted, Pending, Due, InWave, Retried
    <3> QED BY <3>2, <3>3, <3>4 DEF Fine
  (* ensureRetry counts a failure.                                           *)
  <2>FailureFine. ASSUME NEW c, NEW sch, Fine(c, sch, "ensure"), NEW new, new = [sch EXCEPT !.retry[1].failures = @ + 1]
        PROVE  Fine(c, new, "ensure")
    <3> USE <2>FailureFine
    <3>1. sch \in Schedulers /\ sch.retry # <<>> BY DEF Fine, Typed
    <3>2. sch.retry \in Seq(Retries) BY <3>1, Fields
    <3>3. /\ Head(sch.retry) \in Retries /\ Head(sch.retry) = sch.retry[1] /\ Len(sch.retry) \in Nat \ {0}
      BY <3>1, <3>2, SeqLemma
    <3>4. 1 \in DOMAIN sch.retry BY <3>1, <3>2, TailIndex
    <3> DEFINE r == [sch.retry[1] EXCEPT !.failures = @ + 1]
               q == [sch.retry EXCEPT ![1] = r]
    <3>5. r \in Retries /\ r.task = sch.retry[1].task
      <4>1. sch.retry[1] \in Retries BY <3>3
      <4>2. sch.retry[1].failures \in Nat BY <4>1 DEF Retries
      <4>3. sch.retry[1].failures + 1 \in Nat BY SMTT(30), <4>2
      <4> QED BY <4>1, <4>3 DEF Retries
    <3>6. new = [sch EXCEPT !.retry = q] BY <3>1, <3>2, <3>3 DEF Schedulers
    <3> HIDE DEF r
    <3>7. q \in Seq(Retries) /\ DOMAIN q = DOMAIN sch.retry /\ Len(q) = Len(sch.retry) /\ q # <<>>
      BY SMTT(30), <3>1, <3>2, <3>5
    <3>8. \A i \in DOMAIN sch.retry : q[i].task = sch.retry[i].task BY <3>4, <3>5
    <3> HIDE DEF q
    <3>9. /\ new \in Schedulers /\ new.retry = q
          /\ new.stage = sch.stage /\ new.p = sch.p /\ new.wave = sch.wave /\ new.before = sch.before
          /\ new.accepted = sch.accepted /\ new.repairs = sch.repairs
      BY <3>1, <3>6, <3>7 DEF Schedulers
    <3>10. Len(sch.retry) \in DOMAIN sch.retry BY <3>1, <3>2, <2>LastLemma
    <3>11. Retried(new) = Retried(sch) BY <3>7, <3>8, <3>9, <3>10 DEF Retried
    <3>12. Typed(new, "ensure") BY <3>7, <3>9 DEF Fine, Typed
    <3>13. \A t \in Tasks : Due(new, t) <=> Due(sch, t) BY <3>9 DEF Due
    <3>14. \A t \in Tasks : Pending(sch, "ensure", t) => Pending(new, "ensure", t)
      BY <3>9, <3>11 DEF Pending, InWave
    <3>15. Counted(c, new, "ensure") BY <3>9, <3>13, <3>14 DEF Fine, Counted
    <3> QED BY <3>12, <3>15 DEF Fine
  (* ensureRetry invalidates a lost map output.                              *)
  <2>RepairFine. ASSUME NEW c, NEW sch, Fine(c, sch, "ensure"), NEW m \in MapTasks, NEW new, new = Invalidate(sch, m)
        PROVE  Fine(c, new, "ensure")
    <3> USE <2>RepairFine
    <3>1. sch \in Schedulers /\ AllCount(c, sch) BY DEF Fine, Typed, Counted, AllCount
    <3>2. /\ new \in Schedulers
          /\ AllCount(c, new)
          /\ new.stage = sch.stage /\ new.p = sch.p /\ new.wave = sch.wave /\ new.before = sch.before
          /\ new.repairs = sch.repairs + 1 /\ new.retry = sch.retry /\ new.call = sch.call
      BY SMTT(30), <3>1, <1>InvalidateCounts
    <3>3. Typed(new, "ensure") BY <3>2 DEF Fine, Typed
    <3>4. new.before <= new.repairs /\ new.repairs # new.before
      <4>1. sch.before \in Nat /\ sch.repairs \in Nat BY <3>1, Fields
      <4>2. sch.before <= sch.repairs BY DEF Fine, Counted
      <4> QED BY SMTT(30), <3>2, <4>1, <4>2
    <3>5. Counted(c, new, "ensure") BY <3>2, <3>4 DEF Fine, Counted, AllCount
    <3> QED BY <3>3, <3>5 DEF Fine
  <2> SUFFICES ASSUME CountInv, RetryAnswered PROVE CountInv' OBVIOUS
  <2> DEFINE c == program.cached
             e == s.call
             again == [s EXCEPT !.call = NoCall]
             got == Accept(s, e)
             back == [got EXCEPT !.retry = Tail(@), !.call = NoCall]
  <2>1. pc = "call" /\ Fine(c, s, "call") BY DEF RetryAnswered, CountInv
  <2>2. \/ e.state = "ok" /\ Return(Accept(s, e))
        \/ /\ e.state = "fetch"
           /\ IF s.repairs >= MaxRecoveries THEN EndJob(FALSE)
              ELSE Step(Invalidate(again, e.lost), "ensure")
        \/ /\ e.state = "error"
           /\ IF Head(s.retry).failures + 1 >= program.attempts THEN EndJob(FALSE)
              ELSE Step([again EXCEPT !.retry[1].failures = @ + 1], "ensure")
    BY DEF RetryAnswered
  <2>3. Fine(c, again, "ensure") BY <2>1, <2>AgainFine
  <2>4. CASE EndJob(FALSE) BY <2>4, <1>FailCount
  <2>5. CASE e.state = "fetch" /\ Step(Invalidate(again, e.lost), "ensure")
    <3>1. e.lost \in MapTasks BY <2>1, <2>5 DEF Fine, Counted, Entry
    <3> HIDE DEF e, again
    <3>2. Fine(c, Invalidate(again, e.lost), "ensure") BY <2>3, <3>1, <2>RepairFine
    <3> QED BY <2>5, <3>2, <1>StepCount
  <2>6. CASE Step([again EXCEPT !.retry[1].failures = @ + 1], "ensure")
    <3> HIDE DEF again
    <3>1. Fine(c, [again EXCEPT !.retry[1].failures = @ + 1], "ensure") BY <2>3, <2>FailureFine
    <3> QED BY <2>6, <3>1, <1>StepCount
  <2>7. CASE e.state = "ok" /\ Return(Accept(s, e))
    <3>1. IF Len(got.retry) > 1 THEN Step(back, "ensure")
          ELSE IF got.repairs # got.before THEN Step(Restart(back), "fill")
          ELSE Step(back, IF got.wave = <<>> THEN "fill" ELSE "exec")
      BY <2>7 DEF Return
    <3>2. /\ Len(got.retry) > 1 => Fine(c, back, "ensure")
          /\ ~(Len(got.retry) > 1) =>
                  /\ got.repairs # got.before => Fine(c, Restart(back), "fill")
                  /\ got.repairs = got.before =>
                        Fine(c, back, IF got.wave = <<>> THEN "fill" ELSE "exec")
      <4>1. got = Accept(s, s.call) /\ back = [got EXCEPT !.retry = Tail(@), !.call = NoCall] OBVIOUS
      <4> HIDE DEF got, back
      <4> QED BY <2>1, <2>7, <4>1, <2>ReturnFine
    <3> HIDE DEF got, back
    <3> DEFINE next == IF got.wave = <<>> THEN "fill" ELSE "exec"
    <3>3. CASE Len(got.retry) > 1 BY <3>1, <3>2, <3>3, <1>StepCount
    <3>4. CASE ~(Len(got.retry) > 1) /\ got.repairs # got.before BY <3>1, <3>2, <3>4, <1>StepCount
    <3>5. CASE ~(Len(got.retry) > 1) /\ got.repairs = got.before
      <4>1. Step(back, next) /\ Fine(c, back, next) BY <3>1, <3>2, <3>5
      <4> HIDE DEF next
      <4> QED BY <4>1, <1>StepCount
    <3> QED BY <3>3, <3>4, <3>5
  <2> HIDE DEF e, again
  <2> QED BY <2>2, <2>4, <2>5, <2>6, <2>7
(* An answer, in the wave or to a retry, keeps what is counted.            *)
<1>AnswerFine. ASSUME CountInv, NEW i \in Calls, NEW e \in CallRecs, e.task = Call(i).task, Entry(program.cached, e)
      PROVE  Fine(program.cached, SetCall(i, e), pc)
  <2> USE <1>AnswerFine
  <2> DEFINE c == program.cached
  <2>1. Fine(c, s, pc) BY DEF CountInv
  <2>2. CASE pc = "exec" /\ i \in DOMAIN s.wave /\ i # 0 /\ Call(i) = s.wave[i]
    <3>1. SetCall(i, e) = [s EXCEPT !.wave[i] = e] BY <2>2 DEF SetCall
    <3>2. Fine(c, s, "exec") /\ e.task = s.wave[i].task BY <2>1, <2>2
    <3>3. Fine(c, [s EXCEPT !.wave[i] = e], "exec") BY <2>2, <3>2, <1>AnswerWaveFine
    <3> QED BY <2>2, <3>1, <3>3
  <2>3. CASE pc = "call" /\ i = 0 /\ Call(i) = s.call
    <3>1. SetCall(i, e) = [s EXCEPT !.call = e] BY <2>3 DEF SetCall
    <3>2. Fine(c, s, "call") /\ e.task = s.call.task BY <2>1, <2>3
    <3>3. Fine(c, [s EXCEPT !.call = e], "call") BY <3>2, <1>AnswerCallFine
    <3> QED BY <2>3, <3>1, <3>3
  <2> QED BY <2>2, <2>3, CallLemma
(* So a step that only answers a call keeps the invariant.                 *)
<1>AnswerCount. ASSUME CountInv, NEW i \in Calls, NEW e \in CallRecs, e.task = Call(i).task, Entry(program.cached, e),
             Answering(i, e), WorkerType', faults' \in Nat
      PROVE  CountInv'
  <2> USE <1>AnswerCount
  <2>1. /\ s' = SetCall(i, e) /\ pc' = pc /\ program' = program /\ acc' = acc /\ succeeded' = succeeded
    BY DEF Answering
  <2>2. Fine(program.cached, SetCall(i, e), pc) BY <1>AnswerFine
  <2>3. Fine(program.cached, s, pc)' BY <2>1, <2>2
  <2> QED BY <2>1, <2>3 DEF CountInv
(* A call that fails adds nothing.                                         *)
<1>CallFailsCount. ASSUME CountInv, NEW i \in Calls, CallFails(i)
      PROVE  CountInv'
  <2> USE <1>CallFailsCount
  <2> DEFINE e == [Call(i) EXCEPT !.state = "error"]
  <2>1. Call(i) \in CallRecs BY CallLemma
  <2>2. e \in CallRecs /\ e.task = Call(i).task /\ e.state = "error" BY <2>1 DEF CallRecs
  <2>3. Entry(program.cached, e) BY <2>2 DEF Entry
  <2>4. Answering(i, e) /\ UNCHANGED <<up, inc, jobCache, reusable, faults>> BY DEF CallFails, worker
  <2>5. WorkerType' /\ faults' \in Nat BY <2>4 DEF CountInv, WorkerType
  <2> HIDE DEF e
  <2> QED BY <2>2, <2>3, <2>4, <2>5, <1>AnswerCount
(* A fetch failure names a map task.                                       *)
<1>FetchCount. ASSUME CountInv, NEW i \in Calls, NEW m \in MapTasks, FetchFails(i, m)
      PROVE  CountInv'
  <2> USE <1>FetchCount
  <2> DEFINE e == [Call(i) EXCEPT !.state = "fetch", !.lost = m]
  <2>1. Call(i) \in CallRecs BY CallLemma
  <2>2. e \in CallRecs /\ e.task = Call(i).task /\ e.state = "fetch" /\ e.lost = m BY <2>1 DEF CallRecs
  <2>3. Entry(program.cached, e) BY <2>2 DEF Entry
  <2>4. Answering(i, e) /\ UNCHANGED <<up, inc, jobCache, reusable>> /\ faults' = faults + 1
    BY DEF FetchFails, worker
  <2>5. WorkerType' BY <2>4 DEF CountInv, WorkerType
  <2>6. faults' \in Nat
    <3>1. faults \in Nat BY DEF CountInv
    <3> QED BY SMTT(30), <2>4, <3>1
  <2> HIDE DEF e
  <2> QED BY <2>2, <2>3, <2>4, <2>5, <2>6, <1>AnswerCount
(* A task that runs: its answer counts what it computed, or is lost.       *)
<1>RunCount. ASSUME CountInv, NEW i \in Calls, NEW lost \in BOOLEAN, RunTask(i, lost)
      PROVE  CountInv'
  <2> USE <1>RunCount
  <2> DEFINE e == Call(i)
             n == Cardinality(Computed(e.task, e.worker))
             ans == IF lost THEN [e EXCEPT !.state = "error"] ELSE [e EXCEPT !.state = "ok", !.added = n]
  <2>1. e \in CallRecs /\ e.task \in Tasks /\ e.worker \in W BY CallLemma
  <2>2. /\ faults' = IF lost THEN faults + 1 ELSE faults
        /\ Answering(i, ans)
        /\ program.reuse => /\ reusable' = [reusable EXCEPT ![e.worker] = @ \cup Puts(e.task)]
                            /\ jobCache' = jobCache
        /\ ~program.reuse => /\ jobCache' = [jobCache EXCEPT ![e.worker] = @ \cup Puts(e.task)]
                             /\ reusable' = reusable
        /\ up' = up /\ inc' = inc
    BY RunLemma
  <2>3. /\ Counts(program.cached, e.task, n) /\ n \in {0, 1} /\ Puts(e.task) \subseteq InputParts
    BY <2>1, ComputedLemma
  <2> HIDE DEF e, n
  <2>4. ans \in CallRecs /\ ans.task = e.task /\ Entry(program.cached, ans)
    <3>1. CASE lost BY <2>1, <3>1 DEF CallRecs, Entry
    <3>2. CASE ~lost
      <4>1. ans \in CallRecs /\ ans.task = e.task /\ ans.state = "ok" /\ ans.added = n
        BY <2>1, <2>3, <3>2 DEF CallRecs
      <4> HIDE DEF ans
      <4> QED BY <2>3, <4>1 DEF Entry
    <3> QED BY <3>1, <3>2
  <2> HIDE DEF ans
  <2>5. faults' \in Nat
    <3>1. faults \in Nat BY DEF CountInv
    <3>2. faults + 1 \in Nat BY SMTT(30), <3>1
    <3> QED BY <2>2, <3>1, <3>2
  <2>6. WorkerType' BY <2>1, <2>2, <2>3 DEF CountInv, WorkerType
  <2> QED BY <2>2, <2>4, <2>5, <2>6, <1>AnswerCount DEF e
(* Steps of workers and of the cache handle leave the job alone.           *)
<1>AsideCount. ASSUME CountInv, UNCHANGED <<program, job>>, WorkerType', faults' \in Nat
      PROVE  CountInv'
  <2> USE <1>AsideCount
  <2>1. s' = s /\ pc' = pc /\ program' = program /\ acc' = acc /\ succeeded' = succeeded BY DEF job
  <2>2. Fine(program.cached, s, pc)' BY <2>1 DEF CountInv
  <2> QED BY <2>1, <2>2 DEF CountInv
<1> SUFFICES ASSUME CountInv, [Next]_vars PROVE CountInv' OBVIOUS
<1>1. WorkerType /\ faults \in Nat BY DEF CountInv
<1>2. faults + 1 \in Nat BY SMTT(30), <1>1
<1>3. ASSUME NEW w \in W, Crash(w) PROVE CountInv'
  <2>1. WorkerType' BY <1>1, <1>3 DEF Crash, WorkerType
  <2> QED BY <1>2, <1>3, <2>1, <1>AsideCount DEF Crash
<1>4. ASSUME NEW w \in W, Replace(w) PROVE CountInv'
  <2>1. inc[w] \in Nat BY <1>1 DEF WorkerType
  <2>2. inc[w] + 1 \in Nat BY SMTT(30), <2>1
  <2>3. WorkerType' BY <1>1, <1>4, <2>2 DEF Replace, WorkerType
  <2> QED BY <1>1, <1>4, <2>3, <1>AsideCount DEF Replace
<1>5. CASE Persist BY <1>1, <1>5, <1>AsideCount DEF Persist, worker, WorkerType
<1>6. CASE Unpersist BY <1>1, <1>6, <1>AsideCount DEF Unpersist, worker, WorkerType
<1>7. CASE Stop BY <1>1, <1>7, <1>AsideCount DEF Stop, worker, WorkerType
<1>8. CASE EndRelease BY <1>1, <1>8, <1>AsideCount DEF EndRelease, worker, WorkerType
<1>9. CASE ReleaseWorker
  <2>1. /\ UNCHANGED <<program, job, up, inc, jobCache, faults>>
        /\ reusable' = [reusable EXCEPT ![rel.worker] = {}]
    BY <1>9 DEF ReleaseWorker
  <2>2. WorkerType' BY <1>1, <2>1 DEF WorkerType
  <2> QED BY <1>1, <2>1, <2>2, <1>AsideCount
<1>10. CASE ReleaseFails
  <2>1. /\ UNCHANGED <<program, job, up, inc, jobCache, reusable>>
        /\ faults' = faults + 1 \/ faults' = faults
    BY <1>10 DEF ReleaseFails
  <2>2. WorkerType' BY <1>1, <2>1 DEF WorkerType
  <2> QED BY <1>1, <1>2, <2>1, <2>2, <1>AsideCount
<1>11. CASE UNCHANGED vars
  BY <1>1, <1>11, <1>AsideCount DEF vars, worker, WorkerType
<1> QED BY <1>3, <1>4, <1>5, <1>6, <1>7, <1>8, <1>9, <1>10, <1>11, <1>SubmitCount, <1>FillCount, <1>CloseCount,
           <1>AcceptCount, <1>EnsureCount, <1>RetryCount, <1>CallFailsCount, <1>FetchCount, <1>RunCount DEF Next

(* However many attempts ran, responses were lost, map outputs repaired    *)
(* and jobs failed: an uncached input has been counted exactly once per    *)
(* map task of every job that succeeded, and a cached one at most that     *)
(* often.                                                                  *)
THEOREM CountCorrect == Spec => []CountInv
BY InitCount, NextCount, PTL DEF Spec

-----------------------------------------------------------------------------
(* Placement without faults. Partition q is read on runner Home(q) in every  *)
(* stage: the first stage deals the partitions out in turn, the later ones   *)
(* follow the hints. The wave is the next tasks of the stage in order.       *)
Home(q) == q % Workers

(* The first partition of the wave.                                          *)
Low(sch) == sch.p - Len(sch.wave)

(* No call of the wave has failed, its tasks are consecutive, each map task  *)
(* is on the home of its partition, and everything before the wave is        *)
(* accepted.                                                                 *)
Ordered(sch) ==
    /\ Len(sch.wave) <= Workers
    /\ Low(sch) \in Nat
    /\ \A i \in DOMAIN sch.wave :
        /\ sch.wave[i].state \in {"sent", "ok"}
        /\ sch.wave[i].task = <<sch.stage, Low(sch) + i - 1>>
        /\ sch.stage # ResultStage => sch.wave[i].worker = Home(Low(sch) + i - 1)
    /\ \A t \in Tasks :
        sch.accepted[t] # None <=> t[1] < sch.stage \/ (t[1] = sch.stage /\ t[2] < Low(sch))

(* The scheduler believes that an accepted partition is at home, and only    *)
(* there; the first stage deals out in turn; no runner was replaced.         *)
Hinted(sch) ==
    /\ \A q \in InputParts, w \in W :
        <<q, w>> \in sch.locations <=> w = Home(q) /\ sch.accepted[<<1, q>>] # None
    /\ sch.stage = 1 => sch.worker = Home(sch.p)
    /\ \A w \in W : sch.ids[w] \in {0, 1}

(* What placement keeps true of the scheduler of a job.                      *)
Placed(sch) == Ordered(sch) /\ Hinted(sch)

(* No runner has ever crashed.                                               *)
AllUp == \A w \in W : up[w] /\ inc[w] = 1

(* Over a cached input and without faults, the job never leaves this order.  *)
PlaceInv == program.cached /\ faults = 0 => AllUp /\ pc \in {"idle", "fill", "exec"} /\ Placed(s)

(* Homes are workers, and go round.                                        *)
LEMMA HomeLemma == \A q \in Nat : Home(q) \in W /\ Home(q + 1) = (Home(q) + 1) % Workers
<1> TAKE q \in Nat
<1>1. Workers \in Nat \ {0} BY SizesAssumption
<1>2. q % Workers \in 0..(Workers - 1) BY <1>1, ModRange
<1>3. (q + 1) % Workers = ((q % Workers) + 1) % Workers BY <1>1, ModNext
<1> QED BY <1>2, <1>3 DEF Home, W

(* A new job is placed.                                                    *)
LEMMA NewPlaced == Placed(NewScheduler)
<1>1. /\ NewScheduler.wave = <<>> /\ NewScheduler.p = 0 /\ NewScheduler.stage = 1
      /\ NewScheduler.accepted = [t \in Tasks |-> None] /\ NewScheduler.locations = {}
      /\ NewScheduler.worker = 0 /\ NewScheduler.ids = [w \in W |-> 0]
  BY DEF NewScheduler
<1>2. Len(<<>>) = 0 /\ DOMAIN <<>> = {} BY SMTT(30)
<1>3. 0 <= Workers /\ 0 - 0 = 0 /\ 0 \in Nat BY SMTT(30), SizesAssumption
<1>4. Low(NewScheduler) = 0 BY <1>1, <1>2, <1>3 DEF Low
<1>5. \A t \in Tasks : ~(t[1] < 1) /\ ~(t[2] < 0)
  BY SMTT(30), SizesAssumption DEF Tasks, MapTasks, ResultStage
<1>6. Ordered(NewScheduler) BY <1>1, <1>2, <1>3, <1>4, <1>5 DEF Ordered
<1>7. Home(0) = 0
  <2>1. Workers \in Nat \ {0} /\ 0 \in 0..(2 * Workers - 1) /\ 0 < Workers BY SMTT(30), SizesAssumption
  <2> QED BY <2>1, ModSmall DEF Home
<1>8. \A q \in InputParts : <<1, q>> \in Tasks
  <2>1. \A q \in InputParts : q \in Int BY SMTT(30) DEF InputParts
  <2>2. 1 \in Int /\ 1 \in 1..MapStages BY SMTT(30), SizesAssumption
  <2> QED BY <2>1, <2>2, TaskLemma
<1>9. Hinted(NewScheduler) BY <1>1, <1>7, <1>8 DEF Hinted
<1> QED BY <1>6, <1>9 DEF Placed

(* The runner pickWorkerIndexFor takes while all are up: free, with the best *)
(* score, and of those the next in turn.                                     *)
Chosen(sch, used, hints, pick) ==
    /\ pick.index \in W \ used /\ pick.index # None
    /\ \A v \in (W \ used) \ {pick.index} :
        \/ Score(sch.locations, hints, pick.index) > Score(sch.locations, hints, v)
        \/ /\ Score(sch.locations, hints, pick.index) = Score(sch.locations, hints, v)
           /\ (pick.index + Workers - sch.worker) % Workers < (v + Workers - sch.worker) % Workers
    /\ pick.sch.locations = sch.locations
    /\ pick.sch.worker = (pick.index + 1) % Workers
    /\ \A w \in W : pick.sch.ids[w] \in {0, 1}

(* The next task of a stage goes to the home of its partition.               *)
AtHome(sch, t, pick) ==
    /\ pick.index \in W /\ pick.index # None
    /\ sch.stage # ResultStage => pick.index = Home(sch.p)
    /\ pick.sch.locations = sch.locations
    /\ sch.stage # ResultStage => pick.sch.worker = Home(sch.p + 1)
    /\ \A w \in W : pick.sch.ids[w] \in {0, 1}
    /\ sch.accepted[t] = None

(* The scheduler once the first call of its wave is accepted.               *)
Moves(sch, e, new) ==
    /\ e \in CallRecs /\ sch.wave # <<>>
    /\ sch.wave[1] = e
    /\ new.stage = sch.stage /\ new.p = sch.p /\ new.worker = sch.worker /\ new.ids = sch.ids
    /\ new.wave = Tail(sch.wave)
    /\ new.accepted = [sch.accepted EXCEPT ![e.task] = e.added]
    /\ new.locations = sch.locations \cup (StageCacheHints(e.task) \X {e.worker})

(* The answer of a call that ran.                                          *)
LEMMA AnswerPlaced ==
    ASSUME NEW sch \in Schedulers, Placed(sch), NEW i \in DOMAIN sch.wave, NEW e \in CallRecs,
           e.task = sch.wave[i].task, e.worker = sch.wave[i].worker, e.state = "ok",
           NEW new, new = [sch EXCEPT !.wave[i] = e]
    PROVE  /\ Placed(new) /\ new.accepted = sch.accepted /\ new.wave = [sch.wave EXCEPT ![i] = e]
           /\ DOMAIN new.wave = DOMAIN sch.wave /\ new.wave[i] = e
           /\ \A j \in DOMAIN sch.wave : j # i => new.wave[j] = sch.wave[j]
<1>1. sch.wave \in Seq(CallRecs) BY Fields
<1> DEFINE v == [sch.wave EXCEPT ![i] = e]
<1>2. DOMAIN v = DOMAIN sch.wave /\ Len(v) = Len(sch.wave) BY SMTT(30), <1>1
<1>3. v[i] = e /\ \A j \in DOMAIN sch.wave : j # i => v[j] = sch.wave[j] OBVIOUS
<1>4. /\ new.stage = sch.stage /\ new.p = sch.p /\ new.wave = v /\ new.accepted = sch.accepted
      /\ new.locations = sch.locations /\ new.worker = sch.worker /\ new.ids = sch.ids
  BY DEF Schedulers
<1> HIDE DEF v
<1>5. Low(new) = Low(sch) BY <1>2, <1>4 DEF Low
<1>6. ASSUME NEW j \in DOMAIN new.wave
      PROVE  /\ new.wave[j].state \in {"sent", "ok"}
             /\ new.wave[j].task = <<new.stage, Low(new) + j - 1>>
             /\ new.stage # ResultStage => new.wave[j].worker = Home(Low(new) + j - 1)
  <2>1. j \in DOMAIN sch.wave BY <1>2, <1>4
  <2>2. /\ sch.wave[j].state \in {"sent", "ok"}
        /\ sch.wave[j].task = <<sch.stage, Low(sch) + j - 1>>
        /\ sch.stage # ResultStage => sch.wave[j].worker = Home(Low(sch) + j - 1)
    BY <2>1 DEF Placed, Ordered
  <2>3. new.wave[j].state \in {"sent", "ok"} /\ new.wave[j].task = sch.wave[j].task
        /\ new.wave[j].worker = sch.wave[j].worker
    BY <1>3, <1>4, <2>1, <2>2
  <2> QED BY <1>4, <1>5, <2>2, <2>3
<1>7. Ordered(new)
  <2>1. /\ Len(new.wave) <= Workers /\ Low(new) \in Nat
        /\ \A t \in Tasks : new.accepted[t] # None <=> t[1] < new.stage \/ (t[1] = new.stage /\ t[2] < Low(new))
    BY <1>2, <1>4, <1>5 DEF Placed, Ordered
  <2> QED BY <1>6, <2>1 DEF Ordered
<1>8. Hinted(new) BY <1>4 DEF Placed, Hinted
<1> QED BY <1>2, <1>3, <1>4, <1>7, <1>8 DEF Placed, v

(* The steps of a job on a cached input, as long as nothing goes wrong.      *)
Smooth == CountInv /\ PlaceInv /\ program.cached /\ faults = 0

(* What holds in such a state.                                             *)
LEMMA SmoothLemma ==
    ASSUME Smooth
    PROVE  /\ AllUp /\ WorkerType /\ pc \in {"idle", "fill", "exec"} /\ Placed(s) /\ program.cached
           /\ s \in Schedulers /\ Typed(s, pc) /\ Fine(TRUE, s, pc)
<1>1. Fine(program.cached, s, pc) /\ program.cached /\ WorkerType BY DEF Smooth, CountInv
<1>2. program.cached = TRUE
  <2>1. program \in ProgramRecs BY DEF Smooth, CountInv
  <2>2. program.cached \in BOOLEAN BY <2>1 DEF ProgramRecs
  <2> QED BY <1>1, <2>2
<1>3. Fine(TRUE, s, pc) BY <1>1, <1>2
<1> QED BY <1>1, <1>3 DEF Smooth, PlaceInv, Fine, Typed

(* A step of a wave that is filled, seen from the scheduler.                 *)
Appends(sch, new) ==
    /\ new.accepted = sch.accepted
    /\ \E e \in CallRecs : e.state = "sent" /\ new.wave = Append(sch.wave, e)

(* A wave is filled: some worker is always healthy.                        *)
LEMMA FillPlaced == Smooth /\ FillWave => Step(s', "fill") /\ Placed(s') /\ Appends(s, s')
(* Every runner answers with its first identity: nothing is forgotten.       *)
<1>LocatedLemma. ASSUME AllUp, NEW sch \in Schedulers, \A w \in W : sch.ids[w] \in {0, 1}, NEW used
      PROVE  Live(used) = W \ used /\ Located(sch, used) = sch.locations
  <2> USE <1>LocatedLemma
  <2>1. Live(used) = W \ used BY DEF AllUp, Live
  <2>2. {w \in Live(used) : sch.ids[w] \notin {0, inc[w]}} = {} BY <2>1 DEF AllUp
  <2>3. (W \ used) \ Live(used) = {} BY <2>1
  <2>4. ((W \ used) \ Live(used)) \cup {w \in Live(used) : sch.ids[w] \notin {0, inc[w]}} = {} BY <2>2, <2>3
  <2>5. Located(sch, used) = DropWorkerCache(sch.locations, {}) BY <2>4 DEF Located
  <2> QED BY <2>1, <2>5 DEF DropWorkerCache
(* The score of a worker for one hinted partition.                         *)
<1>ScoreOne. \A locations, q, w : Score(locations, {q}, w) = IF <<q, w>> \in locations THEN 1 ELSE 0
  <2> TAKE locations, q, w
  <2>1. Score(locations, {q}, w) = IF {q} # {} /\ <<q, w>> \in locations THEN 1 ELSE 0 BY ScoreLemma
  <2> QED BY <2>1
(* With all workers up, pickWorkerIndexFor chooses among those not used    *)
(* yet by what the scheduler believes.                                     *)
<1>ChosenLemma. ASSUME AllUp, NEW sch \in Schedulers, \A w \in W : sch.ids[w] \in {0, 1}, NEW used, NEW hints, NEW pick,
             Picked(sch, used, hints, pick), W \ used # {}
      PROVE  Chosen(sch, used, hints, pick)
  <2> USE <1>ChosenLemma
  <2>1. Live(used) = W \ used /\ Located(sch, used) = sch.locations BY <1>LocatedLemma
  <2>2. pick.index \in W \ used /\ pick.index # None BY <2>1 DEF Picked
  <2>3. pick.sch = [sch EXCEPT !.locations = Located(sch, used),
                !.ids = [w \in W |-> IF w \in Live(used) THEN inc[w] ELSE sch.ids[w]],
                !.worker = IF pick.index = None THEN sch.worker ELSE (pick.index + 1) % Workers]
    BY DEF Picked
  <2>4. /\ pick.sch.locations = Located(sch, used)
        /\ pick.sch.ids = [w \in W |-> IF w \in Live(used) THEN inc[w] ELSE sch.ids[w]]
        /\ pick.sch.worker = IF pick.index = None THEN sch.worker ELSE (pick.index + 1) % Workers
    BY <2>3 DEF Schedulers
  <2>5. \A w \in W : pick.sch.ids[w] \in {0, 1} BY <2>4 DEF AllUp
  <2>6. \A v \in (W \ used) \ {pick.index} :
          \/ Score(sch.locations, hints, pick.index) > Score(sch.locations, hints, v)
          \/ /\ Score(sch.locations, hints, pick.index) = Score(sch.locations, hints, v)
             /\ (pick.index + Workers - sch.worker) % Workers < (v + Workers - sch.worker) % Workers
    BY <2>1 DEF Picked
  <2> QED BY <2>1, <2>2, <2>4, <2>5, <2>6 DEF Chosen
(* The next task of a map stage goes to the home of its partition: in the  *)
(* first stage it is its turn, in later ones it alone is believed to hold  *)
(* it, and the wave does not use it yet.                                   *)
<1>HomePick. ASSUME AllUp, WorkerType, program.cached, NEW sch, Typed(sch, "fill"), Placed(sch),
             sch.p # NumPartitions(sch.stage), Len(sch.wave) # Workers,
             NEW used, used = {sch.wave[i].worker : i \in DOMAIN sch.wave},
             NEW t, t = <<sch.stage, sch.p>>,
             NEW pick, pick = PickWorkerIndexFor(sch, used, StageCacheHints(t))
      PROVE  AtHome(sch, t, pick)
  <2> USE <1>HomePick
  <2>1. sch \in Schedulers /\ sch.p <= NumPartitions(sch.stage) BY DEF Typed
  <2>2. /\ sch.p \in Nat /\ NumPartitions(sch.stage) \in Nat /\ sch.stage \in 1..ResultStage
        /\ sch.stage \in Nat /\ sch.wave \in Seq(CallRecs) /\ sch.worker \in W
    BY <2>1, Fields
  <2>3. sch.p < NumPartitions(sch.stage) BY SMTT(30), <2>1, <2>2
  <2>4. t \in Tasks /\ t[1] = sch.stage /\ t[2] = sch.p BY <2>1, <2>3, Places
  <2>5. Len(sch.wave) \in Nat /\ DOMAIN sch.wave = 1..Len(sch.wave) BY <2>2, LenFacts
  <2> DEFINE n == Len(sch.wave)
             low == Low(sch)
  <2>6. n <= Workers /\ low \in Nat /\ low = sch.p - n /\ Workers \in Nat \ {0}
    BY SizesAssumption DEF Placed, Ordered, Low
  <2>7. n < Workers /\ low + n = sch.p /\ ~(sch.p < low)
    <3> HIDE DEF n, low
    <3> QED BY SMTT(30), <2>2, <2>5, <2>6 DEF n
  <2>8. sch.accepted[t] = None
    <3>1. ~(sch.stage < sch.stage) BY SMTT(30), <2>2
    <3> QED BY <2>4, <2>7, <3>1 DEF Placed, Ordered
  <2> DEFINE hints == StageCacheHints(t)
  <2>9. hints = {} \/ hints = {t[2]} BY <2>4, HintLemma
  <2>10. Picked(sch, used, hints, pick)
    <3> HIDE DEF hints
    <3> QED BY <2>1, <2>9, PickLemma DEF hints
  <2>12. Home(sch.p) \in W BY <2>2, HomeLemma
  <2>13. sch.stage # ResultStage => Home(sch.p) \in W \ used
    <3> SUFFICES ASSUME sch.stage # ResultStage, NEW i \in DOMAIN sch.wave, Home(sch.p) = sch.wave[i].worker
                 PROVE  FALSE
      BY <2>12
    <3>1. sch.wave[i].worker = Home(low + i - 1) BY DEF Placed, Ordered
    <3>2. i \in 1..n BY <2>5
    <3> HIDE DEF n, low
    <3>3. low + i - 1 \in Nat /\ low + i - 1 < sch.p /\ sch.p < low + i - 1 + Workers
      BY SMTT(30), <2>2, <2>5, <2>6, <2>7, <3>2 DEF n
    <3>4. (low + i - 1) % Workers # sch.p % Workers
      <4> DEFINE a == low + i - 1
      <4> HIDE DEF a
      <4>1. a \in Nat /\ a < sch.p /\ sch.p < a + Workers BY <3>3 DEF a
      <4>2. a % Workers # sch.p % Workers BY <2>2, <2>6, <4>1, ModNear
      <4> QED BY <4>2 DEF a
    <3> QED BY <3>1, <3>4 DEF Home
  <2>14. sch.stage = ResultStage => used = {}
    <3> SUFFICES ASSUME sch.stage = ResultStage PROVE used = {} OBVIOUS
    <3>1. sch.p = 0
      <4>1. NumPartitions(sch.stage) = 1 BY DEF NumPartitions
      <4> QED BY SMTT(30), <2>2, <2>3, <4>1
    <3>2. n = 0
      <4> HIDE DEF n, low
      <4> QED BY SMTT(30), <2>5, <2>6, <2>7, <3>1 DEF n
    <3>3. DOMAIN sch.wave = {}
      <4> HIDE DEF n
      <4>1. 1..0 = {} BY SMTT(30)
      <4> QED BY <2>5, <3>2, <4>1 DEF n
    <3> QED BY <3>3
  <2>15. W \ used # {}
    <3>1. 0 \in W BY TaskLemma
    <3> QED BY <2>13, <2>14, <3>1
  <2>11. \A w \in W : sch.ids[w] \in {0, 1} BY DEF Placed, Hinted
  <2>16. Chosen(sch, used, hints, pick)
    <3> HIDE DEF hints
    <3> QED BY <2>1, <2>10, <2>11, <2>15, <1>ChosenLemma
  <2>17. /\ pick.index \in W \ used /\ pick.index # None
         /\ pick.sch.locations = sch.locations
         /\ pick.sch.worker = (pick.index + 1) % Workers
         /\ \A w \in W : pick.sch.ids[w] \in {0, 1}
    BY <2>16 DEF Chosen
  <2>18. ASSUME sch.stage # ResultStage PROVE pick.index = Home(sch.p)
    <3> DEFINE h == Home(sch.p)
               x == pick.index
    <3> SUFFICES ASSUME x # h PROVE FALSE OBVIOUS
    <3>1. t \in MapTasks BY <2>4, <2>18, TaskLemma
    <3>2. hints = {sch.p} BY <2>4, <3>1 DEF StageCacheHints
    <3>3. sch.p \in InputParts BY <2>4, <3>1 DEF MapTasks, InputParts
    <3>4. \/ Score(sch.locations, hints, x) > Score(sch.locations, hints, h)
          \/ /\ Score(sch.locations, hints, x) = Score(sch.locations, hints, h)
             /\ (x + Workers - sch.worker) % Workers < (h + Workers - sch.worker) % Workers
      <4>1. h \in (W \ used) \ {pick.index} BY <2>13, <2>18
      <4> HIDE DEF hints, h
      <4> QED BY <2>16, <4>1 DEF Chosen
    <3>5. \A w : Score(sch.locations, hints, w) = IF <<sch.p, w>> \in sch.locations THEN 1 ELSE 0
      <4> HIDE DEF hints
      <4>1. \A w : Score(sch.locations, {sch.p}, w) = IF <<sch.p, w>> \in sch.locations THEN 1 ELSE 0
        BY <1>ScoreOne
      <4> QED BY <3>2, <4>1
    <3>6. \A w \in W : <<sch.p, w>> \in sch.locations <=> w = h /\ sch.accepted[<<1, sch.p>>] # None
      BY <3>3 DEF Placed, Hinted
    <3>7. x \in W /\ h \in W BY <2>12, <2>17
    <3>8. CASE sch.stage = 1
      <4>1. sch.accepted[<<1, sch.p>>] = None BY <2>8, <3>8
      <4>2. Score(sch.locations, hints, x) = 0 /\ Score(sch.locations, hints, h) = 0 BY <3>5, <3>6, <3>7, <4>1
      <4>3. ~(0 > 0) BY SMTT(30)
      <4>4. sch.worker = h BY <3>8 DEF Placed, Hinted
      <4>5. (x + Workers - h) % Workers < (h + Workers - h) % Workers
        <5> HIDE DEF x, h, hints
        <5> QED BY <3>4, <4>2, <4>3, <4>4
      <4> HIDE DEF x, h
      <4>6. (x + Workers - h) % Workers \in Nat /\ (h + Workers - h) % Workers = 0 BY <3>7, TurnLemma
      <4> QED BY SMTT(30), <4>5, <4>6
    <3>9. CASE sch.stage # 1
      <4>1. sch.accepted[<<1, sch.p>>] # None
        <5>1. <<1, sch.p>> \in Tasks
          <6>1. 1 \in Int /\ sch.p \in Int /\ 1 \in 1..MapStages BY SMTT(30), <2>2, SizesAssumption
          <6> QED BY <3>3, <6>1, TaskLemma
        <5>2. 1 < sch.stage BY SMTT(30), <2>2, <3>9
        <5>3. <<1, sch.p>>[1] = 1 OBVIOUS
        <5> QED BY <5>1, <5>2, <5>3 DEF Placed, Ordered
      <4>2. <<sch.p, h>> \in sch.locations /\ <<sch.p, x>> \notin sch.locations BY <3>6, <3>7, <4>1
      <4>3. Score(sch.locations, hints, x) = 0 /\ Score(sch.locations, hints, h) = 1
        <5> HIDE DEF x, h, hints
        <5> QED BY <3>5, <4>2
      <4>4. ~(0 > 1) /\ 0 # 1 BY SMTT(30)
      <4> HIDE DEF x, h, hints
      <4> QED BY <3>4, <4>3, <4>4
    <3> QED BY <3>8, <3>9
  <2>19. sch.stage # ResultStage => pick.sch.worker = Home(sch.p + 1) BY <2>2, <2>17, <2>18, HomeLemma
  <2> QED BY <2>8, <2>17, <2>18, <2>19 DEF AtHome
(* Sending the next task to its home.                                      *)
<1>PlacePlaced. ASSUME NEW sch \in Schedulers, Placed(sch), Len(sch.wave) # Workers, NEW e \in CallRecs,
             e.state = "sent", e.task = <<sch.stage, sch.p>>,
             sch.stage # ResultStage => e.worker = Home(sch.p),
             NEW new, new.stage = sch.stage, new.p = sch.p + 1, new.wave = Append(sch.wave, e),
             new.accepted = sch.accepted, new.locations = sch.locations,
             sch.stage = 1 => new.worker = Home(sch.p + 1), \A w \in W : new.ids[w] \in {0, 1}
      PROVE  Placed(new)
  <2> USE <1>PlacePlaced
  <2>1. sch.wave \in Seq(CallRecs) /\ sch.p \in Nat /\ sch.stage \in Nat BY Fields
  <2> DEFINE n == Len(sch.wave)
             low == Low(sch)
  <2>2. n \in Nat /\ n <= Workers /\ low \in Nat /\ low = sch.p - n /\ Workers \in Nat
    BY <2>1, SizesAssumption, LenFacts DEF Placed, Ordered, Low
  <2>3. /\ Len(new.wave) = n + 1 /\ DOMAIN new.wave = 1..(n + 1) /\ DOMAIN sch.wave = 1..n
        /\ \A i \in 1..n : new.wave[i] = sch.wave[i]
        /\ new.wave[n + 1] = e
    BY SMTT(30), <2>1
  <2> HIDE DEF n, low
  <2>4. Len(new.wave) <= Workers BY SMTT(30), <2>2, <2>3 DEF n
  <2>5. Low(new) = low /\ low + (n + 1) - 1 = sch.p
    <3>1. new.p = sch.p + 1 BY <1>PlacePlaced
    <3>2. Low(new) = (sch.p + 1) - (n + 1) BY <2>3, <3>1 DEF Low
    <3> HIDE <1>PlacePlaced
    <3> QED BY SMTT(30), <2>1, <2>2, <3>2
  <2>6. ASSUME NEW i \in DOMAIN new.wave
        PROVE  /\ new.wave[i].state \in {"sent", "ok"}
               /\ new.wave[i].task = <<new.stage, Low(new) + i - 1>>
               /\ new.stage # ResultStage => new.wave[i].worker = Home(Low(new) + i - 1)
    <3>1. i \in 1..n \/ i = n + 1 BY SMTT(30), <2>2, <2>3, <2>6
    <3>2. CASE i \in 1..n
      <4>1. new.wave[i] = sch.wave[i] /\ i \in DOMAIN sch.wave BY <2>3, <3>2
      <4>2. /\ sch.wave[i].state \in {"sent", "ok"}
            /\ sch.wave[i].task = <<sch.stage, low + i - 1>>
            /\ sch.stage # ResultStage => sch.wave[i].worker = Home(low + i - 1)
        BY <4>1 DEF Placed, Ordered, low
      <4> QED BY <2>5, <4>1, <4>2
    <3>3. CASE i = n + 1
      <4>1. new.wave[i] = e BY <2>3, <3>3
      <4>2. Low(new) + i - 1 = sch.p BY <2>5, <3>3
      <4> QED BY <4>1, <4>2
    <3> QED BY <3>1, <3>2, <3>3
  <2>7. Ordered(new)
    <3>1. \A t \in Tasks : new.accepted[t] # None <=> t[1] < new.stage \/ (t[1] = new.stage /\ t[2] < Low(new))
      BY <2>5 DEF Placed, Ordered, low
    <3> QED BY <2>2, <2>4, <2>5, <2>6, <3>1 DEF Ordered
  <2>8. Hinted(new) BY DEF Placed, Hinted
  <2> QED BY <2>7, <2>8 DEF Placed
<1> SUFFICES ASSUME Smooth, FillWave PROVE Step(s', "fill") /\ Placed(s') /\ Appends(s, s') OBVIOUS
<1> DEFINE t == <<s.stage, s.p>>
           used == {s.wave[i].worker : i \in DOMAIN s.wave}
           pick == PickWorkerIndexFor(s, used, StageCacheHints(t))
           sent == [NoCall EXCEPT !.task = t, !.worker = pick.index, !.state = "sent"]
           mid == pick.sch
           new == [mid EXCEPT !.wave = Append(@, sent), !.p = @ + 1]
<1>1. pc = "fill" /\ s.p # NumPartitions(s.stage) /\ Len(s.wave) # Workers BY DEF FillWave, WaveFull
<1>2. AllUp /\ WorkerType /\ Placed(s) /\ program.cached /\ s \in Schedulers /\ Typed(s, "fill")
  BY <1>1, SmoothLemma
<1>3. t \in Tasks
  <2>1. s.p \in Nat /\ NumPartitions(s.stage) \in Nat BY <1>2, Fields
  <2>2. s.p <= NumPartitions(s.stage) BY <1>2 DEF Typed
  <2>3. s.p < NumPartitions(s.stage) BY SMTT(30), <1>1, <2>1, <2>2
  <2> QED BY <1>2, <2>3, Places
<1>4. Picks(s, used, pick) BY <1>2, <1>3, PickSame
<1>5. /\ pick.index \in W /\ pick.index # None
      /\ s.stage # ResultStage => pick.index = Home(s.p)
      /\ pick.sch.locations = s.locations
      /\ s.stage # ResultStage => pick.sch.worker = Home(s.p + 1)
      /\ \A w \in W : pick.sch.ids[w] \in {0, 1}
      /\ s.accepted[t] = None
  <2>1. used = {s.wave[i].worker : i \in DOMAIN s.wave} /\ t = <<s.stage, s.p>>
        /\ pick = PickWorkerIndexFor(s, used, StageCacheHints(t))
    OBVIOUS
  <2> HIDE DEF used, t, pick
  <2>2. AtHome(s, t, pick) BY <1>1, <1>2, <2>1, <1>HomePick
  <2> QED BY <2>2 DEF AtHome
<1>6. IF s.accepted[t] # None THEN Step([s EXCEPT !.p = @ + 1], "fill")
      ELSE IF pick.index # None
      THEN Step(new, "fill")
      ELSE IF s.wave = <<>> THEN EndJob(FALSE)
      ELSE Step(pick.sch, "exec")
  BY DEF FillWave
<1>7. sent \in CallRecs /\ sent.task = t /\ sent.state = "sent" /\ sent.worker = pick.index
  <2> HIDE DEF t, pick
  <2> QED BY <1>3, <1>5 DEF NoCall, CallRecs
<1> HIDE DEF pick, used, sent
<1>8. Step(new, "fill") BY <1>5, <1>6
<1>9. mid \in Schedulers /\ mid.stage = s.stage /\ mid.p = s.p /\ mid.wave = s.wave /\ mid.accepted = s.accepted
      /\ mid.locations = s.locations /\ (s.stage # ResultStage => mid.worker = Home(s.p + 1))
      /\ \A w \in W : mid.ids[w] \in {0, 1}
  BY <1>4, <1>5 DEF Picks
<1> HIDE DEF mid
<1>10. /\ new.stage = s.stage /\ new.p = s.p + 1 /\ new.wave = Append(s.wave, sent)
       /\ new.accepted = s.accepted /\ new.locations = s.locations
       /\ new.worker = mid.worker /\ new.ids = mid.ids
  BY <1>9 DEF Schedulers
<1> HIDE DEF new
<1>11. s.stage = 1 => new.worker = Home(s.p + 1)
  <2>1. 1 # ResultStage BY SMTT(30), SizesAssumption DEF ResultStage
  <2> QED BY <1>9, <1>10, <2>1
<1>12. \A w \in W : new.ids[w] \in {0, 1} BY <1>9, <1>10
<1>13. sent.task = <<s.stage, s.p>> /\ (s.stage # ResultStage => sent.worker = Home(s.p)) BY <1>5, <1>7
<1>14. Placed(new) BY <1>1, <1>2, <1>7, <1>10, <1>11, <1>12, <1>13, <1>PlacePlaced
<1>15. s' = new BY <1>8 DEF Step
<1>16. Appends(s, new) BY <1>7, <1>10 DEF Appends
<1> QED BY <1>8, <1>14, <1>15, <1>16

(* The wave is closed, the stage done, or the whole job with every task.     *)
LEMMA ClosePlaced == Smooth /\ CloseWave =>
           \/ Step(s', "exec") /\ s' = s
           \/ Step(s', "fill") /\ Placed(s') /\ s'.accepted = s.accepted /\ s'.wave = s.wave
           \/ EndJob(TRUE) /\ \A t \in Tasks : s.accepted[t] # None
(* Going on to the next stage.                                             *)
<1>StagePlaced. ASSUME NEW sch \in Schedulers, Placed(sch), sch.stage # ResultStage, sch.wave = <<>>,
             sch.p = NumPartitions(sch.stage), NEW new, new = [sch EXCEPT !.stage = @ + 1, !.p = 0]
      PROVE  Placed(new)
  <2> USE <1>StagePlaced
  <2>1. sch.p \in Nat /\ sch.stage \in 1..ResultStage /\ sch.stage \in Nat BY Fields
  <2>2. /\ new.stage = sch.stage + 1 /\ new.p = 0 /\ new.wave = <<>> /\ new.accepted = sch.accepted
        /\ new.locations = sch.locations /\ new.ids = sch.ids
    BY DEF Schedulers
  <2>3. Len(<<>>) = 0 /\ DOMAIN <<>> = {} BY SMTT(30)
  <2>4. Low(sch) = sch.p /\ Low(new) = 0 /\ 0 <= Workers /\ 0 \in Nat
    <3>1. \A x \in Nat : x - 0 = x BY SMTT(30)
    <3>2. 0 <= Workers /\ 0 \in Nat BY SMTT(30), SizesAssumption
    <3> QED BY <2>1, <2>2, <2>3, <3>1, <3>2 DEF Low
  <2>5. ASSUME NEW t \in Tasks
        PROVE  t[1] < sch.stage \/ (t[1] = sch.stage /\ t[2] < sch.p)
               <=> t[1] < sch.stage + 1 \/ (t[1] = sch.stage + 1 /\ t[2] < 0)
    <3>1. t = <<t[1], t[2]>> /\ t[1] \in Nat /\ t[2] \in Nat BY TaskLemma
    <3>2. t[1] \in Int /\ t[2] \in Int BY SMTT(30), <3>1
    <3>3. t[2] \in 0..(NumPartitions(t[1]) - 1)
      <4>1. <<t[1], t[2]>> \in Tasks BY <3>1
      <4> QED BY <3>2, <4>1, TaskLemma
    <3>4. t[1] = sch.stage => t[2] < sch.p
      <4>1. \A m \in Nat : t[2] \in 0..(m - 1) => t[2] < m BY SMTT(30), <3>1
      <4> QED BY <2>1, <3>3, <4>1
    <3> QED BY SMTT(30), <2>1, <3>1, <3>4
  <2>6. Ordered(new)
    <3>1. \A t \in Tasks : new.accepted[t] # None <=> t[1] < new.stage \/ (t[1] = new.stage /\ t[2] < Low(new))
      BY <2>2, <2>4, <2>5 DEF Placed, Ordered
    <3> QED BY <2>2, <2>3, <2>4, <3>1 DEF Ordered
  <2>7. new.stage # 1 BY SMTT(30), <2>1, <2>2
  <2>8. Hinted(new) BY <2>2, <2>7 DEF Placed, Hinted
  <2> QED BY <2>6, <2>8 DEF Placed
<1> SUFFICES ASSUME Smooth, CloseWave
             PROVE  \/ Step(s', "exec") /\ s' = s
                    \/ Step(s', "fill") /\ Placed(s') /\ s'.accepted = s.accepted /\ s'.wave = s.wave
                    \/ EndJob(TRUE) /\ \A t \in Tasks : s.accepted[t] # None
  OBVIOUS
<1>1. CountInv BY DEF Smooth
<1>2. /\ pc = "fill" /\ Fine(program.cached, s, "fill")
      /\ s.wave # <<>> => Step(s, "exec")
      /\ s.wave = <<>> => s.p = NumPartitions(s.stage)
      /\ s.wave = <<>> /\ s.stage # ResultStage => Step([s EXCEPT !.stage = @ + 1, !.p = 0], "fill")
      /\ s.wave = <<>> /\ s.stage = ResultStage => EndJob(TRUE)
  BY <1>1, CloseLemma
<1>3. s \in Schedulers /\ Placed(s) BY SmoothLemma
<1>4. CASE s.wave # <<>>
  <2>1. Step(s, "exec") BY <1>2, <1>4
  <2> QED BY <2>1 DEF Step
<1>5. CASE s.wave = <<>> /\ s.stage # ResultStage
  <2> DEFINE new == [s EXCEPT !.stage = @ + 1, !.p = 0]
  <2>1. Step(new, "fill") BY <1>2, <1>5
  <2>2. Placed(new) BY <1>2, <1>3, <1>5, <1>StagePlaced
  <2>3. new.accepted = s.accepted /\ new.wave = s.wave BY <1>3 DEF Schedulers
  <2>4. s' = new BY <2>1 DEF Step
  <2> HIDE DEF new
  <2> QED BY <2>1, <2>2, <2>3, <2>4
<1>6. CASE s.wave = <<>> /\ s.stage = ResultStage
  <2>1. \A t \in Tasks : t[1] <= s.stage => s.accepted[t] # None BY <1>2, <1>6, StageDone
  <2>2. \A t \in Tasks : t[1] <= ResultStage
    <3>1. \A t \in Tasks : t = <<t[1], t[2]>> /\ t[1] \in Nat /\ t[2] \in Nat BY TaskLemma
    <3>2. \A t \in Tasks : t[1] \in 1..ResultStage
      BY SMTT(30), SizesAssumption DEF Tasks, MapTasks, ResultStage
    <3>3. ResultStage \in Nat BY TaskLemma
    <3> QED BY SMTT(30), <3>1, <3>2, <3>3
  <2> QED BY <1>2, <1>6, <2>1, <2>2
<1> QED BY <1>4, <1>5, <1>6

(* The completions of a wave are all accepted.                             *)
LEMMA AcceptPlaced == Smooth /\ AcceptWave =>
           /\ \E at \in {"fill", "exec"} : Step(s', at)
           /\ Placed(s')
           /\ \E e : e.state = "ok" /\ Moves(s, e, s')
(* Accept of the first call, in these words.                               *)
<1>AcceptMoves. ASSUME NEW sch \in Schedulers, sch.wave # <<>>
      PROVE  Moves(sch, Head(sch.wave), Accept([sch EXCEPT !.wave = Tail(@)], Head(sch.wave)))
  <2> USE <1>AcceptMoves
  <2>1. sch.wave \in Seq(CallRecs) BY Fields
  <2>2. Head(sch.wave) \in CallRecs /\ Head(sch.wave) = sch.wave[1] BY <2>1, SeqLemma
  <2> DEFINE e == Head(sch.wave)
             rest == [sch EXCEPT !.wave = Tail(@)]
             new == Accept(rest, e)
  <2>3. /\ rest.stage = sch.stage /\ rest.p = sch.p /\ rest.accepted = sch.accepted
        /\ rest.locations = sch.locations /\ rest.worker = sch.worker /\ rest.ids = sch.ids
        /\ rest.wave = Tail(sch.wave)
    BY DEF Schedulers
  <2>4. rest \in Schedulers BY TailLemma
  <2> HIDE DEF e, rest
  <2>5. /\ new.stage = rest.stage /\ new.p = rest.p /\ new.worker = rest.worker /\ new.ids = rest.ids
        /\ new.wave = rest.wave
        /\ new.accepted = [rest.accepted EXCEPT ![e.task] = e.added]
        /\ new.locations = rest.locations \cup (StageCacheHints(e.task) \X {e.worker})
    <3>1. RememberWorkerCache(rest.locations, e.worker, StageCacheHints(e.task), {})
            = rest.locations \cup (StageCacheHints(e.task) \X {e.worker})
      BY RememberLemma
    <3> QED BY <2>4, <3>1 DEF Accept, Schedulers
  <2> HIDE DEF new
  <2>6. Moves(sch, e, new) BY <2>2, <2>3, <2>5 DEF Moves, e
  <2> QED BY <2>6 DEF e, rest, new
(* Accepting the first call: the next one is first, and the partition is   *)
(* believed to be at its home.                                             *)
<1>MovesPlaced. ASSUME program.cached, NEW sch \in Schedulers, Placed(sch), NEW e, NEW new, Moves(sch, e, new)
      PROVE  Placed(new)
  <2> USE <1>MovesPlaced
  <2>1. sch.wave \in Seq(CallRecs) /\ sch.p \in Nat /\ sch.stage \in Nat BY Fields
  <2>2. e \in CallRecs /\ sch.wave # <<>> BY DEF Moves
  <2>3. /\ Len(sch.wave) \in Nat \ {0}
        /\ Len(Tail(sch.wave)) = Len(sch.wave) - 1
    BY <2>1, <2>2, SeqLemma
  <2>6. /\ new.stage = sch.stage /\ new.p = sch.p /\ new.worker = sch.worker /\ new.ids = sch.ids
        /\ new.wave = Tail(sch.wave)
        /\ new.accepted = [sch.accepted EXCEPT ![e.task] = e.added]
        /\ new.locations = sch.locations \cup (StageCacheHints(e.task) \X {e.worker})
    BY DEF Moves
  <2>7. e.task \in Tasks /\ e.added # None /\ e.worker \in W
    <3>1. e.task \in Tasks /\ e.added \in {0, 1} /\ e.worker \in W BY <2>2 DEF CallRecs
    <3> QED BY SMTT(30), <3>1 DEF None
  <2>8. \A t \in Tasks : new.accepted[t] # None <=> sch.accepted[t] # None \/ t = e.task
    <3>1. DOMAIN sch.accepted = Tasks BY DEF Schedulers
    <3> QED BY <2>6, <2>7, <3>1
  <2> DEFINE n == Len(sch.wave)
             low == Low(sch)
  <2>9. n \in Nat /\ n <= Workers /\ low \in Nat /\ low = sch.p - n /\ Workers \in Nat
    BY <2>3, SizesAssumption DEF Placed, Ordered, Low
  <2>10. /\ 1 \in DOMAIN sch.wave
         /\ \A i \in DOMAIN Tail(sch.wave) : i + 1 \in DOMAIN sch.wave /\ Tail(sch.wave)[i] = sch.wave[i + 1]
    BY SMTT(30), <2>1, <2>2, TailIndex
  <2>11. DOMAIN Tail(sch.wave) \subseteq Nat
    <3>1. DOMAIN Tail(sch.wave) = 1..(Len(sch.wave) - 1) BY SMTT(30), <2>1, <2>2
    <3> QED BY SMTT(30), <2>3, <3>1
  <2> HIDE DEF n, low
  <2>12. Low(new) = low + 1 /\ Low(new) \in Nat /\ Len(new.wave) <= Workers
    BY SMTT(30), <2>1, <2>3, <2>6, <2>9 DEF Low, n
  <2>13. \A i \in DOMAIN sch.wave :
            /\ sch.wave[i].state \in {"sent", "ok"}
            /\ sch.wave[i].task = <<sch.stage, low + i - 1>>
            /\ sch.stage # ResultStage => sch.wave[i].worker = Home(low + i - 1)
    BY DEF Placed, Ordered, low
  <2>14. e.task = <<sch.stage, low>> /\ (sch.stage # ResultStage => e.worker = Home(low))
    <3>1. low + 1 - 1 = low BY SMTT(30), <2>9
    <3>2. sch.wave[1] = e BY DEF Moves
    <3>3. /\ sch.wave[1].task = <<sch.stage, low + 1 - 1>>
          /\ sch.stage # ResultStage => sch.wave[1].worker = Home(low + 1 - 1)
      BY <2>10, <2>13
    <3> QED BY <3>1, <3>2, <3>3
  <2>15. ASSUME NEW i \in DOMAIN new.wave
        PROVE  /\ new.wave[i].state \in {"sent", "ok"}
               /\ new.wave[i].task = <<new.stage, Low(new) + i - 1>>
               /\ new.stage # ResultStage => new.wave[i].worker = Home(Low(new) + i - 1)
    <3>1. i + 1 \in DOMAIN sch.wave /\ new.wave[i] = sch.wave[i + 1] /\ i \in Nat BY <2>6, <2>10, <2>11, <2>15
    <3>2. low + (i + 1) - 1 = Low(new) + i - 1 BY SMTT(30), <2>9, <2>12, <3>1
    <3>3. /\ sch.wave[i + 1].state \in {"sent", "ok"}
          /\ sch.wave[i + 1].task = <<sch.stage, low + (i + 1) - 1>>
          /\ sch.stage # ResultStage => sch.wave[i + 1].worker = Home(low + (i + 1) - 1)
      BY <2>13, <3>1
    <3> QED BY <2>6, <3>1, <3>2, <3>3
  <2>16. ASSUME NEW t \in Tasks
         PROVE  new.accepted[t] # None <=> t[1] < new.stage \/ (t[1] = new.stage /\ t[2] < Low(new))
    <3>1. t = <<t[1], t[2]>> /\ t[1] \in Nat /\ t[2] \in Nat BY TaskLemma
    <3>2. sch.accepted[t] # None <=> t[1] < sch.stage \/ (t[1] = sch.stage /\ t[2] < low)
      BY DEF Placed, Ordered, low
    <3>3. t = e.task <=> t[1] = sch.stage /\ t[2] = low BY SMTT(30), <2>14, <3>1
    <3>4. t[2] < low + 1 <=> t[2] < low \/ t[2] = low BY SMTT(30), <2>9, <3>1
    <3> QED BY <2>6, <2>8, <2>12, <3>2, <3>3, <3>4
  <2>17. Ordered(new) BY <2>12, <2>15, <2>16 DEF Ordered
  <2>18. ASSUME NEW q \in InputParts, NEW w \in W
         PROVE  <<q, w>> \in new.locations <=> w = Home(q) /\ new.accepted[<<1, q>>] # None
    <3>1. <<q, w>> \in sch.locations <=> w = Home(q) /\ sch.accepted[<<1, q>>] # None BY DEF Placed, Hinted
    <3>2. q \in Int /\ 1 \in Int /\ 1 \in 1..MapStages BY SMTT(30), SizesAssumption DEF InputParts
    <3>3. <<1, q>> \in Tasks BY <3>2, TaskLemma
    <3>4. new.accepted[<<1, q>>] # None <=> sch.accepted[<<1, q>>] # None \/ <<1, q>> = e.task
      BY <2>8, <3>3
    <3>5. <<q, w>> \in new.locations <=> <<q, w>> \in sch.locations \/ (q \in StageCacheHints(e.task) /\ w = e.worker)
      BY <2>6
    <3>6. CASE sch.stage = ResultStage
      <4>1. e.task \notin MapTasks /\ <<1, q>> # e.task
        <5>1. e.task[1] = ResultStage BY SMTT(30), <2>14, <3>6
        <5>2. 1 # ResultStage BY SMTT(30), SizesAssumption DEF ResultStage
        <5> QED BY <2>7, <2>14, <3>6, <5>1, <5>2, TaskLemma
      <4>2. StageCacheHints(e.task) = {} BY <4>1 DEF StageCacheHints
      <4> QED BY <3>1, <3>4, <3>5, <4>1, <4>2
    <3>7. CASE sch.stage # ResultStage
      <4>1. e.task \in MapTasks
        <5>1. e.task[1] # ResultStage BY SMTT(30), <2>14, <3>7
        <5> QED BY <2>7, <5>1, TaskLemma
      <4>2. StageCacheHints(e.task) = {low}
        <5>1. e.task[2] = low BY SMTT(30), <2>14
        <5> QED BY <4>1, <5>1 DEF StageCacheHints
      <4>3. e.worker = Home(low) BY <2>14, <3>7
      <4>4. CASE q # low
        <5>1. <<1, q>> # e.task BY SMTT(30), <2>14, <4>4
        <5> QED BY <3>1, <3>4, <3>5, <4>2, <4>4, <5>1
      <4>5. CASE q = low
        <5>1. new.accepted[<<1, q>>] # None
          <6>1. CASE sch.stage = 1
            <7>1. <<1, q>> = e.task BY <2>14, <4>5, <6>1
            <7> QED BY <3>4, <7>1
          <6>2. CASE sch.stage # 1
            <7>1. sch.stage \in 1..ResultStage BY Fields
            <7>2. 1 < sch.stage BY SMTT(30), <2>1, <6>2, <7>1
            <7>3. <<1, q>>[1] = 1 OBVIOUS
            <7>4. sch.accepted[<<1, q>>] # None BY <3>3, <7>2, <7>3 DEF Placed, Ordered
            <7> QED BY <3>4, <7>4
          <6> QED BY <6>1, <6>2
        <5> QED BY <3>1, <3>5, <4>2, <4>3, <4>5, <5>1
      <4> QED BY <4>4, <4>5
    <3> QED BY <3>6, <3>7
  <2>19. Hinted(new)
    <3>1. (new.stage = 1 => new.worker = Home(new.p)) /\ \A w \in W : new.ids[w] \in {0, 1}
      BY <2>6 DEF Placed, Hinted
    <3> QED BY <2>18, <3>1 DEF Hinted
  <2> QED BY <2>17, <2>19 DEF Placed
<1> SUFFICES ASSUME Smooth, AcceptWave
             PROVE  /\ \E at \in {"fill", "exec"} : Step(s', at)
                    /\ Placed(s')
                    /\ \E e : e.state = "ok" /\ Moves(s, e, s')
  OBVIOUS
<1> DEFINE e == Head(s.wave)
           rest == [s EXCEPT !.wave = Tail(@)]
           at == IF Len(s.wave) = 1 THEN "fill" ELSE "exec"
<1>1. pc = "exec" /\ \A i \in DOMAIN s.wave : Answered(s.wave[i]) BY DEF AcceptWave
<1>2. s \in Schedulers /\ Placed(s) /\ Typed(s, "exec") /\ program.cached BY <1>1, SmoothLemma
<1>3. s.wave # <<>> /\ s.wave \in Seq(CallRecs) BY <1>2, Fields DEF Typed
<1>4. Moves(s, e, Accept(rest, e)) BY <1>2, <1>3, <1>AcceptMoves
<1>5. e.state = "ok"
  <2>1. e = s.wave[1] /\ 1 \in DOMAIN s.wave BY <1>3, SeqLemma, TailIndex
  <2>2. s.wave[1].state \in {"sent", "ok"} BY <1>2, <2>1 DEF Placed, Ordered
  <2>3. s.wave[1].state # "sent" BY <1>1, <2>1 DEF Answered
  <2> HIDE DEF e
  <2> QED BY <2>1, <2>2, <2>3
<1>6. \/ e.state = "ok" /\ Step(Accept(rest, e), at)
      \/ e.state = "fetch"
      \/ e.state = "error"
  BY DEF AcceptWave
<1>7. at \in {"fill", "exec"} OBVIOUS
<1> HIDE DEF e, rest, at
<1>8. Step(Accept(rest, e), at) BY <1>5, <1>6
<1>9. s' = Accept(rest, e) BY <1>8 DEF Step
<1>10. Placed(Accept(rest, e)) BY <1>2, <1>4, <1>MovesPlaced
<1> QED BY <1>4, <1>5, <1>7, <1>8, <1>9, <1>10

(* A task of the wave answers: it ran on its worker, which keeps what it     *)
(* read.                                                                     *)
Answers(sch, i, n, new) ==
    LET e == [sch.wave[i] EXCEPT !.state = "ok", !.added = n]
    IN  /\ i \in DOMAIN sch.wave /\ sch.wave[i].state = "sent" /\ e \in CallRecs
        /\ new = [sch EXCEPT !.wave[i] = e]

(* A task that runs, with its response not lost.                           *)
LEMMA RunPlaced ==
    ASSUME Smooth, NEW i \in Calls, NEW lost \in BOOLEAN, RunTask(i, lost), faults' = 0,
           NEW e, e = s.wave[i]
    PROVE  /\ Answers(s, i, Cardinality(Computed(e.task, e.worker)), s')
           /\ Placed(s')
           /\ program.reuse => /\ reusable' = [reusable EXCEPT ![e.worker] = @ \cup Puts(e.task)]
                               /\ jobCache' = jobCache
           /\ ~program.reuse => /\ jobCache' = [jobCache EXCEPT ![e.worker] = @ \cup Puts(e.task)]
                                /\ reusable' = reusable
           /\ UNCHANGED <<program, pc, succeeded, acc, up, inc, handle, faults>>
<1> DEFINE n == Cardinality(Computed(e.task, e.worker))
           ans == [e EXCEPT !.state = "ok", !.added = n]
<1>1. CountInv /\ faults = 0 BY DEF Smooth
<1>2. pc \in {"idle", "fill", "exec"} /\ s \in Schedulers /\ Placed(s) BY SmoothLemma
<1>3. /\ Call(i) \in CallRecs /\ Call(i).task \in Tasks
      /\ pc = "exec" /\ i \in DOMAIN s.wave /\ i # 0 /\ Call(i) = s.wave[i]
  BY <1>1, <1>2, CallLemma
<1>4. /\ e \in CallRecs /\ e.task \in Tasks /\ e = Call(i) BY <1>3
<1>5. /\ e.state = "sent" /\ up[e.worker]
      /\ faults' = IF lost THEN faults + 1 ELSE faults
      /\ Answering(i, IF lost THEN [e EXCEPT !.state = "error"] ELSE ans)
      /\ program.reuse => /\ reusable' = [reusable EXCEPT ![e.worker] = @ \cup Puts(e.task)]
                          /\ jobCache' = jobCache
      /\ ~program.reuse => /\ jobCache' = [jobCache EXCEPT ![e.worker] = @ \cup Puts(e.task)]
                           /\ reusable' = reusable
      /\ up' = up /\ inc' = inc
  BY <1>1, <1>4, RunLemma
<1>6. ~lost
  <2>1. 0 + 1 # 0 BY SMTT(30)
  <2> QED BY <1>1, <1>5, <2>1
<1>7. n \in {0, 1} BY <1>4, ComputedLemma
<1> HIDE DEF n
<1>8. ans \in CallRecs /\ ans.task = e.task /\ ans.worker = e.worker /\ ans.state = "ok"
  BY <1>4, <1>7 DEF CallRecs
<1>9. Answering(i, ans) BY <1>5, <1>6
<1>10. s' = [s EXCEPT !.wave[i] = ans] /\ UNCHANGED <<program, pc, succeeded, acc, handle>>
  BY <1>3, <1>9 DEF Answering, SetCall
<1>11. Answers(s, i, n, s') BY <1>3, <1>5, <1>8, <1>10 DEF Answers
<1>12. Placed([s EXCEPT !.wave[i] = ans])
  <2>1. ans.task = s.wave[i].task /\ ans.worker = s.wave[i].worker BY <1>8
  <2> HIDE DEF ans
  <2> QED BY <1>2, <1>3, <1>8, <2>1, AnswerPlaced
<1> QED BY <1>1, <1>5, <1>6, <1>10, <1>11, <1>12 DEF n

-----------------------------------------------------------------------------
(* Placement, step by step                                                 *)

(* Faults and releases are never taken back.                                 *)
LEMMA NoneBefore ==
    ASSUME CountInv, [Next]_vars
    PROVE  /\ program' = program
           /\ faults' = 0 => faults = 0
           /\ ~released' => ~released
<1>1. faults \in Nat BY DEF CountInv
<1>2. faults + 1 # 0 BY SMTT(30), <1>1
<1>3. CASE \/ Submit \/ FillWave \/ CloseWave \/ AcceptWave \/ EnsureRetry \/ RetryAnswered
  BY <1>3 DEF Submit, FillWave, CloseWave, AcceptWave, EnsureRetry, RetryAnswered, Return, Step, EndJob, handle
<1>4. CASE \E i \in Calls : \/ CallFails(i)
                            \/ \E lost \in BOOLEAN : RunTask(i, lost)
                            \/ \E m \in MapTasks : FetchFails(i, m)
  <2>1. ASSUME NEW i, CallFails(i) PROVE UNCHANGED <<program, released, faults>>
    BY <2>1 DEF CallFails, Answering, handle
  <2>2. ASSUME NEW i, NEW lost \in BOOLEAN, RunTask(i, lost)
        PROVE  UNCHANGED <<program, released>> /\ faults' \in {faults, faults + 1}
    BY <2>2 DEF RunTask, Answering, handle
  <2>3. ASSUME NEW i, NEW m, FetchFails(i, m) PROVE UNCHANGED <<program, released>> /\ faults' = faults + 1
    BY <2>3 DEF FetchFails, Answering, handle
  <2> QED BY <1>2, <1>4, <2>1, <2>2, <2>3
<1>5. CASE \E w \in W : Crash(w) \/ Replace(w) BY SMTT(30), <1>2, <1>5 DEF Crash, Replace, handle
<1>6. CASE Persist \/ Unpersist \/ Stop \/ ReleaseWorker \/ ReleaseFails \/ EndRelease
  BY SMTT(30), <1>2, <1>6 DEF Persist, Unpersist, Stop, ReleaseWorker, ReleaseFails, EndRelease
<1>7. CASE UNCHANGED vars BY <1>7 DEF vars, handle
<1> QED BY <1>3, <1>4, <1>5, <1>6, <1>7 DEF Next

(* Before the first job.                                                   *)
LEMMA InitPlace == Init => PlaceInv
<1> SUFFICES ASSUME Init PROVE PlaceInv OBVIOUS
<1>1. AllUp BY DEF Init, AllUp
<1> QED BY <1>1, NewPlaced DEF Init, PlaceInv

(* While nothing fails, no worker is down and no call fails.                 *)
LEMMA NoFailure ==
    ASSUME Smooth, [Next]_vars, faults' = 0
    PROVE  \/ Submit \/ FillWave \/ CloseWave \/ AcceptWave
           \/ \E i \in Calls, lost \in BOOLEAN : RunTask(i, lost)
           \/ Persist \/ Unpersist \/ Stop \/ ReleaseWorker \/ ReleaseFails \/ EndRelease
           \/ UNCHANGED vars
<1>1. AllUp /\ pc \in {"idle", "fill", "exec"} BY SmoothLemma
<1>2. faults = 0 /\ 0 + 1 # 0 BY SMTT(30) DEF Smooth
<1>3. ~EnsureRetry /\ ~RetryAnswered BY <1>1 DEF EnsureRetry, RetryAnswered
<1>4. \A i \in Calls : ~CallFails(i)
  <2> TAKE i \in Calls
  <2>1. CountInv BY DEF Smooth
  <2>2. Call(i).worker \in W BY <2>1, CallLemma
  <2> QED BY <1>1, <2>2 DEF CallFails, AllUp
<1>5. \A i \in Calls, m \in MapTasks : ~FetchFails(i, m) BY <1>2 DEF FetchFails
<1>6. \A w \in W : ~Crash(w) /\ ~Replace(w) BY <1>1, <1>2 DEF Crash, Replace, AllUp
<1> QED BY <1>3, <1>4, <1>5, <1>6 DEF Next

(* Every step keeps PlaceInv.                                              *)
LEMMA NextPlace == CountInv /\ PlaceInv /\ [Next]_vars => PlaceInv'
(* A step of the scheduler.                                                *)
<1>StepPlace. ASSUME Smooth, NEW at, Step(s', at), at \in {"idle", "fill", "exec"}, Placed(s')
      PROVE  PlaceInv'
  <2> USE <1>StepPlace
  <2>1. AllUp BY SmoothLemma
  <2>2. pc' = at /\ up' = up /\ inc' = inc BY DEF Step, worker
  <2> QED BY <2>1, <2>2 DEF PlaceInv, AllUp
(* A step that leaves the job and the workers alone.                       *)
<1>AsidePlace. ASSUME Smooth, UNCHANGED <<s, pc, up, inc>>
      PROVE  PlaceInv'
  <2> USE <1>AsidePlace
  <2>1. AllUp /\ pc \in {"idle", "fill", "exec"} /\ Placed(s) BY SmoothLemma
  <2> QED BY <2>1 DEF PlaceInv, AllUp
<1> SUFFICES ASSUME CountInv, PlaceInv, [Next]_vars, program'.cached, faults' = 0 PROVE PlaceInv'
  BY DEF PlaceInv
<1>1. Smooth BY NoneBefore DEF Smooth
<1>2. CASE Submit
  <2>1. s' = NewScheduler /\ pc' = "fill" /\ up' = up /\ inc' = inc BY <1>2 DEF Submit
  <2>2. AllUp BY <1>1, SmoothLemma
  <2> QED BY <2>1, <2>2, NewPlaced DEF PlaceInv, AllUp
<1>3. CASE FillWave BY <1>1, <1>3, FillPlaced, <1>StepPlace
<1>4. CASE CloseWave
  <2>1. CASE Step(s', "exec") /\ s' = s
    <3>1. Placed(s) BY <1>1, SmoothLemma
    <3> QED BY <1>1, <2>1, <3>1, <1>StepPlace
  <2>2. CASE Step(s', "fill") /\ Placed(s') BY <1>1, <2>2, <1>StepPlace
  <2>3. CASE EndJob(TRUE)
    <3>1. s' = NewScheduler /\ pc' = "idle" /\ up' = up /\ inc' = inc BY <2>3 DEF EndJob, worker
    <3>2. AllUp BY <1>1, SmoothLemma
    <3> QED BY <3>1, <3>2, NewPlaced DEF PlaceInv, AllUp
  <2> QED BY <1>1, <1>4, <2>1, <2>2, <2>3, ClosePlaced
<1>5. CASE AcceptWave
  <2>1. Placed(s') /\ \E at \in {"fill", "exec"} : Step(s', at) BY <1>1, <1>5, AcceptPlaced
  <2> QED BY <1>1, <2>1, <1>StepPlace
<1>6. ASSUME NEW i \in Calls, NEW lost \in BOOLEAN, RunTask(i, lost) PROVE PlaceInv'
  <2>1. Placed(s') /\ UNCHANGED <<pc, up, inc>> BY <1>1, <1>6, RunPlaced
  <2>2. AllUp /\ pc \in {"idle", "fill", "exec"} BY <1>1, SmoothLemma
  <2> QED BY <2>1, <2>2 DEF PlaceInv, AllUp
<1>7. CASE Persist \/ Unpersist \/ Stop \/ ReleaseWorker \/ ReleaseFails \/ EndRelease \/ UNCHANGED vars
  <2>1. UNCHANGED <<s, pc, up, inc>>
    BY <1>7 DEF Persist, Unpersist, Stop, ReleaseWorker, ReleaseFails, EndRelease, vars, job, worker
  <2> QED BY <1>1, <2>1, <1>AsidePlace
<1> QED BY <1>1, <1>2, <1>3, <1>4, <1>5, <1>6, <1>7, NoFailure

(* Without faults, a cached partition is read by every stage of every job on *)
(* the one runner it was dealt to.                                           *)
THEOREM PlaceCorrect == Spec => [](CountInv /\ PlaceInv)
<1>1. Init => CountInv /\ PlaceInv BY InitCount, InitPlace
<1>2. CountInv /\ PlaceInv /\ [Next]_vars => (CountInv /\ PlaceInv)' BY NextCount, NextPlace
<1> QED BY <1>1, <1>2, PTL DEF Spec
==============================================================================
