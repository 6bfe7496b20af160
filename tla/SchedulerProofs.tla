--------------------------- MODULE SchedulerProofs ---------------------------
(***************************************************************************)
(* Proofs about the lineage scheduler, for every plan, every number of     *)
(* runners and every retry and recovery limit: the invariant, the          *)
(* properties that follow from it, the bound on dispatches, what a repair  *)
(* takes away, and that the scheduler implements the evaluation of the     *)
(* lineage.                                                                *)
(***************************************************************************)
EXTENDS SchedulerInv, TLAPS

(* Leaves that name no prover are Zenon's.                                   *)
USE ZenonT(60)

(* runLineage outside ensureRetry                                          *)

(* A task is a pair of a stage and one of its partitions. *)
LEMMA TaskLemma ==
  /\ \A k \in Tasks : k = <<k[1], k[2]>> /\ k[1] \in Stages /\ k[2] \in Parts(k[1])
  /\ \A s \in Stages : \A p \in Parts(s) : <<s, p>> \in Tasks
  /\ \A s \in Stages : \A p \in Parts(s) : p \in Nat
BY SMTT(30), PlanAssumption DEF Tasks, Parts, Stages

(* Dependent stages come after the stage they depend on, and the set of    *)
(* them is closed.                                                         *)
LEMMA AffectedLemma ==
  ASSUME NEW s \in Stages
  PROVE  /\ s \in Affected(s)
         /\ \A t \in Affected(s) : t \in Stages /\ s <= t
         /\ Closed(Affected(s))
<1>1. s \in Affected(s)
  BY DEF Affected
<1>2. \A t \in Affected(s) : t \in Stages /\ s <= t
  <2> DEFINE Later == {t \in Stages : s <= t}
  <2>1. Closed(Later)
    BY SMTT(30), PlanAssumption DEF Closed, Stages
  <2>2. s \in Later /\ Later \in SUBSET Stages
    BY SMTT(30) DEF Stages
  <2> QED BY <2>1, <2>2 DEF Affected
<1>3. Closed(Affected(s))
  BY DEF Closed, Affected
<1> QED BY <1>1, <1>2, <1>3

(* The initial values and the snapshots built from accepted have the right *)
(* type.                                                                   *)
LEMMA ShapeLemma ==
  /\ NoUp \in Snapshot
  /\ Absent \in Result
  /\ NoCall \in Call
  /\ None \notin Nat
  /\ TypeOK => \A s \in Stages : Upstream(s) \in Snapshot
BY SMTT(30) DEF NoUp, Absent, NoCall, Snapshot, Result, Call, Attempt, None, TypeOK, Upstream

(* The state scheduleResults builds before its loop satisfies the invariant. *)
THEOREM InitIInv == Init => IInv
<1> SUFFICES ASSUME Init PROVE IInv
  OBVIOUS
<1> USE DEF Init
<1>1. TypeOK
  <2>1. cancelled \in BOOLEAN
    OBVIOUS
  <2> QED BY SMTT(30), <2>1, ShapeLemma, PlanAssumption DEF TypeOK, Stages, Outcomes, Attempt
<1>2. ControlInv /\ BoundsInv
  BY SMTT(30) DEF ControlInv, BoundsInv
<1>3. \A k \in Tasks : ~Accepted(k)
  BY DEF Accepted, Absent
<1>4. EarlierDone /\ CursorInv /\ WaveInv /\ CallInv /\ WaveOfCur
  BY SMTT(30), TaskLemma DEF EarlierDone, CursorInv, WaveInv, CallInv, WaveOfCur, WaveValid, Stages,
                   Parts
<1>5. CallFresh /\ AttemptsFresh
  BY SMTT(30) DEF CallFresh, AttemptsFresh, NoCall, NoUp, Absent, None
<1>6. LineageConsistent /\ SharedBounds /\ SuccessComplete /\ NoStaleFailure
  BY <1>3 DEF LineageConsistent, SharedBounds, SuccessComplete, NoStaleFailure
<1> QED BY <1>1, <1>2, <1>4, <1>5, <1>6 DEF IInv
-----------------------------------------------------------------------------
(* Steps shared by several actions *)

(* Returning keeps the invariant, if the returned outcome is justified. *)
LEMMA ExitLemma ==
  ASSUME IInv, NEW why \in Outcomes \ {"running", "stale failure"},
         why = "ok" => \A k \in Tasks : Accepted(k),
         Exit(why)
  PROVE  IInv'
<1> USE DEF IInv, Exit, lineage, place, calls
<1>1. TypeOK' /\ ControlInv' /\ BoundsInv'
  BY DEF TypeOK, ControlInv, BoundsInv
<1>2. EarlierDone' /\ CursorInv' /\ WaveInv' /\ CallInv'
  BY DEF EarlierDone, CursorInv, WaveInv, CallInv, WaveValid
<1>3. WaveOfCur' /\ CallFresh' /\ AttemptsFresh'
  BY DEF WaveOfCur, CallFresh, AttemptsFresh
<1>4. LineageConsistent' /\ SharedBounds'
  BY DEF LineageConsistent, SharedBounds, Accepted
<1>5. SuccessComplete' /\ NoStaleFailure'
  BY DEF SuccessComplete, NoStaleFailure, Accepted
<1> QED BY <1>1, <1>2, <1>3, <1>4, <1>5

(* A repair withdraws results but leaves none derived from a withdrawn one *)
(* and none cut by discarded boundaries.                                   *)
LEMMA InvalidateLemma ==
  ASSUME TypeOK, BoundsInv, LineageConsistent, SharedBounds,
         NEW u \in Tasks, Invalidate(u)
  PROVE  /\ accepted' \in [Tasks -> Result]
         /\ \A k \in Tasks : accepted'[k] = accepted[k] \/ accepted'[k] = Absent
         /\ repairs' = repairs + 1
         /\ sampled' \subseteq Stages /\ bounds' \in [Stages -> Attempt]
         /\ BoundsInv' /\ LineageConsistent' /\ SharedBounds'
<1> USE DEF Invalidate
<1>1. /\ accepted' \in [Tasks -> Result]
      /\ \A k \in Tasks : accepted'[k] = accepted[k] \/ accepted'[k] = Absent
  BY ShapeLemma DEF TypeOK
<1>2. sampled' \subseteq Stages /\ bounds' \in [Stages -> Attempt]
  BY DEF TypeOK, Attempt
<1>3. BoundsInv'
  BY DEF BoundsInv, TypeOK
<1>4. \A k \in Tasks : Accepted(k)' =>
        /\ Accepted(k) /\ accepted'[k] = accepted[k]
        /\ k # u /\ k[1] \notin Descendants(u[1])
  BY DEF Accepted, Absent, TypeOK
<1>5. LineageConsistent'
  <2> SUFFICES ASSUME NEW k \in Tasks, Accepted(k)', NEW v \in UpTasks(k[1])
               PROVE  Accepted(v)' /\ accepted'[k].up[v] = accepted'[v].attempt
    BY DEF LineageConsistent
  <2>1. v \in Tasks /\ v[1] \in Parents[k[1]] /\ v[1] < k[1]
    BY TaskLemma, PlanAssumption DEF UpTasks
  <2>2. v[1] \notin Affected(u[1])
    <3> SUFFICES ASSUME v[1] \in Affected(u[1]) PROVE FALSE
      OBVIOUS
    <3>1. k[1] \in Affected(u[1]) /\ u[1] <= v[1]
      BY AffectedLemma, TaskLemma, <2>1 DEF Closed
    <3>2. k[1] = u[1]
      BY <3>1, <1>4 DEF Descendants
    <3> QED BY SMTT(30), <3>1, <3>2, <2>1, TaskLemma DEF Stages
  <2>3. v # u /\ v[1] \notin Descendants(u[1])
    BY <2>2, AffectedLemma, TaskLemma DEF Descendants
  <2>4. accepted'[v] = accepted[v]
    BY <2>1, <2>3
  <2> QED BY <2>4, <1>4 DEF LineageConsistent, Accepted
<1>6. SharedBounds'
  <2> SUFFICES ASSUME NEW k \in Tasks, Accepted(k)', k[1] \in RangeSort
               PROVE  accepted'[k].bounds # None /\ accepted'[k].bounds = bounds'[k[1]]
    BY DEF SharedBounds
  <2>1. bounds'[k[1]] = bounds[k[1]]
    BY <1>4, TaskLemma
  <2> QED BY <2>1, <1>4 DEF SharedBounds
<1> QED BY <1>1, <1>2, <1>3, <1>5, <1>6

(* Going back to the first stage keeps the invariant as soon as the        *)
(* lineage is in order.                                                    *)
LEMMA RestartLemma ==
  ASSUME IInv, pc # "returned", Restart, UNCHANGED <<cancelled, outcome>>,
         accepted' \in [Tasks -> Result], attempts' \in [Tasks -> Nat],
         repairs' \in Nat, sampled' \subseteq Stages,
         bounds' \in [Stages -> Attempt],
         active' = {}, call' \in [Stages -> Call],
         BoundsInv', LineageConsistent', SharedBounds', CallFresh',
         \A k \in Tasks : /\ accepted'[k].attempt < attempts'[k]
                          /\ \A u \in Tasks : accepted'[k].up[u] < attempts'[u]
  PROVE  IInv'
<1> USE DEF Restart
<1>1. TypeOK'
  BY SMTT(30), PlanAssumption DEF IInv, TypeOK, Stages
<1>2. ControlInv'
  BY SMTT(30) DEF IInv, ControlInv
<1>3. EarlierDone' /\ CursorInv' /\ WaveInv' /\ CallInv' /\ WaveOfCur'
  BY SMTT(30), TaskLemma DEF EarlierDone, CursorInv, WaveInv, CallInv, WaveOfCur, WaveValid,
                   Stages
<1>4. AttemptsFresh'
  BY DEF AttemptsFresh
<1>5. SuccessComplete' /\ NoStaleFailure'
  BY DEF IInv, SuccessComplete, NoStaleFailure, ControlInv
<1> QED BY <1>1, <1>2, <1>3, <1>4, <1>5 DEF IInv

(* A failure to read an accepted map, met by a sample task or in a wave. *)
LEMMA RepairAndRestartLemma ==
  ASSUME IInv, NEW u \in Tasks, pc \in {"sample", "process"}, Accepted(u),
         RepairAndRestart(u, accepted[u].attempt)
  PROVE  IInv'
<1>1. CASE Refusal(u, accepted[u].attempt) # "running"
  <2>1. Refusal(u, accepted[u].attempt) = "recovery limit"
    BY <1>1 DEF Refusal
  <2>2. "recovery limit" \in Outcomes \ {"running", "stale failure"}
    BY DEF Outcomes
  <2> QED BY <1>1, <2>1, <2>2, ExitLemma DEF RepairAndRestart
<1>2. CASE Refusal(u, accepted[u].attempt) = "running"
  <2>1. Invalidate(u) /\ Restart /\ UNCHANGED <<attempts, calls, cancelled, outcome>>
    BY <1>2 DEF RepairAndRestart
  <2>2. TypeOK /\ BoundsInv /\ LineageConsistent /\ SharedBounds
    BY DEF IInv
  <2>3. /\ accepted' \in [Tasks -> Result]
        /\ \A k \in Tasks : accepted'[k] = accepted[k] \/ accepted'[k] = Absent
        /\ repairs' = repairs + 1
        /\ sampled' \subseteq Stages /\ bounds' \in [Stages -> Attempt]
        /\ BoundsInv' /\ LineageConsistent' /\ SharedBounds'
    BY <2>1, <2>2, InvalidateLemma
  <2>4. active' = {} /\ call' \in [Stages -> Call] /\ attempts' \in [Tasks -> Nat]
    BY <2>1 DEF IInv, ControlInv, TypeOK, calls
  <2>5. CallFresh'
    BY <2>1 DEF IInv, CallFresh, calls
  <2>6. \A k \in Tasks : /\ accepted'[k].attempt < attempts'[k]
                         /\ \A v \in Tasks : accepted'[k].up[v] < attempts'[v]
    BY SMTT(30), <2>1, <2>3 DEF IInv, AttemptsFresh, Absent, NoUp, None, TypeOK
  <2>7. repairs' \in Nat /\ pc # "returned"
    BY SMTT(30), <2>3 DEF IInv, TypeOK
  <2> QED BY <2>1, <2>3, <2>4, <2>5, <2>6, <2>7, RestartLemma
<1> QED BY <1>1, <1>2
-----------------------------------------------------------------------------
(* The loop over the stages, sampling, and the wave *)

(* What holds of the lineage alone survives a step that leaves it alone. *)
LEMMA SameLineage ==
  ASSUME IInv, UNCHANGED lineage, UNCHANGED outcome
  PROVE  LineageConsistent' /\ SharedBounds' /\ SuccessComplete' /\ NoStaleFailure'
<1> USE DEF IInv, lineage
<1>1. LineageConsistent' /\ SharedBounds'
  BY DEF LineageConsistent, SharedBounds, Accepted
<1>2. SuccessComplete' /\ NoStaleFailure'
  BY DEF SuccessComplete, NoStaleFailure, Accepted
<1> QED BY <1>1, <1>2

(* EnterStage preserves the invariant. *)
LEMMA EnterStageStep == ASSUME IInv, EnterStage PROVE IInv'
<1> USE DEF IInv, EnterStage, lineage, calls
<1>1. cur \in Stages /\ repairs <= repairs
  BY SMTT(30), PlanAssumption DEF TypeOK, Stages
<1>2. TypeOK' /\ BoundsInv'
  BY DEF TypeOK, BoundsInv
<1>3. ControlInv'
  BY <1>1 DEF ControlInv
<1>4. EarlierDone' /\ CallInv' /\ WaveInv' /\ WaveOfCur'
  BY DEF EarlierDone, CallInv, WaveInv, WaveOfCur, WaveValid, Accepted
<1>5. CursorInv'
  BY SMTT(30), <1>1, TaskLemma DEF CursorInv, WaveValid
<1>6. CallFresh' /\ AttemptsFresh'
  BY DEF CallFresh, AttemptsFresh
<1>7. LineageConsistent' /\ SharedBounds' /\ SuccessComplete' /\ NoStaleFailure'
  BY SameLineage
<1> QED BY <1>2, <1>3, <1>4, <1>5, <1>6, <1>7

(* Finish preserves the invariant. *)
LEMMA FinishStep == ASSUME IInv, Finish PROVE IInv'
<1>1. \A k \in Tasks : Accepted(k)
  BY SMTT(30), TaskLemma, PlanAssumption DEF IInv, Finish, EarlierDone, Stages
<1>2. \A p \in Parts(NumStages) : Accepted(<<NumStages, p>>)
  BY SMTT(30), <1>1, TaskLemma, PlanAssumption DEF Stages
<1>3. PICK why \in {"ok", "accumulators"} : Exit(why)
  BY <1>2 DEF Finish
<1>4. why \in Outcomes \ {"running", "stale failure"}
  BY DEF Outcomes
<1> QED BY <1>1, <1>3, <1>4, ExitLemma

(* SampleWave preserves the invariant. *)
LEMMA SampleWaveStep ==
  ASSUME IInv, NEW n \in 1..NumRunners, SampleWave(n) PROVE IInv'
<1> USE DEF IInv, SampleWave, lineage, calls
<1>1. TypeOK'
  BY SMTT(30), OptsAssumption DEF TypeOK
<1>2. ControlInv' /\ BoundsInv' /\ EarlierDone'
  BY DEF ControlInv, BoundsInv, EarlierDone, WaveValid, Accepted
<1>3. CursorInv' /\ WaveInv' /\ CallInv' /\ WaveOfCur'
  BY DEF CursorInv, WaveInv, CallInv, WaveOfCur, WaveValid
<1>4. CallFresh' /\ AttemptsFresh'
  BY DEF CallFresh, AttemptsFresh
<1>5. LineageConsistent' /\ SharedBounds' /\ SuccessComplete' /\ NoStaleFailure'
  BY SameLineage
<1> QED BY <1>1, <1>2, <1>3, <1>4, <1>5

(* SampleOK preserves the invariant. *)
LEMMA SampleOKStep == ASSUME IInv, SampleOK PROVE IInv'
<1> USE DEF IInv, SampleOK, lineage, calls
<1>1. TypeOK'
  BY SMTT(30) DEF TypeOK
<1>2. ControlInv' /\ BoundsInv' /\ EarlierDone'
  BY DEF ControlInv, BoundsInv, EarlierDone, WaveValid, Accepted
<1>3. CursorInv' /\ WaveInv' /\ CallInv' /\ WaveOfCur'
  BY DEF CursorInv, WaveInv, CallInv, WaveOfCur, WaveValid
<1>4. CallFresh' /\ AttemptsFresh'
  BY DEF CallFresh, AttemptsFresh
<1>5. LineageConsistent' /\ SharedBounds' /\ SuccessComplete' /\ NoStaleFailure'
  BY SameLineage
<1> QED BY <1>1, <1>2, <1>3, <1>4, <1>5

(* SampleError preserves the invariant. *)
LEMMA SampleErrorStep == ASSUME IInv, SampleError PROVE IInv'
<1>1. CASE tries + 1 < AttemptLimit
  <2> USE <1>1 DEF IInv, SampleError, lineage, calls
  <2>1. TypeOK'
    BY SMTT(30) DEF TypeOK
  <2>2. ControlInv' /\ BoundsInv'
    BY DEF ControlInv, BoundsInv
  <2>3. EarlierDone'
    BY DEF EarlierDone, WaveValid, Accepted
  <2>4. CursorInv' /\ WaveInv' /\ CallInv' /\ WaveOfCur'
    BY DEF CursorInv, WaveInv, CallInv, WaveOfCur, WaveValid
  <2>5. CallFresh' /\ AttemptsFresh'
    BY DEF CallFresh, AttemptsFresh
  <2>6. LineageConsistent' /\ SharedBounds' /\ SuccessComplete' /\ NoStaleFailure'
    BY SameLineage
  <2> QED BY <2>1, <2>2, <2>3, <2>4, <2>5, <2>6
<1>2. CASE Exit("retries exhausted")
  <2>1. "retries exhausted" \in Outcomes \ {"running", "stale failure"}
    BY DEF Outcomes
  <2> QED BY <1>2, <2>1, ExitLemma
<1> QED BY <1>1, <1>2 DEF SampleError

(* Giving up for want of a healthy worker preserves the invariant. *)
LEMMA NoWorkersStep ==
  ASSUME IInv, SampleNoWorkers \/ NoHealthyWorkers PROVE IInv'
<1>1. Exit("no workers")
  BY DEF SampleNoWorkers, NoHealthyWorkers
<1>2. "no workers" \in Outcomes \ {"running", "stale failure"}
  BY DEF Outcomes
<1> QED BY <1>1, <1>2, ExitLemma

(* Failing to encode the boundaries preserves the invariant. *)
LEMMA SampleEncodeErrorStep ==
  ASSUME IInv, SampleEncodeError PROVE IInv'
<1>1. Exit("encoding")
  BY DEF SampleEncodeError
<1>2. "encoding" \in Outcomes \ {"running", "stale failure"}
  BY DEF Outcomes
<1> QED BY <1>1, <1>2, ExitLemma

(* SampleFetchError preserves the invariant. *)
LEMMA SampleFetchErrorStep ==
  ASSUME IInv, NEW u \in Tasks, SampleFetchError(u) PROVE IInv'
<1>1. u[1] < cur
  BY TaskLemma, PlanAssumption DEF SampleFetchError, UpTasks, IInv, ControlInv
<1>2. Accepted(u)
  BY <1>1 DEF IInv, EarlierDone, SampleFetchError
<1> QED BY <1>2, RepairAndRestartLemma DEF SampleFetchError

(* SampleDone preserves the invariant. *)
LEMMA SampleDoneStep == ASSUME IInv, SampleDone PROVE IInv'
<1> USE DEF IInv, SampleDone, calls
<1>1. cur \in Stages /\ cur \notin sampled /\ bounds[cur] = None
  BY DEF ControlInv, BoundsInv, TypeOK
<1>2. \A k \in Tasks : k[1] = cur => ~Accepted(k)
  BY <1>1 DEF ControlInv, SharedBounds
<1>3. TypeOK'
  BY <1>1 DEF TypeOK, Attempt
<1>4. BoundsInv'
  BY <1>1, ShapeLemma DEF BoundsInv, TypeOK
<1>5. ControlInv' /\ EarlierDone'
  BY DEF ControlInv, EarlierDone, WaveValid, Accepted
<1>6. CursorInv'
  BY SMTT(30), <1>1, TaskLemma DEF CursorInv, WaveValid
<1>7. WaveInv' /\ CallInv' /\ WaveOfCur'
  BY DEF WaveInv, CallInv, WaveOfCur, WaveValid
<1>8. CallFresh' /\ AttemptsFresh'
  BY DEF CallFresh, AttemptsFresh
<1>9. SharedBounds'
  BY <1>2, TaskLemma DEF SharedBounds, Accepted, TypeOK
<1>10. LineageConsistent' /\ SuccessComplete' /\ NoStaleFailure'
  BY DEF LineageConsistent, SuccessComplete, NoStaleFailure, Accepted
<1> QED BY <1>3, <1>4, <1>5, <1>6, <1>7, <1>8, <1>9, <1>10

(* StageDone preserves the invariant. *)
LEMMA StageDoneStep == ASSUME IInv, StageDone PROVE IInv'
<1> USE DEF IInv, StageDone, lineage, calls
<1>1. cur \in Stages /\ wave = {}
  BY DEF ControlInv
<1>2. \A p \in Parts(cur) : Accepted(<<cur, p>>)
  <2> SUFFICES ASSUME NEW p \in Parts(cur) PROVE Accepted(<<cur, p>>)
    OBVIOUS
  <2>1. CASE p < next
    BY <1>1, <2>1 DEF CursorInv
  <2>2. CASE p >= next
    BY <2>2 DEF Pending
  <2>3. p \in Nat /\ next \in Nat
    BY <1>1, TaskLemma DEF TypeOK
  <2> QED BY SMTT(30), <2>1, <2>2, <2>3
<1>3. \A k \in Tasks : k[1] < cur => Accepted(k)
  BY DEF EarlierDone
<1>4. EarlierDone'
  BY SMTT(30), <1>1, <1>2, <1>3, TaskLemma DEF EarlierDone, Accepted, WaveValid, Stages
<1>5. TypeOK'
  BY SMTT(30), <1>1, PlanAssumption DEF TypeOK, Stages
<1>6. ControlInv' /\ BoundsInv'
  BY DEF ControlInv, BoundsInv
<1>7. CursorInv' /\ WaveInv' /\ CallInv' /\ WaveOfCur'
  BY DEF CursorInv, WaveInv, CallInv, WaveOfCur, WaveValid, ControlInv
<1>8. CallFresh' /\ AttemptsFresh'
  BY <1>1 DEF CallFresh, AttemptsFresh
<1>9. LineageConsistent' /\ SharedBounds' /\ SuccessComplete' /\ NoStaleFailure'
  BY SameLineage
<1> QED BY <1>4, <1>5, <1>6, <1>7, <1>8, <1>9
(* A runner answers.  Its completion keeps its partition and its snapshot. *)
LEMMA CompleteStep ==
  ASSUME IInv, NEW w, NEW st \in {"ok", "error", "fetch"},
         NEW u \in Tasks \cup {<<0, 0>>},
         st = "ok" /\ cur \in RangeSort => w.bounds # None,
         st = "fetch" => u \in UpTasks(cur),
         Complete(w, st, u)
  PROVE  IInv'
<1> DEFINE v == [w EXCEPT !.st = st, !.lost = u]
<1> USE DEF IInv, Complete, lineage, calls
<1>1. w \in wave /\ w \in Completion /\ pc = "await" /\ cur \in Stages
  BY DEF TypeOK, ControlInv
<1>2. /\ v \in Completion /\ v.part = w.part /\ v.attempt = w.attempt
      /\ v.up = w.up /\ v.bounds = w.bounds /\ v.st = st /\ v.lost = u
  BY <1>1 DEF Completion
<1>3. wave' = (wave \ {w}) \cup {v}
  OBVIOUS
<1> HIDE DEF v
<1>4. TypeOK'
  BY <1>2, <1>3 DEF TypeOK
<1>5. ControlInv' /\ BoundsInv' /\ EarlierDone'
  BY DEF ControlInv, BoundsInv, EarlierDone, WaveValid, Accepted
<1>6. CursorInv'
  BY SMTT(30), <1>1, <1>2, <1>3 DEF CursorInv, WaveValid, Accepted
<1>7. WaveInv'
  <2>1. WaveValid /\ \A x, y \in wave : x.part = y.part => x = y
    BY <1>1 DEF WaveInv, WaveValid
  <2>2. \A x, y \in wave' : x.part = y.part => x = y
    BY SMTT(30), <2>1, <1>1, <1>2, <1>3
  <2>3. \A x \in wave' :
          /\ x.part \in Parts(cur)
          /\ ~Accepted(<<cur, x.part>>)
          /\ \A m \in UpTasks(cur) : x.up[m] = accepted[m].attempt
          /\ x.bounds = bounds[cur]
    BY SMTT(30), <2>1, <1>1, <1>2, <1>3 DEF WaveInv
  <2>4. \A x \in wave' :
          /\ x.st = "ok" /\ cur \in RangeSort => x.bounds # None
          /\ x.st = "fetch" => x.lost \in UpTasks(cur)
    BY <2>1, <1>1, <1>2, <1>3 DEF WaveInv
  <2> QED BY <2>2, <2>3, <2>4, <1>1 DEF WaveInv, WaveValid, Accepted
<1>8. CallInv' /\ WaveOfCur'
  BY <1>1, <1>2, <1>3 DEF CallInv, WaveOfCur
<1>9. CallFresh' /\ AttemptsFresh'
  BY <1>1, <1>2, <1>3 DEF CallFresh, AttemptsFresh
<1>10. LineageConsistent' /\ SharedBounds' /\ SuccessComplete' /\ NoStaleFailure'
  BY SameLineage
<1> QED BY <1>4, <1>5, <1>6, <1>7, <1>8, <1>9, <1>10

(* The answer of a worker preserves the invariant. *)
LEMMA WorkersStep == ASSUME IInv, Workers PROVE IInv'
<1>1. ASSUME NEW w \in wave, TaskOK(w) PROVE IInv'
  BY <1>1, CompleteStep DEF TaskOK
<1>2. ASSUME NEW w \in wave, TaskError(w) PROVE IInv'
  BY <1>2, CompleteStep DEF TaskError
<1>3. ASSUME NEW w \in wave, NEW u \in Tasks, TaskFetchError(w, u) PROVE IInv'
  BY <1>3, CompleteStep DEF TaskFetchError
<1> QED BY <1>1, <1>2, <1>3 DEF Workers

(* WaveAnswered preserves the invariant. *)
LEMMA WaveAnsweredStep == ASSUME IInv, WaveAnswered PROVE IInv'
<1> USE DEF IInv, WaveAnswered, lineage, place, calls
<1>1. TypeOK' /\ ControlInv' /\ BoundsInv'
  BY DEF TypeOK, ControlInv, BoundsInv
<1>2. EarlierDone' /\ CursorInv'
  BY DEF EarlierDone, CursorInv, WaveValid, Accepted
<1>3. WaveInv' /\ CallInv' /\ WaveOfCur'
  BY DEF WaveInv, CallInv, WaveOfCur, WaveValid, Accepted
<1>4. CallFresh' /\ AttemptsFresh'
  BY DEF CallFresh, AttemptsFresh
<1>5. LineageConsistent' /\ SharedBounds' /\ SuccessComplete' /\ NoStaleFailure'
  BY SameLineage
<1> QED BY <1>1, <1>2, <1>3, <1>4, <1>5

(* WaveDone preserves the invariant. *)
LEMMA WaveDoneStep == ASSUME IInv, WaveDone PROVE IInv'
<1> USE DEF IInv, WaveDone, lineage, place, calls
<1>1. TypeOK' /\ BoundsInv'
  BY DEF TypeOK, BoundsInv
<1>2. ControlInv'
  BY DEF ControlInv
<1>3. EarlierDone' /\ CursorInv'
  BY DEF EarlierDone, CursorInv, WaveValid, Accepted
<1>4. WaveInv' /\ CallInv' /\ WaveOfCur'
  BY DEF WaveInv, CallInv, WaveOfCur, WaveValid
<1>5. CallFresh' /\ AttemptsFresh'
  BY DEF CallFresh, AttemptsFresh
<1>6. LineageConsistent' /\ SharedBounds' /\ SuccessComplete' /\ NoStaleFailure'
  BY SameLineage
<1> QED BY <1>1, <1>2, <1>3, <1>4, <1>5, <1>6

(* FetchFailed preserves the invariant. *)
LEMMA FetchFailedStep == ASSUME IInv, NEW w \in wave, FetchFailed(w) PROVE IInv'
<1>1. pc = "process" /\ w.st = "fetch"
  BY DEF FetchFailed
<1>2. w.lost \in UpTasks(cur) /\ w.up[w.lost] = accepted[w.lost].attempt
  BY <1>1 DEF IInv, WaveInv, WaveValid
<1>3. w.lost \in Tasks /\ w.lost[1] < cur
  BY <1>1, <1>2, TaskLemma, PlanAssumption DEF UpTasks, IInv, ControlInv
<1>4. Accepted(w.lost)
  BY <1>1, <1>3 DEF IInv, EarlierDone, WaveValid
<1> QED BY <1>1, <1>2, <1>3, <1>4, RepairAndRestartLemma DEF FetchFailed

(* Cancelling the context, and noticing it, preserve the invariant. *)
LEMMA CancelStep == ASSUME IInv, Cancel \/ SeeCancel PROVE IInv'
<1>1. CASE Cancel
  <2> USE <1>1 DEF IInv, Cancel, lineage, place, loop, calls
  <2>1. cancelled' \in BOOLEAN
    OBVIOUS
  <2>2. TypeOK' /\ ControlInv' /\ BoundsInv'
    BY <2>1 DEF TypeOK, ControlInv, BoundsInv
  <2>3. EarlierDone' /\ CursorInv'
    BY DEF EarlierDone, CursorInv, WaveValid, Accepted
  <2>4. WaveInv' /\ CallInv' /\ WaveOfCur'
    BY DEF WaveInv, CallInv, WaveOfCur, WaveValid, Accepted, TaskOf
  <2>5. CallFresh' /\ AttemptsFresh'
    BY DEF CallFresh, AttemptsFresh
  <2>6. LineageConsistent' /\ SharedBounds' /\ SuccessComplete' /\ NoStaleFailure'
    BY SameLineage
  <2> QED BY <2>2, <2>3, <2>4, <2>5, <2>6
<1>2. CASE SeeCancel
  <2>1. "canceled" \in Outcomes \ {"running", "stale failure"}
    BY DEF Outcomes
  <2> QED BY <1>2, <2>1, ExitLemma DEF SeeCancel
<1> QED BY <1>1, <1>2

(* A stuttering step preserves the invariant. *)
LEMMA UnchangedStep == ASSUME IInv, UNCHANGED vars PROVE IInv'
<1> USE DEF IInv, vars, lineage, place, loop, calls
<1>1. TypeOK' /\ ControlInv' /\ BoundsInv'
  BY DEF TypeOK, ControlInv, BoundsInv
<1>2. EarlierDone' /\ CursorInv'
  BY DEF EarlierDone, CursorInv, WaveValid, Accepted
<1>3. WaveInv' /\ CallInv' /\ WaveOfCur'
  BY DEF WaveInv, CallInv, WaveOfCur, WaveValid, Accepted, TaskOf
<1>4. CallFresh' /\ AttemptsFresh'
  BY DEF CallFresh, AttemptsFresh
<1>5. LineageConsistent' /\ SharedBounds' /\ SuccessComplete' /\ NoStaleFailure'
  BY SameLineage
<1> QED BY <1>1, <1>2, <1>3, <1>4, <1>5

(* StartWave preserves the invariant. *)
LEMMA StartWaveStep ==
  ASSUME IInv, pc = "run", NEW W \in SUBSET Pending, StartWave(W) PROVE IInv'
<1>1. cur \in Stages /\ wave = {} /\ active = {} /\ before' = repairs'
  BY DEF IInv, ControlInv, StartWave
<1>2. \A p \in W : /\ p \in Parts(cur) /\ p \in Nat /\ <<cur, p>> \in Tasks
                   /\ p >= next /\ ~Accepted(<<cur, p>>)
  BY <1>1, TaskLemma DEF Pending
<1>3. Upstream(cur) \in Snapshot
  BY <1>1, ShapeLemma DEF IInv
<1>4. \A p \in W : /\ NewTask(p) \in Completion /\ NewTask(p).part = p
                   /\ NewTask(p).attempt = attempts[<<cur, p>>]
                   /\ NewTask(p).up = Upstream(cur)
                   /\ NewTask(p).bounds = bounds[cur] /\ NewTask(p).st = "running"
  BY <1>1, <1>2, <1>3 DEF IInv, NewTask, Completion, TypeOK
<1>5. wave' = {NewTask(p) : p \in W}
  BY DEF StartWave
<1>6. /\ attempts' \in [Tasks -> Nat]
      /\ \A k \in Tasks : attempts[k] <= attempts'[k]
      /\ \A p \in W : attempts[<<cur, p>>] < attempts'[<<cur, p>>]
  BY SMTT(30), <1>2 DEF IInv, StartWave, TypeOK
<1>7. UNCHANGED <<accepted, repairs, sampled, bounds, cur, left, tries, calls,
                  cancelled, outcome>> /\ pc' = "await"
  BY DEF StartWave
<1>8. PICK last \in W :
        /\ \A q \in W : q <= last
        /\ next' = IF W = Pending /\ Cardinality(W) < NumRunners
                   THEN NumPartitions[cur] ELSE last + 1
  BY DEF StartWave
<1>9. TypeOK'
  <2>1. next' \in Nat
    <3>1. last \in Nat
      BY <1>2
    <3>2. NumPartitions[cur] \in Nat
      BY <1>1, PlanAssumption
    <3> QED BY SMTT(30), <3>1, <3>2, <1>8
  <2>2. wave' \subseteq Completion
    BY <1>4, <1>5
  <2> QED BY <2>1, <2>2, <1>1, <1>6, <1>7 DEF IInv, TypeOK, calls
<1>10. ControlInv' /\ BoundsInv'
  BY SMTT(30), <1>1, <1>7 DEF IInv, ControlInv, BoundsInv, TypeOK, calls
<1>11. EarlierDone'
  BY <1>7 DEF IInv, EarlierDone, WaveValid, Accepted
<1>12. CursorInv'
  <2> SUFFICES ASSUME NEW p \in Parts(cur), p < next', ~Accepted(<<cur, p>>)
               PROVE  \E w \in wave' : w.part = p
    BY <1>7 DEF CursorInv, Accepted
  <2>1. p \in Nat /\ next \in Nat /\ p < NumPartitions[cur]
    BY SMTT(30), <1>1, TaskLemma, PlanAssumption DEF IInv, TypeOK, Parts
  <2>2. ~(p < next)
    BY <1>1 DEF IInv, CursorInv
  <2>3. p \in Pending
    BY SMTT(30), <2>1, <2>2 DEF Pending
  <2>4. p \in W
    <3>1. CASE W = Pending
      BY <3>1, <2>3
    <3>2. CASE next' = last + 1
      <4>1. last \in Nat
        BY <1>2
      <4>2. p < last => p \in W
        BY <2>3 DEF StartWave
      <4> QED BY SMTT(30), <3>2, <4>1, <4>2, <2>1
    <3> QED BY <3>1, <3>2, <1>8
  <2> QED BY <2>4, <1>4, <1>5
<1>13. WaveInv'
  <2> SUFFICES ASSUME NEW w \in wave'
               PROVE  /\ w.part \in Parts(cur)
                      /\ ~Accepted(<<cur, w.part>>)
                      /\ \A u \in UpTasks(cur) : w.up[u] = accepted[u].attempt
                      /\ w.bounds = bounds[cur]
                      /\ w.st = "running"
                      /\ \A v \in wave' : w.part = v.part => w = v
    BY <1>7 DEF WaveInv, Accepted
  <2>1. PICK p \in W : w = NewTask(p)
    BY <1>5
  <2>2. \A v \in wave' : w.part = v.part => w = v
    BY <2>1, <1>4, <1>5
  <2>3. \A u \in UpTasks(cur) : w.up[u] = accepted[u].attempt
    BY <2>1, <1>4 DEF Upstream, UpTasks
  <2> QED BY <2>1, <2>2, <2>3, <1>2, <1>4
<1>14. CallInv' /\ WaveOfCur'
  <2>1. \A w \in wave' : w.part \in Parts(cur)
    <3>1. \A p \in W : NewTask(p).part \in Parts(cur)
      BY <1>2, <1>4
    <3> QED BY <3>1, <1>5
  <2>2. CallInv'
    BY <1>7 DEF CallInv
  <2> QED BY <2>1, <2>2, <1>1, <1>7 DEF WaveOfCur
<1>15. CallFresh'
  <2>1. \A s \in Stages : \A u \in Tasks : call[s].up[u] \in Int
    BY SMTT(30) DEF IInv, TypeOK, Call, Snapshot, Attempt, None
  <2>2. \A u \in Tasks : attempts[u] \in Nat /\ attempts'[u] \in Nat
    BY <1>6 DEF IInv, TypeOK
  <2>3. \A s \in Stages : \A u \in Tasks : call[s].up[u] < attempts[u]
    BY DEF IInv, CallFresh
  <2>4. \A s \in Stages : \A u \in Tasks : call[s].up[u] < attempts'[u]
    BY SMTT(30), <2>1, <2>2, <2>3, <1>6
  <2>5. call' = call
    BY <1>7 DEF calls
  <2> QED BY <2>4, <2>5 DEF CallFresh
<1>16. AttemptsFresh'
  <2>1. \A k \in Tasks : /\ accepted[k].attempt \in Int
                         /\ \A u \in Tasks : accepted[k].up[u] \in Int
    BY SMTT(30) DEF IInv, TypeOK, Result, Snapshot, Attempt, None
  <2>2. \A k \in Tasks : /\ accepted'[k].attempt < attempts'[k]
                         /\ \A u \in Tasks : accepted'[k].up[u] < attempts'[u]
    BY SMTT(30), <2>1, <1>6, <1>7 DEF IInv, AttemptsFresh, TypeOK
  <2>3. \A u \in Tasks : Upstream(cur)[u] < attempts'[u]
    BY SMTT(30), <2>1, <1>6 DEF IInv, AttemptsFresh, TypeOK, Upstream, None
  <2>4. \A w \in wave' : /\ w.attempt < attempts'[<<cur, w.part>>]
                         /\ \A u \in Tasks : w.up[u] < attempts'[u]
    <3> SUFFICES ASSUME NEW w \in wave'
                 PROVE  /\ w.attempt < attempts'[<<cur, w.part>>]
                        /\ \A u \in Tasks : w.up[u] < attempts'[u]
      OBVIOUS
    <3>1. PICK p \in W : w = NewTask(p)
      BY <1>5
    <3>2. w.part = p /\ w.attempt = attempts[<<cur, p>>] /\ w.up = Upstream(cur)
      BY <3>1, <1>4
    <3> QED BY <3>2, <2>3, <1>6
  <2> QED BY <2>2, <2>4, <1>7 DEF AttemptsFresh
<1>17. LineageConsistent' /\ SharedBounds' /\ SuccessComplete' /\ NoStaleFailure'
  BY <1>7 DEF IInv, LineageConsistent, SharedBounds, SuccessComplete,
              NoStaleFailure, Accepted
<1> QED BY <1>9, <1>10, <1>11, <1>12, <1>13, <1>14, <1>15, <1>16, <1>17 DEF IInv

(* Accepting a result that was missing and stands on the accepted parents  *)
(* and the current boundaries keeps the lineage in order.                  *)
LEMMA AcceptLemma ==
  ASSUME TypeOK, LineageConsistent, SharedBounds,
         NEW k \in Tasks, ~Accepted(k), NEW r \in Result,
         accepted' = [accepted EXCEPT ![k] = r], UNCHANGED bounds,
         \A u \in UpTasks(k[1]) : Accepted(u) /\ r.up[u] = accepted[u].attempt,
         r.bounds = bounds[k[1]], k[1] \in RangeSort => r.bounds # None
  PROVE  /\ accepted' \in [Tasks -> Result]
         /\ LineageConsistent' /\ SharedBounds'
         /\ \A j \in Tasks : j # k => accepted'[j] = accepted[j]
         /\ accepted'[k] = r
<1>1. /\ accepted' \in [Tasks -> Result] /\ accepted'[k] = r
      /\ \A j \in Tasks : j # k => accepted'[j] = accepted[j]
  BY DEF TypeOK
<1>2. LineageConsistent'
  <2> SUFFICES ASSUME NEW j \in Tasks, Accepted(j)', NEW u \in UpTasks(j[1])
               PROVE  Accepted(u)' /\ accepted'[j].up[u] = accepted'[u].attempt
    BY DEF LineageConsistent
  <2>1. u \in Tasks
    BY DEF UpTasks
  <2>2. Accepted(u) /\ accepted'[j].up[u] = accepted[u].attempt
    BY <1>1 DEF LineageConsistent, Accepted
  <2>3. u # k
    BY <2>2
  <2> QED BY <1>1, <2>1, <2>2, <2>3 DEF Accepted
<1>3. SharedBounds'
  BY <1>1 DEF SharedBounds, Accepted
<1> QED BY <1>1, <1>2, <1>3
(* AcceptCompletion preserves the invariant. *)
LEMMA AcceptCompletionStep ==
  ASSUME IInv, NEW w \in wave, AcceptCompletion(w) PROVE IInv'
<1> DEFINE k == <<cur, w.part>>
<1>1. /\ pc = "process" /\ WaveValid /\ w.st = "ok" /\ cur \in Stages /\ active = {}
      /\ w \in Completion
  BY DEF AcceptCompletion, WaveValid, IInv, ControlInv, TypeOK
<1>2. /\ w.part \in Parts(cur) /\ ~Accepted(k)
      /\ \A u \in UpTasks(cur) : w.up[u] = accepted[u].attempt
      /\ w.bounds = bounds[cur] /\ (cur \in RangeSort => w.bounds # None)
      /\ \A v \in wave : w.part = v.part => w = v
  BY <1>1 DEF IInv, WaveInv
<1>3. k \in Tasks /\ k[1] = cur
  BY <1>1, <1>2, TaskLemma
<1>4. \A u \in UpTasks(cur) : Accepted(u)
  BY <1>1, TaskLemma, PlanAssumption DEF UpTasks, IInv, EarlierDone
<1>5. ResultOf(w) \in Result
  BY <1>1 DEF ResultOf, Result, Completion, Attempt
<1>6. ResultOf(w).up = w.up /\ ResultOf(w).bounds = w.bounds
      /\ ResultOf(w).attempt = w.attempt /\ w.attempt # None
  BY <1>1, ShapeLemma DEF ResultOf, Completion
<1>7. /\ accepted' = [accepted EXCEPT ![k] = ResultOf(w)]
      /\ wave' = wave \ {w}
      /\ UNCHANGED <<attempts, repairs, sampled, bounds, cur, next, before, left,
                     tries, calls, cancelled>>
      /\ UNCHANGED <<pc, outcome>> \/ (pc' = "returned" /\ outcome' = "callback")
  BY DEF AcceptCompletion
<1> HIDE DEF k
<1>8. /\ accepted' \in [Tasks -> Result]
      /\ LineageConsistent' /\ SharedBounds'
      /\ \A j \in Tasks : j # k => accepted'[j] = accepted[j]
      /\ accepted'[k] = ResultOf(w)
  BY <1>2, <1>3, <1>4, <1>5, <1>6, <1>7, AcceptLemma DEF IInv
<1>9. \A j \in Tasks : Accepted(j)' <=> Accepted(j) \/ j = k
  BY <1>6, <1>8 DEF Accepted
<1>10. TypeOK'
  BY <1>7, <1>8 DEF IInv, TypeOK, Outcomes, calls
<1>11. ControlInv' /\ BoundsInv'
  BY <1>1, <1>7 DEF IInv, ControlInv, BoundsInv, calls
<1>12. EarlierDone'
  BY <1>1, <1>7, <1>9 DEF IInv, EarlierDone, WaveValid
<1>13. CursorInv'
  <2> SUFFICES ASSUME NEW p \in Parts(cur), p < next, ~Accepted(<<cur, p>>)'
               PROVE  \E v \in wave' : v.part = p
    BY <1>7 DEF CursorInv
  <2>1. <<cur, p>> \in Tasks
    BY <1>1, TaskLemma
  <2>2. ~Accepted(<<cur, p>>) /\ <<cur, p>> # k
    BY <2>1, <1>7, <1>9 DEF Accepted
  <2>3. PICK v \in wave : v.part = p
    BY <1>1, <2>2 DEF IInv, CursorInv
  <2> QED BY <2>2, <2>3, <1>7 DEF k
<1>14. WaveInv'
  <2> SUFFICES ASSUME NEW v \in wave'
               PROVE  /\ v.part \in Parts(cur)
                      /\ ~Accepted(<<cur, v.part>>)'
                      /\ \A u \in UpTasks(cur) : v.up[u] = accepted'[u].attempt
                      /\ v.bounds = bounds[cur]
                      /\ v.st = "ok" /\ cur \in RangeSort => v.bounds # None
                      /\ v.st = "fetch" => v.lost \in UpTasks(cur)
                      /\ \A x \in wave' : v.part = x.part => v = x
    BY <1>1, <1>7 DEF WaveInv, WaveValid
  <2>1. v \in wave /\ v # w /\ v.part # w.part
    BY <1>2, <1>7
  <2>2. /\ v.part \in Parts(cur)
        /\ ~Accepted(<<cur, v.part>>)
        /\ \A u \in UpTasks(cur) : v.up[u] = accepted[u].attempt
        /\ v.bounds = bounds[cur]
        /\ v.st = "ok" /\ cur \in RangeSort => v.bounds # None
        /\ v.st = "fetch" => v.lost \in UpTasks(cur)
        /\ \A x \in wave : v.part = x.part => v = x
    BY <1>1, <2>1 DEF IInv, WaveInv
  <2>3. ~Accepted(<<cur, v.part>>)'
    <3>1. <<cur, v.part>> \in Tasks /\ <<cur, v.part>> # k
      BY <2>1, <2>2, <1>1, TaskLemma DEF k
    <3> QED BY <3>1, <2>2, <1>7, <1>8 DEF Accepted
  <2>4. \A u \in UpTasks(cur) : accepted'[u] = accepted[u]
    BY <1>2, <1>4, <1>8 DEF UpTasks
  <2> QED BY <2>2, <2>3, <2>4, <1>7
<1>15. CallInv' /\ WaveOfCur'
  BY <1>1, <1>7 DEF IInv, CallInv, WaveOfCur
<1>16. CallFresh'
  BY <1>7 DEF IInv, CallFresh, calls
<1>17. AttemptsFresh'
  <2>1. w.attempt < attempts[k] /\ \A u \in Tasks : w.up[u] < attempts[u]
    BY DEF IInv, AttemptsFresh, k
  <2> QED BY <2>1, <1>6, <1>7, <1>8 DEF IInv, AttemptsFresh
<1>18. SuccessComplete' /\ NoStaleFailure'
  BY <1>1, <1>7 DEF IInv, ControlInv, SuccessComplete, NoStaleFailure
<1> QED BY <1>8, <1>10, <1>11, <1>12, <1>13, <1>14, <1>15, <1>16, <1>17, <1>18 DEF IInv

(* RetryCompletion preserves the invariant. *)
LEMMA RetryCompletionStep ==
  ASSUME IInv, NEW w \in wave, RetryCompletion(w) PROVE IInv'
<1>1. CASE Exit("retries exhausted") \/ Exit("canceled")
  <2>1. {"retries exhausted", "canceled"} \subseteq Outcomes \ {"running", "stale failure"}
    BY DEF Outcomes
  <2> QED BY <1>1, <2>1, ExitLemma
<1>2. CASE /\ active' = {cur}
           /\ call' = [call EXCEPT ![cur] = [part |-> w.part, failures |-> 1,
                                             before |-> repairs, up |-> NoUp]]
           /\ wave' = wave \ {w}
           /\ pc' = "retry"
           /\ UNCHANGED <<lineage, cur, next, before, left, tries, cancelled,
                          outcome>>
  <2> DEFINE c == [part |-> w.part, failures |-> 1, before |-> repairs, up |-> NoUp]
  <2>1. /\ pc = "process" /\ WaveValid /\ cur \in Stages /\ before = repairs
        /\ w \in Completion
    BY DEF RetryCompletion, WaveValid, IInv, ControlInv, TypeOK
  <2>2. /\ w.part \in Parts(cur) /\ ~Accepted(<<cur, w.part>>)
        /\ \A v \in wave : w.part = v.part => w = v
    BY <2>1 DEF IInv, WaveInv
  <2>3. c \in Call /\ c.part = w.part /\ c.before = repairs /\ c.up = NoUp
    BY <2>1, ShapeLemma DEF Call, Completion, IInv, TypeOK
  <2>4. /\ call' \in [Stages -> Call] /\ call'[cur] = c
        /\ \A s \in Stages : s # cur => call'[s] = call[s]
    BY <1>2, <2>1, <2>3 DEF IInv, TypeOK
  <2> HIDE DEF c
  <2> USE <1>2 DEF lineage
  <2>5. TypeOK'
    BY <2>1, <2>4 DEF IInv, TypeOK
  <2>6. ControlInv' /\ BoundsInv'
    BY SMTT(30), <2>1 DEF IInv, ControlInv, BoundsInv, TypeOK, Stages
  <2>7. EarlierDone'
    BY <2>1 DEF IInv, EarlierDone, WaveValid, Accepted
  <2>8. CursorInv'
    BY <2>1, <2>3, <2>4 DEF IInv, CursorInv, WaveValid, Accepted
  <2>9. WaveInv'
    <3>1. \A x \in wave' : x \in wave /\ x.part # w.part
      BY <2>2
    <3>2. \A x \in wave :
            /\ x.part \in Parts(cur)
            /\ ~(accepted[<<cur, x.part>>].attempt # None)
            /\ \A u \in UpTasks(cur) : x.up[u] = accepted[u].attempt
            /\ x.bounds = bounds[cur]
            /\ x.st = "ok" /\ cur \in RangeSort => x.bounds # None
            /\ x.st = "fetch" => x.lost \in UpTasks(cur)
            /\ \A v \in wave : x.part = v.part => x = v
      BY <2>1 DEF IInv, WaveInv, Accepted
    <3>3. call'[cur].part = w.part
      BY <2>3, <2>4
    <3>4. accepted' = accepted /\ bounds' = bounds /\ cur' = cur
      OBVIOUS
    <3>5. ASSUME NEW x \in wave'
          PROVE  /\ x.part \in Parts(cur')
                 /\ ~(accepted'[<<cur', x.part>>].attempt # None)
                 /\ \A u \in UpTasks(cur') : x.up[u] = accepted'[u].attempt
                 /\ x.bounds = bounds'[cur']
                 /\ x.st = "ok" /\ cur' \in RangeSort => x.bounds # None
                 /\ x.st = "fetch" => x.lost \in UpTasks(cur')
                 /\ \A v \in wave' : x.part = v.part => x = v
                 /\ x.part # call'[cur'].part
      <4>1. x \in wave /\ x.part # w.part /\ \A v \in wave' : v \in wave
        BY <3>1, <3>5
      <4>2. x.part # call'[cur'].part
        BY <3>3, <3>4, <4>1
      <4>3. \A v \in wave' : x.part = v.part => x = v
        BY <3>2, <4>1
      <4> QED BY <3>2, <3>4, <4>1, <4>2, <4>3
    <3> QED BY <3>5 DEF WaveInv, Accepted
  <2>10. CallInv'
    <3>1. /\ call'[cur].part = w.part /\ call'[cur].before = repairs
          /\ call'[cur].up = NoUp
      BY <2>3, <2>4
    <3>2. \A u \in UpTasks(cur) : call'[cur].up[u] = None
      BY <3>1 DEF NoUp, UpTasks
    <3>3. repairs' = repairs /\ accepted' = accepted /\ cur' = cur /\ active' = {cur}
      OBVIOUS
    <3>4. repairs' \in Nat
      BY <2>5 DEF TypeOK
    <3>5. ~(accepted'[<<cur, call'[cur].part>>].attempt # None)
      BY <2>2, <3>1, <3>3 DEF Accepted
    <3>6. call'[cur].part \in Parts(cur) /\ call'[cur].before <= repairs'
      BY SMTT(30), <2>2, <3>1, <3>3, <3>4
    <3> QED BY <3>2, <3>3, <3>5, <3>6 DEF CallInv, Accepted, TaskOf
  <2>11. WaveOfCur'
    BY DEF IInv, WaveOfCur
  <2>12. CallFresh'
    BY SMTT(30), <2>1, <2>3, <2>4 DEF IInv, CallFresh, NoUp, None, TypeOK
  <2>13. AttemptsFresh'
    BY DEF IInv, AttemptsFresh
  <2>14. LineageConsistent' /\ SharedBounds' /\ SuccessComplete' /\ NoStaleFailure'
    BY SameLineage
  <2> QED BY <2>5, <2>6, <2>7, <2>8, <2>9, <2>10, <2>11, <2>12, <2>13, <2>14 DEF IInv
<1> QED BY <1>1, <1>2 DEF RetryCompletion

-----------------------------------------------------------------------------
(* ensureRetry *)

(* The running activation of ensureRetry is the lowest one, at or below the current stage. *)
LEMMA RunningLemma ==
  ASSUME IInv, NEW s \in Stages, Running(s)
  PROVE  /\ pc = "retry" /\ s \in active /\ (\A t \in active : s <= t)
         /\ cur \in active /\ cur \in Stages /\ \A t \in active : t <= cur
         /\ call[s].part \in Parts(s) /\ call[s] \in Call
         /\ TaskOf(s) = <<s, call[s].part>> /\ TaskOf(s) \in Tasks
         /\ ~Accepted(TaskOf(s))
<1>1. pc = "retry" /\ s \in active /\ \A t \in active : s <= t
  BY DEF Running
<1>2. cur \in active /\ cur \in Stages /\ \A t \in active : t <= cur
  BY <1>1 DEF IInv, ControlInv
<1>3. call[s].part \in Parts(s) /\ call[s] \in Call /\ ~Accepted(TaskOf(s))
  BY <1>1 DEF IInv, CallInv, TypeOK
<1>4. TaskOf(s) = <<s, call[s].part>> /\ TaskOf(s) \in Tasks
  BY <1>3, TaskLemma DEF TaskOf
<1> QED BY <1>1, <1>2, <1>3, <1>4

(* Starting the loop of ensureRetry again touches only that activation. *)
LEMMA AgainLemma ==
  ASSUME TypeOK, NEW s \in Stages, NEW n \in Nat, repairs' \in Nat, Again(s, n)
  PROVE  /\ call' \in [Stages -> Call]
         /\ \A t \in Stages : t # s => call'[t] = call[t]
         /\ call'[s].part = call[s].part /\ call'[s].before = repairs'
         /\ call'[s].up = NoUp
BY ShapeLemma DEF Again, TypeOK, Call

(* Dispatching a task raises its attempt counter and no other. *)
LEMMA DispatchLemma ==
  ASSUME TypeOK, NEW k \in Tasks, Dispatch(k)
  PROVE  /\ attempts' \in [Tasks -> Nat]
         /\ \A j \in Tasks : attempts[j] <= attempts'[j]
         /\ attempts[k] < attempts'[k]
BY SMTT(30) DEF Dispatch, TypeOK

(* Attempt numbers that were dispatched stay below the counters. *)
LEMMA FreshLemma ==
  ASSUME IInv, attempts' \in [Tasks -> Nat],
         \A j \in Tasks : attempts[j] <= attempts'[j]
  PROVE  /\ \A k \in Tasks : /\ accepted[k].attempt < attempts'[k]
                             /\ \A u \in Tasks : accepted[k].up[u] < attempts'[u]
         /\ \A w \in wave : /\ w.attempt < attempts'[<<cur, w.part>>]
                            /\ \A u \in Tasks : w.up[u] < attempts'[u]
         /\ \A s \in Stages : \A u \in Tasks : call[s].up[u] < attempts'[u]
<1>1. \A k \in Tasks : /\ accepted[k].attempt \in Int
                       /\ \A u \in Tasks : accepted[k].up[u] \in Int
  BY SMTT(30) DEF IInv, TypeOK, Result, Snapshot, Attempt, None
<1>2. \A w \in wave : w.attempt \in Int /\ \A u \in Tasks : w.up[u] \in Int
  BY SMTT(30) DEF IInv, TypeOK, Completion, Snapshot, Attempt, None
<1>3. \A s \in Stages : \A u \in Tasks : call[s].up[u] \in Int
  BY SMTT(30) DEF IInv, TypeOK, Call, Snapshot, Attempt, None
<1>4. \A k \in Tasks : attempts[k] \in Int /\ attempts'[k] \in Int
  BY SMTT(30) DEF IInv, TypeOK
<1>5. \A w \in wave : <<cur, w.part>> \in Tasks
  BY TaskLemma DEF IInv, WaveOfCur
<1>6. \A k \in Tasks : /\ accepted[k].attempt < attempts'[k]
                       /\ \A u \in Tasks : accepted[k].up[u] < attempts'[u]
  BY SMTT(30), <1>1, <1>4 DEF IInv, AttemptsFresh
<1>7. \A w \in wave : /\ w.attempt < attempts'[<<cur, w.part>>]
                      /\ \A u \in Tasks : w.up[u] < attempts'[u]
  BY SMTT(30), <1>2, <1>4, <1>5 DEF IInv, AttemptsFresh
<1>8. \A s \in Stages : \A u \in Tasks : call[s].up[u] < attempts'[u]
  BY SMTT(30), <1>3, <1>4 DEF IInv, CallFresh
<1> QED BY <1>6, <1>7, <1>8

(* CollectParent preserves the invariant. *)
LEMMA CollectParentStep ==
  ASSUME IInv, NEW s \in Stages, NEW u \in Tasks, CollectParent(s, u) PROVE IInv'
<1>1. /\ Running(s) /\ u \in UpTasks(s) /\ Accepted(u)
      /\ call' = [call EXCEPT ![s].up[u] = accepted[u].attempt]
      /\ UNCHANGED <<lineage, loop, active, cancelled, outcome>>
  BY DEF CollectParent
<1>2. /\ pc = "retry" /\ s \in active /\ cur \in active /\ cur \in Stages
      /\ call[s] \in Call
  BY <1>1, RunningLemma
<1>3. accepted[u].attempt \in Attempt
  BY DEF IInv, TypeOK, Result
<1>4. /\ call' \in [Stages -> Call]
      /\ \A t \in Stages : /\ call'[t].part = call[t].part
                           /\ call'[t].before = call[t].before
      /\ \A t \in Stages : t # s => call'[t] = call[t]
      /\ call'[s].up = [call[s].up EXCEPT ![u] = accepted[u].attempt]
  BY <1>1, <1>2, <1>3 DEF IInv, TypeOK, Call, Snapshot
<1>5. \A t \in Stages : \A v \in Tasks :
        call'[t].up[v] = call[t].up[v] \/ (v = u /\ call'[t].up[v] = accepted[u].attempt)
  BY SMTT(30), <1>2, <1>4 DEF Call, Snapshot
<1> USE <1>1 DEF lineage, loop, place
<1>6. TypeOK'
  BY <1>4 DEF IInv, TypeOK
<1>7. ControlInv' /\ BoundsInv' /\ WaveOfCur'
  BY DEF IInv, ControlInv, BoundsInv, WaveOfCur
<1>8. EarlierDone'
  BY DEF IInv, EarlierDone, WaveValid, Accepted
<1>9. CursorInv'
  BY <1>2, <1>4 DEF IInv, CursorInv, WaveValid, Accepted
<1>10. WaveInv'
  BY SMTT(30), <1>2, <1>4 DEF IInv, WaveInv, WaveValid, Accepted
<1>11. CallInv'
  <2> SUFFICES ASSUME NEW t \in active
               PROVE  /\ call'[t].part \in Parts(t)
                      /\ ~Accepted(<<t, call'[t].part>>)
                      /\ call'[t].before <= repairs
                      /\ call'[t].before = repairs =>
                           \A v \in UpTasks(t) : call'[t].up[v] # None =>
                             call'[t].up[v] = accepted[v].attempt
    BY SMTT(30) DEF CallInv, Accepted, TaskOf
  <2>1. t \in Stages
    BY DEF IInv, TypeOK
  <2> QED BY SMTT(30), <1>2, <1>4, <1>5, <2>1 DEF IInv, CallInv, TaskOf, UpTasks
<1>12. CallFresh'
  BY <1>5 DEF IInv, CallFresh, AttemptsFresh
<1>13. AttemptsFresh'
  BY DEF IInv, AttemptsFresh
<1>14. LineageConsistent' /\ SharedBounds' /\ SuccessComplete' /\ NoStaleFailure'
  BY SameLineage
<1> QED BY <1>6, <1>7, <1>8, <1>9, <1>10, <1>11, <1>12, <1>13, <1>14 DEF IInv

(* EnsureParent preserves the invariant. *)
LEMMA EnsureParentStep ==
  ASSUME IInv, NEW s \in Stages, NEW u \in Tasks, EnsureParent(s, u) PROVE IInv'
<1> DEFINE c == [part |-> u[2], failures |-> 0, before |-> repairs, up |-> NoUp]
<1>1. /\ Running(s) /\ u \in UpTasks(s) /\ ~Accepted(u)
      /\ active' = active \cup {u[1]}
      /\ call' = [call EXCEPT ![u[1]] = c]
      /\ UNCHANGED <<lineage, loop, cancelled, outcome>>
  BY DEF EnsureParent
<1>2. /\ pc = "retry" /\ s \in active /\ cur \in active /\ cur \in Stages
      /\ (\A t \in active : s <= t) /\ \A t \in active : t <= cur
  BY <1>1, RunningLemma
<1>3. u[1] \in Stages /\ u[2] \in Parts(u[1]) /\ u[2] \in Nat /\ u = <<u[1], u[2]>>
  BY TaskLemma
<1>4. u[1] < s
  BY <1>1, PlanAssumption DEF UpTasks
<1>5. u[1] \notin active /\ u[1] <= cur
  BY SMTT(30), <1>2, <1>3, <1>4 DEF Stages
<1>6. c \in Call /\ c.part = u[2] /\ c.before = repairs /\ c.up = NoUp
  BY <1>3, ShapeLemma DEF Call, IInv, TypeOK
<1>7. /\ call' \in [Stages -> Call] /\ call'[u[1]] = c
      /\ \A t \in Stages : t # u[1] => call'[t] = call[t]
  BY <1>1, <1>3, <1>6 DEF IInv, TypeOK
<1> HIDE DEF c
<1> USE <1>1 DEF lineage, loop, place
<1>8. TypeOK'
  BY <1>3, <1>7 DEF IInv, TypeOK
<1>9. ControlInv' /\ BoundsInv' /\ WaveOfCur'
  BY <1>2, <1>5 DEF IInv, ControlInv, BoundsInv, WaveOfCur
<1>10. EarlierDone'
  BY DEF IInv, EarlierDone, WaveValid, Accepted
<1>11. call'[cur] = call[cur]
  BY <1>2, <1>5, <1>7
<1>12. CursorInv'
  BY <1>11 DEF IInv, CursorInv, WaveValid, Accepted
<1>13. WaveInv'
  BY <1>11 DEF IInv, WaveInv, WaveValid, Accepted
<1>14. CallInv'
  <2> SUFFICES ASSUME NEW t \in active'
               PROVE  /\ call'[t].part \in Parts(t)
                      /\ ~Accepted(<<t, call'[t].part>>)
                      /\ call'[t].before <= repairs
                      /\ call'[t].before = repairs =>
                           \A v \in UpTasks(t) : call'[t].up[v] # None =>
                             call'[t].up[v] = accepted[v].attempt
    BY SMTT(30) DEF CallInv, Accepted, TaskOf
  <2>1. CASE t = u[1]
    BY SMTT(30), <2>1, <1>1, <1>3, <1>6, <1>7 DEF NoUp, UpTasks, IInv, TypeOK
  <2>2. CASE t \in active
    <3>1. t \in Stages /\ call'[t] = call[t]
      BY <2>2, <1>5, <1>7 DEF IInv, TypeOK
    <3> QED BY <2>2, <3>1, <1>2 DEF IInv, CallInv, TaskOf
  <2> QED BY <2>1, <2>2
<1>15. CallFresh'
  BY SMTT(30), <1>6, <1>7 DEF IInv, CallFresh, NoUp, None, TypeOK
<1>16. AttemptsFresh'
  BY DEF IInv, AttemptsFresh
<1>17. LineageConsistent' /\ SharedBounds' /\ SuccessComplete' /\ NoStaleFailure'
  BY SameLineage
<1> QED BY <1>8, <1>9, <1>10, <1>12, <1>13, <1>14, <1>15, <1>16, <1>17 DEF IInv
(* The job ends inside ensureRetry. *)
LEMMA ReturnedLemma ==
  ASSUME IInv, pc' = "returned",
         outcome' \in Outcomes \ {"running", "ok", "stale failure"},
         UNCHANGED <<repairs, sampled, bounds, place, active, cancelled>>,
         accepted' \in [Tasks -> Result], LineageConsistent', SharedBounds',
         attempts' \in [Tasks -> Nat], AttemptsFresh',
         call' \in [Stages -> Call], CallFresh'
  PROVE  IInv'
<1> USE DEF place
<1>1. TypeOK'
  BY DEF IInv, TypeOK
<1>2. ControlInv' /\ BoundsInv' /\ WaveOfCur'
  BY DEF IInv, ControlInv, BoundsInv, WaveOfCur
<1>3. EarlierDone' /\ CursorInv' /\ WaveInv' /\ CallInv'
  BY DEF EarlierDone, CursorInv, WaveInv, CallInv, WaveValid
<1>4. SuccessComplete' /\ NoStaleFailure'
  BY DEF SuccessComplete, NoStaleFailure
<1> QED BY <1>1, <1>2, <1>3, <1>4 DEF IInv

(* The empty snapshot is a snapshot. *)
LEMMA NoUpLemma ==
  ASSUME attempts' \in [Tasks -> Nat]
  PROVE  \A u \in Tasks : NoUp[u] < attempts'[u]
BY SMTT(30) DEF NoUp, None

(* The loop of ensureRetry is entered anew without a repair. *)
LEMMA AgainStep ==
  ASSUME IInv, NEW s \in Stages, Running(s), NEW n \in Nat, Again(s, n),
         attempts' \in [Tasks -> Nat],
         \A j \in Tasks : attempts[j] <= attempts'[j],
         UNCHANGED <<accepted, repairs, sampled, bounds, place, active, cancelled>>,
         UNCHANGED <<pc, outcome>> \/ (pc' = "returned" /\ outcome' = "retries exhausted")
  PROVE  IInv'
<1>1. pc = "retry" /\ s \in active /\ cur \in active /\ cur \in Stages
  BY RunningLemma
<1>2. repairs' \in Nat
  BY DEF IInv, TypeOK
<1>3. /\ call' \in [Stages -> Call]
      /\ \A t \in Stages : t # s => call'[t] = call[t]
      /\ call'[s].part = call[s].part /\ call'[s].before = repairs'
      /\ call'[s].up = NoUp
  BY <1>2, AgainLemma DEF IInv
<1> USE DEF place
<1>4. CallFresh'
  <2>1. \A t \in Stages : \A u \in Tasks : call[t].up[u] < attempts'[u]
    BY FreshLemma
  <2>2. \A u \in Tasks : NoUp[u] < attempts'[u]
    BY NoUpLemma
  <2> QED BY <2>1, <2>2, <1>3 DEF CallFresh
<1>5. AttemptsFresh'
  BY FreshLemma DEF AttemptsFresh
<1>6. LineageConsistent' /\ SharedBounds'
  BY DEF IInv, LineageConsistent, SharedBounds, Accepted
<1>7. CASE pc' = "returned" /\ outcome' = "retries exhausted"
  <2>1. outcome' \in Outcomes \ {"running", "ok", "stale failure"}
    BY <1>7 DEF Outcomes
  <2>2. accepted' \in [Tasks -> Result]
    BY DEF IInv, TypeOK
  <2> QED BY <1>3, <1>4, <1>5, <1>6, <1>7, <2>1, <2>2, ReturnedLemma
<1>8. CASE UNCHANGED <<pc, outcome>>
  <2> USE <1>8
  <2>1. TypeOK'
    BY <1>3 DEF IInv, TypeOK
  <2>2. ControlInv' /\ BoundsInv' /\ WaveOfCur'
    BY DEF IInv, ControlInv, BoundsInv, WaveOfCur
  <2>3. call'[cur].part = call[cur].part
    BY <1>1, <1>3
  <2>4. EarlierDone' /\ CursorInv'
    BY <2>3 DEF IInv, EarlierDone, CursorInv, WaveValid, Accepted
  <2>5. WaveInv'
    BY <2>3 DEF IInv, WaveInv, WaveValid, Accepted
  <2>6. CallInv'
    <3> SUFFICES ASSUME NEW t \in active
                 PROVE  /\ call'[t].part \in Parts(t)
                        /\ ~Accepted(<<t, call'[t].part>>)
                        /\ call'[t].before <= repairs
                        /\ call'[t].before = repairs =>
                             \A v \in UpTasks(t) : call'[t].up[v] # None =>
                               call'[t].up[v] = accepted[v].attempt
      BY DEF CallInv, Accepted, TaskOf
    <3>1. CASE t = s
      BY SMTT(30), <3>1, <1>1, <1>2, <1>3 DEF IInv, CallInv, TaskOf, NoUp, UpTasks
    <3>2. CASE t # s
      <4>1. t \in Stages /\ call'[t] = call[t]
        BY <3>2, <1>3 DEF IInv, TypeOK
      <4> QED BY <4>1, <1>1 DEF IInv, CallInv, TaskOf
    <3> QED BY <3>1, <3>2
  <2>7. SuccessComplete' /\ NoStaleFailure'
    BY DEF IInv, SuccessComplete, NoStaleFailure, Accepted
  <2> QED BY <1>4, <1>5, <1>6, <2>1, <2>2, <2>4, <2>5, <2>6, <2>7 DEF IInv
<1> QED BY <1>7, <1>8

(* RebuildSnapshot preserves the invariant. *)
LEMMA RebuildSnapshotStep ==
  ASSUME IInv, NEW s \in Stages, RebuildSnapshot(s) PROVE IInv'
<1>1. /\ Running(s) /\ Again(s, call[s].failures)
      /\ UNCHANGED <<accepted, attempts, repairs, sampled, bounds, loop, active,
                     cancelled, outcome>>
  BY DEF RebuildSnapshot
<1>2. call[s].failures \in Nat
  BY DEF IInv, TypeOK, Call
<1>3. attempts' \in [Tasks -> Nat] /\ \A j \in Tasks : attempts[j] <= attempts'[j]
  BY SMTT(30), <1>1 DEF IInv, TypeOK
<1> QED BY <1>1, <1>2, <1>3, AgainStep DEF loop

(* RetryError preserves the invariant. *)
LEMMA RetryErrorStep == ASSUME IInv, NEW s \in Stages, RetryError(s) PROVE IInv'
<1>1. /\ Running(s) /\ Dispatch(TaskOf(s)) /\ Again(s, call[s].failures + 1)
      /\ UNCHANGED <<accepted, repairs, sampled, bounds, place, active, cancelled>>
      /\ UNCHANGED <<pc, outcome>> \/ (pc' = "returned" /\ outcome' = "retries exhausted")
  BY DEF RetryError, Ready
<1>2. call[s].failures + 1 \in Nat
  BY SMTT(30) DEF IInv, TypeOK, Call
<1>3. attempts' \in [Tasks -> Nat] /\ \A j \in Tasks : attempts[j] <= attempts'[j]
  BY <1>1, RunningLemma, DispatchLemma DEF IInv
<1> QED BY <1>1, <1>2, <1>3, AgainStep

(* RetryNoWorkers preserves the invariant. *)
LEMMA RetryNoWorkersStep ==
  ASSUME IInv, NEW s \in Stages, RetryNoWorkers(s) PROVE IInv'
<1>1. /\ Running(s) /\ Dispatch(TaskOf(s)) /\ pc' = "returned"
      /\ outcome' = "no workers"
      /\ UNCHANGED <<accepted, repairs, sampled, bounds, place, calls, cancelled>>
  BY DEF RetryNoWorkers, Ready
<1>2. attempts' \in [Tasks -> Nat] /\ \A j \in Tasks : attempts[j] <= attempts'[j]
  BY <1>1, RunningLemma, DispatchLemma DEF IInv
<1>3. CallFresh' /\ AttemptsFresh'
  BY <1>1, <1>2, FreshLemma DEF CallFresh, AttemptsFresh, calls, place
<1>4. LineageConsistent' /\ SharedBounds'
  BY <1>1 DEF IInv, LineageConsistent, SharedBounds, Accepted
<1>5. outcome' \in Outcomes \ {"running", "ok", "stale failure"}
  BY <1>1 DEF Outcomes
<1>6. accepted' \in [Tasks -> Result] /\ call' \in [Stages -> Call]
  BY <1>1 DEF IInv, TypeOK, calls
<1> QED BY <1>1, <1>2, <1>3, <1>4, <1>5, <1>6, ReturnedLemma DEF calls

(* RetryFetchError preserves the invariant. *)
LEMMA RetryFetchErrorStep ==
  ASSUME IInv, NEW s \in Stages, NEW u \in Tasks, RetryFetchError(s, u) PROVE IInv'
<1>1. /\ Running(s) /\ Collected(s) /\ call[s].before = repairs /\ u \in UpTasks(s)
      /\ Dispatch(TaskOf(s)) /\ outcome' = Refusal(u, call[s].up[u])
      /\ UNCHANGED <<place, active, cancelled>>
  BY DEF RetryFetchError, Ready
<1>2. pc = "retry" /\ s \in active /\ cur \in active /\ cur \in Stages
  BY <1>1, RunningLemma
<1>3. accepted[u].attempt = call[s].up[u] /\ Accepted(u)
  BY <1>1, <1>2 DEF IInv, CallInv, Collected, Accepted
<1>4. attempts' \in [Tasks -> Nat] /\ \A j \in Tasks : attempts[j] <= attempts'[j]
  BY <1>1, RunningLemma, DispatchLemma DEF IInv
<1> USE DEF place
<1>5. CASE outcome' # "running"
  <2>1. outcome' = "recovery limit"
    BY <1>1, <1>3, <1>5 DEF Refusal
  <2>2. pc' = "returned" /\ UNCHANGED <<accepted, repairs, sampled, bounds, call>>
    BY <1>5 DEF RetryFetchError
  <2>3. CallFresh' /\ AttemptsFresh'
    BY <1>1, <1>4, <2>2, FreshLemma DEF CallFresh, AttemptsFresh
  <2>4. LineageConsistent' /\ SharedBounds'
    BY <2>2 DEF IInv, LineageConsistent, SharedBounds, Accepted
  <2>5. outcome' \in Outcomes \ {"running", "ok", "stale failure"}
    BY <2>1 DEF Outcomes
  <2>6. accepted' \in [Tasks -> Result] /\ call' \in [Stages -> Call]
    BY <2>2 DEF IInv, TypeOK
  <2> QED BY <1>1, <1>4, <2>2, <2>3, <2>4, <2>5, <2>6, ReturnedLemma
<1>6. CASE outcome' = "running"
  <2>1. Invalidate(u) /\ Again(s, call[s].failures) /\ pc' = pc
    BY <1>6 DEF RetryFetchError
  <2>2. /\ accepted' \in [Tasks -> Result]
        /\ \A k \in Tasks : accepted'[k] = accepted[k] \/ accepted'[k] = Absent
        /\ repairs' = repairs + 1
        /\ sampled' \subseteq Stages /\ bounds' \in [Stages -> Attempt]
        /\ BoundsInv' /\ LineageConsistent' /\ SharedBounds'
    BY <2>1, InvalidateLemma DEF IInv
  <2>3. repairs \in Nat /\ repairs' \in Nat /\ call[s].failures \in Nat
    BY SMTT(30), <2>2 DEF IInv, TypeOK, Call
  <2>4. /\ call' \in [Stages -> Call]
        /\ \A t \in Stages : t # s => call'[t] = call[t]
        /\ call'[s].part = call[s].part /\ call'[s].before = repairs'
        /\ call'[s].up = NoUp
    BY <2>1, <2>3, AgainLemma DEF IInv
  <2>5. TypeOK'
    BY <1>1, <1>4, <1>6, <2>1, <2>2, <2>3, <2>4 DEF IInv, TypeOK, Outcomes
  <2>6. ControlInv' /\ before' < repairs'
    BY SMTT(30), <1>1, <1>2, <1>6, <2>1, <2>2, <2>3 DEF IInv, ControlInv, TypeOK
  <2>7. EarlierDone' /\ CursorInv' /\ WaveInv'
    <3>1. pc' = "retry"
      BY <1>2, <2>1
    <3>2. repairs' # before'
      BY SMTT(30), <2>5, <2>6 DEF TypeOK
    <3>3. ~WaveValid'
      BY <3>1, <3>2 DEF WaveValid
    <3> QED BY <3>1, <3>3 DEF EarlierDone, CursorInv, WaveInv
  <2>8. CallInv'
    <3> SUFFICES ASSUME NEW t \in active
                 PROVE  /\ call'[t].part \in Parts(t)
                        /\ ~(accepted'[<<t, call'[t].part>>].attempt # None)
                        /\ call'[t].before <= repairs'
                        /\ call'[t].before = repairs' =>
                             \A v \in UpTasks(t) : call'[t].up[v] # None =>
                               call'[t].up[v] = accepted'[v].attempt
      BY <1>1 DEF CallInv, Accepted, TaskOf
    <3>1. /\ t \in Stages /\ call[t].part \in Parts(t) /\ call[t].before <= repairs
          /\ ~Accepted(TaskOf(t)) /\ call[t].before \in Nat
      BY <1>2 DEF IInv, CallInv, TypeOK, Call
    <3>2. call'[t].part = call[t].part
      BY <2>4, <3>1
    <3>3. accepted'[<<t, call[t].part>>].attempt = None
      BY SMTT(30), <3>1, <2>2, TaskLemma DEF Accepted, TaskOf, Absent
    <3>4. CASE t = s
      BY SMTT(30), <3>1, <3>2, <3>3, <3>4, <2>3, <2>4 DEF NoUp, UpTasks
    <3>5. CASE t # s
      <4>1. call'[t].before = call[t].before
        BY <2>4, <3>1, <3>5
      <4>2. call'[t].before <= repairs' /\ call'[t].before # repairs'
        BY SMTT(30), <2>2, <2>3, <3>1, <4>1
      <4> QED BY <3>1, <3>2, <3>3, <4>2
    <3> QED BY <3>4, <3>5
  <2>9. WaveOfCur'
    BY <1>1 DEF IInv, WaveOfCur
  <2>10. CallFresh'
    BY SMTT(30), <1>4, <2>4, FreshLemma DEF CallFresh, NoUp, None
  <2>11. AttemptsFresh'
    <3>1. \A k \in Tasks : /\ Absent.attempt < attempts'[k]
                           /\ Absent.up[k] < attempts'[k]
      BY SMTT(30), <1>4 DEF Absent, NoUp, None
    <3>2. \A k \in Tasks : /\ accepted[k].attempt < attempts'[k]
                           /\ \A v \in Tasks : accepted[k].up[v] < attempts'[v]
      BY <1>4, FreshLemma
    <3>3. \A w \in wave : /\ w.attempt < attempts'[<<cur, w.part>>]
                          /\ \A v \in Tasks : w.up[v] < attempts'[v]
      BY <1>4, FreshLemma
    <3> QED BY <3>1, <3>2, <3>3, <1>1, <2>2 DEF AttemptsFresh
  <2>12. SuccessComplete' /\ NoStaleFailure'
    BY <1>6 DEF SuccessComplete, NoStaleFailure
  <2> QED BY <2>2, <2>5, <2>6, <2>7, <2>8, <2>9, <2>10, <2>11, <2>12 DEF IInv
<1> QED BY <1>5, <1>6
(* RetryOK preserves the invariant. *)
LEMMA RetryOKStep == ASSUME IInv, NEW s \in Stages, RetryOK(s) PROVE IInv'
<1> DEFINE k == TaskOf(s)
           r == [attempt |-> attempts[k], up |-> call[s].up, bounds |-> bounds[s]]
<1>1. /\ Running(s) /\ Collected(s) /\ call[s].before = repairs
      /\ s \in RangeSort => bounds[s] # None
      /\ Dispatch(k) /\ accepted' = [accepted EXCEPT ![k] = r]
      /\ UNCHANGED <<repairs, sampled, bounds, cancelled>>
  BY DEF RetryOK, Ready
<1>2. \/ outcome' = outcome /\ Return(s)
      \/ outcome' = "callback" /\ pc' = "returned" /\ UNCHANGED <<place, calls>>
  BY DEF RetryOK
<1>3. /\ pc = "retry" /\ s \in active /\ (\A t \in active : s <= t)
      /\ cur \in active /\ cur \in Stages /\ (\A t \in active : t <= cur)
      /\ call[s].part \in Parts(s) /\ call[s] \in Call
      /\ k = <<s, call[s].part>> /\ k \in Tasks /\ ~Accepted(k)
  BY <1>1, RunningLemma
<1>4. /\ attempts' \in [Tasks -> Nat] /\ \A j \in Tasks : attempts[j] <= attempts'[j]
      /\ attempts[k] < attempts'[k]
  BY <1>1, <1>3, DispatchLemma DEF IInv
<1>5. \A u \in UpTasks(s) : Accepted(u) /\ call[s].up[u] = accepted[u].attempt
  BY <1>1, <1>3 DEF IInv, CallInv, Collected, Accepted
<1>6. attempts[k] \in Nat /\ bounds[s] \in Attempt
  BY <1>3 DEF IInv, TypeOK
<1>7. /\ r \in Result /\ r.up = call[s].up /\ r.bounds = bounds[s]
      /\ r.attempt = attempts[k] /\ r.attempt # None
  BY <1>3, <1>6, ShapeLemma DEF Result, Call, Attempt
<1> HIDE DEF k, r
<1>8. k[1] = s
  BY <1>3
<1>9. /\ accepted' \in [Tasks -> Result]
      /\ LineageConsistent' /\ SharedBounds'
      /\ \A j \in Tasks : j # k => accepted'[j] = accepted[j]
      /\ accepted'[k] = r
  BY <1>1, <1>3, <1>5, <1>7, <1>8, AcceptLemma DEF IInv
<1>10. \A j \in Tasks : (accepted'[j].attempt # None) <=> Accepted(j) \/ j = k
  BY <1>7, <1>9 DEF Accepted
<1>11. BoundsInv'
  BY <1>1 DEF IInv, BoundsInv
<1>12. \A j \in Tasks : /\ accepted'[j].attempt < attempts'[j]
                        /\ \A u \in Tasks : accepted'[j].up[u] < attempts'[u]
  <2>1. /\ \A j \in Tasks : /\ accepted[j].attempt < attempts'[j]
                            /\ \A u \in Tasks : accepted[j].up[u] < attempts'[u]
        /\ \A u \in Tasks : call[s].up[u] < attempts'[u]
    BY <1>4, FreshLemma
  <2> QED BY <2>1, <1>4, <1>7, <1>9
<1>13. CASE outcome' = "callback" /\ pc' = "returned" /\ UNCHANGED <<place, calls>>
  <2>1. CallFresh' /\ AttemptsFresh'
    BY <1>4, <1>12, <1>13, FreshLemma DEF CallFresh, AttemptsFresh, calls, place
  <2>2. outcome' \in Outcomes \ {"running", "ok", "stale failure"}
    BY <1>13 DEF Outcomes
  <2>3. call' \in [Stages -> Call]
    BY <1>13 DEF IInv, TypeOK, calls
  <2> QED BY <1>1, <1>4, <1>9, <1>13, <2>1, <2>2, <2>3, ReturnedLemma DEF calls
<1>14. CASE outcome' = outcome /\ Return(s)
  <2>1. active' = active \ {s} /\ call' = [call EXCEPT ![s] = NoCall]
    BY <1>14 DEF Return
  <2>2. /\ call' \in [Stages -> Call] /\ call'[s] = NoCall
        /\ \A t \in Stages : t # s => call'[t] = call[t]
    BY <2>1, ShapeLemma DEF IInv, TypeOK
  <2>3. CallFresh'
    <3>1. \A t \in Stages : \A u \in Tasks : call[t].up[u] < attempts'[u]
      BY <1>4, FreshLemma
    <3>2. \A u \in Tasks : NoCall.up[u] < attempts'[u]
      BY <1>4, NoUpLemma DEF NoCall
    <3> QED BY <2>2, <3>1, <3>2 DEF CallFresh
  <2>4. CASE active = {s} /\ repairs # before
    <3>1. Restart /\ active' = {}
      BY <1>14, <2>4, <2>1 DEF Return
    <3>2. repairs' \in Nat /\ sampled' \subseteq Stages /\ bounds' \in [Stages -> Attempt]
      BY <1>1 DEF IInv, TypeOK
    <3> QED BY <1>1, <1>3, <1>4, <1>9, <1>11, <1>12, <1>14, <2>2, <2>3, <3>1, <3>2,
               RestartLemma
  <2>5. CASE active # {s} \/ repairs = before
    <3>1. /\ UNCHANGED place
          /\ IF active = {s} THEN pc' = "process" ELSE pc' = "retry"
      BY <1>3, <1>14, <2>5 DEF Return, loop, place
    <3>2. active = {s} => cur = s /\ repairs = before
      BY <1>3, <2>5
    <3>3. active # {s} => cur # s
      <4> SUFFICES ASSUME cur = s, NEW t \in active PROVE t = s
        BY <1>3
      <4>1. t <= s /\ s <= t /\ t \in Stages
        BY <1>3 DEF IInv, TypeOK
      <4> QED BY SMTT(30), <4>1 DEF Stages
    <3> USE DEF place
    <3>4. TypeOK'
      BY <1>1, <1>4, <1>9, <1>14, <2>1, <2>2, <3>1 DEF IInv, TypeOK
    <3>5. ControlInv'
      BY <1>1, <1>3, <1>14, <2>1, <3>1, <3>2, <3>3 DEF IInv, ControlInv
    <3>6. WaveValid' => WaveValid
      BY <1>1, <1>3, <3>1, <3>2 DEF WaveValid
    <3>7. EarlierDone'
      BY <1>3, <1>10, <3>1, <3>6 DEF IInv, EarlierDone, Accepted
    <3>8. CursorInv'
      <4> SUFFICES ASSUME WaveValid, NEW p \in Parts(cur), p < next,
                          accepted'[<<cur, p>>].attempt = None
                   PROVE  \/ \E w \in wave : w.part = p
                          \/ pc' = "retry" /\ p = call'[cur].part
        BY <3>1, <3>6 DEF CursorInv, Accepted
      <4>1. <<cur, p>> \in Tasks
        BY <1>3, TaskLemma
      <4>2. ~Accepted(<<cur, p>>) /\ <<cur, p>> # k
        BY <4>1, <1>10
      <4>3. (\E w \in wave : w.part = p) \/ p = call[cur].part
        BY <4>2, <1>3 DEF IInv, CursorInv
      <4>4. CASE active = {s}
        BY <4>2, <4>3, <4>4, <3>2, <1>3
      <4>5. CASE active # {s}
        BY <4>3, <4>5, <3>1, <3>3, <2>2, <1>3
      <4> QED BY <4>4, <4>5
    <3>9. WaveInv'
      <4> SUFFICES ASSUME WaveValid, NEW w \in wave
                   PROVE  /\ w.part \in Parts(cur)
                          /\ accepted'[<<cur, w.part>>].attempt = None
                          /\ \A u \in UpTasks(cur) : w.up[u] = accepted'[u].attempt
                          /\ w.bounds = bounds[cur]
                          /\ w.st = "ok" /\ cur \in RangeSort => w.bounds # None
                          /\ w.st = "fetch" => w.lost \in UpTasks(cur)
                          /\ \A v \in wave : w.part = v.part => w = v
                          /\ pc' = "retry" => w.part # call'[cur].part
        BY <1>1, <3>1, <3>6 DEF WaveInv, Accepted
      <4>1. /\ w.part \in Parts(cur)
            /\ ~Accepted(<<cur, w.part>>)
            /\ \A u \in UpTasks(cur) : w.up[u] = accepted[u].attempt
            /\ w.bounds = bounds[cur]
            /\ w.st = "ok" /\ cur \in RangeSort => w.bounds # None
            /\ w.st = "fetch" => w.lost \in UpTasks(cur)
            /\ \A v \in wave : w.part = v.part => w = v
            /\ w.part # call[cur].part
        BY <1>3 DEF IInv, WaveInv
      <4>2. <<cur, w.part>> \in Tasks /\ <<cur, w.part>> # k
        BY <4>1, <1>3, TaskLemma
      <4>3. accepted'[<<cur, w.part>>].attempt = None
        BY <4>1, <4>2, <1>10
      <4>4. \A u \in UpTasks(cur) : accepted'[u] = accepted[u]
        <5>1. \A u \in UpTasks(cur) : u \in Tasks /\ u[1] < cur
          BY <1>3, PlanAssumption DEF UpTasks
        <5>2. \A u \in UpTasks(cur) : Accepted(u)
          BY <5>1 DEF IInv, EarlierDone
        <5> QED BY <5>1, <5>2, <1>3, <1>9
      <4>5. pc' = "retry" => w.part # call'[cur].part
        BY <4>1, <3>1, <3>3, <2>2, <1>3
      <4> QED BY <4>1, <4>3, <4>4, <4>5
    <3>10. CallInv'
      <4> SUFFICES ASSUME NEW t \in active'
                   PROVE  /\ call'[t].part \in Parts(t)
                          /\ accepted'[<<t, call'[t].part>>].attempt = None
                          /\ call'[t].before <= repairs
                          /\ call'[t].before = repairs =>
                               \A v \in UpTasks(t) : call'[t].up[v] # None =>
                                 call'[t].up[v] = accepted'[v].attempt
        BY <1>1 DEF CallInv, Accepted, TaskOf
      <4>1. t \in active /\ t \in Stages /\ t # s /\ call'[t] = call[t]
        BY <2>1, <2>2 DEF IInv, TypeOK
      <4>2. /\ call[t].part \in Parts(t) /\ ~Accepted(<<t, call[t].part>>)
            /\ call[t].before <= repairs
            /\ call[t].before = repairs =>
                 \A v \in UpTasks(t) : call[t].up[v] # None =>
                   call[t].up[v] = accepted[v].attempt
        BY <4>1, <1>3 DEF IInv, CallInv, TaskOf
      <4>3. <<t, call[t].part>> \in Tasks /\ <<t, call[t].part>> # k
        BY <4>1, <4>2, <1>3, TaskLemma
      <4>4. \A v \in Tasks : Accepted(v) => accepted'[v] = accepted[v]
        BY <1>3, <1>9
      <4>5. accepted'[<<t, call[t].part>>].attempt = None
        BY <4>2, <4>3, <1>10
      <4> QED BY <4>1, <4>2, <4>4, <4>5 DEF Accepted, UpTasks
    <3>11. WaveOfCur'
      BY <3>1 DEF IInv, WaveOfCur
    <3>12. AttemptsFresh'
      BY <1>4, <1>12, <3>1, FreshLemma DEF AttemptsFresh
    <3>13. SuccessComplete' /\ NoStaleFailure'
      BY <1>3, <1>14 DEF IInv, ControlInv, SuccessComplete, NoStaleFailure
    <3> QED BY <1>9, <1>11, <2>3, <3>4, <3>5, <3>7, <3>8, <3>9, <3>10, <3>11, <3>12,
               <3>13 DEF IInv
  <2> QED BY <2>4, <2>5
<1> QED BY <1>2, <1>13, <1>14

-----------------------------------------------------------------------------
(* The theorems *)

(* Every step of scheduleResults, sampleStage and runStage preserves the invariant. *)
LEMMA LoopStep == ASSUME IInv, Loop PROVE IInv'
<1>1. CASE EnterStage
  BY <1>1, EnterStageStep
<1>2. CASE Finish
  BY <1>2, FinishStep
<1>3. CASE \E n \in 1..NumRunners : SampleWave(n)
  BY <1>3, SampleWaveStep
<1>4. CASE SampleOK
  BY <1>4, SampleOKStep
<1>5. CASE SampleError
  BY <1>5, SampleErrorStep
<1>6. CASE SampleNoWorkers \/ NoHealthyWorkers
  BY <1>6, NoWorkersStep
<1>7. CASE \E u \in Tasks : SampleFetchError(u)
  BY <1>7, SampleFetchErrorStep
<1>8. CASE SampleDone
  BY <1>8, SampleDoneStep
<1>9. CASE pc = "run" /\ \E W \in SUBSET Pending : StartWave(W)
  BY <1>9, StartWaveStep
<1>10. CASE StageDone
  BY <1>10, StageDoneStep
<1>11. CASE WaveAnswered
  BY <1>11, WaveAnsweredStep
<1>12. CASE \E w \in wave : AcceptCompletion(w)
  BY <1>12, AcceptCompletionStep
<1>13. CASE \E w \in wave : FetchFailed(w)
  BY <1>13, FetchFailedStep
<1>14. CASE \E w \in wave : RetryCompletion(w)
  BY <1>14, RetryCompletionStep
<1>15. CASE WaveDone
  BY <1>15, WaveDoneStep
<1>16. CASE SampleEncodeError
  BY <1>16, SampleEncodeErrorStep
<1> QED BY <1>1, <1>2, <1>3, <1>4, <1>5, <1>6, <1>7, <1>8, <1>9, <1>10, <1>11, <1>12,
           <1>13, <1>14, <1>15, <1>16 DEF Loop

(* Every step of ensureRetry preserves the invariant. *)
LEMMA RetryStep == ASSUME IInv, Retry PROVE IInv'
<1>1. CASE \E s \in Stages, u \in Tasks : CollectParent(s, u)
  BY <1>1, CollectParentStep
<1>2. CASE \E s \in Stages, u \in Tasks : EnsureParent(s, u)
  BY <1>2, EnsureParentStep
<1>3. CASE \E s \in Stages : RebuildSnapshot(s)
  BY <1>3, RebuildSnapshotStep
<1>4. CASE \E s \in Stages : RetryOK(s)
  BY <1>4, RetryOKStep
<1>5. CASE \E s \in Stages : RetryError(s)
  BY <1>5, RetryErrorStep
<1>6. CASE \E s \in Stages : RetryNoWorkers(s)
  BY <1>6, RetryNoWorkersStep
<1>7. CASE \E s \in Stages, u \in Tasks : RetryFetchError(s, u)
  BY <1>7, RetryFetchErrorStep
<1> QED BY <1>1, <1>2, <1>3, <1>4, <1>5, <1>6, <1>7 DEF Retry

(* Every step of the coordinator, of a worker or of the caller keeps the   *)
(* invariant.                                                              *)
THEOREM NextIInv == IInv /\ [Next]_vars => IInv'
<1> SUFFICES ASSUME IInv, [Next]_vars PROVE IInv'
  OBVIOUS
<1>1. CASE Loop
  BY <1>1, LoopStep
<1>2. CASE Retry
  BY <1>2, RetryStep
<1>3. CASE Workers
  BY <1>3, WorkersStep
<1>4. CASE Cancel \/ SeeCancel
  BY <1>4, CancelStep
<1>5. CASE Returned \/ UNCHANGED vars
  BY <1>5, UnchangedStep DEF Returned
<1> QED BY <1>1, <1>2, <1>3, <1>4, <1>5 DEF Next

(* The invariant holds throughout every job. *)
THEOREM Invariance == Spec => []IInv
BY InitIInv, NextIInv, PTL DEF Spec

(* Every variable of the scheduler keeps its type. *)
THEOREM TypeCorrect == Spec => []TypeOK
<1>1. IInv => TypeOK
  BY DEF IInv
<1> QED BY <1>1, Invariance, PTL

(* No accepted result ever refers to a missing or replaced map attempt. *)
THEOREM LineageCorrect == Spec => []LineageConsistent
<1>1. IInv => LineageConsistent
  BY DEF IInv
<1> QED BY <1>1, Invariance, PTL

(* Tasks in flight, in waves and in retries, read accepted map attempts. *)
THEOREM SnapshotsCorrect == Spec => []SnapshotCurrent
<1>1. IInv => SnapshotCurrent
  <2> SUFFICES ASSUME IInv PROVE SnapshotCurrent
    OBVIOUS
  <2>1. pc \in {"await", "process"} =>
          \A w \in wave : \A u \in UpTasks(cur) :
            Accepted(u) /\ w.up[u] = accepted[u].attempt
    <3> SUFFICES ASSUME pc \in {"await", "process"}, NEW w \in wave,
                        NEW u \in UpTasks(cur)
                 PROVE  Accepted(u) /\ w.up[u] = accepted[u].attempt
      OBVIOUS
    <3>1. u \in Tasks /\ u[1] < cur
      BY PlanAssumption DEF IInv, ControlInv, UpTasks
    <3> QED BY <3>1 DEF IInv, EarlierDone, WaveInv, WaveValid
  <2>2. \A s \in active : Ready(s) =>
          \A u \in UpTasks(s) : Accepted(u) /\ call[s].up[u] = accepted[u].attempt
    BY DEF IInv, CallInv, Ready, Running, Collected, Accepted
  <2> QED BY <2>1, <2>2 DEF SnapshotCurrent
<1> QED BY <1>1, Invariance, PTL

(* A worker's FetchError is never taken for a stale one. *)
THEOREM FailuresCurrent == Spec => []NoStaleFailure
<1>1. IInv => NoStaleFailure
  BY DEF IInv
<1> QED BY <1>1, Invariance, PTL

(* The maps of a range sort always share their boundaries. *)
THEOREM BoundsCorrect == Spec => []SharedBounds
<1>1. IInv => SharedBounds
  BY DEF IInv
<1> QED BY <1>1, Invariance, PTL

(* A job that succeeds has a result for every task of its plan. *)
THEOREM SuccessCorrect == Spec => []SuccessComplete
<1>1. IInv => SuccessComplete
  BY DEF IInv
<1> QED BY <1>1, Invariance, PTL

(* Output paths of accepted, running and referenced attempts are not reused. *)
THEOREM AttemptsCorrect == Spec => []AttemptsFresh
<1>1. IInv => AttemptsFresh
  BY DEF IInv
<1> QED BY <1>1, Invariance, PTL

-----------------------------------------------------------------------------
(* Repairs, and the refinement of LineageSpec                              *)

(* A stage that depends on another has a parent that depends on it or is   *)
(* that stage itself.                                                      *)
LEMMA AffectedParent ==
  ASSUME NEW s \in Stages, NEW t \in Descendants(s)
  PROVE  t \in Stages /\ \E q \in Parents[t] : q \in Affected(s)
<1>1. t \in Stages /\ t \in Affected(s) /\ t # s
  BY DEF Descendants, Affected
<1>2. SUFFICES ASSUME Parents[t] \cap Affected(s) = {} PROVE FALSE
  BY <1>1
<1> DEFINE C == Affected(s) \ {t}
<1>3. s \in C /\ C \in SUBSET Stages
  BY <1>1, AffectedLemma
<1>4. Closed(C)
  BY <1>2, AffectedLemma DEF Closed
<1>5. t \in C
  BY <1>1, <1>3, <1>4 DEF Affected
<1> QED BY <1>5

(* A result of a dependent stage reads an accepted result of a parent that *)
(* depends on the lost map, or the lost map itself.                        *)
LEMMA DependentReads ==
  ASSUME LineageConsistent, NEW u \in Tasks, NEW k \in Tasks, Accepted(k),
         k[1] \in Descendants(u[1])
  PROVE  \/ u \in UpTasks(k[1])
         \/ \E v \in UpTasks(k[1]) : Accepted(v) /\ v[1] \in Descendants(u[1])
<1>1. u[1] \in Stages /\ k[1] \in Stages
  BY TaskLemma
<1>2. PICK q \in Parents[k[1]] : q \in Affected(u[1])
  BY <1>1, AffectedParent
<1>3. CASE q = u[1]
  BY <1>3, <1>2 DEF UpTasks
<1>4. CASE q # u[1]
  <2>1. q \in Descendants(u[1]) /\ q \in Stages
    BY <1>2, <1>4, <1>1, AffectedLemma DEF Descendants
  <2>2. Parents[q] # {}
    BY <2>1, <1>1, AffectedParent
  <2>3. 0 \in Parts(q)
    BY SMTT(30), <2>1, <2>2, ReducerAssumption, PlanAssumption DEF Parts
  <2>4. <<q, 0>> \in UpTasks(k[1])
    BY <2>1, <2>3, <1>2, TaskLemma DEF UpTasks
  <2>5. Accepted(<<q, 0>>)
    BY <2>4 DEF LineageConsistent
  <2> QED BY <2>1, <2>4, <2>5
<1> QED BY <1>3, <1>4

(* The results that a repair for map u withdraws. *)
LEMMA InvalidateWithdraws ==
  ASSUME TypeOK, NEW u \in Tasks, Accepted(u), Invalidate(u)
  PROVE  Withdrawn = {k \in Tasks : Accepted(k) /\ (k = u \/ k[1] \in Descendants(u[1]))}
<1>1. \A k \in Tasks : accepted'[k] = IF k = u \/ k[1] \in Descendants(u[1])
                                      THEN Absent ELSE accepted[k]
  BY DEF Invalidate
<1>2. \A k \in Tasks : Accepted(k) => accepted[k] # Absent
  BY SMTT(30) DEF Accepted, Absent
<1> QED BY <1>1, <1>2 DEF Withdrawn

(* What RepairSelective says of one step. *)
Selective ==
  Withdrawn # {} =>
    /\ repairs' = repairs + 1
    /\ \A k \in Withdrawn : accepted'[k] = Absent
    /\ \E u \in Withdrawn :
         \A k \in Withdrawn : (UpTasks(k[1]) \cap Withdrawn = {}) <=> k = u

(* A repair for an accepted map withdraws it and what was derived from it. *)
LEMMA InvalidateSelective ==
  ASSUME TypeOK, LineageConsistent, NEW u \in Tasks, Accepted(u), Invalidate(u)
  PROVE  Selective
<1>1. Withdrawn = {k \in Tasks : Accepted(k) /\ (k = u \/ k[1] \in Descendants(u[1]))}
  BY InvalidateWithdraws
<1>2. u \in Withdrawn
  BY <1>1
<1>3. repairs' = repairs + 1 /\ \A k \in Withdrawn : accepted'[k] = Absent
  BY <1>1 DEF Invalidate
<1>4. UpTasks(u[1]) \cap Withdrawn = {}
  <2> SUFFICES ASSUME NEW v \in UpTasks(u[1]), v \in Withdrawn PROVE FALSE
    OBVIOUS
  <2>1. v \in Tasks /\ v[1] \in Parents[u[1]] /\ u[1] \in Stages /\ v[1] \in Stages
    BY TaskLemma DEF UpTasks
  <2>2. v[1] < u[1]
    BY <2>1, PlanAssumption
  <2>3. u[1] <= v[1]
    <3>1. CASE v = u
      BY SMTT(30), <3>1, <2>1 DEF Stages
    <3>2. CASE v[1] \in Descendants(u[1])
      BY <3>2, <2>1, AffectedLemma DEF Descendants
    <3> QED BY <3>1, <3>2, <1>1
  <2> QED BY SMTT(30), <2>1, <2>2, <2>3 DEF Stages
<1>5. ASSUME NEW k \in Withdrawn, k # u PROVE UpTasks(k[1]) \cap Withdrawn # {}
  <2>1. k \in Tasks /\ Accepted(k) /\ k[1] \in Descendants(u[1])
    BY <1>1, <1>5
  <2>2. CASE u \in UpTasks(k[1])
    BY <2>2, <1>2
  <2>3. CASE \E v \in UpTasks(k[1]) : Accepted(v) /\ v[1] \in Descendants(u[1])
    BY <2>3, <1>1 DEF UpTasks
  <2> QED BY <2>1, <2>2, <2>3, DependentReads
<1> QED BY <1>2, <1>3, <1>4, <1>5 DEF Selective

(* A step that only adds a result withdraws none. *)
LEMMA AddSelective ==
  ASSUME \A k \in Tasks : Accepted(k) => accepted'[k] = accepted[k]
  PROVE  Selective
BY DEF Selective, Withdrawn

-----------------------------------------------------------------------------
(* What a step of the scheduler does to the lineage *)

(* It leaves the accepted results alone, or ends the job, *)
Keeps == UNCHANGED <<accepted, repairs, outcome>>
Fails ==
  /\ UNCHANGED <<accepted, repairs>>
  /\ outcome = "running" /\ outcome' \notin {"running", "ok"}
Succeeds ==
  /\ UNCHANGED <<accepted, repairs>>
  /\ outcome = "running" /\ outcome' = "ok"
  /\ \A k \in Tasks : Accepted(k)

(* or accepts the result of one task whose parents are all accepted,       *)
AddsResult(k) ==
  /\ outcome = "running" /\ outcome' \in {"running", "callback"}
  /\ ~Accepted(k)
  /\ \A u \in UpTasks(k[1]) : Accepted(u)
  /\ accepted'[k].attempt # None
  /\ \A j \in Tasks : j # k => accepted'[j] = accepted[j]
  /\ UNCHANGED repairs

(* or repairs the loss of an accepted map.                                 *)
LosesMap(u) ==
  /\ outcome = "running" /\ outcome' = "running"
  /\ Accepted(u)
  /\ repairs < RecoveryLimit
  /\ Invalidate(u)

(* One of these is the effect of every step.                                 *)
Effect ==
  \/ Keeps
  \/ Fails
  \/ Succeeds
  \/ \E k \in Tasks : AddsResult(k)
  \/ \E u \in Tasks : LosesMap(u)

(* Leaving with an error leaves the lineage alone. *)
LEMMA ExitEffect ==
  ASSUME IInv, pc # "returned", NEW why, why \notin {"running", "ok"}, Exit(why)
  PROVE  Fails
BY DEF IInv, ControlInv, Exit, lineage, Fails

(* A failure to read an accepted map is repaired or ends the job. *)
LEMMA RepairEffect ==
  ASSUME IInv, pc \in {"sample", "process"}, NEW u \in Tasks, Accepted(u),
         RepairAndRestart(u, accepted[u].attempt)
  PROVE  Effect
<1>1. pc # "returned" /\ outcome = "running" /\ repairs \in Nat
  BY DEF IInv, ControlInv, TypeOK
<1>2. CASE Refusal(u, accepted[u].attempt) # "running"
  <2>1. Refusal(u, accepted[u].attempt) = "recovery limit"
    BY <1>2 DEF Refusal
  <2>2. Exit("recovery limit")
    BY <1>2, <2>1 DEF RepairAndRestart
  <2> QED BY <1>1, <2>2, ExitEffect DEF Effect
<1>3. CASE Refusal(u, accepted[u].attempt) = "running"
  <2>1. ~(repairs >= RecoveryLimit)
    BY <1>3 DEF Refusal
  <2>2. repairs < RecoveryLimit
    BY SMTT(30), <1>1, <2>1, OptsAssumption DEF RecoveryLimit
  <2>3. Invalidate(u) /\ outcome' = outcome
    BY <1>3 DEF RepairAndRestart
  <2> QED BY <1>1, <2>2, <2>3 DEF LosesMap, Effect
<1> QED BY <1>2, <1>3

(* The steps of the stage loop. *)
LEMMA LoopEffect == ASSUME IInv, Loop PROVE Effect
<1>1. CASE \/ EnterStage \/ (\E n \in 1..NumRunners : SampleWave(n)) \/ SampleOK
           \/ SampleDone \/ StageDone \/ WaveAnswered \/ WaveDone
           \/ pc = "run" /\ \E W \in SUBSET Pending : StartWave(W)
  BY <1>1 DEF EnterStage, SampleWave, SampleOK, SampleDone, StageDone, WaveAnswered,
              WaveDone, StartWave, lineage, Keeps, Effect
<1>2. CASE Finish
  <2>1. pc # "returned" /\ outcome = "running"
    BY <1>2 DEF Finish, IInv, ControlInv
  <2>2. \A k \in Tasks : Accepted(k)
    BY SMTT(30), <1>2, TaskLemma, PlanAssumption DEF IInv, Finish, EarlierDone, Stages
  <2>3. \A p \in Parts(NumStages) : Accepted(<<NumStages, p>>)
    BY SMTT(30), <2>2, TaskLemma, PlanAssumption DEF Stages
  <2>4. CASE Exit("ok")
    BY <2>1, <2>2, <2>4 DEF Exit, lineage, Succeeds, Effect
  <2>5. CASE Exit("accumulators")
    BY <2>1, <2>5, ExitEffect DEF Effect
  <2> QED BY <1>2, <2>3, <2>4, <2>5 DEF Finish
<1>3. CASE SampleError
  <2>1. CASE Exit("retries exhausted")
    BY <1>3, <2>1, ExitEffect DEF SampleError, Effect
  <2>2. CASE ~Exit("retries exhausted")
    BY <1>3, <2>2 DEF SampleError, lineage, Keeps, Effect
  <2> QED BY <2>1, <2>2
<1>4. CASE SampleNoWorkers \/ NoHealthyWorkers \/ SampleEncodeError
  BY <1>4, ExitEffect DEF SampleNoWorkers, NoHealthyWorkers, SampleEncodeError, Effect
<1>5. CASE \E u \in Tasks : SampleFetchError(u)
  <2>1. PICK u \in Tasks : SampleFetchError(u)
    BY <1>5
  <2>2. u[1] < cur
    BY <2>1, TaskLemma, PlanAssumption DEF SampleFetchError, UpTasks, IInv, ControlInv
  <2>3. Accepted(u)
    BY <2>1, <2>2 DEF IInv, EarlierDone, SampleFetchError
  <2> QED BY <2>1, <2>3, RepairEffect DEF SampleFetchError
<1>6. CASE \E w \in wave : AcceptCompletion(w)
  <2>1. PICK w \in wave : AcceptCompletion(w)
    BY <1>6
  <2> DEFINE k == <<cur, w.part>>
  <2>2. pc = "process" /\ outcome = "running" /\ cur \in Stages /\ w \in Completion
    BY <2>1 DEF AcceptCompletion, IInv, ControlInv, TypeOK
  <2>3. w.part \in Parts(cur) /\ ~Accepted(k)
    BY <2>1, <2>2 DEF IInv, WaveInv, WaveValid
  <2>4. k \in Tasks /\ k[1] = cur
    BY <2>2, <2>3, TaskLemma
  <2>5. \A u \in UpTasks(k[1]) : Accepted(u)
    BY <2>2, <2>4, PlanAssumption DEF IInv, EarlierDone, WaveValid, UpTasks
  <2>6. w.attempt # None
    BY SMTT(30), <2>2 DEF Completion, None
  <2>7. /\ accepted'[k].attempt # None
        /\ \A j \in Tasks : j # k => accepted'[j] = accepted[j]
    BY <2>1, <2>4, <2>6 DEF AcceptCompletion, ResultOf, IInv, TypeOK
  <2>8. repairs' = repairs /\ outcome' \in {"running", "callback"}
    BY <2>1, <2>2 DEF AcceptCompletion
  <2> QED BY <2>2, <2>3, <2>4, <2>5, <2>7, <2>8 DEF AddsResult, Effect
<1>7. CASE \E w \in wave : FetchFailed(w)
  <2>1. PICK w \in wave : FetchFailed(w)
    BY <1>7
  <2>2. pc = "process" /\ w.lost \in UpTasks(cur) /\ w.up[w.lost] = accepted[w.lost].attempt
    BY <2>1 DEF FetchFailed, IInv, WaveInv, WaveValid
  <2>3. w.lost \in Tasks /\ w.lost[1] < cur
    BY <2>2, TaskLemma, PlanAssumption DEF UpTasks, IInv, ControlInv
  <2>4. Accepted(w.lost)
    BY <2>2, <2>3 DEF IInv, EarlierDone, WaveValid
  <2> QED BY <2>1, <2>2, <2>3, <2>4, RepairEffect DEF FetchFailed
<1>8. CASE \E w \in wave : RetryCompletion(w)
  <2>1. PICK w \in wave : RetryCompletion(w)
    BY <1>8
  <2>2. CASE Exit("retries exhausted") \/ Exit("canceled")
    BY <2>1, <2>2, ExitEffect DEF RetryCompletion, Effect
  <2>3. CASE UNCHANGED <<lineage, outcome>>
    BY <2>3 DEF lineage, Keeps, Effect
  <2> QED BY <2>1, <2>2, <2>3 DEF RetryCompletion
<1> QED BY <1>1, <1>2, <1>3, <1>4, <1>5, <1>6, <1>7, <1>8 DEF Loop

(* The steps of ensureRetry. *)
LEMMA RetryEffect == ASSUME IInv, Retry PROVE Effect
<1>1. CASE \/ \E s \in Stages, u \in Tasks : CollectParent(s, u) \/ EnsureParent(s, u)
           \/ \E s \in Stages : RebuildSnapshot(s)
  BY <1>1 DEF CollectParent, EnsureParent, RebuildSnapshot, lineage, Keeps, Effect
<1>2. CASE \E s \in Stages : RetryOK(s)
  <2>1. PICK s \in Stages : RetryOK(s)
    BY <1>2
  <2> DEFINE k == TaskOf(s)
  <2>2. Running(s) /\ Collected(s) /\ call[s].before = repairs
    BY <2>1 DEF RetryOK, Ready
  <2>3. /\ pc = "retry" /\ s \in active /\ k \in Tasks /\ k[1] = s
        /\ ~Accepted(k) /\ outcome = "running"
    BY <2>2, RunningLemma DEF IInv, ControlInv, TaskOf
  <2>4. \A u \in UpTasks(k[1]) : Accepted(u)
    BY <2>2, <2>3 DEF IInv, CallInv, Collected, Accepted
  <2>5. attempts[k] # None
    BY SMTT(30), <2>3 DEF IInv, TypeOK, None
  <2>6. /\ accepted'[k].attempt # None
        /\ \A j \in Tasks : j # k => accepted'[j] = accepted[j]
    BY <2>1, <2>3, <2>5 DEF RetryOK, IInv, TypeOK
  <2>7. repairs' = repairs /\ outcome' \in {"running", "callback"}
    BY <2>1, <2>3 DEF RetryOK
  <2> QED BY <2>3, <2>4, <2>6, <2>7 DEF AddsResult, Effect
<1>3. CASE \E s \in Stages : RetryError(s) \/ RetryNoWorkers(s)
  <2>1. outcome = "running"
    BY <1>3 DEF RetryError, RetryNoWorkers, Ready, Running, IInv, ControlInv
  <2> QED BY <1>3, <2>1 DEF RetryError, RetryNoWorkers, Keeps, Fails, Effect
<1>4. CASE \E s \in Stages, u \in Tasks : RetryFetchError(s, u)
  <2>1. PICK s \in Stages, u \in Tasks : RetryFetchError(s, u)
    BY <1>4
  <2>2. Running(s) /\ Collected(s) /\ call[s].before = repairs /\ u \in UpTasks(s)
    BY <2>1 DEF RetryFetchError, Ready
  <2>3. pc = "retry" /\ s \in active /\ outcome = "running" /\ repairs \in Nat
    BY <2>2, RunningLemma DEF IInv, ControlInv, TypeOK
  <2>4. call[s].up[u] = accepted[u].attempt /\ Accepted(u)
    BY <2>2, <2>3 DEF IInv, CallInv, Collected, Accepted
  <2>5. CASE Refusal(u, call[s].up[u]) # "running"
    <3>1. Refusal(u, call[s].up[u]) = "recovery limit"
      BY <2>4, <2>5 DEF Refusal
    <3> QED BY <2>1, <2>3, <2>5, <3>1 DEF RetryFetchError, Fails, Effect
  <2>6. CASE Refusal(u, call[s].up[u]) = "running"
    <3>1. ~(repairs >= RecoveryLimit)
      BY <2>4, <2>6 DEF Refusal
    <3>2. repairs < RecoveryLimit
      BY SMTT(30), <2>3, <3>1, OptsAssumption DEF RecoveryLimit
    <3> QED BY <2>1, <2>3, <2>4, <2>6, <3>2 DEF RetryFetchError, LosesMap, Effect
  <2> QED BY <2>5, <2>6
<1> QED BY <1>1, <1>2, <1>3, <1>4 DEF Retry

(* Every step of the system. *)
LEMMA StepEffect == ASSUME IInv, [Next]_vars PROVE Effect
<1>1. CASE Workers \/ Cancel \/ Returned \/ UNCHANGED vars
  BY <1>1 DEF Workers, TaskOK, TaskError, TaskFetchError, Complete, Cancel, Returned,
              vars, lineage, Keeps, Effect
<1>2. CASE SeeCancel
  <2>1. pc # "returned"
    BY <1>2 DEF SeeCancel, Running
  <2> QED BY <1>2, <2>1, ExitEffect DEF SeeCancel, Effect
<1> QED BY <1>1, <1>2, LoopEffect, RetryEffect DEF Next

(* An accepted result is withdrawn by repairs only, and a repair withdraws *)
(* the lost map and what was derived from it.                              *)
THEOREM RepairCorrect == Spec => RepairSelective
<1>1. IInv /\ [Next]_vars => Selective
  <2> SUFFICES ASSUME IInv, [Next]_vars PROVE Selective
    OBVIOUS
  <2>1. ASSUME NEW u \in Tasks, LosesMap(u) PROVE Selective
    BY <2>1, InvalidateSelective DEF LosesMap, IInv
  <2>2. ASSUME NEW k \in Tasks, AddsResult(k) PROVE Selective
    BY <2>2, AddSelective DEF AddsResult
  <2>3. CASE Keeps \/ Fails \/ Succeeds
    BY <2>3, AddSelective DEF Keeps, Fails, Succeeds
  <2> QED BY <2>1, <2>2, <2>3, StepEffect DEF Effect
<1>2. IInv /\ [Next]_vars => [Selective]_vars
  BY <1>1
<1>3. RepairSelective <=> [][Selective]_vars
  BY PTL DEF RepairSelective, Selective
<1> QED BY <1>2, <1>3, Invariance, PTL DEF Spec

-----------------------------------------------------------------------------
(* The scheduler implements LineageSpec *)

(* The tasks with an accepted result, the abstract variable done. *)
Done == {k \in Tasks : Accepted(k)}

(* A set of results that holds none of the lost map and is closed under    *)
(* reading has no result of a dependent stage.                             *)
LEMMA GroundedLemma ==
  ASSUME LineageConsistent, NEW u \in Tasks, Accepted(u),
         NEW S \in SUBSET Done, Abstract!Grounded(S, u)
  PROVE  \A k \in S : k # u /\ k[1] \notin Descendants(u[1])
<1>1. u \notin S /\ \A k \in S : \A m \in Done : m[1] \in Parents[k[1]] => m \in S
  BY DEF Abstract!Grounded, Done, ReadsMap
<1>2. u[1] \in Stages
  BY TaskLemma
<1> DEFINE C == {t \in Affected(u[1]) : t = u[1] \/ \A k \in S : k[1] # t}
<1>3. u[1] \in C /\ C \in SUBSET Stages
  BY <1>2, AffectedLemma
<1>4. Closed(C)
  <2> SUFFICES ASSUME NEW t \in Stages, NEW q \in Parents[t], q \in C
               PROVE  t \in C
    BY DEF Closed
  <2>1. t \in Affected(u[1])
    BY <1>2, AffectedLemma DEF Closed
  <2>2. ASSUME t # u[1], NEW k \in S, k[1] = t PROVE FALSE
    <3>1. k \in Tasks /\ Accepted(k) /\ q \in Stages
      BY <1>3 DEF Done
    <3>2. CASE q = u[1]
      <4>1. u \in Done /\ u[1] \in Parents[k[1]]
        BY <3>2, <2>2 DEF Done
      <4> QED BY <4>1, <1>1
    <3>3. CASE q # u[1]
      <4>1. q \in Descendants(u[1]) /\ \A j \in S : j[1] # q
        BY <3>3 DEF Descendants
      <4>2. Parents[q] # {}
        BY <4>1, <1>2, AffectedParent
      <4>3. 0 \in Parts(q)
        BY SMTT(30), <3>1, <4>2, ReducerAssumption, PlanAssumption DEF Parts
      <4>4. <<q, 0>> \in UpTasks(k[1])
        BY <3>1, <4>3, <2>2, TaskLemma DEF UpTasks
      <4>5. <<q, 0>> \in Done
        BY <3>1, <4>4 DEF LineageConsistent, Done, UpTasks
      <4>6. <<q, 0>> \in S
        BY <4>4, <4>5, <1>1 DEF UpTasks
      <4> QED BY <4>1, <4>6
    <3> QED BY <3>2, <3>3
  <2> QED BY <2>1, <2>2
<1>5. \A t \in Affected(u[1]) : t \in C
  BY <1>3, <1>4 DEF Affected
<1> QED BY <1>1, <1>5 DEF Descendants

(* What is left after a repair is the largest grounded set of results. *)
LEMMA StandingLemma ==
  ASSUME LineageConsistent, NEW u \in Tasks, Accepted(u)
  PROVE  Abstract!Standing(u) =
           {k \in Done : k # u /\ k[1] \notin Descendants(u[1])}
<1> DEFINE R == {k \in Done : k # u /\ k[1] \notin Descendants(u[1])}
<1>1. Abstract!Standing(u) = UNION {S \in SUBSET Done : Abstract!Grounded(S, u)}
  BY DEF Abstract!Standing, Done
<1>2. \A S \in SUBSET Done : Abstract!Grounded(S, u) => S \subseteq R
  BY GroundedLemma
<1>3. Abstract!Grounded(R, u)
  <2> SUFFICES ASSUME NEW k \in R, NEW m \in Done, m[1] \in Parents[k[1]]
               PROVE  m \in R
    BY DEF Abstract!Grounded, ReadsMap, Done
  <2>1. k[1] \in Stages /\ u[1] \in Stages
    BY TaskLemma DEF Done
  <2>2. ASSUME m[1] \in Affected(u[1]) PROVE FALSE
    <3>1. k[1] \in Affected(u[1])
      BY <2>1, <2>2, AffectedLemma DEF Closed
    <3>2. k[1] = u[1]
      BY <3>1 DEF Descendants
    <3>3. m[1] < u[1] /\ u[1] <= m[1] /\ m[1] \in Stages
      BY <2>1, <2>2, <3>2, PlanAssumption, AffectedLemma
    <3> QED BY SMTT(30), <2>1, <3>3 DEF Stages
  <2>3. m # u
    BY <2>1, <2>2, AffectedLemma
  <2> QED BY <2>2, <2>3 DEF Descendants
<1> QED BY <1>1, <1>2, <1>3

(* The initial state is the abstract one. *)
LEMMA RefineInit == Init => Abstract!AInit
<1> SUFFICES ASSUME Init PROVE Abstract!AInit
  OBVIOUS
<1>1. {k \in Tasks : Accepted(k)} = {}
  BY DEF Init, Accepted, Absent
<1> QED BY <1>1 DEF Init, Abstract!AInit, Status

(* Every step is an abstract step or leaves the abstract state alone. *)
LEMMA RefineStep ==
  ASSUME IInv, [Next]_vars PROVE [Abstract!ANext]_(Abstract!avars)
<1>1. CASE Keeps
  <2>1. {k \in Tasks : Accepted(k)}' = {k \in Tasks : Accepted(k)}
    BY <1>1 DEF Keeps, Accepted
  <2> QED BY <1>1, <2>1 DEF Keeps, Status, Abstract!avars
<1>2. CASE Fails
  <2>1. {k \in Tasks : Accepted(k)}' = {k \in Tasks : Accepted(k)}
    BY <1>2 DEF Fails, Accepted
  <2>2. Status = "running" /\ Status' = "failed" /\ repairs' = repairs
    BY <1>2 DEF Fails, Status
  <2> QED BY <2>1, <2>2 DEF Abstract!Abort, Abstract!ANext
<1>3. CASE Succeeds
  <2>1. {k \in Tasks : Accepted(k)}' = {k \in Tasks : Accepted(k)}
    BY <1>3 DEF Succeeds, Accepted
  <2>2. {k \in Tasks : Accepted(k)} = Tasks
    BY <1>3 DEF Succeeds
  <2>3. Status = "running" /\ Status' = "ok" /\ repairs' = repairs
    BY <1>3 DEF Succeeds, Status
  <2> QED BY <2>1, <2>2, <2>3 DEF Abstract!Succeed, Abstract!ANext
<1>4. ASSUME NEW k \in Tasks, AddsResult(k) PROVE Abstract!Accept(k)
  <2>1. {j \in Tasks : Accepted(j)}' = {j \in Tasks : Accepted(j)} \cup {k}
    BY <1>4 DEF AddsResult, Accepted
  <2>2. k \notin {j \in Tasks : Accepted(j)}
    BY <1>4 DEF AddsResult
  <2>3. \A u \in Tasks : ReadsMap(k, u) => u \in {j \in Tasks : Accepted(j)}
    BY <1>4 DEF AddsResult, ReadsMap, UpTasks
  <2>4. Status = "running" /\ Status' \in {"running", "failed"} /\ repairs' = repairs
    BY <1>4 DEF AddsResult, Status
  <2> QED BY <2>1, <2>2, <2>3, <2>4 DEF Abstract!Accept
<1>5. ASSUME NEW u \in Tasks, LosesMap(u) PROVE Abstract!Lose(u)
  <2>1. {k \in Tasks : Accepted(k)}' = Abstract!Standing(u)
    <3>1. \A k \in Tasks : accepted'[k] = IF k = u \/ k[1] \in Descendants(u[1])
                                          THEN Absent ELSE accepted[k]
      BY <1>5 DEF LosesMap, Invalidate
    <3>2. Absent.attempt = None
      BY DEF Absent
    <3>3. Abstract!Standing(u) = {k \in Done : k # u /\ k[1] \notin Descendants(u[1])}
      BY <1>5, StandingLemma DEF LosesMap, IInv
    <3> QED BY <3>1, <3>2, <3>3 DEF Accepted, Done
  <2>2. u \in {k \in Tasks : Accepted(k)} /\ repairs < RecoveryLimit
    BY <1>5 DEF LosesMap
  <2>3. Status = "running" /\ Status' = Status /\ repairs' = repairs + 1
    BY <1>5 DEF LosesMap, Status, Invalidate
  <2> QED BY <2>1, <2>2, <2>3 DEF Abstract!Lose
<1> QED BY <1>1, <1>2, <1>3, <1>4, <1>5, StepEffect DEF Effect, Abstract!ANext

(* The scheduler implements the abstract lineage: a job accepts results on *)
(* accepted parents, loses exactly what rested on a lost map, repairs at   *)
(* most RecoveryLimit losses and succeeds with every task done.            *)
THEOREM Refinement == Spec => ImplementsLineage
<1>1. IInv /\ [Next]_vars => [Abstract!ANext]_(Abstract!avars)
  BY RefineStep
<1> QED BY <1>1, RefineInit, Invariance, PTL DEF Spec, ImplementsLineage, Abstract!ASpec

-----------------------------------------------------------------------------
-----------------------------------------------------------------------------
(* Dispatches are bounded *)

(* The limit is positive, and a repair raises the bound by it. *)
LEMMA LimitLemma ==
  ASSUME NEW r \in Nat
  PROVE  /\ AttemptLimit \in Nat \ {0}
         /\ AttemptLimit * r \in Nat
         /\ AttemptLimit * (r + 1) = AttemptLimit * r + AttemptLimit
<1>1. AttemptLimit \in Nat \ {0}
  BY SMTT(30), OptsAssumption DEF AttemptLimit
<1>2. \A n, m \in Nat : n * m \in Nat /\ n * (m + 1) = n * m + n
  BY SMTT(30)
<1> QED BY <1>1, <1>2

(* What is spent is a number. *)
LEMMA SpentLemma == TypeOK => \A k \in Tasks : Spent(k) \in Nat
<1> SUFFICES ASSUME TypeOK, NEW k \in Tasks PROVE Spent(k) \in Nat
  OBVIOUS
<1>1. call[k[1]].failures \in Nat
  BY TaskLemma DEF TypeOK, Call
<1> QED BY <1>1 DEF Spent

(* So it is in the next state. *)
LEMMA SpentLemmaPrime == TypeOK' => \A k \in Tasks : Spent(k)' \in Nat
<1> SUFFICES ASSUME TypeOK', NEW k \in Tasks PROVE Spent(k)' \in Nat
  OBVIOUS
<1>1. call'[k[1]].failures \in Nat
  BY TaskLemma DEF TypeOK, Call
<1> QED BY <1>1 DEF Spent

(* A step that dispatches nothing and repairs nothing: it is enough that   *)
(* no unaccepted task has less spent than before.                          *)
LEMMA QuietBound ==
  ASSUME IInv, AttemptInv, IInv', UNCHANGED <<attempts, repairs>>,
         pc' # "returned" => pc # "returned",
         pc' # "returned" => \A k \in Tasks : ~Accepted(k)' =>
                               ~Accepted(k) /\ Spent(k) <= Spent(k)',
         pc' = "retry" => \A s \in active' : call'[s].failures < AttemptLimit
  PROVE  AttemptInv'
<1>1. AttemptBound'
  BY DEF AttemptInv, AttemptBound
<1>2. ASSUME pc' # "returned", NEW k \in Tasks, ~Accepted(k)'
      PROVE  attempts'[k] <= AttemptLimit * repairs' + Spent(k)'
  <2>1. attempts[k] <= AttemptLimit * repairs + Spent(k) /\ Spent(k) <= Spent(k)'
    BY <1>2 DEF AttemptInv
  <2>2. attempts[k] \in Nat /\ AttemptLimit * repairs \in Nat
    BY LimitLemma DEF IInv, TypeOK
  <2>3. Spent(k) \in Nat /\ Spent(k)' \in Nat
    BY SpentLemma, SpentLemmaPrime DEF IInv
  <2>4. attempts[k] <= AttemptLimit * repairs + Spent(k)'
    BY SMTT(30), <2>1, <2>2, <2>3
  <2> QED BY <2>4
<1> QED BY <1>1, <1>2 DEF AttemptInv

(* A repair: whatever was dispatched before is covered by the new bound. *)
LEMMA RepairBound ==
  ASSUME IInv, IInv', repairs' = repairs + 1,
         \A k \in Tasks : attempts'[k] <= AttemptLimit * (repairs + 1),
         pc' = "retry" => \A s \in active' : call'[s].failures < AttemptLimit
  PROVE  AttemptInv'
<1>1. ASSUME NEW k \in Tasks
      PROVE  /\ attempts'[k] <= AttemptLimit * (repairs' + 1)
             /\ attempts'[k] <= AttemptLimit * repairs' + Spent(k)'
  <2> DEFINE A == attempts'[k]
             B == AttemptLimit * repairs'
             S == Spent(k)'
             T == AttemptLimit * (repairs' + 1)
  <2>1. A \in Nat /\ S \in Nat
    BY SpentLemmaPrime DEF IInv, TypeOK
  <2>2. B \in Nat /\ T = B + AttemptLimit /\ AttemptLimit \in Nat
    BY LimitLemma DEF IInv, TypeOK
  <2>3. A <= B
    OBVIOUS
  <2> HIDE DEF A, B, S, T
  <2>4. A <= T /\ A <= B + S
    BY SMTT(30), <2>1, <2>2, <2>3
  <2> QED BY <2>4 DEF A, B, S, T
<1> QED BY <1>1 DEF AttemptInv, AttemptBound

(* One more dispatch of a task that is being retried stays within the bound. *)
LEMMA DispatchBound ==
  ASSUME IInv, AttemptInv, NEW s \in Stages, Running(s), Dispatch(TaskOf(s))
  PROVE  /\ \A k \in Tasks : k # TaskOf(s) => attempts'[k] = attempts[k]
         /\ attempts'[TaskOf(s)] <= AttemptLimit * repairs + call[s].failures + 1
         /\ \A k \in Tasks : attempts'[k] <= AttemptLimit * (repairs + 1)
<1> DEFINE k == TaskOf(s)
           B == AttemptLimit * repairs
           f == call[s].failures
<1>1. /\ pc = "retry" /\ s \in active /\ k \in Tasks /\ k[1] = s /\ ~Accepted(k)
      /\ f \in Nat /\ f < AttemptLimit
  BY RunningLemma DEF TaskOf, AttemptInv, Call
<1>2. Spent(k) = f
  BY <1>1 DEF Spent
<1>3. attempts[k] <= B + f
  BY <1>1, <1>2 DEF AttemptInv
<1>4. /\ attempts \in [Tasks -> Nat] /\ B \in Nat /\ AttemptLimit \in Nat
      /\ AttemptLimit * (repairs + 1) = B + AttemptLimit
  BY LimitLemma DEF IInv, TypeOK
<1>5. /\ attempts'[k] = attempts[k] + 1
      /\ \A j \in Tasks : j # k => attempts'[j] = attempts[j]
  BY <1>1, <1>4 DEF Dispatch
<1> HIDE DEF k, B, f
<1>6. attempts'[k] <= B + f + 1 /\ attempts'[k] <= B + AttemptLimit
  BY SMTT(30), <1>1, <1>3, <1>4, <1>5
<1>7. \A j \in Tasks : attempts'[j] <= AttemptLimit * (repairs + 1)
  BY <1>4, <1>5, <1>6 DEF AttemptInv, AttemptBound
<1> QED BY <1>5, <1>6, <1>7 DEF k, B, f

(* A dispatch that ends the job. *)
LEMMA LastDispatchBound ==
  ASSUME IInv, AttemptInv, NEW s \in Stages, Running(s), Dispatch(TaskOf(s)),
         repairs' = repairs, pc' = "returned"
  PROVE  AttemptInv'
BY DispatchBound DEF AttemptInv, AttemptBound

(* The initial state. *)
LEMMA InitAttemptInv == Init => AttemptInv
<1> SUFFICES ASSUME Init PROVE AttemptInv
  OBVIOUS
<1>1. IInv
  BY InitIInv
<1>2. ASSUME NEW k \in Tasks
      PROVE  /\ attempts[k] <= AttemptLimit * (repairs + 1)
             /\ attempts[k] <= AttemptLimit * repairs + Spent(k)
  <2>1. Spent(k) \in Nat /\ attempts[k] = 0
    BY <1>1, SpentLemma DEF IInv, Init
  <2>2. /\ AttemptLimit * repairs \in Nat /\ AttemptLimit \in Nat
        /\ AttemptLimit * (repairs + 1) = AttemptLimit * repairs + AttemptLimit
    BY <1>1, LimitLemma DEF IInv, TypeOK
  <2> QED BY SMTT(30), <2>1, <2>2
<1> QED BY <1>2 DEF AttemptInv, AttemptBound, Init

(* Ending the job without a dispatch. *)
LEMMA ReturnBound ==
  ASSUME AttemptInv, pc' = "returned", UNCHANGED <<attempts, repairs>>
  PROVE  AttemptInv'
BY DEF AttemptInv, AttemptBound

(* A failure to read a map, met outside ensureRetry. *)
LEMMA RepairAndRestartBound ==
  ASSUME IInv, AttemptInv, IInv', NEW u, NEW a, RepairAndRestart(u, a)
  PROVE  AttemptInv'
<1>1. CASE \E why : Exit(why)
  BY <1>1, ReturnBound DEF Exit, lineage
<1>2. CASE Invalidate(u) /\ Restart /\ UNCHANGED attempts
  BY <1>2, RepairBound DEF Invalidate, Restart, AttemptInv, AttemptBound
<1> QED BY <1>1, <1>2 DEF RepairAndRestart

(* Dispatching a wave: its tasks were not dispatched since the last repair. *)
LEMMA StartWaveBound ==
  ASSUME IInv, AttemptInv, IInv', pc = "run", NEW W \in SUBSET Pending, StartWave(W)
  PROVE  AttemptInv'
<1>1. /\ pc' = "await" /\ UNCHANGED <<accepted, repairs, cur>>
      /\ wave' = {NewTask(p) : p \in W}
      /\ \A k \in Tasks : attempts'[k] = IF k[1] = cur /\ k[2] \in W
                                         THEN attempts[k] + 1 ELSE attempts[k]
  BY DEF StartWave
<1>2. ASSUME NEW k \in Tasks, k[1] = cur, k[2] \in W PROVE ~Accepted(k)
  BY <1>2, TaskLemma DEF Pending
<1>3. ASSUME NEW k \in Tasks, ~Accepted(k)
      PROVE  /\ attempts[k] <= AttemptLimit * repairs + 0
             /\ Spent(k)' = IF k[1] = cur /\ k[2] \in W THEN 1 ELSE 0
  <2>1. Spent(k) = 0
    BY DEF Spent, WaveValid
  <2>2. (\E w \in wave' : w.part = k[2]) <=> k[2] \in W
    <3>1. \A p : NewTask(p).part = p
      BY DEF NewTask
    <3> QED BY <1>1, <3>1
  <2>3. Spent(k)' = IF k[1] = cur /\ k[2] \in W THEN 1 ELSE 0
    BY <1>1, <2>2 DEF Spent, WaveValid
  <2> QED BY <1>3, <2>1, <2>3 DEF AttemptInv
<1>4. /\ attempts \in [Tasks -> Nat] /\ AttemptLimit \in Nat \ {0}
      /\ AttemptLimit * repairs \in Nat
      /\ AttemptLimit * (repairs + 1) = AttemptLimit * repairs + AttemptLimit
  BY LimitLemma DEF IInv, TypeOK
<1>5. ASSUME NEW k \in Tasks, ~Accepted(k)
      PROVE  attempts'[k] <= AttemptLimit * repairs + Spent(k)'
  BY SMTT(30), <1>1, <1>3, <1>4, <1>5
<1>6. ASSUME NEW k \in Tasks PROVE attempts'[k] <= AttemptLimit * (repairs + 1)
  <2>1. CASE k[1] = cur /\ k[2] \in W
    <3>1. attempts[k] <= AttemptLimit * repairs + 0
      BY <2>1, <1>2, <1>3
    <3> QED BY SMTT(30), <1>1, <1>4, <2>1, <3>1
  <2>2. CASE ~(k[1] = cur /\ k[2] \in W)
    BY <1>1, <2>2 DEF AttemptInv, AttemptBound
  <2> QED BY <2>1, <2>2
<1> QED BY <1>1, <1>5, <1>6 DEF AttemptInv, AttemptBound, Accepted

(* Accepting a completion of the wave. *)
LEMMA AcceptCompletionBound ==
  ASSUME IInv, AttemptInv, IInv', NEW w \in wave, AcceptCompletion(w)
  PROVE  AttemptInv'
<1>1. /\ pc = "process" /\ pc' \in {"process", "returned"}
      /\ accepted' = [accepted EXCEPT ![<<cur, w.part>>] = ResultOf(w)]
      /\ wave' = wave \ {w} /\ UNCHANGED <<attempts, repairs, cur, calls>>
  BY DEF AcceptCompletion
<1>2. CASE pc' = "returned"
  BY <1>1, <1>2, ReturnBound
<1>3. CASE pc' = "process"
  <2>1. w.part \in Parts(cur) /\ cur \in Stages /\ w \in Completion
    BY <1>1 DEF IInv, WaveInv, WaveValid, ControlInv, TypeOK
  <2>2. <<cur, w.part>> \in Tasks /\ w.attempt # None
    BY SMTT(30), <2>1, TaskLemma DEF Completion, None
  <2>3. ASSUME NEW k \in Tasks, ~Accepted(k)'
        PROVE  ~Accepted(k) /\ Spent(k) <= Spent(k)'
    <3>1. k # <<cur, w.part>>
      BY <1>1, <2>2, <2>3 DEF Accepted, ResultOf, IInv, TypeOK
    <3>2. ~Accepted(k)
      BY <1>1, <2>2, <2>3, <3>1 DEF Accepted, IInv, TypeOK
    <3>3. k[1] = cur => ((\E v \in wave' : v.part = k[2]) <=> \E v \in wave : v.part = k[2])
      BY <1>1, <3>1, TaskLemma
    <3>4. Spent(k)' = Spent(k)
      BY <1>1, <1>3, <3>3 DEF Spent, WaveValid
    <3> QED BY SMTT(30), <3>2, <3>4, SpentLemma DEF IInv
  <2> QED BY <1>1, <1>3, <2>3, QuietBound
<1> QED BY <1>1, <1>2, <1>3

(* A failed completion of the wave becomes the first failure of ensureRetry. *)
LEMMA RetryCompletionBound ==
  ASSUME IInv, AttemptInv, IInv', NEW w \in wave, RetryCompletion(w)
  PROVE  AttemptInv'
<1>1. CASE \E why : Exit(why)
  BY <1>1, ReturnBound DEF Exit, lineage
<1>2. CASE ~\E why : Exit(why)
  <2>1. /\ pc = "process" /\ pc' = "retry" /\ AttemptLimit # 1
        /\ active' = {cur} /\ wave' = wave \ {w} /\ UNCHANGED <<lineage, cur, before>>
        /\ call' = [call EXCEPT ![cur] = [part |-> w.part, failures |-> 1,
                                          before |-> repairs, up |-> NoUp]]
    BY <1>2 DEF RetryCompletion
  <2>2. before = repairs /\ cur \in Stages /\ call \in [Stages -> Call]
    BY <2>1 DEF IInv, ControlInv, TypeOK
  <2>3. call'[cur].failures = 1 /\ call'[cur].part = w.part
    BY <2>1, <2>2
  <2>4. ASSUME NEW k \in Tasks, ~Accepted(k)'
        PROVE  ~Accepted(k) /\ Spent(k) <= Spent(k)'
    <3>1. ~Accepted(k)
      BY <2>1, <2>4 DEF Accepted, lineage
    <3>2. Spent(k)' = Spent(k)
      <4>1. Spent(k) = IF k[1] = cur /\ \E v \in wave : v.part = k[2] THEN 1 ELSE 0
        BY <2>1 DEF Spent, WaveValid
      <4>2. CASE k[1] = cur /\ k[2] = w.part
        <5>1. k = TaskOf(k[1])' /\ Spent(k) = 1
          BY <4>1, <4>2, <2>3, <2>1, TaskLemma DEF TaskOf
        <5> QED BY <5>1, <4>2, <2>1, <2>3 DEF Spent
      <4>3. CASE ~(k[1] = cur /\ k[2] = w.part)
        <5>1. ~(k[1] \in active' /\ k = TaskOf(k[1])')
          <6>1. TaskOf(cur)' = <<cur, w.part>>
            BY <2>1, <2>3 DEF TaskOf
          <6> QED BY SMTT(30), <4>3, <2>1, <6>1
        <5>2. WaveValid'
          BY <2>1, <2>2 DEF WaveValid, lineage
        <5> QED BY <4>1, <4>3, <5>1, <5>2, <2>1 DEF Spent
      <4> QED BY <4>2, <4>3
    <3> QED BY SMTT(30), <3>1, <3>2, SpentLemma DEF IInv
  <2>5. 1 < AttemptLimit
    BY SMTT(30), <2>1, OptsAssumption DEF AttemptLimit
  <2>6. \A s \in active' : call'[s].failures < AttemptLimit
    BY <2>1, <2>3, <2>5
  <2> QED BY <2>1, <2>4, <2>6, QuietBound DEF lineage
<1> QED BY <1>1, <1>2

(* Outside waves and retries nothing is spent. *)
LEMMA IdleBound ==
  ASSUME IInv, AttemptInv, IInv', UNCHANGED <<accepted, attempts, repairs>>,
         pc \in {"stage", "sample", "run"} \/ (pc = "process" /\ wave = {}),
         pc' \in {"stage", "sample", "run"}
  PROVE  AttemptInv'
<1>1. ASSUME NEW k \in Tasks, ~Accepted(k)'
      PROVE  ~Accepted(k) /\ Spent(k) <= Spent(k)'
  <2>1. ~Accepted(k)
    BY <1>1 DEF Accepted
  <2>2. Spent(k) = 0 /\ Spent(k)' = 0
    BY DEF Spent, WaveValid
  <2> QED BY SMTT(30), <2>1, <2>2
<1> QED BY <1>1, QuietBound

(* The steps of the stage loop. *)
LEMMA LoopBound == ASSUME IInv, AttemptInv, IInv', Loop PROVE AttemptInv'
<1>1. CASE \E why : Exit(why)
  BY <1>1, ReturnBound DEF Exit, lineage
<1>2. CASE \/ EnterStage \/ (\E n \in 1..NumRunners : SampleWave(n)) \/ SampleOK
           \/ SampleDone \/ StageDone \/ WaveDone
  BY <1>2, IdleBound DEF EnterStage, SampleWave, SampleOK, SampleDone, StageDone,
                         WaveDone, lineage
<1>3. CASE Finish
  <2>1. CASE Restart /\ UNCHANGED lineage
    BY <1>3, <2>1, IdleBound DEF Finish, Restart, lineage
  <2> QED BY <1>1, <1>3, <2>1 DEF Finish
<1>4. CASE SampleError
  <2>1. CASE UNCHANGED <<lineage, pc>>
    BY <1>4, <2>1, IdleBound DEF SampleError, lineage
  <2> QED BY <1>1, <1>4, <2>1 DEF SampleError
<1>5. CASE SampleNoWorkers \/ NoHealthyWorkers \/ SampleEncodeError
  BY <1>1, <1>5 DEF SampleNoWorkers, NoHealthyWorkers, SampleEncodeError
<1>6. CASE \/ \E u \in Tasks : SampleFetchError(u)
           \/ \E w \in wave : FetchFailed(w)
  BY <1>6, RepairAndRestartBound DEF SampleFetchError, FetchFailed
<1>7. CASE pc = "run" /\ \E W \in SUBSET Pending : StartWave(W)
  BY <1>7, StartWaveBound
<1>8. CASE WaveAnswered
  <2>1. /\ pc = "await" /\ pc' = "process"
        /\ UNCHANGED <<accepted, attempts, repairs, cur, wave>>
    BY <1>8 DEF WaveAnswered, lineage, place
  <2>2. ASSUME NEW k \in Tasks, ~Accepted(k)'
        PROVE  ~Accepted(k) /\ Spent(k) <= Spent(k)'
    <3>1. ~Accepted(k)
      BY <2>1, <2>2 DEF Accepted
    <3>2. Spent(k)' = Spent(k)
      BY <2>1 DEF Spent, WaveValid
    <3> QED BY SMTT(30), <3>1, <3>2, SpentLemma DEF IInv
  <2> QED BY <2>1, <2>2, QuietBound
<1>9. CASE \E w \in wave : AcceptCompletion(w)
  BY <1>9, AcceptCompletionBound
<1>10. CASE \E w \in wave : RetryCompletion(w)
  BY <1>10, RetryCompletionBound
<1> QED BY <1>2, <1>3, <1>4, <1>5, <1>6, <1>7, <1>8, <1>9, <1>10 DEF Loop

(* The answers of the workers, and the cancellation. *)
LEMMA OtherBound ==
  ASSUME IInv, AttemptInv, IInv', Workers \/ Cancel \/ SeeCancel \/ UNCHANGED vars
  PROVE  AttemptInv'
<1>1. CASE SeeCancel
  BY <1>1, ReturnBound DEF SeeCancel, Exit, lineage
<1>2. CASE Workers
  <2>0. PICK w \in wave : \E st, u : Complete(w, st, u)
    BY <1>2 DEF Workers, TaskOK, TaskError, TaskFetchError
  <2>1. PICK st, u : Complete(w, st, u)
    BY <2>0
  <2> DEFINE v == [w EXCEPT !.st = st, !.lost = u]
  <2>2. /\ pc = "await" /\ pc' = "await" /\ wave' = (wave \ {w}) \cup {v}
        /\ UNCHANGED <<accepted, attempts, repairs, cur>>
    BY <2>1 DEF Complete, lineage
  <2>3. v.part = w.part
    BY DEF IInv, TypeOK, Completion
  <2>4. ASSUME NEW k \in Tasks, ~Accepted(k)'
        PROVE  ~Accepted(k) /\ Spent(k) <= Spent(k)'
    <3>1. ~Accepted(k)
      BY <2>2, <2>4 DEF Accepted
    <3>2. (\E x \in wave' : x.part = k[2]) <=> \E x \in wave : x.part = k[2]
      BY <2>2, <2>3
    <3>3. Spent(k)' = Spent(k)
      BY <2>2, <3>2 DEF Spent, WaveValid
    <3> QED BY SMTT(30), <3>1, <3>3, SpentLemma DEF IInv
  <2> QED BY <2>2, <2>4, QuietBound
<1>3. CASE Cancel \/ UNCHANGED vars
  <2>1. UNCHANGED <<accepted, attempts, repairs, pc, cur, before, wave, active, call>>
    BY <1>3 DEF Cancel, vars, lineage, loop, place, calls
  <2>2. ASSUME NEW k \in Tasks PROVE Spent(k)' = Spent(k) /\ Accepted(k)' = Accepted(k)
    BY <2>1 DEF Spent, TaskOf, WaveValid, Accepted
  <2> QED BY <2>1, <2>2 DEF AttemptInv, AttemptBound
<1> QED BY <1>1, <1>2, <1>3

(* Collecting parents, recursing into one and rebuilding the snapshot. *)
LEMMA CollectBound ==
  ASSUME IInv, AttemptInv, IInv', NEW s \in Stages, Running(s),
         UNCHANGED <<accepted, attempts, repairs, pc, cur, before, wave>>,
         active \subseteq active',
         \A t \in active : /\ call'[t].part = call[t].part
                           /\ call'[t].failures = call[t].failures,
         \A t \in active' \ active : t # cur /\ call'[t].failures = 0
  PROVE  AttemptInv'
<1>1. ASSUME NEW k \in Tasks, ~Accepted(k)'
      PROVE  ~Accepted(k) /\ Spent(k) <= Spent(k)'
  <2>1. ~Accepted(k)
    BY <1>1 DEF Accepted
  <2>2. cur \in active /\ pc = "retry"
    BY RunningLemma
  <2>3. WaveValid' <=> WaveValid
    BY DEF WaveValid
  <2>4. Spent(k)' = Spent(k)
    <3>1. CASE k[1] \in active
      <4>1. k[1] \in active' /\ TaskOf(k[1])' = TaskOf(k[1])
        BY <3>1 DEF TaskOf
      <4> QED BY <3>1, <4>1, <2>2, <2>3 DEF Spent
    <3>2. CASE k[1] \in active' \ active
      BY <2>2, <2>3, <3>2 DEF Spent
    <3>3. CASE k[1] \notin active'
      BY <2>2, <2>3, <3>3 DEF Spent
    <3> QED BY <3>1, <3>2, <3>3
  <2> QED BY SMTT(30), <2>1, <2>4, SpentLemma DEF IInv
<1>2. 0 < AttemptLimit
  BY SMTT(30), OptsAssumption DEF AttemptLimit
<1>3. pc' = "retry" => \A t \in active' : call'[t].failures < AttemptLimit
  BY <1>2 DEF AttemptInv
<1> QED BY <1>1, <1>3, QuietBound

(* The steps of ensureRetry up to the next dispatch. *)
LEMMA PrepareBound ==
  ASSUME IInv, AttemptInv, IInv', NEW s \in Stages, NEW u \in Tasks,
         CollectParent(s, u) \/ EnsureParent(s, u) \/ RebuildSnapshot(s)
  PROVE  AttemptInv'
<1>1. /\ Running(s)
      /\ UNCHANGED <<accepted, attempts, repairs, pc, cur, before, wave>>
  BY DEF CollectParent, EnsureParent, RebuildSnapshot, lineage, loop, place
<1>2. /\ cur \in active /\ cur \in Stages /\ s \in active /\ active \subseteq Stages
      /\ \A t \in active : s <= t /\ t <= cur
  BY <1>1, RunningLemma DEF IInv, TypeOK
<1>3. call \in [Stages -> Call] /\ call' \in [Stages -> Call]
  BY DEF IInv, TypeOK
<1>4. CASE EnsureParent(s, u)
  <2>1. active' = active \cup {u[1]} /\ u[1] \in Stages /\ u[1] < s
    BY <1>4, TaskLemma, PlanAssumption DEF EnsureParent, UpTasks
  <2>2. u[1] \notin active /\ u[1] # cur
    BY SMTT(30), <1>2, <2>1 DEF Stages
  <2>3. /\ \A t \in Stages : t # u[1] => call'[t] = call[t]
        /\ call'[u[1]].failures = 0
    BY <1>3, <1>4, <2>1 DEF EnsureParent
  <2> QED BY <1>1, <1>2, <2>1, <2>2, <2>3, CollectBound
<1>5. CASE CollectParent(s, u)
  <2>1. active' = active /\ call' = [call EXCEPT ![s].up[u] = accepted[u].attempt]
    BY <1>5 DEF CollectParent
  <2>2. \A t \in Stages : /\ call'[t].part = call[t].part
                          /\ call'[t].failures = call[t].failures
    BY <1>3, <2>1 DEF Call
  <2> QED BY <1>1, <1>2, <2>1, <2>2, CollectBound
<1>6. CASE RebuildSnapshot(s)
  <2>1. /\ active' = active
        /\ call' = [call EXCEPT ![s].up = NoUp, ![s].before = repairs',
                                ![s].failures = call[s].failures]
    BY <1>6 DEF RebuildSnapshot, Again
  <2>2. \A t \in Stages : /\ call'[t].part = call[t].part
                          /\ call'[t].failures = call[t].failures
    BY <1>3, <2>1 DEF Call
  <2> QED BY <1>1, <1>2, <2>1, <2>2, CollectBound
<1> QED BY <1>4, <1>5, <1>6

(* A retried task succeeds: its activation ends. *)
LEMMA RetryOKBound ==
  ASSUME IInv, AttemptInv, IInv', NEW s \in Stages, RetryOK(s) PROVE AttemptInv'
<1> DEFINE k == TaskOf(s)
<1>1. Running(s) /\ Dispatch(k) /\ repairs' = repairs
  BY DEF RetryOK, Ready
<1>2. CASE pc' = "returned"
  BY <1>1, <1>2, LastDispatchBound
<1>3. CASE pc' # "returned"
  <2>1. /\ Return(s)
        /\ accepted' = [accepted EXCEPT ![k] = [attempt |-> attempts[k],
                          up |-> call[s].up, bounds |-> bounds[s]]]
    BY <1>3 DEF RetryOK
  <2>2. /\ pc = "retry" /\ s \in active /\ k \in Tasks /\ k[1] = s /\ cur \in active
        /\ active \subseteq Stages /\ call \in [Stages -> Call]
    BY <1>1, RunningLemma DEF TaskOf, IInv, TypeOK
  <2>3. attempts[k] # None
    BY SMTT(30), <2>2 DEF IInv, TypeOK, None
  <2>4. ASSUME NEW j \in Tasks, ~Accepted(j)' PROVE j # k /\ ~Accepted(j)
    BY <2>1, <2>2, <2>3, <2>4 DEF Accepted, IInv, TypeOK
  <2>5. active' = active \ {s} /\ \A t \in Stages : t # s => call'[t] = call[t]
    BY <2>1, <2>2 DEF Return
  <2>6. ASSUME NEW j \in Tasks, j # k PROVE Spent(j)' = Spent(j)
    <3>1. ~(j[1] = s /\ j = TaskOf(j[1]))
      BY <2>6
    <3>2. CASE UNCHANGED loop
      <4>1. UNCHANGED <<pc, cur, before, wave>> /\ (WaveValid' <=> WaveValid)
        BY <3>2, <1>1 DEF loop, place, WaveValid
      <4>2. CASE j[1] \in active' /\ j = TaskOf(j[1])'
        <5>1. j[1] \in active /\ TaskOf(j[1])' = TaskOf(j[1]) /\ call'[j[1]] = call[j[1]]
          BY <4>2, <2>2, <2>5 DEF TaskOf
        <5> QED BY <4>1, <4>2, <5>1, <2>2 DEF Spent
      <4>3. CASE ~(j[1] \in active' /\ j = TaskOf(j[1])')
        <5>1. ~(j[1] \in active /\ j = TaskOf(j[1]))
          BY <4>3, <3>1, <2>2, <2>5 DEF TaskOf
        <5> QED BY <4>1, <4>3, <5>1 DEF Spent
      <4> QED BY <4>2, <4>3
    <3>3. CASE active = {s} /\ repairs # before /\ Restart
      <4>1. Spent(j)' = 0
        BY <3>3 DEF Restart, Spent, WaveValid
      <4>2. Spent(j) = 0
        BY <3>1, <3>3, <2>2 DEF Spent, WaveValid
      <4> QED BY <4>1, <4>2
    <3>4. CASE active = {s} /\ repairs = before /\ pc' = "process" /\ UNCHANGED place
      <4>1. UNCHANGED <<cur, wave>> /\ WaveValid /\ WaveValid'
        BY <3>4, <2>2 DEF place, WaveValid
      <4>2. ~(j[1] \in active /\ j = TaskOf(j[1]))
        BY <3>1, <3>4
      <4> QED BY <3>4, <4>1, <4>2 DEF Spent
    <3> QED BY <2>1, <3>2, <3>3, <3>4 DEF Return
  <2>7. AttemptBound'
    BY <1>1, DispatchBound DEF AttemptBound
  <2>8. ASSUME NEW j \in Tasks, ~Accepted(j)'
        PROVE  attempts'[j] <= AttemptLimit * repairs' + Spent(j)'
    <3>1. j # k /\ ~Accepted(j)
      BY <2>4, <2>8
    <3>2. attempts'[j] = attempts[j]
      BY <1>1, <3>1, DispatchBound
    <3>3. Spent(j)' = Spent(j)
      BY <2>6, <3>1
    <3>4. attempts[j] <= AttemptLimit * repairs + Spent(j)
      BY <2>2, <3>1 DEF AttemptInv
    <3> QED BY <1>1, <3>2, <3>3, <3>4
  <2>9. pc' = "retry" => \A t \in active' : call'[t].failures < AttemptLimit
    BY <2>2, <2>5 DEF AttemptInv
  <2> QED BY <2>7, <2>8, <2>9 DEF AttemptInv
<1> QED BY <1>2, <1>3

(* A retried task fails: one failure more, or the end of the job. *)
LEMMA RetryErrorBound ==
  ASSUME IInv, AttemptInv, IInv', NEW s \in Stages, RetryError(s) PROVE AttemptInv'
<1> DEFINE k == TaskOf(s)
           f == call[s].failures
<1>1. /\ Running(s) /\ Dispatch(k)
      /\ UNCHANGED <<accepted, repairs, cur, before, wave, active>>
      /\ call' = [call EXCEPT ![s].up = NoUp, ![s].before = repairs', ![s].failures = f + 1]
      /\ pc' # "returned" => pc' = pc /\ ~(f + 1 >= AttemptLimit)
  BY DEF RetryError, Ready, Again, place
<1>2. CASE pc' = "returned"
  BY <1>1, <1>2, LastDispatchBound
<1>3. CASE pc' # "returned"
  <2>1. /\ pc = "retry" /\ pc' = "retry" /\ s \in active /\ k \in Tasks /\ k[1] = s
        /\ active \subseteq Stages /\ call \in [Stages -> Call] /\ f \in Nat
    BY <1>1, <1>3, RunningLemma DEF TaskOf, IInv, TypeOK, Call
  <2>2. /\ call'[s].failures = f + 1
        /\ \A t \in Stages : call'[t].part = call[t].part
        /\ \A t \in Stages : t # s => call'[t] = call[t]
    BY <1>1, <2>1 DEF Call
  <2>3. WaveValid' <=> WaveValid
    BY <1>1, <2>1 DEF WaveValid
  <2>4. \A t \in Stages : TaskOf(t)' = TaskOf(t)
    BY <2>2 DEF TaskOf
  <2>5. ASSUME NEW j \in Tasks, j = k PROVE Spent(j)' = f + 1
    <3>1. j[1] = s /\ j = TaskOf(j[1])'
      BY <2>1, <2>4, <2>5
    <3> QED BY <1>1, <2>1, <2>2, <3>1 DEF Spent
  <2>6. ASSUME NEW j \in Tasks, j # k PROVE Spent(j)' = Spent(j)
    <3>1. j[1] \in Stages /\ ~(j[1] = s /\ j = TaskOf(j[1]))
      BY <2>6, TaskLemma
    <3>2. CASE j[1] \in active /\ j = TaskOf(j[1])
      BY <3>1, <3>2, <1>1, <2>1, <2>2, <2>4 DEF Spent
    <3>3. CASE ~(j[1] \in active /\ j = TaskOf(j[1]))
      BY <3>1, <3>3, <1>1, <2>1, <2>3, <2>4 DEF Spent
    <3> QED BY <3>2, <3>3
  <2>7. /\ \A j \in Tasks : j # k => attempts'[j] = attempts[j]
        /\ attempts'[k] <= AttemptLimit * repairs + f + 1
        /\ \A j \in Tasks : attempts'[j] <= AttemptLimit * (repairs + 1)
    BY <1>1, DispatchBound
  <2>8. ASSUME NEW j \in Tasks, ~Accepted(j)'
        PROVE  attempts'[j] <= AttemptLimit * repairs' + Spent(j)'
    <3>1. CASE j = k
      <4>1. AttemptLimit * repairs \in Nat
        BY LimitLemma DEF IInv, TypeOK
      <4>2. AttemptLimit * repairs + f + 1 = AttemptLimit * repairs + (f + 1)
        BY SMTT(30), <2>1, <4>1
      <4> QED BY <1>1, <2>5, <2>7, <3>1, <4>2
    <3>2. CASE j # k
      BY <1>1, <2>1, <2>6, <2>7, <2>8, <3>2 DEF AttemptInv, Accepted
    <3> QED BY <3>1, <3>2
  <2>9. f + 1 < AttemptLimit
    <3>1. ~(f + 1 >= AttemptLimit)
      BY <1>1, <1>3
    <3>2. AttemptLimit \in Nat /\ f \in Nat
      BY <2>1, LimitLemma DEF IInv, TypeOK
    <3> HIDE DEF f
    <3> QED BY SMTT(30), <3>1, <3>2
  <2>10. \A t \in active' : call'[t].failures < AttemptLimit
    BY <1>1, <2>1, <2>2, <2>9 DEF AttemptInv
  <2> QED BY <1>1, <2>7, <2>8, <2>10 DEF AttemptInv, AttemptBound
<1> QED BY <1>2, <1>3

(* A retried task finds a map lost: the repair renews every budget. *)
LEMMA RetryFetchErrorBound ==
  ASSUME IInv, AttemptInv, IInv', NEW s \in Stages, NEW u \in Tasks,
         RetryFetchError(s, u)
  PROVE  AttemptInv'
<1>1. Running(s) /\ Dispatch(TaskOf(s))
  BY DEF RetryFetchError, Ready
<1>2. CASE pc' = "returned" /\ UNCHANGED repairs
  BY <1>1, <1>2, LastDispatchBound
<1>3. CASE Invalidate(u) /\ Again(s, call[s].failures)
  <2>1. repairs' = repairs + 1 /\ active' = active
    BY <1>3 DEF Invalidate, RetryFetchError
  <2>2. /\ pc = "retry" /\ active \subseteq Stages /\ call \in [Stages -> Call]
    BY <1>1, RunningLemma DEF IInv, TypeOK
  <2>3. \A t \in Stages : call'[t].failures = call[t].failures
    BY <1>3, <2>2 DEF Again, Call
  <2>4. \A t \in active' : call'[t].failures < AttemptLimit
    BY <2>1, <2>2, <2>3 DEF AttemptInv
  <2>5. \A k \in Tasks : attempts'[k] <= AttemptLimit * (repairs + 1)
    BY <1>1, DispatchBound
  <2> QED BY <2>1, <2>4, <2>5, RepairBound
<1> QED BY <1>2, <1>3 DEF RetryFetchError

(* The steps of ensureRetry. *)
LEMMA RetryBound == ASSUME IInv, AttemptInv, IInv', Retry PROVE AttemptInv'
<1>1. CASE \E s \in Stages, u \in Tasks : CollectParent(s, u) \/ EnsureParent(s, u)
  BY <1>1, PrepareBound
<1>2. CASE \E s \in Stages : RebuildSnapshot(s)
  <2>1. PICK s \in Stages : RebuildSnapshot(s)
    BY <1>2
  <2>2. TaskOf(s) \in Tasks
    BY <2>1, RunningLemma DEF RebuildSnapshot
  <2> QED BY <2>1, <2>2, PrepareBound
<1>3. CASE \E s \in Stages : RetryOK(s)
  BY <1>3, RetryOKBound
<1>4. CASE \E s \in Stages : RetryError(s)
  BY <1>4, RetryErrorBound
<1>5. CASE \E s \in Stages : RetryNoWorkers(s)
  BY <1>5, LastDispatchBound DEF RetryNoWorkers, Ready
<1>6. CASE \E s \in Stages, u \in Tasks : RetryFetchError(s, u)
  BY <1>6, RetryFetchErrorBound
<1> QED BY <1>1, <1>2, <1>3, <1>4, <1>5, <1>6 DEF Retry

(* The invariant with the dispatch counts holds throughout every job. *)
THEOREM Inductive == Spec => []InductiveInv
<1>1. Init => InductiveInv
  BY InitIInv, InitAttemptInv DEF InductiveInv
<1>2. InductiveInv /\ [Next]_vars => InductiveInv'
  <2> SUFFICES ASSUME IInv, AttemptInv, [Next]_vars PROVE IInv' /\ AttemptInv'
    BY DEF InductiveInv
  <2>1. IInv'
    BY NextIInv
  <2> QED BY <2>1, LoopBound, RetryBound, OtherBound DEF Next, Returned
<1> QED BY <1>1, <1>2, PTL DEF Spec

(* No task is dispatched more than AttemptLimit times between two repairs. *)
THEOREM DispatchesBounded == Spec => []AttemptBound
<1>1. InductiveInv => AttemptBound
  BY DEF InductiveInv, AttemptInv
<1> QED BY <1>1, Inductive, PTL
==============================================================================
