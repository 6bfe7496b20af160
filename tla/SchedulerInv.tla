----------------------------- MODULE SchedulerInv -----------------------------
(***************************************************************************)
(* The inductive invariant of the scheduler.  Its parts say what the code  *)
(* keeps true between any two steps of the coordinator; the properties of  *)
(* Scheduler follow from it.                                               *)
(***************************************************************************)
EXTENDS Scheduler

(* No repair was made since runStage began the current wave, so what it    *)
(* knows about earlier stages and about the wave still holds.              *)
WaveValid == pc \in {"await", "process"} \/ (pc = "retry" /\ repairs = before)

(* Where the coordinator is, and which of its local variables are in use. *)
ControlInv ==
  /\ pc = "returned" <=> outcome # "running"
  /\ pc \notin {"stage", "returned"} => cur \in Stages
  /\ pc \in {"stage", "sample", "run"} => wave = {}
  /\ pc \in {"await", "process"} => before = repairs
  /\ pc = "sample" => cur \in RangeSort /\ cur \notin sampled
  /\ pc # "returned" => before <= repairs
  /\ pc \notin {"retry", "returned"} => active = {}
  /\ pc = "retry" => cur \in active /\ \A s \in active : s <= cur

(* A stage has boundaries exactly when it is marked as sampled. *)
BoundsInv == \A s \in Stages : s \in sampled <=> bounds[s] # None

(* The stages before the current one are complete. *)
EarlierDone ==
  (pc \in {"stage", "sample", "run"} \/ WaveValid) =>
    \A k \in Tasks : k[1] < cur => Accepted(k)

(* A partition the cursor of runStage has passed is accepted, in the wave  *)
(* or being retried.                                                       *)
CursorInv ==
  (pc = "run" \/ WaveValid) =>
    \A p \in Parts(cur) : p < next =>
      \/ Accepted(<<cur, p>>)
      \/ \E w \in wave : w.part = p
      \/ pc = "retry" /\ p = call[cur].part

(* The tasks of the wave are distinct tasks of the current stage, not yet  *)
(* accepted, on a current snapshot and with the current boundaries; those  *)
(* that succeeded have boundaries if the stage needs them.                 *)
WaveInv ==
  WaveValid =>
    \A w \in wave :
      /\ w.part \in Parts(cur)
      /\ ~Accepted(<<cur, w.part>>)
      /\ \A u \in UpTasks(cur) : w.up[u] = accepted[u].attempt
      /\ w.bounds = bounds[cur]
      /\ w.st = "ok" /\ cur \in RangeSort => w.bounds # None
      /\ w.st = "fetch" => w.lost \in UpTasks(cur)
      /\ \A v \in wave : w.part = v.part => w = v
      /\ pc = "retry" => w.part # call[cur].part

(* An activation of ensureRetry works on a missing task, and what it       *)
(* collected is current unless a repair was made since it began to.        *)
CallInv ==
  pc = "retry" =>
    \A s \in active :
      /\ call[s].part \in Parts(s)
      /\ ~Accepted(TaskOf(s))
      /\ call[s].before <= repairs
      /\ call[s].before = repairs =>
           \A u \in UpTasks(s) : call[s].up[u] # None =>
             call[s].up[u] = accepted[u].attempt

(* Attempt numbers the activations refer to were dispatched. *)
CallFresh == \A s \in Stages : \A u \in Tasks : call[s].up[u] < attempts[u]

(* The wave belongs to the current stage. *)
WaveOfCur == wave # {} => cur \in Stages /\ \A w \in wave : w.part \in Parts(cur)

(* All of it, with the properties that need no more to be inductive. *)
IInv ==
  /\ TypeOK
  /\ ControlInv
  /\ BoundsInv
  /\ EarlierDone
  /\ CursorInv
  /\ WaveInv
  /\ CallInv
  /\ WaveOfCur
  /\ CallFresh
  /\ LineageConsistent
  /\ SharedBounds
  /\ AttemptsFresh
  /\ SuccessComplete
  /\ NoStaleFailure

(* How often an unaccepted task was dispatched since the last repair: once *)
(* with its wave, then once for every failure its activation counts.       *)
Spent(k) ==
  IF pc = "retry" /\ k[1] \in active /\ k = TaskOf(k[1]) THEN call[k[1]].failures
  ELSE IF WaveValid /\ k[1] = cur /\ \E w \in wave : w.part = k[2] THEN 1
  ELSE 0

(* Every repair gives every task AttemptLimit more dispatches, and an      *)
(* unaccepted task has used no more of the last ones than were counted.    *)
AttemptInv ==
  /\ AttemptBound
  /\ pc # "returned" =>
       \A k \in Tasks : ~Accepted(k) => attempts[k] <= AttemptLimit * repairs + Spent(k)
  /\ pc = "retry" => \A s \in active : call[s].failures < AttemptLimit

(* What the proofs show to be inductive. *)
InductiveInv == IInv /\ AttemptInv
=============================================================================
