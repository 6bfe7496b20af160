------------------------------ MODULE WorkerInv ------------------------------
(***************************************************************************)
(* The inductive invariant behind the properties of Worker.                *)
(***************************************************************************)
EXTENDS Worker

LiveIn(j) == {t \in Tasks : Live(t) /\ JobOf[t] = j}
LiveWith(c) == {t \in Tasks : Live(t) /\ IdentityOf[JobOf[t]] = c}

(* The counters of ServeWorker are the numbers of tasks in the handler. *)
CountsInv ==
  /\ \A j \in Jobs : active[j] = Cardinality(LiveIn(j))
  /\ \A c \in Identities : activeCache[c] = Cardinality(LiveWith(c))

(* Every unit a task has on the disk is reserved, its disk cache excepted. *)
Covered(t) ==
  \A p \in {Scratch(t), Pending(t), Output(t)} : Size(disk[p]) <= files[p]

(* What the phase of a task says about its files. *)
PhaseInv(t) ==
  /\ phase[t] \in {"idle", "stopped", "replied", "left"} =>
       Nothing(Scratch(t)) /\ disk[Cached(t)] = Absent
  /\ phase[t] # "dead" => files[Cached(t)] = 0
  /\ phase[t] = "fetching" => files[Scratch(t)] >= 1
  /\ phase[t] \notin {"reserved", "writing", "dead"} => Nothing(Pending(t))
  /\ phase[t] = "reserved" => disk[Pending(t)] \in Nat /\ files[Pending(t)] = disk[Pending(t)] + 1
  /\ phase[t] = "writing" => disk[Pending(t)] \in Nat /\ files[Pending(t)] = disk[Pending(t)]
  /\ phase[t] \in {"idle", "started", "fetching", "fetched", "reserved", "writing"} =>
       Nothing(Output(t))
  /\ phase[t] = "published" => disk[Output(t)] = Units
  /\ disk[Output(t)] \in {Absent, Units}

(* What is known of a task whose outcome is decided. *)
ResultInv(t) ==
  /\ result[t] # "none" => phase[t] \in {"closing", "stopped", "replied", "left", "dead"}
  /\ rpc[t] = "ok" => result[t] = "ok"
  /\ result[t] = "ok" /\ t \in MapTasks /\ job[JobOf[t]] # "cleaned" =>
       disk[Output(t)] = Units

(* A task inside the handler of a job that was cleaned up arrived late. *)
LateInv(t) ==
  job[JobOf[t]] = "cleaned" /\ t \notin late =>
    ~Live(t) /\ Nothing(Pending(t)) /\ Nothing(Output(t))

TaskInv(t) == Covered(t) /\ PhaseInv(t) /\ ResultInv(t) /\ LateInv(t)

(* The inductive invariant: counters, files and caches agree with where    *)
(* every task is, across failures, cleanups and restarts of the worker.    *)
IInv ==
  /\ StateTypes
  /\ CountsInv
  /\ \A t \in Tasks : TaskInv(t)
  /\ CacheShared

(* The running total of the budget is the sum of the reservations; without *)
(* the disk caches that restarts found, it is within the limit.            *)
TotalInv ==
  /\ used = SumFunction(files)
  /\ used - SumFunctionOnSet(files, CacheFiles) <= Limit
=============================================================================
