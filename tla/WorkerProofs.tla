---------------------------- MODULE WorkerProofs -----------------------------
(***************************************************************************)
(* Proofs about a worker, for every set of jobs, tasks and cache names,    *)
(* every output size and every limit: the steps of a task inside the /task *)
(* handler, entering and leaving it, the other handlers, the driver and    *)
(* restarts keep the invariant; the theorems that follow from it; and the  *)
(* running total of the disk budget.                                       *)
(***************************************************************************)
EXTENDS WorkerInv, DataTheorems

(* Leaves that name no prover are Zenon's.                                   *)
USE ZenonT(60)

(* Inside the /task handler                                                *)

(* The four paths of a task are its own. *)
LEMMA PathLemma ==
  /\ \A t \in Tasks : FilesOf(t) \subseteq Paths
  /\ \A t \in Tasks : /\ Scratch(t) \in Paths /\ Cached(t) \in Paths
                      /\ Pending(t) \in Paths /\ Output(t) \in Paths
  /\ \A t, u \in Tasks : t # u => FilesOf(t) \cap FilesOf(u) = {}
  /\ \A t \in Tasks : /\ Scratch(t) # Pending(t) /\ Scratch(t) # Output(t)
                      /\ Pending(t) # Output(t) /\ Cached(t) # Scratch(t)
                      /\ Cached(t) # Pending(t) /\ Cached(t) # Output(t)
<1>1. \A t \in Tasks : FilesOf(t) \subseteq Paths
  BY SMTT(30) DEF FilesOf, Scratch, Cached, Pending, Output, Paths
<1>2. \A t \in Tasks : /\ Scratch(t) \in Paths /\ Cached(t) \in Paths
                       /\ Pending(t) \in Paths /\ Output(t) \in Paths
  BY <1>1 DEF FilesOf
<1>3. \A t, u \in Tasks : t # u => FilesOf(t) \cap FilesOf(u) = {}
  BY SMTT(30) DEF FilesOf, Scratch, Cached, Pending, Output
<1>4. \A t \in Tasks : /\ Scratch(t) # Pending(t) /\ Scratch(t) # Output(t)
                       /\ Pending(t) # Output(t) /\ Cached(t) # Scratch(t)
                       /\ Cached(t) # Pending(t) /\ Cached(t) # Output(t)
  BY DEF Scratch, Cached, Pending, Output
<1> QED BY <1>1, <1>2, <1>3, <1>4

(* What a step leaves alone about a task keeps what is known of the task. *)
LEMMA FrameLemma ==
  ASSUME NEW u \in Tasks, TaskInv(u),
         phase'[u] = phase[u], result'[u] = result[u], rpc'[u] = rpc[u],
         job'[JobOf[u]] = job[JobOf[u]], u \in late' <=> u \in late,
         \A p \in FilesOf(u) : disk'[p] = disk[p] /\ files'[p] = files[p]
  PROVE  TaskInv(u)'
<1>0. \A p \in {Scratch(u), Cached(u), Pending(u), Output(u)} :
        disk'[p] = disk[p] /\ files'[p] = files[p]
  BY DEF FilesOf
<1>1. Covered(u)'
  BY <1>0 DEF TaskInv, Covered
<1>2. PhaseInv(u)'
  BY <1>0 DEF TaskInv, PhaseInv, Nothing
<1>3. ResultInv(u)'
  BY <1>0 DEF TaskInv, ResultInv
<1>4. LateInv(u)'
  BY <1>0 DEF TaskInv, LateInv, Nothing, Live
<1> QED BY <1>1, <1>2, <1>3, <1>4 DEF TaskInv

(* The counts depend on the phases only. *)
LEMMA SameCounts ==
  ASSUME CountsInv, phase' = phase, active' = active, activeCache' = activeCache
  PROVE  CountsInv'
<1>1. \A u \in Tasks : Live(u)' <=> Live(u)
  BY DEF Live
<1>2. \A j \in Jobs : LiveIn(j)' = LiveIn(j)
  BY <1>1 DEF LiveIn
<1>3. \A c \in Identities : LiveWith(c)' = LiveWith(c)
  BY <1>1 DEF LiveWith
<1> QED BY <1>2, <1>3 DEF CountsInv

(* The caches of the tasks inside depend on the phases and the maps only. *)
LEMMA SameCaches ==
  ASSUME CacheShared, phase' = phase, jobCaches' = jobCaches, reusable' = reusable,
         held' = held
  PROVE  CacheShared'
<1>1. \A u \in Tasks : Live(u)' <=> Live(u)
  BY DEF Live
<1>2. \A u \in Tasks : CacheFor(u)' = CacheFor(u)
  BY DEF CacheFor, CacheKey
<1> QED BY <1>1, <1>2 DEF CacheShared

(* A task that stays inside the handler changes no count and no cache. *)
LEMMA InsideLemma ==
  ASSUME IInv, NEW t \in Tasks, Live(t), NEW x \in Phases \ Outside,
         phase' = [phase EXCEPT ![t] = x], UNCHANGED <<counts, caches>>
  PROVE  CountsInv' /\ CacheShared' /\ phase' \in [Tasks -> Phases]
<1>1. phase' \in [Tasks -> Phases]
  BY DEF IInv, StateTypes
<1>2. \A u \in Tasks : Live(u)' <=> Live(u)
  BY DEF Live, IInv, StateTypes
<1>3. \A j \in Jobs : LiveIn(j)' = LiveIn(j)
  BY <1>2 DEF LiveIn
<1>4. \A c \in Identities : LiveWith(c)' = LiveWith(c)
  BY <1>2 DEF LiveWith
<1>5. CountsInv'
  BY <1>3, <1>4 DEF CountsInv, counts, IInv
<1>6. CacheShared'
  BY <1>2 DEF CacheShared, CacheFor, CacheKey, caches, IInv
<1> QED BY <1>1, <1>5, <1>6

(* A step of a task inside the handler that only touches its own files     *)
(* keeps the invariant if it keeps what is known of this task.             *)
LEMMA HandlerLemma ==
  ASSUME IInv, NEW t \in Tasks, Live(t), NEW x \in Phases \ Outside,
         phase' = [phase EXCEPT ![t] = x], UNCHANGED <<counts, caches, driver>>,
         result' \in [Tasks -> {"none", "ok", "error"}],
         rpc' \in [Tasks -> {"unsent", "sent", "ok", "failed"}],
         disk' \in [Paths -> Nat \cup {Absent}], files' \in [Paths -> Nat],
         \A u \in Tasks \ {t} : result'[u] = result[u] /\ rpc'[u] = rpc[u],
         \A p \in Paths \ FilesOf(t) :
           disk'[p] = disk[p] /\ files'[p] = files[p],
         TaskInv(t)'
  PROVE  IInv'
<1>1. CountsInv' /\ CacheShared' /\ phase' \in [Tasks -> Phases]
  BY InsideLemma
<1>2. StateTypes'
  BY <1>1 DEF IInv, StateTypes, counts, caches, driver
<1>3. ASSUME NEW u \in Tasks \ {t} PROVE TaskInv(u)'
  <2>1. \A p \in FilesOf(u) : disk'[p] = disk[p] /\ files'[p] = files[p]
    BY PathLemma
  <2>2. phase'[u] = phase[u]
    BY DEF IInv, StateTypes
  <2> QED BY <2>1, <2>2, FrameLemma DEF IInv, driver
<1> QED BY <1>1, <1>2, <1>3 DEF IInv

-----------------------------------------------------------------------------
(* The steps of the handler *)

(* A task inside the handler of a cleaned job is late, so what LateInv     *)
(* says of the others does not concern it.                                 *)
LEMMA LiveLateLemma ==
  ASSUME IInv, NEW t \in Tasks, Live(t), UNCHANGED driver
  PROVE  LateInv(t)'
BY DEF IInv, TaskInv, LateInv, driver

(* Closing a task without touching its files; an ok result of a map task   *)
(* needs its output.                                                       *)
LEMMA CloseLemma ==
  ASSUME IInv, NEW t \in Tasks, NEW r \in {"ok", "error"}, Live(t),
         result[t] = "none",
         r = "ok" /\ t \in MapTasks => disk[Output(t)] = Units,
         phase[t] \in {"started", "fetched", "published"}, Close(t, r), UNCHANGED <<disk, files, rpc, counts, caches, driver>>
  PROVE  IInv'
<1>1. /\ phase' = [phase EXCEPT ![t] = "closing"] /\ phase'[t] = "closing"
      /\ result' \in [Tasks -> {"none", "ok", "error"}] /\ result'[t] = r
      /\ \A u \in Tasks \ {t} : result'[u] = result[u]
  BY DEF Close, IInv, StateTypes
<1>2. Covered(t)'
  BY DEF IInv, TaskInv, Covered
<1>3. PhaseInv(t)'
  BY <1>1 DEF IInv, TaskInv, PhaseInv, Nothing
<1>4. ResultInv(t)'
  BY <1>1 DEF IInv, TaskInv, ResultInv
<1>5. LateInv(t)'
  BY LiveLateLemma
<1>6. "closing" \in Phases \ Outside
  BY DEF Phases, Outside
<1> QED BY <1>1, <1>2, <1>3, <1>4, <1>5, <1>6, HandlerLemma DEF TaskInv, IInv, StateTypes, FilesOf

(* No result is recorded before the task is closed. *)
LEMMA NoResultLemma ==
  ASSUME IInv, NEW t \in Tasks,
         phase[t] \in {"started", "fetching", "fetched", "reserved", "writing", "published"}
  PROVE  Live(t) /\ result[t] = "none"
BY DEF IInv, TaskInv, ResultInv, Live, Outside, StateTypes

(* Abort keeps the invariant. *)
LEMMA AbortStep == ASSUME IInv, NEW t \in Tasks, Abort(t) PROVE IInv'
BY NoResultLemma, CloseLemma DEF Abort, budget

(* Compute keeps the invariant. *)
LEMMA ComputeStep == ASSUME IInv, NEW t \in Tasks, Compute(t) PROVE IInv'
BY NoResultLemma, CloseLemma DEF Compute, Ready, budget

(* Return keeps the invariant. *)
LEMMA ReturnStep == ASSUME IInv, NEW t \in Tasks, Return(t) PROVE IInv'
<1>1. disk[Output(t)] = Units
  BY DEF IInv, TaskInv, PhaseInv, Return
<1> QED BY <1>1, NoResultLemma, CloseLemma DEF Return, budget

(* FetchReserve keeps the invariant. *)
LEMMA FetchReserveStep == ASSUME IInv, NEW t \in Tasks, FetchReserve(t) PROVE IInv'
<1>1. phase[t] = "started" /\ Live(t) /\ result[t] = "none"
  BY NoResultLemma DEF FetchReserve
<1>2. CASE Close(t, "error") /\ UNCHANGED <<disk, budget>>
  BY <1>1, <1>2, CloseLemma DEF FetchReserve, budget
<1>3. CASE /\ Reserve(Scratch(t), 1)
           /\ disk' = [disk EXCEPT ![Scratch(t)] = 0]
           /\ phase' = [phase EXCEPT ![t] = "fetching"]
           /\ UNCHANGED result
  <2>1. UNCHANGED <<rpc, counts, caches, driver>>
    BY DEF FetchReserve
  <2>2. /\ disk' \in [Paths -> Nat \cup {Absent}] /\ files' \in [Paths -> Nat]
        /\ disk'[Scratch(t)] = 0 /\ files'[Scratch(t)] >= 1
        /\ \A p \in Paths \ {Scratch(t)} : disk'[p] = disk[p] /\ files'[p] = files[p]
        /\ phase'[t] = "fetching"
    BY SMTT(30), <1>3, PathLemma DEF Reserve, IInv, StateTypes, Absent
  <2>3. /\ disk'[Pending(t)] = disk[Pending(t)] /\ files'[Pending(t)] = files[Pending(t)]
        /\ disk'[Output(t)] = disk[Output(t)] /\ files'[Output(t)] = files[Output(t)]
        /\ disk'[Cached(t)] = disk[Cached(t)] /\ files'[Cached(t)] = files[Cached(t)]
    BY <2>2, PathLemma
  <2>4. Covered(t)'
    BY SMTT(30), <2>2, <2>3, PathLemma DEF IInv, TaskInv, Covered, Size, StateTypes
  <2>5. PhaseInv(t)'
    BY <2>2, <2>3, <1>1 DEF IInv, TaskInv, PhaseInv, Nothing
  <2>6. ResultInv(t)' /\ LateInv(t)'
    BY <1>1, <1>3, <2>1, <2>3, LiveLateLemma DEF IInv, TaskInv, ResultInv, driver
  <2>7. "fetching" \in Phases \ Outside
    BY DEF Phases, Outside
  <2> QED BY <1>1, <1>3, <2>1, <2>2, <2>4, <2>5, <2>6, <2>7, HandlerLemma
             DEF TaskInv, IInv, StateTypes, FilesOf
<1> QED BY <1>2, <1>3 DEF FetchReserve

(* FetchWrite keeps the invariant. *)
LEMMA FetchWriteStep == ASSUME IInv, NEW t \in Tasks, FetchWrite(t) PROVE IInv'
<1>1. phase[t] = "fetching" /\ Live(t) /\ result[t] = "none"
  BY NoResultLemma DEF FetchWrite, Move
<1>2. /\ phase' = [phase EXCEPT ![t] = "fetched"] /\ files' = files
      /\ UNCHANGED <<result, rpc, counts, caches, driver>>
  BY DEF FetchWrite, Move, budget
<1>3. /\ disk' \in [Paths -> Nat \cup {Absent}] /\ phase'[t] = "fetched"
      /\ disk'[Scratch(t)] = 1
      /\ \A p \in Paths \ {Scratch(t)} : disk'[p] = disk[p]
  BY <1>2, PathLemma DEF FetchWrite, IInv, StateTypes
<1>4. /\ disk'[Pending(t)] = disk[Pending(t)] /\ disk'[Output(t)] = disk[Output(t)]
      /\ disk'[Cached(t)] = disk[Cached(t)]
  BY <1>3, PathLemma
<1>5. Covered(t)'
  BY SMTT(30), <1>1, <1>2, <1>3, <1>4 DEF IInv, TaskInv, Covered, PhaseInv, Size, Absent
<1>6. PhaseInv(t)'
  BY <1>1, <1>2, <1>3, <1>4 DEF IInv, TaskInv, PhaseInv, Nothing
<1>7. ResultInv(t)' /\ LateInv(t)'
  BY <1>1, <1>2, <1>4, LiveLateLemma DEF IInv, TaskInv, ResultInv, driver
<1>8. "fetched" \in Phases \ Outside
  BY DEF Phases, Outside
<1> QED BY <1>1, <1>2, <1>3, <1>5, <1>6, <1>7, <1>8, HandlerLemma DEF TaskInv, IInv, StateTypes, FilesOf

(* Removing files of a task that is closed with an error, or is about to   *)
(* stop, keeps the invariant when its output stays.                        *)
LEMMA RemoveLemma ==
  ASSUME IInv, NEW t \in Tasks, Live(t), NEW D, D \subseteq {Scratch(t), Cached(t), Pending(t)},
         RemoveDir(D), NEW x \in {"closing", "stopped"},
         phase' = [phase EXCEPT ![t] = x],
         phase[t] \in {"reserved", "writing"} => Pending(t) \in D,
         x = "stopped" => Scratch(t) \in D /\ Cached(t) \in D,
         \/ result' = [result EXCEPT ![t] = "error"] /\ result[t] = "none"
         \/ result' = result /\ phase[t] = "closing",
         UNCHANGED <<rpc, counts, caches, driver>>
  PROVE  IInv'
<1>1. /\ disk' \in [Paths -> Nat \cup {Absent}] /\ files' \in [Paths -> Nat]
      /\ \A q \in Paths \ D : disk'[q] = disk[q] /\ files'[q] = files[q]
      /\ \A q \in Paths : q \in D => disk'[q] = Absent /\ files'[q] = 0
  BY PathLemma DEF RemoveDir, IInv, StateTypes
<1>2. /\ disk'[Output(t)] = disk[Output(t)] /\ files'[Output(t)] = files[Output(t)]
  <2>1. Output(t) \in Paths \ D
    BY PathLemma
  <2> QED BY <1>1, <2>1
<1>3. phase'[t] = x /\ x \in Phases \ Outside
  BY DEF IInv, StateTypes, Phases, Outside
<1>4. /\ result' \in [Tasks -> {"none", "ok", "error"}]
      /\ \A u \in Tasks \ {t} : result'[u] = result[u]
      /\ result'[t] = "error" \/ result'[t] = result[t]
  BY DEF IInv, StateTypes
<1>5. Covered(t)'
  <2> SUFFICES ASSUME NEW q \in {Scratch(t), Pending(t), Output(t)}
               PROVE  Size(disk'[q]) <= files'[q]
    BY DEF Covered
  <2>0. q \in Paths
    BY PathLemma
  <2>1. CASE q \in D
    BY SMTT(30), <2>0, <2>1, <1>1 DEF Size
  <2>2. CASE q \notin D
    BY <2>0, <2>2, <1>1 DEF IInv, TaskInv, Covered
  <2> QED BY <2>1, <2>2
<1>6. PhaseInv(t)'
  <2>1. phase[t] # "dead" /\ Cached(t) \in Paths /\ Pending(t) \in Paths /\ Scratch(t) \in Paths
    BY PathLemma DEF Live, Outside
  <2>2. files'[Cached(t)] = 0
    BY <1>1, <2>1 DEF IInv, TaskInv, PhaseInv
  <2>3. Nothing(Pending(t))'
    BY <1>1, <2>1 DEF IInv, TaskInv, PhaseInv, Nothing
  <2>4. x = "stopped" => disk'[Scratch(t)] = Absent /\ files'[Scratch(t)] = 0 /\ disk'[Cached(t)] = Absent
    BY <1>1, <2>1
  <2>5. disk'[Output(t)] \in {Absent, Units}
    BY <1>2 DEF IInv, TaskInv, PhaseInv
  <2> QED BY <1>3, <2>2, <2>3, <2>4, <2>5 DEF PhaseInv, Nothing
<1>7. ResultInv(t)'
  BY <1>2, <1>3, <1>4 DEF IInv, TaskInv, ResultInv, driver
<1>8. LateInv(t)'
  BY LiveLateLemma
<1>9. \A q \in Paths \ FilesOf(t) : disk'[q] = disk[q] /\ files'[q] = files[q]
  BY <1>1 DEF FilesOf
<1> QED BY <1>1, <1>3, <1>4, <1>5, <1>6, <1>7, <1>8, <1>9, HandlerLemma
           DEF TaskInv, IInv, StateTypes

(* FetchFails keeps the invariant. *)
LEMMA FetchFailsStep == ASSUME IInv, NEW t \in Tasks, FetchFails(t) PROVE IInv'
BY NoResultLemma, RemoveLemma DEF FetchFails, Close

(* MapFails keeps the invariant. *)
LEMMA MapFailsStep == ASSUME IInv, NEW t \in Tasks, MapFails(t) PROVE IInv'
BY NoResultLemma, RemoveLemma DEF MapFails, Close

(* Stop keeps the invariant. *)
LEMMA StopStep == ASSUME IInv, NEW t \in Tasks, Stop(t) PROVE IInv'
<1>1. Live(t) /\ phase[t] = "closing"
  BY DEF Stop, Move, Live, Outside
<1>2. /\ ScratchDir(t) \subseteq {Scratch(t), Cached(t), Pending(t)}
      /\ Scratch(t) \in ScratchDir(t) /\ Cached(t) \in ScratchDir(t)
  BY DEF ScratchDir
<1> QED BY <1>1, <1>2, RemoveLemma DEF Stop, Move

(* PutOnDisk keeps the invariant: the disk cache is in nobody's way. *)
LEMMA PutOnDiskStep == ASSUME IInv, NEW t \in Tasks, PutOnDisk(t) PROVE IInv'
<1>1. phase[t] \in {"started", "fetched", "writing"} /\ Live(t) /\ result[t] = "none"
  BY NoResultLemma DEF PutOnDisk, Ready
<1>2. /\ UNCHANGED <<files, phase, result, rpc, counts, caches, driver>>
      /\ disk' = [disk EXCEPT ![Cached(t)] = 1]
  BY DEF PutOnDisk, budget
<1>3. phase' = [phase EXCEPT ![t] = phase[t]] /\ phase[t] \in Phases \ Outside
  BY <1>1, <1>2 DEF IInv, StateTypes, Live
<1>4. /\ disk' \in [Paths -> Nat \cup {Absent}]
      /\ \A p \in Paths \ {Cached(t)} : disk'[p] = disk[p]
  BY <1>2, PathLemma DEF IInv, StateTypes
<1>5. /\ disk'[Scratch(t)] = disk[Scratch(t)] /\ disk'[Pending(t)] = disk[Pending(t)]
      /\ disk'[Output(t)] = disk[Output(t)]
  BY <1>4, PathLemma
<1>6. Covered(t)'
  BY <1>2, <1>5 DEF IInv, TaskInv, Covered
<1>7. PhaseInv(t)'
  BY <1>1, <1>2, <1>5 DEF IInv, TaskInv, PhaseInv, Nothing
<1>8. ResultInv(t)' /\ LateInv(t)'
  BY <1>1, <1>2, <1>5, LiveLateLemma DEF IInv, TaskInv, ResultInv, driver
<1> QED BY <1>1, <1>2, <1>3, <1>4, <1>6, <1>7, <1>8, HandlerLemma
           DEF TaskInv, IInv, StateTypes, FilesOf

(* OpenBucket keeps the invariant. *)
LEMMA OpenBucketStep == ASSUME IInv, NEW t \in Tasks, OpenBucket(t) PROVE IInv'
<1>1. phase[t] \in {"started", "fetched"} /\ Live(t) /\ result[t] = "none"
  BY NoResultLemma DEF OpenBucket, Ready
<1>2. CASE Close(t, "error") /\ UNCHANGED <<disk, budget>>
  BY <1>1, <1>2, CloseLemma DEF OpenBucket, budget
<1>3. CASE /\ Reserve(Pending(t), 1)
           /\ disk' = [disk EXCEPT ![Pending(t)] = 0]
           /\ phase' = [phase EXCEPT ![t] = "reserved"]
           /\ UNCHANGED result
  <2>1. UNCHANGED <<rpc, counts, caches, driver>>
    BY DEF OpenBucket
  <2>2. files[Pending(t)] = 0
    BY <1>1 DEF IInv, TaskInv, PhaseInv, Nothing
  <2>3. /\ disk' \in [Paths -> Nat \cup {Absent}] /\ files' \in [Paths -> Nat]
        /\ disk'[Pending(t)] = 0 /\ files'[Pending(t)] = 1
        /\ \A p \in Paths \ {Pending(t)} : disk'[p] = disk[p] /\ files'[p] = files[p]
        /\ phase'[t] = "reserved"
    BY SMTT(30), <1>3, <2>2, PathLemma DEF Reserve, IInv, StateTypes, Absent
  <2>4. /\ disk'[Scratch(t)] = disk[Scratch(t)] /\ files'[Scratch(t)] = files[Scratch(t)]
        /\ disk'[Output(t)] = disk[Output(t)] /\ files'[Output(t)] = files[Output(t)]
        /\ disk'[Cached(t)] = disk[Cached(t)] /\ files'[Cached(t)] = files[Cached(t)]
    BY <2>3, PathLemma
  <2>5. Covered(t)'
    BY SMTT(30), <2>3, <2>4 DEF IInv, TaskInv, Covered, Size
  <2>6. PhaseInv(t)'
    BY SMTT(30), <2>3, <2>4, <1>1 DEF IInv, TaskInv, PhaseInv, Nothing
  <2>7. ResultInv(t)' /\ LateInv(t)'
    BY <1>1, <1>3, <2>1, <2>4, LiveLateLemma DEF IInv, TaskInv, ResultInv, driver
  <2>8. "reserved" \in Phases \ Outside
    BY DEF Phases, Outside
  <2> QED BY <1>1, <1>3, <2>1, <2>3, <2>5, <2>6, <2>7, <2>8, HandlerLemma
             DEF TaskInv, IInv, StateTypes, FilesOf
<1> QED BY <1>2, <1>3 DEF OpenBucket

(* WriteUnit keeps the invariant. *)
LEMMA WriteUnitStep == ASSUME IInv, NEW t \in Tasks, WriteUnit(t) PROVE IInv'
<1>1. phase[t] = "reserved" /\ Live(t) /\ result[t] = "none"
  BY NoResultLemma DEF WriteUnit, Move
<1>2. /\ phase' = [phase EXCEPT ![t] = "writing"] /\ files' = files
      /\ UNCHANGED <<result, rpc, counts, caches, driver>>
  BY DEF WriteUnit, Move, budget
<1>3. disk[Pending(t)] \in Nat /\ files[Pending(t)] = disk[Pending(t)] + 1
  BY <1>1 DEF IInv, TaskInv, PhaseInv
<1>4. /\ disk' \in [Paths -> Nat \cup {Absent}] /\ phase'[t] = "writing"
      /\ disk'[Pending(t)] = disk[Pending(t)] + 1
      /\ \A p \in Paths \ {Pending(t)} : disk'[p] = disk[p]
  BY <1>2, <1>3, PathLemma DEF WriteUnit, IInv, StateTypes
<1>5. /\ disk'[Scratch(t)] = disk[Scratch(t)] /\ disk'[Output(t)] = disk[Output(t)]
      /\ disk'[Cached(t)] = disk[Cached(t)]
  BY <1>4, PathLemma
<1>6. disk'[Pending(t)] \in Nat /\ files'[Pending(t)] = disk'[Pending(t)]
  BY SMTT(30), <1>2, <1>3, <1>4
<1>7. Covered(t)'
  BY SMTT(30), <1>2, <1>5, <1>6 DEF IInv, TaskInv, Covered, Size, Absent
<1>8. PhaseInv(t)'
  BY <1>1, <1>2, <1>4, <1>5, <1>6 DEF IInv, TaskInv, PhaseInv, Nothing
<1>9. ResultInv(t)' /\ LateInv(t)'
  BY <1>1, <1>2, <1>5, LiveLateLemma DEF IInv, TaskInv, ResultInv, driver
<1>10. "writing" \in Phases \ Outside
  BY DEF Phases, Outside
<1> QED BY <1>1, <1>2, <1>4, <1>7, <1>8, <1>9, <1>10, HandlerLemma DEF TaskInv, IInv, StateTypes, FilesOf

(* ReserveUnit keeps the invariant. *)
LEMMA ReserveUnitStep == ASSUME IInv, NEW t \in Tasks, ReserveUnit(t) PROVE IInv'
<1>1. phase[t] = "writing" /\ Live(t) /\ result[t] = "none"
  BY NoResultLemma DEF ReserveUnit, Move
<1>2. /\ phase' = [phase EXCEPT ![t] = "reserved"] /\ disk' = disk
      /\ UNCHANGED <<result, rpc, counts, caches, driver>>
  BY DEF ReserveUnit, Move
<1>3. disk[Pending(t)] \in Nat /\ files[Pending(t)] = disk[Pending(t)]
  BY <1>1 DEF IInv, TaskInv, PhaseInv
<1>4. /\ files' \in [Paths -> Nat] /\ phase'[t] = "reserved"
      /\ files'[Pending(t)] = files[Pending(t)] + 1
      /\ \A p \in Paths \ {Pending(t)} : files'[p] = files[p]
  BY SMTT(30), <1>2, PathLemma DEF ReserveUnit, Reserve, IInv, StateTypes
<1>5. /\ files'[Scratch(t)] = files[Scratch(t)] /\ files'[Output(t)] = files[Output(t)]
      /\ files'[Cached(t)] = files[Cached(t)]
  BY <1>4, PathLemma
<1>6. disk'[Pending(t)] \in Nat /\ files'[Pending(t)] = disk'[Pending(t)] + 1
  BY <1>2, <1>3, <1>4
<1>7. Covered(t)'
  BY SMTT(30), <1>2, <1>5, <1>6 DEF IInv, TaskInv, Covered, Size, Absent
<1>8. PhaseInv(t)'
  BY <1>1, <1>2, <1>4, <1>5, <1>6 DEF IInv, TaskInv, PhaseInv, Nothing
<1>9. ResultInv(t)' /\ LateInv(t)'
  BY <1>1, <1>2, LiveLateLemma DEF IInv, TaskInv, ResultInv, driver
<1>10. "reserved" \in Phases \ Outside
  BY DEF Phases, Outside
<1> QED BY <1>1, <1>2, <1>4, <1>7, <1>8, <1>9, <1>10, HandlerLemma DEF TaskInv, IInv, StateTypes, FilesOf

(* Publish keeps the invariant: what is renamed is whole. *)
LEMMA PublishStep == ASSUME IInv, NEW t \in Tasks, Publish(t) PROVE IInv'
<1>1. phase[t] = "writing" /\ Live(t) /\ result[t] = "none" /\ disk[Pending(t)] = Units
  BY NoResultLemma DEF Publish, Move
<1>2. /\ phase' = [phase EXCEPT ![t] = "published"]
      /\ UNCHANGED <<result, rpc, counts, caches, driver>>
  BY DEF Publish, Move
<1>3. files[Pending(t)] = Units
  BY <1>1 DEF IInv, TaskInv, PhaseInv
<1>4. /\ disk' \in [Paths -> Nat \cup {Absent}] /\ files' \in [Paths -> Nat]
      /\ disk'[Output(t)] = Units /\ files'[Output(t)] = Units
      /\ disk'[Pending(t)] = Absent /\ files'[Pending(t)] = 0
      /\ \A p \in Paths \ {Pending(t), Output(t)} : disk'[p] = disk[p] /\ files'[p] = files[p]
      /\ phase'[t] = "published"
  BY <1>1, <1>2, <1>3, PathLemma DEF Publish, RenameDir, IInv, StateTypes
<1>5. /\ disk'[Scratch(t)] = disk[Scratch(t)] /\ files'[Scratch(t)] = files[Scratch(t)]
      /\ files'[Cached(t)] = files[Cached(t)]
  BY <1>4, PathLemma
<1>6. Covered(t)'
  BY SMTT(30), <1>4, <1>5, SizesAssumption DEF IInv, TaskInv, Covered, Size, Absent
<1>7. PhaseInv(t)'
  BY <1>1, <1>4, <1>5 DEF IInv, TaskInv, PhaseInv, Nothing
<1>8. ResultInv(t)' /\ LateInv(t)'
  BY <1>1, <1>2, LiveLateLemma DEF IInv, TaskInv, ResultInv, driver
<1>9. "published" \in Phases \ Outside
  BY DEF Phases, Outside
<1> QED BY <1>1, <1>2, <1>4, <1>6, <1>7, <1>8, <1>9, HandlerLemma DEF TaskInv, IInv, StateTypes, FilesOf

(* ReturnCanceled keeps the invariant: the removed output was not reported. *)
LEMMA ReturnCanceledStep == ASSUME IInv, NEW t \in Tasks, ReturnCanceled(t) PROVE IInv'
<1>1. phase[t] = "published" /\ Live(t) /\ result[t] = "none" /\ rpc[t] = "failed"
  BY NoResultLemma DEF ReturnCanceled
<1>2. /\ phase' = [phase EXCEPT ![t] = "closing"] /\ files' = files
      /\ UNCHANGED <<rpc, counts, caches, driver>>
  BY DEF ReturnCanceled, Close, budget
<1>3. /\ disk' \in [Paths -> Nat \cup {Absent}] /\ phase'[t] = "closing"
      /\ disk'[Output(t)] = Absent
      /\ \A p \in Paths \ {Output(t)} : disk'[p] = disk[p]
  BY <1>2, PathLemma DEF ReturnCanceled, IInv, StateTypes
<1>4. disk'[Scratch(t)] = disk[Scratch(t)] /\ disk'[Pending(t)] = disk[Pending(t)]
  BY <1>3, PathLemma
<1>5. /\ result' \in [Tasks -> {"none", "ok", "error"}] /\ result'[t] = "error"
      /\ \A u \in Tasks \ {t} : result'[u] = result[u]
  BY DEF ReturnCanceled, Close, IInv, StateTypes
<1>6. Covered(t)'
  <2>1. files'[Output(t)] >= 0
    BY SMTT(30), <1>2, PathLemma DEF IInv, StateTypes
  <2>2. \A p \in {Scratch(t), Pending(t)} : Size(disk'[p]) <= files'[p]
    BY <1>2, <1>4 DEF IInv, TaskInv, Covered
  <2>3. Size(disk'[Output(t)]) <= files'[Output(t)]
    BY <2>1, <1>3 DEF Size
  <2> QED BY <2>2, <2>3 DEF Covered
<1>7. PhaseInv(t)'
  BY <1>1, <1>2, <1>3, <1>4 DEF IInv, TaskInv, PhaseInv, Nothing
<1>8. ResultInv(t)' /\ LateInv(t)'
  BY <1>1, <1>2, <1>3, <1>5, LiveLateLemma DEF ResultInv, driver
<1>9. "closing" \in Phases \ Outside
  BY DEF Phases, Outside
<1> QED BY <1>1, <1>2, <1>3, <1>5, <1>6, <1>7, <1>8, <1>9, HandlerLemma
           DEF TaskInv, IInv, StateTypes, FilesOf

(* Respond keeps the invariant. *)
LEMMA RespondStep == ASSUME IInv, NEW t \in Tasks, Respond(t) PROVE IInv'
<1>1. phase[t] = "stopped" /\ Live(t)
  BY DEF Respond, Move, Live, Outside
<1>2. /\ phase' = [phase EXCEPT ![t] = "replied"]
      /\ UNCHANGED <<disk, files, result, counts, caches, driver>>
  BY DEF Respond, Move, budget
<1>3. /\ rpc' \in [Tasks -> {"unsent", "sent", "ok", "failed"}] /\ phase'[t] = "replied"
      /\ \A u \in Tasks \ {t} : rpc'[u] = rpc[u]
      /\ rpc'[t] = rpc[t] \/ rpc'[t] = "failed" \/ (rpc'[t] = "ok" /\ result[t] = "ok")
  <2> DEFINE answer == IF rpc[t] # "sent" THEN rpc[t]
                       ELSE IF result[t] = "ok" THEN "ok" ELSE "failed"
  <2>1. rpc' = [rpc EXCEPT ![t] = answer]
    BY DEF Respond
  <2>2. rpc \in [Tasks -> {"unsent", "sent", "ok", "failed"}] /\ phase'[t] = "replied"
    BY <1>2 DEF IInv, StateTypes
  <2>3. /\ answer \in {"unsent", "sent", "ok", "failed"}
        /\ answer = rpc[t] \/ answer = "failed" \/ (answer = "ok" /\ result[t] = "ok")
    <3>1. CASE rpc[t] # "sent"
      BY <2>2, <3>1
    <3>2. CASE rpc[t] = "sent" /\ result[t] = "ok"
      BY <3>2
    <3>3. CASE rpc[t] = "sent" /\ result[t] # "ok"
      BY <3>3
    <3> QED BY <3>1, <3>2, <3>3
  <2> HIDE DEF answer
  <2> QED BY <2>1, <2>2, <2>3
<1>4. Covered(t)' /\ PhaseInv(t)'
  BY <1>1, <1>2, <1>3 DEF IInv, TaskInv, Covered, PhaseInv, Nothing
<1>5. ResultInv(t)' /\ LateInv(t)'
  BY <1>1, <1>2, <1>3, LiveLateLemma DEF IInv, TaskInv, ResultInv, driver
<1>6. "replied" \in Phases \ Outside
  BY DEF Phases, Outside
<1> QED BY <1>1, <1>2, <1>3, <1>4, <1>5, <1>6, HandlerLemma DEF TaskInv, IInv, StateTypes, FilesOf

-----------------------------------------------------------------------------
(* Entering and leaving the handler, the driver and the other handlers *)

(* The sets the counters count are finite. *)
LEMMA FiniteLemma ==
  /\ \A j \in Jobs : IsFiniteSet(LiveIn(j))
  /\ \A c \in Identities : IsFiniteSet(LiveWith(c))
<1>1. \A j \in Jobs : LiveIn(j) \subseteq Tasks
  BY DEF LiveIn
<1>2. \A c \in Identities : LiveWith(c) \subseteq Tasks
  BY DEF LiveWith
<1> QED BY <1>1, <1>2, PlacesAssumption, FS_Subset

(* A counter at zero means that no task it counts is inside. *)
LEMMA ZeroLemma ==
  ASSUME IInv
  PROVE  /\ \A j \in Jobs : active[j] = 0 =>
              \A t \in Tasks : JobOf[t] = j => ~Live(t)
         /\ \A c \in Identities : activeCache[c] = 0 =>
              \A t \in Tasks : IdentityOf[JobOf[t]] = c => ~Live(t)
<1>1. \A j \in Jobs : active[j] = 0 => LiveIn(j) = {}
  BY FiniteLemma, FS_EmptySet DEF IInv, CountsInv
<1>2. \A c \in Identities : activeCache[c] = 0 => LiveWith(c) = {}
  BY FiniteLemma, FS_EmptySet DEF IInv, CountsInv
<1> QED BY <1>1, <1>2 DEF LiveIn, LiveWith

(* Receive keeps the invariant. *)
LEMMA ReceiveStep == ASSUME IInv, NEW t \in Tasks, Receive(t) PROVE IInv'
<1> DEFINE found == IF CacheFor(t) = 0 THEN made + 1 ELSE CacheFor(t)
<1>1. /\ phase[t] = "idle" /\ ~Live(t) /\ phase' = [phase EXCEPT ![t] = "started"]
      /\ UNCHANGED <<disk, files, result, rpc, job, restarts>>
      /\ JobOf[t] \in Jobs
  BY PlacesAssumption DEF Receive, Move, Live, Outside, budget
<1>2. /\ phase' \in [Tasks -> Phases] /\ phase'[t] = "started"
      /\ \A u \in Tasks \ {t} : phase'[u] = phase[u]
  BY <1>1 DEF IInv, StateTypes, Phases
<1>3. \A u \in Tasks : Live(u)' <=> Live(u) \/ u = t
  BY <1>1, <1>2 DEF Live, Outside
<1>4. CountsInv'
  <2>1. \A j \in Jobs : LiveIn(j)' = IF j = JobOf[t] THEN LiveIn(j) \cup {t} ELSE LiveIn(j)
    BY <1>3 DEF LiveIn
  <2>2. t \notin LiveIn(JobOf[t])
    BY <1>1 DEF LiveIn
  <2>3. active' \in [Jobs -> Nat] /\ \A j \in Jobs :
          active'[j] = IF j = JobOf[t] THEN active[j] + 1 ELSE active[j]
    <3>1. active' = [active EXCEPT ![JobOf[t]] = active[JobOf[t]] + 1]
      BY DEF Receive
    <3>2. active \in [Jobs -> Nat] /\ JobOf[t] \in Jobs
      BY <1>1 DEF IInv, StateTypes
    <3> QED BY SMTT(30), <3>1, <3>2
  <2>4. \A j \in Jobs : active'[j] = Cardinality(LiveIn(j)')
    <3> SUFFICES ASSUME NEW j \in Jobs PROVE active'[j] = Cardinality(LiveIn(j)')
      OBVIOUS
    <3>1. active[j] = Cardinality(LiveIn(j)) /\ IsFiniteSet(LiveIn(j))
      BY FiniteLemma DEF IInv, CountsInv
    <3>2. CASE j = JobOf[t]
      <4>1. Cardinality(LiveIn(j) \cup {t}) = Cardinality(LiveIn(j)) + 1
        BY <3>1, <3>2, <2>2, FS_AddElement
      <4> QED BY <3>1, <3>2, <4>1, <2>1, <2>3
    <3>3. CASE j # JobOf[t]
      BY <3>1, <3>3, <2>1, <2>3
    <3> QED BY <3>2, <3>3
  <2>5. \A c \in Identities : LiveWith(c)' =
          IF c = IdentityOf[JobOf[t]] THEN LiveWith(c) \cup {t} ELSE LiveWith(c)
    BY <1>3 DEF LiveWith
  <2>6. \A c \in Identities : t \notin LiveWith(c)
    BY <1>1 DEF LiveWith
  <2>7. \A c \in Identities : activeCache'[c] =
          IF c = IdentityOf[JobOf[t]] THEN activeCache[c] + 1 ELSE activeCache[c]
    <3>1. activeCache \in [Identities -> Nat]
      BY DEF IInv, StateTypes
    <3>2. CASE Reuses(t)
      BY <3>1, <3>2 DEF Receive
    <3>3. CASE ~Reuses(t)
      <4>1. activeCache' = activeCache
        BY <3>3 DEF Receive
      <4> QED BY <3>3, <4>1, PlacesAssumption DEF Reuses
    <3> QED BY <3>2, <3>3
  <2>8. \A c \in Identities : activeCache'[c] = Cardinality(LiveWith(c)')
    <3> SUFFICES ASSUME NEW c \in Identities PROVE activeCache'[c] = Cardinality(LiveWith(c)')
      OBVIOUS
    <3>1. activeCache[c] = Cardinality(LiveWith(c)) /\ IsFiniteSet(LiveWith(c))
      BY FiniteLemma DEF IInv, CountsInv
    <3>2. CASE c = IdentityOf[JobOf[t]]
      <4>1. Cardinality(LiveWith(c) \cup {t}) = Cardinality(LiveWith(c)) + 1
        BY <3>1, <3>2, <2>6, FS_AddElement
      <4> QED BY <3>1, <3>2, <4>1, <2>5, <2>7
    <3>3. CASE c # IdentityOf[JobOf[t]]
      BY <3>1, <3>3, <2>5, <2>7
    <3> QED BY <3>2, <3>3
  <2> QED BY <2>4, <2>8 DEF CountsInv
<1>5. /\ CacheFor(t) \in Nat /\ found \in Nat /\ found # 0
      /\ Reuses(t) => CacheKey(t) \in CacheKeys
  <2>1. Reuses(t) => CacheKey(t) \in CacheKeys
    BY <1>1, PlacesAssumption DEF CacheKey, CacheKeys, Reuses
  <2>2. reusable \in [CacheKeys -> Nat] /\ jobCaches \in [Jobs -> Nat] /\ made \in Nat
    BY DEF IInv, StateTypes
  <2>3. CacheFor(t) \in Nat
    BY <1>1, <2>1, <2>2 DEF CacheFor
  <2> QED BY SMTT(30), <2>1, <2>2, <2>3
<1>6. StateTypes'
  <2>1. StateTypes
    BY DEF IInv
  <2>2. active' \in [Jobs -> Nat]
    <3>1. active' = [active EXCEPT ![JobOf[t]] = active[JobOf[t]] + 1]
      BY DEF Receive
    <3>2. active \in [Jobs -> Nat] /\ JobOf[t] \in Jobs
      BY <1>1, <2>1 DEF StateTypes
    <3> QED BY SMTT(30), <3>1, <3>2
  <2>3. /\ made' = (IF CacheFor(t) = 0 THEN made + 1 ELSE made)
        /\ held' = [held EXCEPT ![t] = found]
        /\ late' \in {late, late \cup {t}}
    BY DEF Receive
  <2>4. held' \in [Tasks -> Nat] /\ made' \in Nat /\ late' \subseteq Tasks
    BY <1>5, <2>1, <2>3 DEF StateTypes
  <2>5. /\ activeCache' \in [Identities -> Nat] /\ jobCaches' \in [Jobs -> Nat]
        /\ reusable' \in [CacheKeys -> Nat]
    <3>1. /\ activeCache \in [Identities -> Nat] /\ jobCaches \in [Jobs -> Nat]
          /\ reusable \in [CacheKeys -> Nat]
      BY <2>1 DEF StateTypes
    <3>2. CASE Reuses(t)
      <4>1. /\ activeCache' = [activeCache EXCEPT ![IdentityOf[JobOf[t]]] =
                                activeCache[IdentityOf[JobOf[t]]] + 1]
            /\ reusable' = [reusable EXCEPT ![CacheKey(t)] = found]
            /\ jobCaches' = jobCaches
        BY <3>2 DEF Receive
      <4>2. IdentityOf[JobOf[t]] \in Identities
        BY <1>1, <3>2, PlacesAssumption DEF Reuses
      <4>3. activeCache' \in [Identities -> Nat]
        BY SMTT(30), <3>1, <4>1, <4>2
      <4> HIDE DEF found
      <4>4. found \in Nat
        BY <1>5
      <4>5. reusable' \in [CacheKeys -> Nat]
        BY <3>1, <4>1, <4>4
      <4> QED BY <3>1, <4>1, <4>3, <4>5
    <3>3. CASE ~Reuses(t)
      <4>1. /\ jobCaches' = [jobCaches EXCEPT ![JobOf[t]] = found]
            /\ activeCache' = activeCache /\ reusable' = reusable
        BY <3>3 DEF Receive
      <4> HIDE DEF found
      <4> QED BY <1>5, <3>1, <4>1
    <3> QED BY <3>2, <3>3
  <2> HIDE DEF found
  <2> QED BY <1>1, <1>2, <2>1, <2>2, <2>4, <2>5 DEF StateTypes
<1>7. CacheShared'
  <2>1. held' = [held EXCEPT ![t] = found]
    BY DEF Receive
  <2>3. CacheFor(t)' = found
    BY <1>1, <1>5 DEF Receive, CacheFor, CacheKey, Reuses, IInv, StateTypes
  <2>4. ASSUME NEW u \in Tasks, CacheFor(u) # 0 PROVE CacheFor(u)' = CacheFor(u)
    <3>1. CASE Reuses(t)
      <4>1. reusable' = [reusable EXCEPT ![CacheKey(t)] = found] /\ jobCaches' = jobCaches
        BY <3>1 DEF Receive
      <4>2. CASE Reuses(u) /\ CacheKey(u) = CacheKey(t)
        BY <1>5, <2>4, <3>1, <4>1, <4>2 DEF CacheFor, CacheKey, Reuses, IInv, StateTypes
      <4>3. CASE Reuses(u) /\ CacheKey(u) # CacheKey(t)
        <5>1. CacheKey(u) \in CacheKeys
          BY <4>3, PlacesAssumption DEF CacheKey, CacheKeys, Reuses
        <5> QED BY <5>1, <4>1, <4>3 DEF CacheFor, CacheKey, Reuses, IInv, StateTypes
      <4>4. CASE ~Reuses(u)
        BY <4>1, <4>4 DEF CacheFor, Reuses
      <4> QED BY <4>2, <4>3, <4>4
    <3>2. CASE ~Reuses(t)
      <4>1. jobCaches' = [jobCaches EXCEPT ![JobOf[t]] = found] /\ reusable' = reusable
        BY <3>2 DEF Receive
      <4>2. CASE ~Reuses(u)
        BY <1>1, <1>5, <2>4, <3>2, <4>1, <4>2, PlacesAssumption DEF CacheFor, Reuses, IInv, StateTypes
      <4>3. CASE Reuses(u)
        BY <4>1, <4>3 DEF CacheFor, CacheKey, Reuses
      <4> QED BY <4>2, <4>3
    <3> QED BY <3>1, <3>2
  <2>5. held'[t] = found /\ \A u \in Tasks \ {t} : held'[u] = held[u]
    BY <2>1 DEF IInv, StateTypes
  <2> HIDE DEF found
  <2> QED BY <1>3, <1>5, <2>3, <2>4, <2>5 DEF CacheShared, IInv
<1>8. TaskInv(t)'
  <2>1. Covered(t)' /\ ResultInv(t)'
    BY <1>1, <1>2 DEF IInv, TaskInv, Covered, ResultInv
  <2>2. PhaseInv(t)'
    BY <1>1, <1>2 DEF IInv, TaskInv, PhaseInv, Nothing
  <2>3. LateInv(t)'
    BY <1>1 DEF Receive, LateInv
  <2> QED BY <2>1, <2>2, <2>3 DEF TaskInv
<1>9. ASSUME NEW u \in Tasks \ {t} PROVE TaskInv(u)'
  <2>1. u \in late' <=> u \in late
    BY DEF Receive
  <2> QED BY <2>1, <1>1, <1>2, FrameLemma DEF IInv
<1> QED BY <1>4, <1>6, <1>7, <1>8, <1>9 DEF IInv

(* Leave keeps the invariant. *)
LEMMA LeaveStep == ASSUME IInv, NEW t \in Tasks, Leave(t) PROVE IInv'
<1>1. /\ phase[t] = "replied" /\ Live(t) /\ phase' = [phase EXCEPT ![t] = "left"]
      /\ UNCHANGED <<disk, files, result, rpc, caches, driver>>
      /\ JobOf[t] \in Jobs
  BY PlacesAssumption DEF Leave, Move, Live, Outside, budget
<1>2. /\ phase' \in [Tasks -> Phases] /\ phase'[t] = "left"
      /\ \A u \in Tasks \ {t} : phase'[u] = phase[u]
  BY <1>1 DEF IInv, StateTypes, Phases, Outside
<1>3. \A u \in Tasks : Live(u)' <=> Live(u) /\ u # t
  BY <1>1, <1>2 DEF Live, Outside
<1>4. /\ \A j \in Jobs : active'[j] = Cardinality(LiveIn(j)') /\ active'[j] \in Nat
      /\ active' \in [Jobs -> Nat]
  <2>1. \A j \in Jobs : LiveIn(j)' = IF j = JobOf[t] THEN LiveIn(j) \ {t} ELSE LiveIn(j)
    BY <1>3 DEF LiveIn
  <2>2. t \in LiveIn(JobOf[t])
    BY <1>1 DEF LiveIn
  <2>3. \A j \in Jobs :
          active'[j] = IF j = JobOf[t] THEN active[j] - 1 ELSE active[j]
    BY <1>1 DEF Leave, IInv, StateTypes
  <2>4. \A j \in Jobs : active'[j] = Cardinality(LiveIn(j)')
    <3> SUFFICES ASSUME NEW j \in Jobs PROVE active'[j] = Cardinality(LiveIn(j)')
      OBVIOUS
    <3>1. active[j] = Cardinality(LiveIn(j)) /\ IsFiniteSet(LiveIn(j))
      BY FiniteLemma DEF IInv, CountsInv
    <3>2. CASE j = JobOf[t]
      <4>1. Cardinality(LiveIn(j) \ {t}) = Cardinality(LiveIn(j)) - 1
        BY <3>1, <3>2, <2>2, FS_RemoveElement
      <4> QED BY <3>1, <3>2, <4>1, <2>1, <2>3
    <3>3. CASE j # JobOf[t]
      BY <3>1, <3>3, <2>1, <2>3
    <3> QED BY <3>2, <3>3
  <2>5. \A j \in Jobs : active'[j] \in Nat
    BY <2>4, <2>1, FiniteLemma, FS_CardinalityType, FS_Subset
  <2> QED BY <1>1, <2>4, <2>5 DEF Leave, IInv, StateTypes
<1>5. /\ \A c \in Identities : activeCache'[c] = Cardinality(LiveWith(c)')
      /\ activeCache' \in [Identities -> Nat]
  <2>1. \A c \in Identities : LiveWith(c)' =
          IF c = IdentityOf[JobOf[t]] THEN LiveWith(c) \ {t} ELSE LiveWith(c)
    BY <1>3 DEF LiveWith
  <2>2. \A c \in Identities : c = IdentityOf[JobOf[t]] => t \in LiveWith(c)
    BY <1>1 DEF LiveWith
  <2>3. \A c \in Identities : activeCache'[c] =
          IF c = IdentityOf[JobOf[t]] THEN activeCache[c] - 1 ELSE activeCache[c]
    <3>1. activeCache' = [c \in Identities |->
            activeCache[c] - IF c = IdentityOf[JobOf[t]] THEN 1 ELSE 0]
      BY DEF Leave
    <3>2. activeCache \in [Identities -> Nat]
      BY DEF IInv, StateTypes
    <3> QED BY SMTT(30), <3>1, <3>2
  <2>4. \A c \in Identities : activeCache'[c] = Cardinality(LiveWith(c)')
    <3> SUFFICES ASSUME NEW c \in Identities PROVE activeCache'[c] = Cardinality(LiveWith(c)')
      OBVIOUS
    <3>1. activeCache[c] = Cardinality(LiveWith(c)) /\ IsFiniteSet(LiveWith(c))
      BY FiniteLemma DEF IInv, CountsInv
    <3>2. CASE c = IdentityOf[JobOf[t]]
      <4>1. Cardinality(LiveWith(c) \ {t}) = Cardinality(LiveWith(c)) - 1
        BY <3>1, <3>2, <2>2, FS_RemoveElement
      <4> QED BY <3>1, <3>2, <4>1, <2>1, <2>3
    <3>3. CASE c # IdentityOf[JobOf[t]]
      BY <3>1, <3>3, <2>1, <2>3
    <3> QED BY <3>2, <3>3
  <2>5. \A c \in Identities : activeCache'[c] \in Nat
    BY <2>4, <2>1, FiniteLemma, FS_CardinalityType, FS_Subset
  <2> QED BY <2>4, <2>5 DEF Leave
<1>6. StateTypes' /\ CountsInv'
  BY <1>1, <1>2, <1>4, <1>5 DEF IInv, StateTypes, CountsInv, caches, driver
<1>7. CacheShared'
  BY <1>1, <1>3 DEF IInv, CacheShared, CacheFor, CacheKey, caches
<1>8. TaskInv(t)'
  <2>1. Covered(t)' /\ ResultInv(t)' /\ PhaseInv(t)'
    BY <1>1, <1>2 DEF IInv, TaskInv, Covered, ResultInv, PhaseInv, Nothing, driver
  <2> QED BY <2>1, <1>1, LiveLateLemma DEF TaskInv
<1>9. ASSUME NEW u \in Tasks \ {t} PROVE TaskInv(u)'
  BY <1>1, <1>2, FrameLemma DEF IInv, driver
<1> QED BY <1>6, <1>7, <1>8, <1>9 DEF IInv

(* Send and GiveUp keep the invariant. *)
LEMMA CallStep == ASSUME IInv, NEW t \in Tasks, Send(t) \/ GiveUp(t) PROVE IInv'
<1>1. /\ UNCHANGED <<disk, files, phase, result, counts, caches, driver>>
      /\ rpc' = [rpc EXCEPT ![t] = "sent"] \/ rpc' = [rpc EXCEPT ![t] = "failed"]
  BY DEF Send, GiveUp, budget
<1>2. /\ rpc' \in [Tasks -> {"unsent", "sent", "ok", "failed"}]
      /\ \A u \in Tasks : rpc'[u] = "ok" => rpc[u] = "ok"
  BY <1>1 DEF IInv, StateTypes
<1>3. StateTypes'
  BY <1>1, <1>2 DEF IInv, StateTypes, counts, caches, driver
<1>4. CountsInv' /\ CacheShared'
  BY <1>1, SameCounts, SameCaches DEF IInv, counts, caches
<1>5. ASSUME NEW u \in Tasks PROVE TaskInv(u)'
  <2>1. Covered(u)' /\ PhaseInv(u)' /\ LateInv(u)'
    BY <1>1 DEF IInv, TaskInv, Covered, PhaseInv, LateInv, Nothing, Live, driver
  <2>2. ResultInv(u)'
    BY <1>1, <1>2 DEF IInv, TaskInv, ResultInv, driver
  <2> QED BY <2>1, <2>2 DEF TaskInv
<1> QED BY <1>3, <1>4, <1>5 DEF IInv

(* EndJob and CleanupGivesUp keep the invariant. *)
LEMMA JobStep ==
  ASSUME IInv, NEW j \in Jobs, EndJob(j) \/ CleanupGivesUp(j)
  PROVE  IInv'
<1>1. /\ UNCHANGED <<disk, files, phase, result, rpc, counts, caches, late, restarts>>
      /\ job[j] # "cleaned"
      /\ job' = [job EXCEPT ![j] = "cleaning"] \/ job' = [job EXCEPT ![j] = "abandoned"]
  BY DEF EndJob, CleanupGivesUp, budget
<1>2. /\ job' \in [Jobs -> {"running", "cleaning", "cleaned", "abandoned"}]
      /\ \A i \in Jobs : job'[i] = "cleaned" <=> job[i] = "cleaned"
  BY <1>1 DEF IInv, StateTypes
<1>3. StateTypes'
  BY <1>1, <1>2 DEF IInv, StateTypes, counts, caches
<1>4. CountsInv' /\ CacheShared'
  BY <1>1, SameCounts, SameCaches DEF IInv, counts, caches
<1>5. ASSUME NEW u \in Tasks PROVE TaskInv(u)'
  <2>1. JobOf[u] \in Jobs
    BY PlacesAssumption
  <2>2. Covered(u)' /\ PhaseInv(u)'
    BY <1>1 DEF IInv, TaskInv, Covered, PhaseInv, Nothing
  <2>3. ResultInv(u)' /\ LateInv(u)'
    BY <1>1, <1>2, <2>1 DEF IInv, TaskInv, ResultInv, LateInv, Nothing, Live
  <2> QED BY <2>2, <2>3 DEF TaskInv
<1> QED BY <1>3, <1>4, <1>5 DEF IInv

(* Cleanup keeps the invariant: it is served with no task of the job in    *)
(* the handler.                                                            *)
LEMMA CleanupStep == ASSUME IInv, NEW j \in Jobs, Cleanup(j) PROVE IInv'
<1>1. /\ UNCHANGED <<phase, result, rpc, counts, reusable, held, made, late, restarts>>
      /\ jobCaches' = [jobCaches EXCEPT ![j] = 0]
      /\ job' = [job EXCEPT ![j] = "cleaned"]
      /\ disk' = [p \in Paths |-> IF p \in JobDir(j) THEN Absent ELSE disk[p]]
      /\ files' = [p \in Paths |-> IF p \in JobDir(j) THEN 0 ELSE files[p]]
  BY DEF Cleanup, CleanupNow, RemoveDir
<1>2. \A t \in Tasks : JobOf[t] = j => ~Live(t)
  BY ZeroLemma DEF Cleanup
<1>3. StateTypes'
  BY <1>1 DEF IInv, StateTypes, counts
<1>4. CountsInv'
  BY <1>1 DEF IInv, CountsInv, LiveIn, LiveWith, Live, counts
<1>5. CacheShared'
  BY <1>1, <1>2, PlacesAssumption DEF IInv, CacheShared, CacheFor, CacheKey, Live, StateTypes
<1>6. ASSUME NEW u \in Tasks, JobOf[u] # j PROVE TaskInv(u)'
  <2>1. \A p \in FilesOf(u) : disk'[p] = disk[p] /\ files'[p] = files[p]
    <3>1. \A p \in FilesOf(u) : p \notin JobDir(j)
      BY SMTT(30), <1>6 DEF FilesOf, JobDir, Scratch, Cached, Pending, Output
    <3> QED BY <1>1, <3>1, PathLemma
  <2>2. job'[JobOf[u]] = job[JobOf[u]]
    BY <1>1, <1>6, PlacesAssumption DEF IInv, StateTypes
  <2>3. /\ TaskInv(u) /\ phase'[u] = phase[u] /\ result'[u] = result[u]
        /\ rpc'[u] = rpc[u] /\ (u \in late' <=> u \in late)
    BY <1>1 DEF IInv
  <2> QED BY <2>1, <2>2, <2>3, FrameLemma
<1>7. ASSUME NEW u \in Tasks, JobOf[u] = j PROVE TaskInv(u)'
  <2>1. /\ \A p \in {Pending(u), Output(u)} : disk'[p] = Absent /\ files'[p] = 0
        /\ disk'[Scratch(u)] = disk[Scratch(u)] /\ files'[Scratch(u)] = files[Scratch(u)]
        /\ disk'[Cached(u)] = disk[Cached(u)] /\ files'[Cached(u)] = files[Cached(u)]
    <3>1. Pending(u) \in JobDir(j) /\ Output(u) \in JobDir(j)
      BY <1>7, PathLemma DEF JobDir, Pending, Output
    <3>2. Scratch(u) \notin JobDir(j) /\ Cached(u) \notin JobDir(j)
      BY DEF JobDir, Scratch, Cached
    <3> QED BY <1>1, <3>1, <3>2, PathLemma
  <2>2. job'[JobOf[u]] = "cleaned" /\ phase'[u] = phase[u] /\ ~Live(u) /\ ~Live(u)'
    BY <1>1, <1>2, <1>7 DEF IInv, StateTypes, Live
  <2>3. Covered(u)'
    <3>1. Size(disk[Scratch(u)]) <= files[Scratch(u)]
      BY DEF IInv, TaskInv, Covered
    <3>2. Size(Absent) = 0
      BY DEF Size
    <3>3. Size(disk'[Scratch(u)]) <= files'[Scratch(u)]
      BY <2>1, <3>1
    <3>4. \A p \in {Pending(u), Output(u)} : Size(disk'[p]) <= files'[p]
      BY SMTT(30), <2>1, <3>2
    <3> QED BY <3>3, <3>4 DEF Covered, Size
  <2>4. PhaseInv(u)'
    BY <2>1, <2>2 DEF IInv, TaskInv, PhaseInv, Nothing, Live, Outside
  <2>5. ResultInv(u)' /\ LateInv(u)'
    BY <1>1, <2>1, <2>2 DEF IInv, TaskInv, ResultInv, LateInv, Nothing
  <2> QED BY <2>3, <2>4, <2>5 DEF TaskInv
<1> QED BY <1>3, <1>4, <1>5, <1>6, <1>7 DEF IInv

(* Unpersist keeps the invariant: no task that uses the name is inside. *)
LEMMA UnpersistStep == ASSUME IInv, NEW c \in Identities, Unpersist(c) PROVE IInv'
<1>1. /\ UNCHANGED <<disk, files, phase, result, rpc, counts, jobCaches, held, made, driver>>
      /\ reusable' = [k \in CacheKeys |-> IF k[1] = c THEN 0 ELSE reusable[k]]
  BY DEF Unpersist, UnpersistNow, budget
<1>2. \A t \in Tasks : IdentityOf[JobOf[t]] = c => ~Live(t)
  BY ZeroLemma DEF Unpersist
<1>3. StateTypes' /\ CountsInv'
  <2>1. CountsInv'
    BY <1>1, SameCounts DEF IInv, counts
  <2>2. reusable' \in [CacheKeys -> Nat]
    BY <1>1 DEF IInv, StateTypes
  <2> QED BY <1>1, <2>1, <2>2 DEF IInv, StateTypes, counts, driver
<1>4. ASSUME NEW u \in Tasks, Live(u)' PROVE held'[u] # 0 /\ held'[u] = CacheFor(u)'
  <2>1. Live(u) /\ held[u] # 0 /\ held[u] = CacheFor(u) /\ held'[u] = held[u]
    BY <1>1, <1>4 DEF IInv, CacheShared, Live
  <2>2. CASE Reuses(u)
    <3>1. CacheKey(u) \in CacheKeys /\ CacheKey(u)[1] # c
      BY <1>2, <2>1, <2>2, PlacesAssumption DEF CacheKey, CacheKeys, Reuses
    <3>2. reusable'[CacheKey(u)] = reusable[CacheKey(u)]
      BY <1>1, <3>1
    <3> QED BY <2>1, <2>2, <3>2 DEF CacheFor, CacheKey, Reuses
  <2>3. CASE ~Reuses(u)
    BY <1>1, <2>1, <2>3 DEF CacheFor, Reuses
  <2> QED BY <2>2, <2>3
<1>5. ASSUME NEW u \in Tasks PROVE TaskInv(u)'
  BY <1>1 DEF IInv, TaskInv, Covered, PhaseInv, ResultInv, LateInv, Nothing, Live, driver
<1> QED BY <1>3, <1>4, <1>5 DEF IInv, CacheShared

(* Restart keeps the invariant: nobody is inside, the budget is reseeded   *)
(* from what is on the disk.                                               *)
LEMMA RestartStep == ASSUME IInv, Restart PROVE IInv'
<1>1. /\ UNCHANGED <<disk, result, rpc, held, made, job, late>>
      /\ phase' = [t \in Tasks |-> IF Live(t) THEN "dead" ELSE phase[t]]
      /\ files' = [p \in Paths |-> Size(disk[p])]
      /\ active' = [j \in Jobs |-> 0] /\ activeCache' = [c \in Identities |-> 0]
  BY DEF Restart
<1>2. \A u \in Tasks : ~Live(u)'
  BY <1>1 DEF Live, Outside
<1>3. StateTypes'
  <2>1. \A p \in Paths : Size(disk[p]) \in Nat
    BY DEF IInv, StateTypes, Size, Absent
  <2>2. restarts' \in 0 .. MaxRestarts
    BY SMTT(30), SizesAssumption DEF Restart, IInv, StateTypes
  <2>3. phase' \in [Tasks -> Phases]
    BY <1>1 DEF IInv, StateTypes, Phases, Outside
  <2>4. jobCaches' \in [Jobs -> Nat] /\ reusable' \in [CacheKeys -> Nat]
    BY DEF Restart
  <2> QED BY <1>1, <2>1, <2>2, <2>3, <2>4 DEF IInv, StateTypes
<1>4. CountsInv'
  <2>1. (\A j \in Jobs : LiveIn(j)' = {}) /\ (\A c \in Identities : LiveWith(c)' = {})
    BY <1>2 DEF LiveIn, LiveWith
  <2> QED BY <1>1, <2>1, FS_EmptySet DEF CountsInv
<1>5. CacheShared'
  BY <1>2 DEF CacheShared
<1>6. ASSUME NEW u \in Tasks PROVE TaskInv(u)'
  <2>1. \A p \in {Scratch(u), Cached(u), Pending(u), Output(u)} :
          p \in Paths /\ files'[p] = Size(disk[p])
    BY <1>1, PathLemma
  <2>2. phase'[u] = "dead" \/ (phase'[u] = phase[u] /\ ~Live(u))
    BY <1>1 DEF Live
  <2>3. Covered(u)'
    <3>1. \A p \in {Scratch(u), Pending(u), Output(u)} : Size(disk[p]) \in Nat
      BY <2>1 DEF IInv, StateTypes, Size, Absent
    <3> QED BY SMTT(30), <1>1, <2>1, <3>1 DEF Covered
  <2>4. PhaseInv(u)'
    <3>1. disk'[Output(u)] \in {Absent, Units}
      BY <1>1 DEF IInv, TaskInv, PhaseInv
    <3>2. CASE phase'[u] = "dead"
      BY <3>1, <3>2 DEF PhaseInv
    <3>3. CASE phase'[u] = phase[u] /\ phase[u] \in {"idle", "left"}
      BY <1>1, <2>1, <3>1, <3>3 DEF IInv, TaskInv, PhaseInv, Nothing, Size
    <3> QED BY <2>2, <3>2, <3>3 DEF Live, Outside
  <2>5. ResultInv(u)'
    BY <1>1, <2>2 DEF IInv, TaskInv, ResultInv
  <2>6. LateInv(u)'
    BY <1>1, <1>2, <2>1 DEF IInv, TaskInv, LateInv, Nothing, Size
  <2> QED BY <2>3, <2>4, <2>5, <2>6 DEF TaskInv
<1> QED BY <1>3, <1>4, <1>5, <1>6 DEF IInv

-----------------------------------------------------------------------------
(* The theorems *)

(* A worker started on an empty store satisfies the invariant. *)
THEOREM InitIInv == Init => IInv
<1> SUFFICES ASSUME Init PROVE IInv
  OBVIOUS
<1>1. StateTypes
  BY SMTT(30), SizesAssumption DEF Init, StateTypes, Phases, Outside, Absent
<1>2. \A t \in Tasks : ~Live(t)
  BY DEF Init, Live, Outside
<1>3. CountsInv
  <2>1. (\A j \in Jobs : LiveIn(j) = {}) /\ (\A c \in Identities : LiveWith(c) = {})
    BY <1>2 DEF LiveIn, LiveWith
  <2> QED BY <2>1, FS_EmptySet DEF Init, CountsInv
<1>4. ASSUME NEW u \in Tasks PROVE TaskInv(u)
  <2>1. \A p \in {Scratch(u), Cached(u), Pending(u), Output(u)} :
          disk[p] = Absent /\ files[p] = 0
    BY PathLemma DEF Init
  <2>2. /\ phase[u] = "idle" /\ result[u] = "none" /\ rpc[u] = "unsent"
        /\ job[JobOf[u]] = "running"
    BY PlacesAssumption DEF Init
  <2>3. Covered(u)
    <3>1. Size(Absent) = 0
      BY DEF Size
    <3>2. ASSUME NEW p \in {Scratch(u), Pending(u), Output(u)}
          PROVE  Size(disk[p]) <= files[p]
      <4>1. Size(disk[p]) = 0 /\ files[p] = 0
        BY <2>1, <3>1
      <4> QED BY SMTT(30), <4>1
    <3> QED BY <3>2 DEF Covered
  <2>4. PhaseInv(u)
    BY <2>1, <2>2 DEF PhaseInv, Nothing
  <2> QED BY <2>2, <2>3, <2>4 DEF TaskInv, ResultInv, LateInv
<1>5. CacheShared
  BY <1>2 DEF CacheShared
<1> QED BY <1>1, <1>3, <1>4, <1>5 DEF IInv

(* Every step of a task inside the /task handler keeps the invariant. *)
LEMMA HandlerStep == ASSUME IInv, NEW t \in Tasks, Handler(t) PROVE IInv'
BY AbortStep, FetchReserveStep, FetchWriteStep, FetchFailsStep, PutOnDiskStep, ComputeStep,
   OpenBucketStep,
   WriteUnitStep, ReserveUnitStep, MapFailsStep, PublishStep, ReturnStep, ReturnCanceledStep,
   StopStep, RespondStep, LeaveStep DEF Handler

(* Every step of the worker, its tasks and the driver keeps the invariant. *)
THEOREM NextIInv == IInv /\ [Next]_vars => IInv'
<1> SUFFICES ASSUME IInv, [Next]_vars PROVE IInv'
  OBVIOUS
<1>1. CASE UNCHANGED vars
  <2>1. UNCHANGED <<disk, files, phase, result, rpc, active, activeCache, jobCaches,
                    reusable, held, made, job, late, restarts>>
    BY <1>1 DEF vars, budget, counts, caches, driver
  <2>2. StateTypes'
    BY <2>1 DEF IInv, StateTypes
  <2>3. CountsInv' /\ CacheShared'
    BY <2>1, SameCounts, SameCaches DEF IInv
  <2>4. ASSUME NEW u \in Tasks PROVE TaskInv(u)'
    BY <2>1, FrameLemma DEF IInv
  <2> QED BY <2>2, <2>3, <2>4 DEF IInv
<1>2. ASSUME NEW t \in Tasks, Send(t) \/ GiveUp(t) \/ Receive(t) \/ Handler(t) PROVE IInv'
  BY <1>2, CallStep, ReceiveStep, HandlerStep
<1>3. ASSUME NEW j \in Jobs, EndJob(j) \/ Cleanup(j) \/ CleanupGivesUp(j) PROVE IInv'
  BY <1>3, JobStep, CleanupStep
<1>4. ASSUME NEW c \in Identities, Unpersist(c) PROVE IInv'
  BY <1>4, UnpersistStep
<1> QED BY <1>1, <1>2, <1>3, <1>4, RestartStep DEF Next

(* The inductive invariant holds in every reachable state. *)
THEOREM Invariance == Spec => []IInv
BY InitIInv, NextIInv, PTL DEF Spec

(* A visible map output is whole, and one whose task answered ok stays     *)
(* until its job is cleaned up, whatever else is cancelled or restarted.   *)
THEOREM OutputCorrect == Spec => []OutputKept
<1>1. IInv => OutputKept
  BY PlacesAssumption DEF IInv, TaskInv, PhaseInv, ResultInv, OutputKept
<1> QED BY <1>1, Invariance, PTL

(* Tasks inside the handler keep the cache object the maps name: cleanup   *)
(* and unpersist wait for them.                                            *)
THEOREM CacheCorrect == Spec => []CacheShared
<1>1. IInv => CacheShared
  BY DEF IInv
<1> QED BY <1>1, Invariance, PTL

(* A task that returned leaves at most its output, and a served cleanup    *)
(* takes that and the map-pending directories: of a cleaned job only the   *)
(* scratch directories of tasks that died with a process stay, and what    *)
(* tasks wrote that arrived after the cleanup.                             *)
THEOREM CleanedCorrect == Spec => []CleanedReleased
<1>1. ASSUME IInv, NEW t \in Tasks, phase[t] \in {"idle", "left"}
      PROVE  Nothing(Scratch(t)) /\ Nothing(Cached(t)) /\ Nothing(Pending(t))
  BY <1>1 DEF IInv, TaskInv, PhaseInv, Nothing
<1>2. ASSUME IInv, NEW t \in Tasks, phase[t] \in {"idle", "left"}
      PROVE  Leftover(t) \subseteq {Output(t)}
  BY <1>1, <1>2 DEF Leftover, FilesOf
<1>3. ASSUME IInv, NEW t \in Tasks, job[JobOf[t]] = "cleaned", t \notin late
      PROVE  Leftover(t) \subseteq IF phase[t] = "dead" THEN ScratchDir(t) ELSE {}
  <2>1. Nothing(Pending(t)) /\ Nothing(Output(t)) /\ ~Live(t)
    BY <1>3 DEF IInv, TaskInv, LateInv
  <2>2. Leftover(t) \subseteq ScratchDir(t)
    BY <2>1 DEF Leftover, FilesOf, ScratchDir
  <2>3. CASE phase[t] = "dead"
    BY <2>2, <2>3
  <2>4. CASE phase[t] \in {"idle", "left"}
    BY <1>2, <1>3, <2>1, <2>4 DEF Leftover
  <2> QED BY <2>1, <2>3, <2>4 DEF Live, Outside
<1>4. IInv => CleanedReleased
  BY <1>2, <1>3 DEF CleanedReleased
<1> QED BY <1>4, Invariance, PTL

(* A path that is no disk cache is of one of the three other kinds. *)
LEMMA ReservedPaths ==
  ASSUME NEW p \in Paths \ CacheFiles
  PROVE  \E t \in Tasks : p = Scratch(t) \/ p = Pending(t) \/ p = Output(t)
BY SMTT(30) DEF Paths, CacheFiles, Scratch, Cached, Pending, Output

(* Every unit of a map output, finished or not, and of a fetched bucket    *)
(* was reserved first: the reservation of its path covers it, through      *)
(* failures, renames and restarts.                                         *)
THEOREM ReservationCorrect == Spec => []WrittenReserved
<1>1. ASSUME IInv, NEW p \in Paths \ CacheFiles PROVE Size(disk[p]) <= files[p]
  <2>1. PICK t \in Tasks : p = Scratch(t) \/ p = Pending(t) \/ p = Output(t)
    BY ReservedPaths
  <2> QED BY <1>1, <2>1 DEF IInv, TaskInv, Covered
<1>2. IInv => WrittenReserved
  BY <1>1 DEF WrittenReserved
<1> QED BY <1>2, Invariance, PTL

(* A step of a task in the handler touches no files but its own, and moves *)
(* the task or only adds to its disk cache.                                *)
LEMMA OwnFiles ==
  ASSUME IInv, NEW t \in Tasks, Handler(t)
  PROVE  /\ phase'[t] # phase[t] \/ PutOnDisk(t)
         /\ \A p \in Paths : p \notin FilesOf(t) =>
              disk'[p] = disk[p] /\ files'[p] = files[p]
<1>1. phase'[t] # phase[t] \/ PutOnDisk(t)
  <2>1. phase \in [Tasks -> Phases]
    BY DEF IInv, StateTypes
  <2>2. CASE \E from, to \in Phases : from # to /\ Move(t, from, to)
    BY <2>1, <2>2 DEF Move
  <2>3. CASE \E r : phase[t] # "closing" /\ Close(t, r)
    BY <2>1, <2>3 DEF Close
  <2>4. CASE FetchWrite(t) \/ WriteUnit(t) \/ ReserveUnit(t) \/ Publish(t) \/ Stop(t)
             \/ Respond(t) \/ Leave(t)
    BY <2>2, <2>4 DEF FetchWrite, WriteUnit, ReserveUnit, Publish, Stop, Respond, Leave,
                      Phases, Outside
  <2>5. CASE Abort(t) \/ FetchFails(t) \/ Compute(t) \/ MapFails(t) \/ Return(t)
             \/ ReturnCanceled(t)
    BY <2>3, <2>5 DEF Abort, FetchFails, Compute, MapFails, Return, ReturnCanceled, Ready
  <2>6. CASE FetchReserve(t)
    BY <2>1, <2>6 DEF FetchReserve, Close
  <2>7. CASE OpenBucket(t)
    BY <2>1, <2>7 DEF OpenBucket, Close, Ready
  <2> QED BY <2>4, <2>5, <2>6, <2>7 DEF Handler
<1>2. ASSUME NEW p \in Paths, p \notin FilesOf(t)
      PROVE  disk'[p] = disk[p] /\ files'[p] = files[p]
  <2>1. disk \in [Paths -> Nat \cup {Absent}] /\ files \in [Paths -> Nat]
    BY DEF IInv, StateTypes
  <2>2. p # Scratch(t) /\ p # Cached(t) /\ p # Pending(t) /\ p # Output(t)
    BY <1>2 DEF FilesOf
  <2>3. CASE Abort(t) \/ Compute(t) \/ Return(t) \/ Respond(t) \/ Leave(t)
    BY <2>3 DEF Abort, Compute, Return, Respond, Leave, budget
  <2>4. CASE FetchReserve(t) \/ OpenBucket(t)
    BY <2>1, <2>2, <2>4 DEF FetchReserve, OpenBucket, Reserve, budget
  <2>5. CASE FetchWrite(t) \/ WriteUnit(t) \/ ReserveUnit(t) \/ PutOnDisk(t)
    BY <2>1, <2>2, <2>5 DEF FetchWrite, WriteUnit, ReserveUnit, PutOnDisk, Reserve, budget
  <2>6. CASE FetchFails(t) \/ MapFails(t) \/ Stop(t)
    BY <2>1, <2>2, <2>6 DEF FetchFails, MapFails, Stop, RemoveDir, ScratchDir
  <2>7. CASE Publish(t) \/ ReturnCanceled(t)
    BY <2>1, <2>2, <2>7 DEF Publish, ReturnCanceled, RenameDir, budget
  <2> QED BY <2>3, <2>4, <2>5, <2>6, <2>7 DEF Handler
<1> QED BY <1>1, <1>2

(* What a step may do to a file of a task that stays where it is. *)
Kept(t, p) ==
  /\ files'[p] = files[p]
  /\ disk'[p] = disk[p] \/ (p = Cached(t) /\ disk[p] = Absent)

(* Nobody but a task itself touches its files while it is in the handler.  *)
THEOREM FilesCorrect == Spec => NoFilesPulled
<1>1. ASSUME IInv, [Next]_vars, NEW t \in Tasks, Live(t), phase'[t] = phase[t],
             NEW p \in FilesOf(t)
      PROVE  Kept(t, p)
  <2>1. p \in Paths
    BY PathLemma
  <2>2. CASE UNCHANGED vars
    BY <2>2 DEF vars, budget, Kept
  <2>3. ASSUME NEW u \in Tasks, Send(u) \/ GiveUp(u) \/ Receive(u)
        PROVE  Kept(t, p)
    BY <2>3 DEF Send, GiveUp, Receive, budget, Kept
  <2>4. ASSUME NEW u \in Tasks, Handler(u)
        PROVE  Kept(t, p)
    <3>1. CASE u = t
      <4>1. PutOnDisk(t)
        BY <1>1, <2>4, <3>1, OwnFiles
      <4>2. disk \in [Paths -> Nat \cup {Absent}]
        BY <1>1 DEF IInv, StateTypes
      <4>3. p # Cached(t) => disk'[p] = disk[p]
        BY <2>1, <4>1, <4>2 DEF PutOnDisk
      <4> QED BY <4>1, <4>3 DEF PutOnDisk, budget, Kept
    <3>2. CASE u # t
      <4>1. p \notin FilesOf(u)
        BY <3>2, PathLemma
      <4> QED BY <1>1, <2>1, <2>4, <4>1, OwnFiles DEF Kept
    <3> QED BY <3>1, <3>2
  <2>5. ASSUME NEW j \in Jobs, EndJob(j) \/ CleanupGivesUp(j)
        PROVE  Kept(t, p)
    BY <2>5 DEF EndJob, CleanupGivesUp, budget, Kept
  <2>6. ASSUME NEW j \in Jobs, Cleanup(j)
        PROVE  Kept(t, p)
    <3>1. JobOf[t] # j
      BY <1>1, <2>6, ZeroLemma DEF Cleanup
    <3>2. p \notin JobDir(j)
      BY SMTT(30), <3>1 DEF FilesOf, JobDir, Scratch, Cached, Pending, Output
    <3> QED BY <2>1, <2>6, <3>2 DEF Cleanup, CleanupNow, RemoveDir, Kept
  <2>7. ASSUME NEW c \in Identities, Unpersist(c)
        PROVE  Kept(t, p)
    BY <2>7 DEF Unpersist, UnpersistNow, budget, Kept
  <2>8. ~Restart
    BY <1>1 DEF Restart, Live, Outside
  <2> QED BY <1>1, <2>2, <2>3, <2>4, <2>5, <2>6, <2>7, <2>8 DEF Next
<1>2. IInv /\ [Next]_vars =>
        [\A t \in Tasks : Live(t) /\ phase'[t] = phase[t] =>
           \A p \in FilesOf(t) :
             /\ files'[p] = files[p]
             /\ disk'[p] = disk[p] \/ (p = Cached(t) /\ disk[p] = Absent)]_vars
  BY <1>1 DEF Kept
<1> QED BY <1>2, Invariance, PTL DEF Spec, NoFilesPulled

-----------------------------------------------------------------------------
(* The running total of the disk budget *)

(* The paths whose content is reserved before it is written. *)
Metered == Paths \ CacheFiles

(* The total is the sum of the reservations, and those of the metered      *)
(* paths are within the limit.                                             *)
Within(f, u) == u = SumFunctionOnSet(f, Paths) /\ SumFunctionOnSet(f, Metered) <= Limit

(* There are finitely many paths. *)
LEMMA FinitePaths == IsFiniteSet(Paths) /\ CacheFiles \subseteq Paths /\ IsFiniteSet(Metered)
<1>1. IsFiniteSet(Paths)
  <2>1. IsFiniteSet({"scratch", "cached", "pending", "output"})
    <3>1. IsFiniteSet({"scratch"})
      BY FS_Singleton
    <3>2. IsFiniteSet({"scratch"} \cup {"cached"})
      BY <3>1, FS_AddElement
    <3>3. IsFiniteSet(({"scratch"} \cup {"cached"}) \cup {"pending"})
      BY <3>2, FS_AddElement
    <3>4. IsFiniteSet((({"scratch"} \cup {"cached"}) \cup {"pending"}) \cup {"output"})
      BY <3>3, FS_AddElement
    <3>5. (({"scratch"} \cup {"cached"}) \cup {"pending"}) \cup {"output"}
            = {"scratch", "cached", "pending", "output"}
      OBVIOUS
    <3> QED BY <3>4, <3>5
  <2> QED BY <2>1, PlacesAssumption, FS_Product DEF Paths
<1>2. CacheFiles \subseteq Paths
  BY PathLemma DEF CacheFiles
<1>3. Metered \subseteq Paths
  BY DEF Metered
<1> QED BY <1>1, <1>2, <1>3, FS_Subset

(* What the total exceeds the reserved paths by is what the disk caches of *)
(* dead tasks count.                                                       *)
LEMMA WithinLemma ==
  ASSUME NEW f \in [Paths -> Nat], NEW u
  PROVE  /\ SumFunctionOnSet(f, Metered) \in Nat
         /\ SumFunctionOnSet(f, Metered) <= SumFunctionOnSet(f, Paths)
         /\ (u = SumFunction(f) /\ u - SumFunctionOnSet(f, CacheFiles) <= Limit) <=> Within(f, u)
<1> DEFINE a == SumFunctionOnSet(f, Paths)
           c == SumFunctionOnSet(f, CacheFiles)
           m == SumFunctionOnSet(f, Metered)
<1>1. (\A p \in Paths : f[p] \in Nat) /\ DOMAIN f = Paths
  OBVIOUS
<1>2. /\ IsFiniteSet(Paths) /\ IsFiniteSet(CacheFiles) /\ IsFiniteSet(Metered)
      /\ \A p \in CacheFiles : f[p] \in Nat
      /\ \A p \in Metered : f[p] \in Nat
  BY <1>1, FinitePaths, FS_Subset DEF Metered
<1>3. CacheFiles \in SUBSET Paths
  BY FinitePaths
<1>4. a = c + m
  BY SMTT(30), <1>1, <1>2, <1>3, SumSplit DEF Metered
<1>5. c \in Nat /\ m \in Nat
  BY <1>2, SumNat
<1>6. SumFunction(f) = a
  BY <1>1 DEF SumFunction
<1> HIDE DEF a, c, m
<1>7. m <= a /\ (u = a => (u - c <= Limit <=> m <= Limit))
  BY SMTT(30), <1>4, <1>5, SizesAssumption
<1> QED BY <1>5, <1>6, <1>7 DEF Within, a, c, m

(* TotalInv speaks of the files before and after a step. *)
LEMMA TotalLemma ==
  /\ StateTypes => /\ files \in [Paths -> Nat] /\ (TotalInv <=> Within(files, used))
                   /\ SumFunctionOnSet(files, Metered) \in Nat
                   /\ SumFunctionOnSet(files, Metered) <= SumFunctionOnSet(files, Paths)
  /\ StateTypes' => /\ files' \in [Paths -> Nat] /\ (TotalInv' <=> Within(files', used'))
                    /\ SumFunctionOnSet(files', Metered) \in Nat
<1>1. StateTypes => files \in [Paths -> Nat]
  BY DEF StateTypes
<1>2. StateTypes' => files' \in [Paths -> Nat]
  BY DEF StateTypes
<1> QED BY <1>1, <1>2, WithinLemma DEF TotalInv

(* A reservation that fits. *)
LEMMA ReserveTotal ==
  ASSUME StateTypes, StateTypes', TotalInv, NEW p \in Metered, Fits(1), Reserve(p, 1)
  PROVE  TotalInv'
<1> DEFINE a == SumFunctionOnSet(files, Paths)
           b == SumFunctionOnSet(files', Paths)
           m == SumFunctionOnSet(files, Metered)
           n == SumFunctionOnSet(files', Metered)
<1>0. IsFiniteSet(Paths) /\ IsFiniteSet(Metered) /\ p \in Paths /\ Metered \subseteq Paths
  BY FinitePaths DEF Metered
<1>1. files \in [Paths -> Nat] /\ files' \in [Paths -> Nat]
  BY DEF StateTypes
<1>2. files'[p] = files[p] + 1 /\ \A q \in Paths : q # p => files'[q] = files[q]
  BY <1>0, <1>1 DEF Reserve
<1>3. /\ \A q \in Paths : files[q] \in Nat /\ files'[q] \in Nat
      /\ \A q \in Paths : files[q] \in Nat
      /\ \A q \in Metered : files[q] \in Nat /\ files'[q] \in Nat
      /\ \A q \in Metered : q # p => files'[q] = files[q]
  BY <1>0, <1>1, <1>2
<1>4. a \in Nat /\ m \in Nat /\ m <= a
  BY <1>0, <1>3, SumNat, TotalLemma
<1>5. b = a - files[p] + files'[p]
  BY SMTT(30), <1>0, <1>2, <1>3, SumChange
<1>6. n = m - files[p] + files'[p]
  BY SMTT(30), <1>0, <1>3, SumChange
<1>7. used = a /\ used' = used + 1 /\ 1 <= Limit - used
  BY TotalLemma DEF Within, Reserve, Fits
<1> HIDE DEF a, b, m, n
<1>8. files[p] \in Nat
  BY <1>0, <1>3
<1>9. used' = b /\ n <= Limit
  BY SMTT(30), <1>2, <1>4, <1>5, <1>6, <1>7, <1>8, SizesAssumption
<1> QED BY <1>9, TotalLemma DEF Within, b, n

(* Removing files gives back what they had reserved. *)
LEMMA RemoveTotal ==
  ASSUME StateTypes, StateTypes', TotalInv, NEW D \in SUBSET Paths, RemoveDir(D)
  PROVE  TotalInv'
<1> DEFINE a == SumFunctionOnSet(files, Paths)
           b == SumFunctionOnSet(files', Paths)
           d == SumFunctionOnSet(files, D)
           r == SumFunctionOnSet(files, Paths \ D)
           m == SumFunctionOnSet(files, Metered)
           n == SumFunctionOnSet(files', Metered)
<1>0. IsFiniteSet(Paths) /\ IsFiniteSet(Metered) /\ Metered \subseteq Paths
  BY FinitePaths DEF Metered
<1>1. (\A q \in Paths : files[q] \in Nat) /\ (\A q \in Paths : files'[q] \in Nat)
  BY DEF StateTypes
<1>2. /\ IsFiniteSet(D) /\ IsFiniteSet(Paths \ D)
      /\ \A q \in Paths \ D : files[q] \in Nat
      /\ \A q \in D : files[q] \in Nat
  BY <1>0, <1>1, FS_Subset
<1>3. /\ \A q \in D : files'[q] = 0
      /\ \A q \in Paths \ D : files'[q] = files[q]
  BY DEF RemoveDir
<1>4. a = d + r
  BY SMTT(30), <1>0, <1>1, SumSplit
<1>5. d \in Nat /\ r \in Nat
  BY <1>2, SumNat
<1>6. SumFunctionOnSet(files', D) = 0
  BY <1>2, <1>3, SumZeros
<1>7. SumFunctionOnSet(files', Paths \ D) = r
  BY <1>2, <1>3, SumSame
<1>8. b = 0 + r
  <2>1. b = SumFunctionOnSet(files', D) + SumFunctionOnSet(files', Paths \ D)
    BY SMTT(30), <1>0, <1>1, SumSplit
  <2> QED BY <2>1, <1>6, <1>7
<1>9. n <= m /\ n \in Nat /\ m \in Nat
  <2>1. \A q \in Metered : files[q] \in Nat /\ files'[q] \in Nat
    BY <1>0, <1>1
  <2>2. \A q \in Metered : files'[q] <= files[q]
    BY SMTT(30), <1>0, <1>1, <1>3
  <2>3. n <= m
    BY SMTT(30), <1>0, <2>1, <2>2, SumMonotonic
  <2> QED BY <2>3, TotalLemma
<1>10. used = a /\ used' = used - d /\ m <= Limit
  BY TotalLemma DEF Within, RemoveDir
<1> HIDE DEF a, b, d, r, m, n
<1>11. used' = b /\ n <= Limit
  BY SMTT(30), <1>4, <1>5, <1>8, <1>9, <1>10, SizesAssumption
<1> QED BY <1>11, TotalLemma DEF Within, b, n

(* A rename moves a reservation to a name that had none. *)
LEMMA RenameSum ==
  ASSUME NEW S, IsFiniteSet(S), S \subseteq Paths, NEW from \in S, NEW to \in S, from # to,
         StateTypes, StateTypes', files[to] = 0, RenameDir(from, to)
  PROVE  SumFunctionOnSet(files', S) = SumFunctionOnSet(files, S)
<1> DEFINE g == [files EXCEPT ![to] = files[from]]
           a == SumFunctionOnSet(files, S)
           b == SumFunctionOnSet(files', S)
           c == SumFunctionOnSet(g, S)
<1>1. files \in [Paths -> Nat] /\ files' \in [Paths -> Nat] /\ g \in [Paths -> Nat]
  BY DEF StateTypes
<1>2. /\ g[to] = files[from] /\ g[from] = files[from]
      /\ \A q \in S : q # to => g[q] = files[q]
  BY <1>1
<1>3. /\ files'[from] = 0 /\ files'[to] = files[from]
      /\ \A q \in S : q # from => files'[q] = g[q]
  BY <1>1 DEF RenameDir
<1> HIDE DEF g
<1>4. /\ \A q \in S : files[q] \in Nat
      /\ \A q \in S : files[q] \in Nat /\ g[q] \in Nat
      /\ \A q \in S : g[q] \in Nat /\ files'[q] \in Nat
  BY <1>1
<1>5. a \in Nat /\ files[from] \in Nat
  BY <1>4, SumNat
<1>6. c = a - files[to] + g[to]
  BY SMTT(30), <1>2, <1>4, SumChange
<1>7. b = c - g[from] + files'[from]
  BY SMTT(30), <1>3, <1>4, SumChange
<1> HIDE DEF a, b, c
<1>8. b = a
  BY SMTT(30), <1>2, <1>3, <1>5, <1>6, <1>7
<1> QED BY <1>8 DEF a, b

(* So it changes neither the total nor what is reserved. *)
LEMMA RenameTotal ==
  ASSUME StateTypes, StateTypes', TotalInv, NEW from \in Metered, NEW to \in Metered,
         from # to, files[to] = 0, RenameDir(from, to)
  PROVE  TotalInv'
<1>1. IsFiniteSet(Paths) /\ IsFiniteSet(Metered) /\ Metered \subseteq Paths
  BY FinitePaths DEF Metered
<1>2. SumFunctionOnSet(files', Paths) = SumFunctionOnSet(files, Paths)
  BY <1>1, RenameSum
<1>3. SumFunctionOnSet(files', Metered) = SumFunctionOnSet(files, Metered)
  BY <1>1, RenameSum
<1>4. used' = used
  BY DEF RenameDir
<1> QED BY <1>2, <1>3, <1>4, TotalLemma DEF Within

(* A new process finds no more in the metered paths than the old one had   *)
(* reserved; what else it finds it counts beside the limit.                *)
LEMMA RestartTotal == ASSUME IInv, IInv', TotalInv, Restart PROVE TotalInv'
<1>1. IsFiniteSet(Metered) /\ Metered \subseteq Paths
  BY FinitePaths DEF Metered
<1>2. \A p \in Metered : files'[p] <= files[p]
  <2> SUFFICES ASSUME NEW p \in Metered PROVE Size(disk[p]) <= files[p]
    BY <1>1 DEF Restart
  <2>1. PICK t \in Tasks : p = Scratch(t) \/ p = Pending(t) \/ p = Output(t)
    BY ReservedPaths DEF Metered
  <2> QED BY <2>1 DEF IInv, TaskInv, Covered
<1>3. StateTypes /\ StateTypes' /\ \A p \in Metered : files[p] \in Nat /\ files'[p] \in Nat
  BY <1>1 DEF IInv, StateTypes
<1> DEFINE m == SumFunctionOnSet(files, Metered)
           n == SumFunctionOnSet(files', Metered)
<1>4. n <= m
  BY SMTT(30), <1>1, <1>2, <1>3, SumMonotonic
<1>5. m \in Nat /\ n \in Nat /\ m <= Limit
  BY <1>3, TotalLemma DEF Within
<1>6. used' = SumFunctionOnSet(files', Paths)
  BY <1>3, TotalLemma DEF Restart, SumFunction
<1> HIDE DEF m, n
<1>7. n <= Limit
  BY SMTT(30), <1>4, <1>5, SizesAssumption
<1> QED BY <1>3, <1>6, <1>7, TotalLemma DEF Within, n

(* Every step keeps the total in line with the reservations. *)
LEMMA NextTotal == ASSUME IInv, IInv', TotalInv, [Next]_vars PROVE TotalInv'
<1>1. StateTypes /\ StateTypes'
  BY DEF IInv
<1>2. CASE UNCHANGED budget
  BY <1>2 DEF TotalInv, budget
<1>3. ASSUME NEW t \in Tasks, Handler(t) PROVE TotalInv'
  <2>1. /\ Scratch(t) \in Metered /\ Pending(t) \in Metered /\ Output(t) \in Metered
        /\ Pending(t) # Output(t) /\ ScratchDir(t) \subseteq Paths /\ Pending(t) \in Paths
        /\ Scratch(t) \in Paths
    <3>1. Scratch(t) \notin CacheFiles /\ Pending(t) \notin CacheFiles /\ Output(t) \notin CacheFiles
      BY SMTT(30) DEF CacheFiles, Scratch, Cached, Pending, Output
    <3> QED BY <3>1, PathLemma DEF Metered, ScratchDir
  <2>2. CASE FetchReserve(t)
    BY <1>1, <1>2, <2>1, <2>2, ReserveTotal DEF FetchReserve
  <2>3. CASE OpenBucket(t) \/ ReserveUnit(t)
    BY <1>1, <1>2, <2>1, <2>3, ReserveTotal DEF OpenBucket, ReserveUnit
  <2>4. CASE FetchFails(t) \/ MapFails(t) \/ Stop(t)
    <3>1. {Scratch(t)} \in SUBSET Paths /\ {Pending(t)} \in SUBSET Paths
          /\ ScratchDir(t) \in SUBSET Paths
      BY <2>1
    <3> QED BY <1>1, <2>4, <3>1, RemoveTotal DEF FetchFails, MapFails, Stop
  <2>5. CASE Publish(t)
    <3>1. phase[t] = "writing" /\ RenameDir(Pending(t), Output(t))
      BY <2>5 DEF Publish, Move
    <3>2. files[Output(t)] = 0
      BY <3>1 DEF IInv, TaskInv, PhaseInv, Nothing
    <3> QED BY <1>1, <2>1, <3>1, <3>2, RenameTotal
  <2>6. CASE \/ Abort(t) \/ FetchWrite(t) \/ PutOnDisk(t) \/ Compute(t) \/ WriteUnit(t) \/ Return(t)
             \/ ReturnCanceled(t) \/ Respond(t) \/ Leave(t)
    BY <1>2, <2>6 DEF Abort, FetchWrite, PutOnDisk, Compute, WriteUnit, Return, ReturnCanceled,
                      Respond, Leave
  <2> QED BY <1>3, <2>2, <2>3, <2>4, <2>5, <2>6 DEF Handler
<1>4. ASSUME NEW t \in Tasks, Send(t) \/ GiveUp(t) \/ Receive(t) PROVE TotalInv'
  BY <1>2, <1>4 DEF Send, GiveUp, Receive
<1>5. ASSUME NEW j \in Jobs, EndJob(j) \/ CleanupGivesUp(j) PROVE TotalInv'
  BY <1>2, <1>5 DEF EndJob, CleanupGivesUp
<1>6. ASSUME NEW j \in Jobs, Cleanup(j) PROVE TotalInv'
  <2>1. JobDir(j) \in SUBSET Paths
    BY DEF JobDir
  <2> QED BY <1>1, <1>6, <2>1, RemoveTotal DEF Cleanup, CleanupNow
<1>7. ASSUME NEW c \in Identities, Unpersist(c) PROVE TotalInv'
  BY <1>2, <1>7 DEF Unpersist, UnpersistNow
<1>8. CASE Restart
  BY <1>8, RestartTotal
<1>9. CASE UNCHANGED vars
  BY <1>2, <1>9 DEF vars
<1> QED BY <1>3, <1>4, <1>5, <1>6, <1>7, <1>8, <1>9 DEF Next

(* A worker starts with nothing reserved. *)
LEMMA InitTotal == Init => TotalInv
<1> SUFFICES ASSUME Init PROVE TotalInv
  OBVIOUS
<1>1. StateTypes /\ IsFiniteSet(Paths) /\ IsFiniteSet(Metered) /\ Metered \subseteq Paths
  BY InitIInv, FinitePaths DEF IInv, Metered
<1>2. \A p \in Paths : files[p] = 0
  BY DEF Init
<1>3. SumFunctionOnSet(files, Paths) = 0 /\ SumFunctionOnSet(files, Metered) = 0
  BY <1>1, <1>2, SumZeros
<1>4. Within(files, used)
  BY SMTT(30), <1>3, SizesAssumption DEF Within, Init
<1> QED BY <1>1, <1>4, TotalLemma

(* The running total is the sum of the reservations; all but the disk      *)
(* caches of dead tasks is within the limit.                               *)
THEOREM TotalCorrect == Spec => [](IInv /\ TotalInv)
<1>1. Init => IInv /\ TotalInv
  BY InitIInv, InitTotal
<1>2. IInv /\ TotalInv /\ [Next]_vars => (IInv /\ TotalInv)'
  BY NextIInv, NextTotal
<1> QED BY <1>1, <1>2, PTL DEF Spec

(* The disk budget is sound: map outputs and fetched buckets are reserved  *)
(* before they are written, the total is the sum of the reservations, and  *)
(* it exceeds the limit by no more than the unreserved disk caches of      *)
(* tasks that died with an earlier process.                                *)
THEOREM BudgetCorrect == Spec => []BudgetSound
<1>1. IInv => CacheCountedDead
  BY DEF IInv, TaskInv, PhaseInv, CacheCountedDead
<1>2. IInv /\ TotalInv /\ WrittenReserved => BudgetSound
  BY <1>1 DEF TotalInv, BudgetSound
<1> QED BY <1>2, TotalCorrect, ReservationCorrect, PTL

(* Every variable of the worker keeps its type; the total is a natural.    *)
THEOREM TypeCorrect == Spec => []TypeOK
<1>1. IInv /\ TotalInv => TypeOK
  <2> SUFFICES ASSUME IInv, TotalInv PROVE TypeOK
    OBVIOUS
  <2>1. StateTypes /\ \A p \in Paths : files[p] \in Nat
    BY DEF IInv, StateTypes
  <2>2. SumFunctionOnSet(files, Paths) \in Nat
    BY <2>1, SumNat, FinitePaths
  <2> QED BY <2>1, <2>2, TotalLemma DEF TypeOK, Within
<1> QED BY <1>1, TotalCorrect, PTL
==============================================================================
