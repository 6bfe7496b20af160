------------------------------- MODULE Worker -------------------------------
(***************************************************************************)
(* One worker process (worker.go) with the tasks it executes               *)
(* (executor.go), its store directory, the disk budget that meters it      *)
(* (shuffle_budget.go) and its caches, and what the driver does to it:     *)
(* send tasks, give up on them, clean up after a job, unpersist a cache.   *)
(*                                                                         *)
(* A task here is one attempt: its output directory is its own             *)
(* (shuffle_disk.go mapDir), and so are its scratch directory and its      *)
(* map-pending directory (os.MkdirTemp).  The scratch directory holds      *)
(* fetched buckets, which are reserved, and the task's disk cache, which   *)
(* is not.  Each of the four is one path, and a path's content is the      *)
(* number of units written to it.  The unit is what one reservation asks   *)
(* for (the framing header of the buckets, a record, or a fetched bucket)  *)
(* or one file of the disk cache.                                          *)
(***************************************************************************)
EXTENDS Integers, FiniteSets, Functions

CONSTANTS
  Jobs, Tasks,     \* the jobs, and the task attempts sent to this worker
  JobOf,           \* the job of a task (task.JobID)
  Readers,         \* tasks of a stage with parents: they fetch a bucket first
  MapTasks,        \* shuffle-map tasks; the others return records or samples
  Persisting,      \* tasks that compute an RDD persisted to disk
  Units,           \* reservations a map task makes: the header and its records
  Limit,           \* GOSPARK_SHUFFLE_DISK_BYTES, in units
  Identities,      \* names of reusable caches
  NoIdentity,
  IdentityOf,      \* JobSpec.CacheIdentity of a job
  Fingerprints,
  FingerprintOf,   \* the plan's fingerprint
  MaxRestarts      \* bound: restarts of the worker process

ASSUME PlacesAssumption ==
  /\ IsFiniteSet(Tasks)
  /\ JobOf \in [Tasks -> Jobs]
  /\ Readers \subseteq Tasks /\ MapTasks \subseteq Tasks /\ Persisting \subseteq Tasks
  /\ NoIdentity \notin Identities
  /\ IdentityOf \in [Jobs -> Identities \cup {NoIdentity}]
  /\ FingerprintOf \in [Jobs -> Fingerprints]

ASSUME SizesAssumption ==
  /\ Units \in Nat \ {0}
  /\ Limit \in Nat \ {0}
  /\ MaxRestarts \in Nat

VARIABLES
  disk,            \* path -> units on disk, or Absent
  files, used,     \* the disk budget
  phase, result,   \* a task in the /task handler
  rpc,             \* the driver's view of a task: unsent, sent, ok or failed
  active,          \* job -> its tasks inside the handler
  activeCache,     \* identity -> tasks inside the handler that use it
  jobCaches, reusable, \* cache objects, numbered; 0 is a missing entry
  held,            \* task -> the cache object it was given (task.jobCache)
  made,            \* cache objects made so far
  job,             \* running, then cleaning, then cleaned or abandoned
  late,            \* tasks that arrived after their job was cleaned up
  restarts

budget == <<files, used>>
counts == <<active, activeCache>>
caches == <<jobCaches, reusable, held, made>>
driver == <<job, late, restarts>>
vars == <<disk, budget, phase, result, rpc, counts, caches, driver>>

Absent == -1
Paths == {"scratch", "cached", "pending", "output"} \X Tasks
Scratch(t) == <<"scratch", t>>
Cached(t) == <<"cached", t>>
Pending(t) == <<"pending", t>>
Output(t) == <<"output", t>>
ScratchDir(t) == {Scratch(t), Cached(t)}
JobDir(j) == {p \in Paths : p[1] \in {"pending", "output"} /\ JobOf[p[2]] = j}
CacheFiles == {Cached(t) : t \in Tasks}
FilesOf(t) == {Scratch(t), Cached(t), Pending(t), Output(t)}
Size(d) == IF d = Absent THEN 0 ELSE d

Outside == {"idle", "left", "dead"}
Phases == Outside \cup {"started", "fetching", "fetched", "reserved", "writing",
                        "published", "closing", "stopped", "replied"}
Live(t) == phase[t] \notin Outside
Ready(t) == \/ phase[t] = "fetched"
            \/ phase[t] = "started" /\ t \notin Readers

CacheKeys == Identities \X Fingerprints
CacheKey(t) == <<IdentityOf[JobOf[t]], FingerprintOf[JobOf[t]]>>
Reuses(t) == IdentityOf[JobOf[t]] # NoIdentity
\* the cache the handler finds for a task
CacheFor(t) == IF Reuses(t) THEN reusable[CacheKey(t)] ELSE jobCaches[JobOf[t]]

StateTypes ==
  /\ disk \in [Paths -> Nat \cup {Absent}]
  /\ files \in [Paths -> Nat]
  /\ phase \in [Tasks -> Phases]
  /\ result \in [Tasks -> {"none", "ok", "error"}]
  /\ rpc \in [Tasks -> {"unsent", "sent", "ok", "failed"}]
  /\ active \in [Jobs -> Nat] /\ activeCache \in [Identities -> Nat]
  /\ jobCaches \in [Jobs -> Nat] /\ reusable \in [CacheKeys -> Nat]
  /\ held \in [Tasks -> Nat] /\ made \in Nat
  /\ job \in [Jobs -> {"running", "cleaning", "cleaned", "abandoned"}]
  /\ late \subseteq Tasks
  /\ restarts \in 0 .. MaxRestarts

TypeOK == StateTypes /\ used \in Nat

\* a path with neither a file nor a reservation
Nothing(p) == disk[p] = Absent /\ files[p] = 0
Leftover(t) == {p \in FilesOf(t) : ~Nothing(p)}

\* a worker started on an empty store
Init ==
  /\ disk = [p \in Paths |-> Absent]
  /\ files = [p \in Paths |-> 0] /\ used = 0
  /\ phase = [t \in Tasks |-> "idle"]
  /\ result = [t \in Tasks |-> "none"]
  /\ rpc = [t \in Tasks |-> "unsent"]
  /\ active = [j \in Jobs |-> 0] /\ activeCache = [c \in Identities |-> 0]
  /\ jobCaches = [j \in Jobs |-> 0] /\ reusable = [k \in CacheKeys |-> 0]
  /\ held = [t \in Tasks |-> 0] /\ made = 0
  /\ job = [j \in Jobs |-> "running"]
  /\ late = {} /\ restarts = 0

-----------------------------------------------------------------------------
(* diskBudget *)

Fits(n) == n <= Limit - used

Reserve(p, n) ==
  /\ files' = [files EXCEPT ![p] = @ + n]
  /\ used' = used + n

\* removeFile and removeDir: the files of D go, with their reservations
RemoveDir(D) ==
  /\ disk' = [p \in Paths |-> IF p \in D THEN Absent ELSE disk[p]]
  /\ files' = [p \in Paths |-> IF p \in D THEN 0 ELSE files[p]]
  /\ used' = used - SumFunctionOnSet(files, D)

\* a plausible slip: the reservation stays under the old name
RenameDirUntracked(from, to) ==
  /\ disk' = [disk EXCEPT ![to] = disk[from], ![from] = Absent]
  /\ UNCHANGED budget

RenameDir(from, to) ==
  /\ disk' = [disk EXCEPT ![to] = disk[from], ![from] = Absent]
  /\ files' = [files EXCEPT ![to] = files[from], ![from] = 0]
  /\ UNCHANGED used

-----------------------------------------------------------------------------
(* A task inside the /task handler *)

\* ExecuteTaskContext returns: ctx.Stop is next
Close(t, r) ==
  /\ phase' = [phase EXCEPT ![t] = "closing"]
  /\ result' = [result EXCEPT ![t] = r]

Move(t, from, to) ==
  /\ phase[t] = from
  /\ phase' = [phase EXCEPT ![t] = to]

\* the request is read; it may arrive after the driver gave up on it
Receive(t) ==
  /\ rpc[t] # "unsent"
  /\ Move(t, "idle", "started")
  /\ active' = [active EXCEPT ![JobOf[t]] = @ + 1]
  /\ LET found == IF CacheFor(t) = 0 THEN made + 1 ELSE CacheFor(t)
     IN  /\ made' = IF CacheFor(t) = 0 THEN made + 1 ELSE made
         /\ held' = [held EXCEPT ![t] = found]
         /\ IF Reuses(t)
            THEN /\ activeCache' = [activeCache EXCEPT ![IdentityOf[JobOf[t]]] = @ + 1]
                 /\ reusable' = [reusable EXCEPT ![CacheKey(t)] = found]
                 /\ UNCHANGED jobCaches
            ELSE /\ jobCaches' = [jobCaches EXCEPT ![JobOf[t]] = found]
                 /\ UNCHANGED <<activeCache, reusable>>
  /\ late' = IF job[JobOf[t]] = "cleaned" THEN late \cup {t} ELSE late
  /\ UNCHANGED <<disk, budget, result, rpc, job, restarts>>

\* the request is refused, or the computation fails or is cancelled, while
\* no bucket is being fetched or written
Abort(t) ==
  /\ phase[t] \in {"started", "fetched"}
  /\ Close(t, "error")
  /\ UNCHANGED <<disk, budget, rpc, counts, caches, driver>>

\* cacheShuffleBucket reserves the whole bucket in the task's scratch
\* directory before it copies it
FetchReserve(t) ==
  /\ t \in Readers /\ phase[t] = "started"
  /\ \/ /\ Fits(1) /\ Reserve(Scratch(t), 1)
        /\ disk' = [disk EXCEPT ![Scratch(t)] = 0]
        /\ phase' = [phase EXCEPT ![t] = "fetching"]
        /\ UNCHANGED result
     \/ /\ ~Fits(1) /\ Close(t, "error")
        /\ UNCHANGED <<disk, budget>>
  /\ UNCHANGED <<rpc, counts, caches, driver>>

FetchWrite(t) ==
  /\ Move(t, "fetching", "fetched")
  /\ disk' = [disk EXCEPT ![Scratch(t)] = 1]
  /\ UNCHANGED <<budget, result, rpc, counts, caches, driver>>

\* the copy, the size, the checksum or the context fails: removeFile
FetchFails(t) ==
  /\ phase[t] = "fetching"
  /\ RemoveDir({Scratch(t)})
  /\ Close(t, "error")
  /\ UNCHANGED <<rpc, counts, caches, driver>>

\* diskCache.put: a persisted partition is computed, by a map task once its
\* buckets are open, and written beside the fetched buckets, unreserved.
\* The write may fail, unnoticed, or find its partition cached in memory.
PutOnDisk(t) ==
  /\ t \in Persisting /\ disk[Cached(t)] = Absent
  /\ IF t \in MapTasks THEN phase[t] = "writing" ELSE Ready(t)
  /\ disk' = [disk EXCEPT ![Cached(t)] = 1]
  /\ UNCHANGED <<budget, phase, result, rpc, counts, caches, driver>>

\* a result, save or sampling task: nothing but the scratch directory is
\* kept on this disk
Compute(t) ==
  /\ t \notin MapTasks /\ Ready(t)
  /\ Close(t, "ok")
  /\ UNCHANGED <<disk, budget, rpc, counts, caches, driver>>

\* newBucketWriter: the file is created, its header reserved
OpenBucket(t) ==
  /\ t \in MapTasks /\ Ready(t)
  /\ \/ /\ Fits(1) /\ Reserve(Pending(t), 1)
        /\ disk' = [disk EXCEPT ![Pending(t)] = 0]
        /\ phase' = [phase EXCEPT ![t] = "reserved"]
        /\ UNCHANGED result
     \/ /\ ~Fits(1) /\ Close(t, "error")
        /\ UNCHANGED <<disk, budget>>
  /\ UNCHANGED <<rpc, counts, caches, driver>>

WriteUnit(t) ==
  /\ Move(t, "reserved", "writing")
  /\ disk' = [disk EXCEPT ![Pending(t)] = @ + 1]
  /\ UNCHANGED <<budget, result, rpc, counts, caches, driver>>

\* append: a record is reserved before it is written
ReserveUnit(t) ==
  /\ files[Pending(t)] < Units /\ Fits(1)
  /\ Move(t, "writing", "reserved")
  /\ Reserve(Pending(t), 1)
  /\ UNCHANGED <<disk, result, rpc, counts, caches, driver>>

\* the budget is exceeded, a write fails or the task is cancelled: the
\* deferred removeDir of the map-pending directory
MapFails(t) ==
  /\ phase[t] \in {"reserved", "writing"}
  /\ RemoveDir({Pending(t)})
  /\ Close(t, "error")
  /\ UNCHANGED <<rpc, counts, caches, driver>>

\* a plausible slip: the rename does not wait for the last record
PublishPartial(t) ==
  /\ Move(t, "writing", "published")
  /\ RenameDir(Pending(t), Output(t))
  /\ UNCHANGED <<result, rpc, counts, caches, driver>>

\* every bucket finished: the rename that publishes the map output
Publish(t) ==
  /\ disk[Pending(t)] = Units
  /\ Move(t, "writing", "published")
  /\ RenameDir(Pending(t), Output(t))
  /\ UNCHANGED <<result, rpc, counts, caches, driver>>

Return(t) ==
  /\ phase[t] = "published"
  /\ Close(t, "ok")
  /\ UNCHANGED <<disk, budget, rpc, counts, caches, driver>>

\* the driver is gone by now: executeShuffleMap removes the published
\* directory with os.RemoveAll, past the budget
ReturnCanceled(t) ==
  /\ phase[t] = "published" /\ rpc[t] = "failed"
  /\ disk' = [disk EXCEPT ![Output(t)] = Absent]
  /\ Close(t, "error")
  /\ UNCHANGED <<budget, rpc, counts, caches, driver>>

\* ctx.Stop: the scratch directory is removed, the disk cache with it
Stop(t) ==
  /\ Move(t, "closing", "stopped")
  /\ RemoveDir(ScratchDir(t))
  /\ UNCHANGED <<result, rpc, counts, caches, driver>>

\* the response reaches a driver that still waits for it
Respond(t) ==
  /\ Move(t, "stopped", "replied")
  /\ rpc' = [rpc EXCEPT ![t] = IF @ # "sent" THEN @
                               ELSE IF result[t] = "ok" THEN "ok" ELSE "failed"]
  /\ UNCHANGED <<disk, budget, result, counts, caches, driver>>

\* a plausible slip: an error return skips the decrement
LeaveOnSuccess(t) ==
  /\ Move(t, "replied", "left")
  /\ IF result[t] = "ok"
     THEN /\ active' = [active EXCEPT ![JobOf[t]] = @ - 1]
          /\ activeCache' = [c \in Identities |->
               activeCache[c] - IF c = IdentityOf[JobOf[t]] THEN 1 ELSE 0]
     ELSE UNCHANGED counts
  /\ UNCHANGED <<disk, budget, result, rpc, caches, driver>>

\* a plausible slip: the count is released on the response and on return
LeaveTwice(t) ==
  /\ Move(t, "replied", "left")
  /\ active' = [active EXCEPT ![JobOf[t]] = @ - 2]
  /\ activeCache' = [c \in Identities |->
       activeCache[c] - IF c = IdentityOf[JobOf[t]] THEN 2 ELSE 0]
  /\ UNCHANGED <<disk, budget, result, rpc, caches, driver>>

\* the deferred decrement, after the response was written
Leave(t) ==
  /\ Move(t, "replied", "left")
  /\ active' = [active EXCEPT ![JobOf[t]] = @ - 1]
  /\ activeCache' = [c \in Identities |->
       activeCache[c] - IF c = IdentityOf[JobOf[t]] THEN 1 ELSE 0]
  /\ UNCHANGED <<disk, budget, result, rpc, caches, driver>>

-----------------------------------------------------------------------------
(* The driver, and the other handlers *)

Send(t) ==
  /\ rpc[t] = "unsent" /\ job[JobOf[t]] = "running"
  /\ rpc' = [rpc EXCEPT ![t] = "sent"]
  /\ UNCHANGED <<disk, budget, phase, result, counts, caches, driver>>

\* ExecContext returns an error: timeout, lost heartbeat, cancelled job
GiveUp(t) ==
  /\ rpc[t] = "sent"
  /\ rpc' = [rpc EXCEPT ![t] = "failed"]
  /\ UNCHANGED <<disk, budget, phase, result, counts, caches, driver>>

\* the scheduler returns and its deferred cleanupJob starts
EndJob(j) ==
  /\ job[j] = "running"
  /\ \A t \in Tasks : JobOf[t] = j => rpc[t] # "sent"
  /\ job' = [job EXCEPT ![j] = "cleaning"]
  /\ UNCHANGED <<disk, budget, phase, result, rpc, counts, caches, late, restarts>>

CleanupNow(j) ==
  /\ job[j] \in {"cleaning", "abandoned"}
  /\ RemoveDir(JobDir(j))
  /\ jobCaches' = [jobCaches EXCEPT ![j] = 0]
  /\ job' = [job EXCEPT ![j] = "cleaned"]
  /\ UNCHANGED <<phase, result, rpc, counts, reusable, held, made, late, restarts>>

\* a plausible slip: the directory goes, its reservations stay
CleanupUntracked(j) ==
  /\ job[j] \in {"cleaning", "abandoned"}
  /\ active[j] = 0
  /\ disk' = [p \in Paths |-> IF p \in JobDir(j) THEN Absent ELSE disk[p]]
  /\ jobCaches' = [jobCaches EXCEPT ![j] = 0]
  /\ job' = [job EXCEPT ![j] = "cleaned"]
  /\ UNCHANGED <<budget, phase, result, rpc, counts, reusable, held, made, late, restarts>>

\* the /cleanup handler; with tasks inside it answers 409 and the client
\* asks again.  The request may be served after the client's five seconds.
Cleanup(j) ==
  /\ active[j] = 0
  /\ CleanupNow(j)

CleanupGivesUp(j) ==
  /\ job[j] = "cleaning"
  /\ job' = [job EXCEPT ![j] = "abandoned"]
  /\ UNCHANGED <<disk, budget, phase, result, rpc, counts, caches, late, restarts>>

UnpersistNow(c) ==
  /\ reusable' = [k \in CacheKeys |-> IF k[1] = c THEN 0 ELSE reusable[k]]
  /\ UNCHANGED <<disk, budget, phase, result, rpc, counts, jobCaches, held, made, driver>>

\* the /unpersist handler: every fingerprint of the name
Unpersist(c) ==
  /\ activeCache[c] = 0
  /\ UnpersistNow(c)

\* the process dies and a new one starts on the same store directory: its
\* budget counts every file it finds, reserved or not, whatever the limit
Restart ==
  /\ restarts < MaxRestarts
  /\ restarts' = restarts + 1
  /\ phase' = [t \in Tasks |-> IF Live(t) THEN "dead" ELSE phase[t]]
  /\ files' = [p \in Paths |-> Size(disk[p])]
  /\ used' = SumFunction(files')
  /\ active' = [j \in Jobs |-> 0] /\ activeCache' = [c \in Identities |-> 0]
  /\ jobCaches' = [j \in Jobs |-> 0] /\ reusable' = [k \in CacheKeys |-> 0]
  /\ UNCHANGED <<disk, result, rpc, held, made, job, late>>

Handler(t) ==
  \/ Abort(t) \/ FetchReserve(t) \/ FetchWrite(t) \/ FetchFails(t)
  \/ PutOnDisk(t) \/ Compute(t)
  \/ OpenBucket(t) \/ WriteUnit(t) \/ ReserveUnit(t) \/ MapFails(t) \/ Publish(t)
  \/ Return(t) \/ ReturnCanceled(t) \/ Stop(t) \/ Respond(t) \/ Leave(t)

Next ==
  \/ \E t \in Tasks : Send(t) \/ GiveUp(t) \/ Receive(t) \/ Handler(t)
  \/ \E j \in Jobs : EndJob(j) \/ Cleanup(j) \/ CleanupGivesUp(j)
  \/ \E c \in Identities : Unpersist(c)
  \/ Restart

Spec == Init /\ [][Next]_vars

\* a task that is running goes on, and the cleanup client asks again after
\* every 409
FairSpec ==
  /\ Spec
  /\ \A t \in Tasks : WF_vars(Handler(t))
  /\ \A j \in Jobs : WF_vars(Cleanup(j))

-----------------------------------------------------------------------------
(* Properties *)

(* Every unit of a map output, finished or not, and of a fetched bucket is *)
(* covered by the reservation of its path (reserve comes before the write, *)
(* and renames and restarts keep it so), whatever fails or is cancelled.   *)
WrittenReserved == \A p \in Paths \ CacheFiles : Size(disk[p]) <= files[p]

(* What a task put into its disk cache counts only once the task has died  *)
(* with the process and a new one has found its file.                      *)
CacheCountedDead == \A t \in Tasks : files[Cached(t)] # 0 => phase[t] = "dead"

(* The budget of shuffle_budget.go, through failed and cancelled tasks,    *)
(* renames, cleanups and restarts that reseed it from the disk: map        *)
(* outputs and fetched buckets are reserved before they are written, the   *)
(* running total is the sum of the reservations, and all that was ever     *)
(* reserved stays within the limit.  The total exceeds the limit by no     *)
(* more than the unreserved disk caches of tasks that died with an earlier *)
(* process, and not at all before a restart.                               *)
BudgetSound ==
  /\ WrittenReserved
  /\ CacheCountedDead
  /\ used = SumFunction(files)
  /\ used - SumFunctionOnSet(files, CacheFiles) <= Limit

(* A map output a reader can see is whole (the rename in writeStreamMap),  *)
(* and one whose task answered ok stays until the job is cleaned up, even  *)
(* if the worker restarts or other attempts of the job are cancelled.      *)
OutputKept ==
  \A t \in MapTasks :
    /\ disk[Output(t)] \in {Absent, Units}
    /\ rpc[t] = "ok" /\ job[JobOf[t]] # "cleaned" => disk[Output(t)] = Units

(* Tasks inside the handler hold the cache object that the maps of         *)
(* ServeWorker still name for their key: neither a cleanup nor an          *)
(* unpersist takes it from under them, so tasks of one key share it.       *)
CacheShared ==
  \A t \in Tasks : Live(t) => held[t] # 0 /\ held[t] = CacheFor(t)

(* Nobody but a task itself touches the files of a task inside the         *)
(* handler: the 409 of /cleanup/ covers a task the driver has given up on  *)
(* and one whose response is out while its deferred decrement is not.  A   *)
(* task that stays where it is may only add to its disk cache.             *)
NoFilesPulled ==
  [][\A t \in Tasks : Live(t) /\ phase'[t] = phase[t] =>
       \A p \in FilesOf(t) :
         /\ files'[p] = files[p]
         /\ disk'[p] = disk[p] \/ (p = Cached(t) /\ disk[p] = Absent)]_vars

(* What a job leaves behind.  A task that returned leaves its output and   *)
(* nothing else, however it ended.  A served cleanup takes that too, from  *)
(* the disk and from the budget, the cancelled outputs removed past the    *)
(* budget included, and the map-pending directories of tasks that died     *)
(* with a process.  So what survives a cleanup is the scratch directory of *)
(* a task that died (it is not under the directory of the job that the     *)
(* handler of /cleanup/ removes), and what tasks write that arrive after   *)
(* the cleanup: once they returned, a map output.                          *)
CleanedReleased ==
  \A t \in Tasks :
    /\ phase[t] \in {"idle", "left"} => Leftover(t) \subseteq {Output(t)}
    /\ job[JobOf[t]] = "cleaned" /\ t \notin late =>
         Leftover(t) \subseteq IF phase[t] = "dead" THEN ScratchDir(t) ELSE {}

(* The cleanup client's retry loop is answered: a job that ended is        *)
(* cleaned up unless the client runs out of time first, however many of    *)
(* its tasks were still inside the handler.                                *)
CleanupServed ==
  \A j \in Jobs : job[j] = "cleaning" ~> job[j] \in {"cleaned", "abandoned"}

(* What shuffle_budget.go:14-16 says: tracked files release their reserved *)
(* size when removed.                                                      *)
ReleasedWhenRemoved ==
  \A p \in Paths : disk[p] = Absent => files[p] = 0
=============================================================================
