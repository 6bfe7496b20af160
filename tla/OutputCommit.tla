----------------------------- MODULE OutputCommit -----------------------------
(***************************************************************************)
(* The distributed save (scheduleSaveContext, distributed_output.go).  A   *)
(* driver has its result tasks write attempt files (writeOutputPartition), *)
(* verifies the attempts it accepted and publishes one _SUCCESS manifest   *)
(* that names them, by a conditional create.  Several jobs may save to the *)
(* same path.  Workers and drivers may crash at any point, a response may  *)
(* be lost, a task the driver gave up on may go on writing or even begin   *)
(* late, and an object store may apply a conditional put whose caller saw  *)
(* an error, at once or later.                                             *)
(*                                                                         *)
(* File contents are abstracted to whether the file is absent, partial or  *)
(* has the content its digest was computed from.  The lineage scheduler    *)
(* between the check for an earlier commit and the commit is abstracted to *)
(* what a save can see of it: fresh attempt numbers, at most one attempt   *)
(* of a partition awaited at a time, results withdrawn by a repair.        *)
(***************************************************************************)
EXTENDS Integers

CONSTANTS
  Jobs,           \* the jobs that save to the path
  NumPartitions,  \* result partitions of each
  AttemptBound,   \* bound on the attempts of one partition
  ObjectStore,    \* TRUE for S3, FALSE for a local directory
  NoJob

ASSUME JobsAssumption == NoJob \notin Jobs
ASSUME SizeAssumption ==
  /\ NumPartitions \in Nat
  /\ AttemptBound \in Nat
  /\ ObjectStore \in BOOLEAN

Parts == 0..(NumPartitions - 1)
Numbers == 0..(AttemptBound - 1)
None == -1

(* A task is one attempt of one partition of one job. *)
Tasks == Jobs \X Parts \X Numbers

VARIABLES
  (* the output path *)
  file,      \* [key -> "absent", "partial" or "full"]
  marker,    \* the _SUCCESS manifest: [job, attempt of each partition]
  inflight,  \* jobs whose conditional put may still be applied
  (* workers *)
  writer,    \* [Tasks -> what the worker is doing]
  (* drivers *)
  pc,        \* [Jobs -> control point]
  attempts,  \* [Jobs -> [Parts -> next attempt number]]
  awaited,   \* [Jobs -> partitions with an RPC under way]
  accepted,  \* [Jobs -> [Parts -> accepted attempt or None]]
  verified   \* [Jobs -> number of partitions verified]

store == <<file, marker, inflight>>
drivers == <<pc, attempts, awaited, accepted, verified>>
vars == <<store, writer, drivers>>

NoManifest == [job |-> NoJob, parts |-> [p \in Parts |-> None]]
Manifest(j) == [job |-> j, parts |-> accepted[j]]
Committed == marker.job # NoJob

(* Variant: attempts of a partition share a path. *)
AttemptOutputKeyShared(j, p, a) == <<j, p, 0>>

AttemptOutputKey(j, p, a) == <<j, p, a>>
Key(t) == AttemptOutputKey(t[1], t[2], t[3])

Phases == {"idle", "assigned", "writing", "closed", "reported", "failing",
           "stopped"}
Final == {"success", "already", "failed", "crashed"}

TypeOK ==
  /\ file \in [Tasks -> {"absent", "partial", "full"}]
  /\ marker \in [job : Jobs \cup {NoJob}, parts : [Parts -> Numbers \cup {None}]]
  /\ inflight \subseteq Jobs
  /\ writer \in [Tasks -> Phases]
  /\ pc \in [Jobs -> {"check", "schedule", "verify", "publish", "reread"} \cup Final]
  /\ attempts \in [Jobs -> [Parts -> 0..AttemptBound]]
  /\ awaited \in [Jobs -> SUBSET Parts]
  /\ accepted \in [Jobs -> [Parts -> Numbers \cup {None}]]
  /\ verified \in [Jobs -> 0..NumPartitions]

Init ==
  /\ file = [t \in Tasks |-> "absent"]
  /\ marker = NoManifest
  /\ inflight = {}
  /\ writer = [t \in Tasks |-> "idle"]
  /\ pc = [j \in Jobs |-> "check"]
  /\ attempts = [j \in Jobs |-> [p \in Parts |-> 0]]
  /\ awaited = [j \in Jobs |-> {}]
  /\ accepted = [j \in Jobs |-> [p \in Parts |-> None]]
  /\ verified = [j \in Jobs |-> 0]

-----------------------------------------------------------------------------
(* writeOutputPartition, on a worker *)

(* A local file appears, empty, when it is created; an object only when    *)
(* its writer is closed.                                                   *)
CreateFile(t) ==
  /\ writer[t] = "assigned"
  /\ writer' = [writer EXCEPT ![t] = "writing"]
  /\ file' = IF ObjectStore THEN file ELSE [file EXCEPT ![Key(t)] = "partial"]
  /\ UNCHANGED <<marker, inflight, drivers>>

CloseFile(t) ==
  /\ writer[t] = "writing"
  /\ writer' = [writer EXCEPT ![t] = "closed"]
  /\ file' = [file EXCEPT ![Key(t)] = "full"]
  /\ UNCHANGED <<marker, inflight, drivers>>

(* A record, the context or Close fails.  Closing the writer after a       *)
(* failure may still put what was written, or all of it when only the      *)
(* response of the store was lost.                                         *)
FailWrite(t) ==
  /\ writer[t] = "writing"
  /\ writer' = [writer EXCEPT ![t] = "failing"]
  /\ \E c \in {"absent", "partial", "full"} :
       /\ ~ObjectStore => c # "absent"
       /\ c = "absent" => file[Key(t)] = "absent"
       /\ file' = [file EXCEPT ![Key(t)] = c]
  /\ UNCHANGED <<marker, inflight, drivers>>

(* The context was cancelled by the time the file was closed. *)
CanceledAfterClose(t) ==
  /\ writer[t] = "closed"
  /\ writer' = [writer EXCEPT ![t] = "failing"]
  /\ UNCHANGED <<store, drivers>>

(* Variant: the attempt is returned before its writer is closed. *)
ReportAttemptEarly(t) ==
  /\ writer[t] = "writing"
  /\ writer' = [writer EXCEPT ![t] = "reported"]
  /\ UNCHANGED <<store, drivers>>

(* The attempt is returned with its digest and is no longer touched. *)
ReportAttempt(t) ==
  /\ writer[t] = "closed"
  /\ writer' = [writer EXCEPT ![t] = "reported"]
  /\ UNCHANGED <<store, drivers>>

(* The deferred removal of an attempt that failed; its error is ignored. *)
RemoveAttempt(t) ==
  /\ writer[t] = "failing"
  /\ writer' = [writer EXCEPT ![t] = "stopped"]
  /\ \/ file' = [file EXCEPT ![Key(t)] = "absent"]
     \/ UNCHANGED file
  /\ UNCHANGED <<marker, inflight, drivers>>

CrashWorker(t) ==
  /\ writer[t] \in {"assigned", "writing", "closed", "failing"}
  /\ writer' = [writer EXCEPT ![t] = "stopped"]
  /\ UNCHANGED <<store, drivers>>

-----------------------------------------------------------------------------
(* scheduleSaveContext, on a driver *)

Goto(j, l) == pc' = [pc EXCEPT ![j] = l]

(* A manifest that can be read ends the save before it begins; any error   *)
(* in reading it lets the job run.                                         *)
CheckCommitted(j) ==
  /\ pc[j] = "check"
  /\ \/ Committed /\ Goto(j, "already")
     \/ Goto(j, "schedule")
  /\ UNCHANGED <<store, writer, attempts, awaited, accepted, verified>>

Dispatch(j, p) ==
  /\ pc[j] = "schedule"
  /\ p \notin awaited[j] /\ accepted[j][p] = None
  /\ attempts[j][p] < AttemptBound
  /\ writer' = [writer EXCEPT ![<<j, p, attempts[j][p]>>] = "assigned"]
  /\ attempts' = [attempts EXCEPT ![j][p] = @ + 1]
  /\ awaited' = [awaited EXCEPT ![j] = @ \cup {p}]
  /\ UNCHANGED <<store, pc, accepted, verified>>

(* Variant: the number is taken from the counter, which was raised. *)
AcceptOutputNext(j, p) ==
  /\ pc[j] = "schedule" /\ p \in awaited[j]
  /\ writer[<<j, p, attempts[j][p] - 1>>] = "reported"
  /\ accepted' = [accepted EXCEPT ![j][p] = attempts[j][p]]
  /\ awaited' = [awaited EXCEPT ![j] = @ \ {p}]
  /\ UNCHANGED <<store, writer, pc, attempts, verified>>

(* The response arrives and matches the task (validateTaskResult). *)
AcceptOutput(j, p) ==
  /\ pc[j] = "schedule" /\ p \in awaited[j]
  /\ writer[<<j, p, attempts[j][p] - 1>>] = "reported"
  /\ accepted' = [accepted EXCEPT ![j][p] = attempts[j][p] - 1]
  /\ awaited' = [awaited EXCEPT ![j] = @ \ {p}]
  /\ UNCHANGED <<store, writer, pc, attempts, verified>>

(* An error, a timeout, a failed heartbeat or a lost response: the worker  *)
(* may not have noticed.                                                   *)
GiveUpOn(j, p) ==
  /\ pc[j] = "schedule" /\ p \in awaited[j]
  /\ awaited' = [awaited EXCEPT ![j] = @ \ {p}]
  /\ UNCHANGED <<store, writer, pc, attempts, accepted, verified>>

(* A lost shuffle map withdraws every result of the result stage. *)
Withdraw(j) ==
  /\ pc[j] = "schedule" /\ awaited[j] = {}
  /\ \E p \in Parts : accepted[j][p] # None
  /\ accepted' = [accepted EXCEPT ![j] = [p \in Parts |-> None]]
  /\ UNCHANGED <<store, writer, pc, attempts, awaited, verified>>

(* scheduleResults returns an error. *)
ScheduleFails(j) ==
  /\ pc[j] = "schedule"
  /\ Goto(j, "failed")
  /\ UNCHANGED <<store, writer, attempts, awaited, accepted, verified>>

(* scheduleResults returned every result partition; the caller's context   *)
(* is looked at once more before the commit.                               *)
SelectOutputs(j) ==
  /\ pc[j] = "schedule" /\ awaited[j] = {}
  /\ \A p \in Parts : accepted[j][p] # None
  /\ Goto(j, "verify") \/ Goto(j, "failed")
  /\ UNCHANGED <<store, writer, attempts, awaited, accepted, verified>>

-----------------------------------------------------------------------------
(* CommitDistributedOutput, on a driver *)

(* The attempts are opened and their digests computed in partition order;  *)
(* a file that is missing, corrupt or cannot be read ends the commit.      *)
VerifyAttempt(j) ==
  /\ pc[j] = "verify" /\ verified[j] < NumPartitions
  /\ \/ /\ file[AttemptOutputKey(j, verified[j], accepted[j][verified[j]])] = "full"
        /\ verified' = [verified EXCEPT ![j] = @ + 1]
        /\ UNCHANGED pc
     \/ Goto(j, "failed") /\ UNCHANGED verified
  /\ UNCHANGED <<store, writer, attempts, awaited, accepted>>

AllVerified(j) ==
  /\ pc[j] = "verify" /\ verified[j] = NumPartitions
  /\ Goto(j, "publish")
  /\ UNCHANGED <<store, writer, attempts, awaited, accepted, verified>>

(* Variant: an ordinary create, as the older OutputCommitter does. *)
PublishOverwrite(j) ==
  /\ pc[j] = "publish"
  /\ marker' = Manifest(j)
  /\ Goto(j, "success")
  /\ UNCHANGED <<file, inflight, writer, attempts, awaited, accepted, verified>>

(* The conditional create of _SUCCESS succeeds: a hard link, or a put with *)
(* If-None-Match.                                                          *)
Publish(j) ==
  /\ pc[j] = "publish"
  /\ ~Committed
  /\ marker' = Manifest(j)
  /\ Goto(j, "success")
  /\ UNCHANGED <<file, inflight, writer, attempts, awaited, accepted, verified>>

(* It fails because the marker exists, or for another reason. *)
PublishFails(j) ==
  /\ pc[j] = "publish"
  /\ Goto(j, "reread")
  /\ UNCHANGED <<store, writer, attempts, awaited, accepted, verified>>

(* The caller of a put sees an error although the object store applies it, *)
(* now or later.                                                           *)
PublishUnknown(j) ==
  /\ pc[j] = "publish" /\ ObjectStore
  /\ inflight' = inflight \cup {j}
  /\ Goto(j, "reread")
  /\ UNCHANGED <<file, marker, writer, attempts, awaited, accepted, verified>>

(* Variant: a put that does not ask for the object to be absent. *)
ApplyPutOverwrite(j) ==
  /\ j \in inflight
  /\ inflight' = inflight \ {j}
  /\ marker' = Manifest(j)
  /\ UNCHANGED <<file, writer, drivers>>

ApplyPut(j) ==
  /\ j \in inflight
  /\ inflight' = inflight \ {j}
  /\ marker' = IF Committed THEN marker ELSE Manifest(j)
  /\ UNCHANGED <<file, writer, drivers>>

(* Variant: any manifest found is taken for one's own. *)
RereadAny(j) ==
  /\ pc[j] = "reread"
  /\ \/ Committed /\ Goto(j, "success")
     \/ Goto(j, "failed")
  /\ UNCHANGED <<store, writer, attempts, awaited, accepted, verified>>

(* "An identical retry is idempotent": the marker is read back. *)
Reread(j) ==
  /\ pc[j] = "reread"
  /\ \/ Committed /\ marker = Manifest(j) /\ Goto(j, "success")
     \/ Committed /\ Goto(j, "already")   \* another manifest, or a read error
     \/ Goto(j, "failed")                 \* no marker, or it cannot be opened
  /\ UNCHANGED <<store, writer, attempts, awaited, accepted, verified>>

CrashDriver(j) ==
  /\ pc[j] \notin Final
  /\ Goto(j, "crashed")
  /\ UNCHANGED <<store, writer, attempts, awaited, accepted, verified>>

Worker(t) ==
  \/ CreateFile(t)
  \/ CloseFile(t)
  \/ FailWrite(t)
  \/ CanceledAfterClose(t)
  \/ ReportAttempt(t)
  \/ RemoveAttempt(t)
  \/ CrashWorker(t)

Driver(j) ==
  \/ CheckCommitted(j)
  \/ \E p \in Parts : Dispatch(j, p)
  \/ \E p \in Parts : AcceptOutput(j, p)
  \/ \E p \in Parts : GiveUpOn(j, p)
  \/ Withdraw(j)
  \/ ScheduleFails(j)
  \/ SelectOutputs(j)
  \/ VerifyAttempt(j)
  \/ AllVerified(j)
  \/ Publish(j)
  \/ PublishFails(j)
  \/ PublishUnknown(j)
  \/ ApplyPut(j)
  \/ Reread(j)
  \/ CrashDriver(j)

Next ==
  \/ \E t \in Tasks : Worker(t)
  \/ \E j \in Jobs : Driver(j)

Spec == Init /\ [][Next]_vars
-----------------------------------------------------------------------------
(* Properties *)

(* Whoever follows the manifest of _SUCCESS finds every attempt file it    *)
(* names complete, for good: neither the deferred removal of a failed      *)
(* attempt, nor a task the driver gave up on that writes late, nor a       *)
(* competing job touches a file a manifest names.                          *)
Readable ==
  \A p \in Parts : /\ marker.parts[p] # None
                   /\ file[AttemptOutputKey(marker.job, p, marker.parts[p])] = "full"
CommittedReadable == Committed => Readable

(* The first commit is never replaced, withdrawn or altered by a later     *)
(* job, by a retry or by a delayed conditional put.                        *)
CommitStable == [][Committed => marker' = marker]_vars

(* A driver that reports success published the manifest that is there, and *)
(* one that reports ErrOutputCommitted saw a manifest.                     *)
ReportsTrue ==
  \A j \in Jobs : /\ pc[j] = "success" => marker = Manifest(j)
                  /\ pc[j] = "already" => Committed

(* The distributed save implements an atomic, once-only publication. *)
Dataset == IF ~Committed THEN NoJob ELSE IF Readable THEN marker.job ELSE "torn"
ReportOf(j) == IF pc[j] \in {"success", "already"} THEN pc[j]
               ELSE IF pc[j] \in Final THEN "failed" ELSE "none"
Abstract == INSTANCE CommitSpec WITH
              dataset <- Dataset,
              report <- [j \in Jobs |-> ReportOf(j)]

(* Readers see nothing, then at once and for good the complete dataset of  *)
(* one job, and reports agree with what readers see.                       *)
ImplementsCommit == Abstract!CSpec

-----------------------------------------------------------------------------
(* The inductive invariant behind these properties *)

(* A closed attempt file is complete, and stays so once it is reported. *)
FilesInv == \A t \in Tasks : writer[t] \in {"closed", "reported"} => file[Key(t)] = "full"

(* Attempt numbers not yet used belong to no worker. *)
UnusedInv ==
  \A j \in Jobs, p \in Parts, a \in Numbers :
    a >= attempts[j][p] => writer[<<j, p, a>>] = "idle"

(* What a driver accepted was reported. *)
AcceptedInv ==
  \A j \in Jobs, p \in Parts :
    accepted[j][p] # None => writer[<<j, p, accepted[j][p]>>] = "reported"

(* A driver that reached the commit has a complete selection, which no     *)
(* longer changes.                                                         *)
Selected(j) == \A p \in Parts : accepted[j][p] # None
SelectionInv ==
  \A j \in Jobs :
    /\ pc[j] \in {"verify", "publish", "reread"} => Selected(j)
    /\ j \in inflight => Selected(j) /\ pc[j] \in {"reread"} \cup Final

(* The marker is the selection of a driver past its publication. *)
MarkerInv ==
  Committed => /\ marker = Manifest(marker.job)
               /\ Selected(marker.job)
               /\ pc[marker.job] \in {"reread"} \cup Final

IInv ==
  /\ TypeOK
  /\ FilesInv
  /\ UnusedInv
  /\ AcceptedInv
  /\ SelectionInv
  /\ MarkerInv
  /\ ReportsTrue
=============================================================================
