-------------------------- MODULE OutputCommitProofs --------------------------
(***************************************************************************)
(* Proofs about the distributed save, for any number of jobs, partitions   *)
(* and attempts, on local directories and on object stores.                *)
(***************************************************************************)
EXTENDS OutputCommit, TLAPS

(* Leaves that name no prover are Zenon's. *)
USE ZenonT(60)

(* A task is an attempt of a partition of a job, and its key names it. *)
LEMMA TaskLemma ==
  ASSUME NEW t \in Tasks
  PROVE  /\ Key(t) = t
         /\ t[1] \in Jobs /\ t[2] \in Parts /\ t[3] \in Numbers
         /\ t = <<t[1], t[2], t[3]>>
  BY SMTT(30) DEF Tasks, Key, AttemptOutputKey

(* No attempt number is None. *)
LEMMA NumberLemma == None \notin Numbers
  BY SMTT(30) DEF None, Numbers

(* The drivers and the empty path satisfy the invariant. *)
THEOREM InitIInv == Init => IInv
  <1> SUFFICES ASSUME Init PROVE IInv
    OBVIOUS
  <1> USE DEF Init
  <1>1. TypeOK
    BY SMTT(30), SizeAssumption DEF TypeOK, NoManifest, Phases, Final, Parts, Numbers, None
  <1>2. FilesInv
    BY DEF FilesInv
  <1>3. UnusedInv /\ AcceptedInv
    BY NumberLemma DEF UnusedInv, AcceptedInv, Tasks
  <1>4. SelectionInv /\ ReportsTrue
    BY DEF SelectionInv, ReportsTrue
  <1>5. MarkerInv
    BY DEF MarkerInv, Committed, NoManifest
  <1> QED BY <1>1, <1>2, <1>3, <1>4, <1>5 DEF IInv

(* A worker touches only its own attempt file, and not once it is reported *)
(* (writeOutputPartition).                                                 *)
LEMMA WorkerStep == ASSUME IInv, NEW t \in Tasks, Worker(t) PROVE IInv'
  <1>1. UNCHANGED <<marker, inflight, pc, attempts, awaited, accepted, verified>>
    BY DEF Worker, CreateFile, CloseFile, FailWrite, CanceledAfterClose,
           ReportAttempt, RemoveAttempt, CrashWorker, drivers, store
  <1>2. /\ writer[t] \notin {"idle", "reported"}
        /\ \E ph \in Phases \ {"idle"} : writer' = [writer EXCEPT ![t] = ph]
    BY DEF Worker, CreateFile, CloseFile, FailWrite, CanceledAfterClose,
           ReportAttempt, RemoveAttempt, CrashWorker, Phases
  <1>3. \E c \in {"absent", "partial", "full"} :
          file' = [file EXCEPT ![t] = c]
    <2>1. file \in [Tasks -> {"absent", "partial", "full"}]
      BY DEF IInv, TypeOK
    <2>2. file = [file EXCEPT ![t] = file[t]]
      BY <2>1
    <2> QED BY <2>1, <2>2, TaskLemma
        DEF Worker, CreateFile, CloseFile, FailWrite, CanceledAfterClose,
            ReportAttempt, RemoveAttempt, CrashWorker, store
  <1>4. TypeOK'
    BY SMTT(30), <1>1, <1>2, <1>3 DEF IInv, TypeOK
  <1>5. FilesInv'
    <2>1. \A s \in Tasks \ {t} : writer'[s] = writer[s] /\ file'[s] = file[s]
      BY <1>2, <1>3 DEF IInv, TypeOK
    <2>2. writer'[t] \in {"closed", "reported"} => file'[t] = "full"
      BY TaskLemma DEF Worker, CreateFile, CloseFile, FailWrite, CanceledAfterClose,
         ReportAttempt, RemoveAttempt, CrashWorker, store, IInv, TypeOK, FilesInv
    <2> QED BY <2>1, <2>2, TaskLemma DEF IInv, FilesInv
  <1>6. UnusedInv' /\ AcceptedInv'
    <2>1. \A s \in Tasks : writer[s] \in {"idle", "reported"} => writer'[s] = writer[s]
      BY <1>2 DEF IInv, TypeOK
    <2>2. \A j \in Jobs, p \in Parts, a \in Numbers : <<j, p, a>> \in Tasks
      BY DEF Tasks
    <2>3. \A j \in Jobs, p \in Parts : accepted[j][p] \in Numbers \cup {None}
      BY SMTT(30) DEF IInv, TypeOK
    <2> QED BY SMTT(30), <1>1, <2>1, <2>2, <2>3 DEF IInv, UnusedInv, AcceptedInv
  <1>7. SelectionInv' /\ MarkerInv' /\ ReportsTrue'
    BY <1>1 DEF IInv, SelectionInv, Selected, MarkerInv, Committed, Manifest, ReportsTrue
  <1> QED BY <1>4, <1>5, <1>6, <1>7 DEF IInv

(* A driver moves on without touching the path or its selection. *)
LEMMA GotoLemma ==
  ASSUME IInv, NEW j \in Jobs, NEW l, Goto(j, l),
         UNCHANGED <<store, writer, attempts, awaited, accepted>>,
         verified' \in [Jobs -> 0..NumPartitions],
         pc[j] \notin Final,
         l \in {"schedule", "verify", "publish", "reread"} \cup Final,
         l = "schedule" => pc[j] = "check",
         pc[j] = "reread" => l \in Final,
         l \in {"verify", "publish", "reread"} => Selected(j),
         l = "success" => marker = Manifest(j),
         l = "already" => Committed
  PROVE  IInv'
  <1>1. /\ pc' \in [Jobs -> {"check", "schedule", "verify", "publish", "reread"} \cup Final]
        /\ pc'[j] = l
        /\ \A i \in Jobs \ {j} : pc'[i] = pc[i]
    BY DEF IInv, TypeOK, Goto
  <1>2. TypeOK'
    BY <1>1 DEF IInv, TypeOK, store
  <1>3. FilesInv' /\ UnusedInv' /\ AcceptedInv'
    BY SMTT(30) DEF IInv, FilesInv, UnusedInv, AcceptedInv, store
  <1>4. SelectionInv'
    <2>1. \A i \in Jobs : Selected(i)' <=> Selected(i)
      BY DEF Selected
    <2>2. j \in inflight => l \in {"reread"} \cup Final
      <3>1. j \in inflight => pc[j] \in {"reread"} \cup Final
        BY DEF IInv, SelectionInv
      <3> QED BY <3>1 DEF Final
    <2> QED BY <1>1, <2>1, <2>2 DEF IInv, SelectionInv, store
  <1>5. MarkerInv'
    <2>1. Committed => marker.job \in Jobs
      BY DEF IInv, TypeOK, Committed
    <2>2. Committed /\ marker.job = j => l \in {"reread"} \cup Final
      BY DEF IInv, MarkerInv, Final
    <2> QED BY <1>1, <2>1, <2>2 DEF IInv, MarkerInv, Committed, Manifest, Selected, store
  <1>6. ReportsTrue'
    BY <1>1 DEF IInv, ReportsTrue, Committed, Manifest, store
  <1> QED BY <1>2, <1>3, <1>4, <1>5, <1>6 DEF IInv

(* A driver still scheduling is not the one of the marker. *)
LEMMA SchedulingLemma ==
  ASSUME IInv, NEW j \in Jobs, pc[j] = "schedule"
  PROVE  j \notin inflight /\ (Committed => marker.job # j)
  BY DEF IInv, SelectionInv, MarkerInv, Final

(* Steps of the lineage scheduler that leave the path alone: the selection *)
(* of one scheduling driver changes.                                       *)
LEMMA ScheduleLemma ==
  ASSUME IInv, NEW j \in Jobs, pc[j] = "schedule",
         UNCHANGED <<store, pc, verified>>,
         \A i \in Jobs \ {j} : accepted'[i] = accepted[i],
         TypeOK', FilesInv', UnusedInv', AcceptedInv'
  PROVE  IInv'
  <1>1. j \notin inflight /\ (Committed => marker.job # j)
    BY SchedulingLemma
  <1>2. Committed => marker.job \in Jobs
    BY DEF IInv, TypeOK, Committed
  <1>3. SelectionInv'
    BY <1>1 DEF IInv, SelectionInv, Selected, store
  <1>4. MarkerInv'
    BY <1>1, <1>2 DEF IInv, MarkerInv, Committed, Manifest, Selected, store
  <1>5. ReportsTrue'
    BY DEF IInv, ReportsTrue, Committed, Manifest, store
  <1> QED BY <1>3, <1>4, <1>5 DEF IInv

(* Dispatching an attempt uses a number no worker has. *)
LEMMA DispatchStep ==
  ASSUME IInv, NEW j \in Jobs, NEW p \in Parts, Dispatch(j, p) PROVE IInv'
  <1> DEFINE t == <<j, p, attempts[j][p]>>
  <1>1. attempts[j][p] \in Numbers
    BY SMTT(30), SizeAssumption DEF IInv, TypeOK, Dispatch, Numbers
  <1>2. t \in Tasks
    BY <1>1 DEF Tasks
  <1>3. writer[t] = "idle"
    <2>1. attempts[j][p] >= attempts[j][p]
      BY SMTT(30), <1>1 DEF Numbers
    <2> QED BY <1>1, <2>1 DEF IInv, UnusedInv, AcceptedInv
  <1>4. TypeOK'
    <2>1. attempts[j][p] + 1 \in 0..AttemptBound
      BY SMTT(30), <1>1, SizeAssumption DEF Numbers
    <2>2. attempts' \in [Jobs -> [Parts -> 0..AttemptBound]]
      BY <2>1 DEF IInv, TypeOK, Dispatch
    <2>3. writer' \in [Tasks -> Phases] /\ awaited' \in [Jobs -> SUBSET Parts]
      BY <1>2 DEF IInv, TypeOK, Dispatch, Phases
    <2> QED BY <2>2, <2>3 DEF IInv, TypeOK, Dispatch, store
  <1>5. FilesInv'
    BY <1>2 DEF IInv, TypeOK, FilesInv, Dispatch, store
  <1>6. UnusedInv' /\ AcceptedInv'
    <2>1. ASSUME NEW i \in Jobs, NEW q \in Parts, NEW a \in Numbers,
                 a >= attempts'[i][q]
          PROVE  writer'[<<i, q, a>>] = "idle"
      <3>1. attempts'[i][q] = IF i = j /\ q = p THEN attempts[j][p] + 1
                              ELSE attempts[i][q]
        BY DEF IInv, TypeOK, Dispatch
      <3>2. a >= attempts[i][q] /\ <<i, q, a>> # t
        BY SMTT(30), <2>1, <3>1, <1>1 DEF Numbers
      <3>3. <<i, q, a>> \in Tasks
        BY DEF Tasks
      <3>4. writer[<<i, q, a>>] = "idle"
        BY <3>2 DEF IInv, UnusedInv
      <3>5. writer \in [Tasks -> Phases] /\ writer' = [writer EXCEPT ![t] = "assigned"]
        BY DEF IInv, TypeOK, Dispatch
      <3> QED BY <3>2, <3>3, <3>4, <3>5
    <2>2. ASSUME NEW i \in Jobs, NEW q \in Parts, accepted[i][q] # None
          PROVE  writer'[<<i, q, accepted[i][q]>>] = "reported"
      <3>1. <<i, q, accepted[i][q]>> \in Tasks
        BY SMTT(30), <2>2 DEF IInv, TypeOK, Tasks
      <3>2. writer[<<i, q, accepted[i][q]>>] = "reported"
        BY <2>2 DEF IInv, UnusedInv, AcceptedInv
      <3> QED BY <3>1, <3>2, <1>3 DEF IInv, TypeOK, Dispatch
    <2> QED BY SMTT(30), <2>1, <2>2 DEF UnusedInv, AcceptedInv, Dispatch
  <1> QED BY <1>4, <1>5, <1>6, ScheduleLemma DEF Dispatch

(* The accepted attempt is the one reported. *)
LEMMA AcceptOutputStep ==
  ASSUME IInv, NEW j \in Jobs, NEW p \in Parts, AcceptOutput(j, p) PROVE IInv'
  <1> DEFINE last == attempts[j][p] - 1
  <1>1. writer[<<j, p, last>>] = "reported" /\ attempts[j][p] \in 0..AttemptBound
    BY DEF AcceptOutput, IInv, TypeOK
  <1>2. last \in Numbers \cup {None}
    BY SMTT(30), <1>1, SizeAssumption DEF Numbers, None
  <1>3. \A i \in Jobs, q \in Parts :
          accepted'[i][q] = IF i = j /\ q = p THEN last ELSE accepted[i][q]
    BY DEF IInv, TypeOK, AcceptOutput
  <1>4. TypeOK'
    <2>1. accepted' \in [Jobs -> [Parts -> Numbers \cup {None}]]
      BY <1>2 DEF IInv, TypeOK, AcceptOutput
    <2>2. awaited' \in [Jobs -> SUBSET Parts]
      BY DEF IInv, TypeOK, AcceptOutput
    <2> QED BY <2>1, <2>2 DEF IInv, TypeOK, AcceptOutput, store
  <1>5. FilesInv'
    BY DEF IInv, FilesInv, AcceptOutput, store
  <1>6. UnusedInv' /\ AcceptedInv'
    <2>1. \A i \in Jobs, q \in Parts : accepted'[i][q] # None =>
            writer[<<i, q, accepted'[i][q]>>] = "reported"
      BY SMTT(30), <1>1, <1>3 DEF IInv, UnusedInv, AcceptedInv
    <2>2. UNCHANGED <<writer, attempts>>
      BY DEF AcceptOutput
    <2> HIDE DEF last
    <2> QED BY SMTT(30), <2>1, <2>2 DEF IInv, UnusedInv, AcceptedInv
  <1>7. \A i \in Jobs \ {j} : accepted'[i] = accepted[i]
    BY DEF IInv, TypeOK, AcceptOutput
  <1> QED BY <1>4, <1>5, <1>6, <1>7, ScheduleLemma DEF AcceptOutput

(* Giving up on a task leaves what is selected as it is. *)
LEMMA GiveUpOnStep ==
  ASSUME IInv, NEW j \in Jobs, NEW p \in Parts, GiveUpOn(j, p) PROVE IInv'
  <1>1. awaited' \in [Jobs -> SUBSET Parts]
    BY DEF IInv, TypeOK, GiveUpOn
  <1>2. TypeOK'
    BY <1>1 DEF IInv, TypeOK, GiveUpOn, store
  <1>3. FilesInv' /\ UnusedInv' /\ AcceptedInv'
    BY SMTT(30) DEF IInv, FilesInv, UnusedInv, AcceptedInv, GiveUpOn, store
  <1> QED BY <1>2, <1>3, ScheduleLemma DEF GiveUpOn

(* A repair of the lineage withdraws a whole selection. *)
LEMMA WithdrawStep == ASSUME IInv, NEW j \in Jobs, Withdraw(j) PROVE IInv'
  <1>1. /\ accepted' \in [Jobs -> [Parts -> Numbers \cup {None}]]
        /\ \A i \in Jobs \ {j} : accepted'[i] = accepted[i]
        /\ \A p \in Parts : accepted'[j][p] = None
    BY DEF IInv, TypeOK, Withdraw
  <1>2. TypeOK'
    BY <1>1 DEF IInv, TypeOK, Withdraw, store
  <1>3. FilesInv' /\ UnusedInv'
    BY DEF IInv, FilesInv, UnusedInv, Withdraw, store
  <1>4. AcceptedInv'
    BY <1>1 DEF IInv, AcceptedInv, Withdraw
  <1> QED BY <1>1, <1>2, <1>3, <1>4, ScheduleLemma DEF Withdraw

(* The steps of a driver that only move it on. *)
LEMMA MoveStep ==
  ASSUME IInv, NEW j \in Jobs,
         \/ CheckCommitted(j) \/ ScheduleFails(j) \/ SelectOutputs(j)
         \/ AllVerified(j) \/ PublishFails(j) \/ Reread(j) \/ CrashDriver(j)
  PROVE  IInv'
  <1>1. verified' \in [Jobs -> 0..NumPartitions]
    BY DEF IInv, TypeOK, CheckCommitted, ScheduleFails, SelectOutputs, AllVerified,
           PublishFails, Reread, CrashDriver
  <1>2. pc[j] \in {"verify", "publish", "reread"} => Selected(j)
    BY DEF IInv, SelectionInv
  <1>3. CASE CheckCommitted(j)
    BY <1>1, <1>3, GotoLemma DEF CheckCommitted, Final
  <1>4. CASE ScheduleFails(j)
    BY <1>1, <1>4, GotoLemma DEF ScheduleFails, Final
  <1>5. CASE SelectOutputs(j)
    BY <1>1, <1>5, GotoLemma DEF SelectOutputs, Selected, Final
  <1>6. CASE AllVerified(j)
    BY <1>1, <1>2, <1>6, GotoLemma DEF AllVerified, Final
  <1>7. CASE PublishFails(j)
    BY <1>1, <1>2, <1>7, GotoLemma DEF PublishFails, Final
  <1>8. CASE Reread(j)
    BY <1>1, <1>8, GotoLemma DEF Reread, Final
  <1>9. CASE CrashDriver(j)
    BY <1>1, <1>9, GotoLemma DEF CrashDriver, Final
  <1> QED BY <1>3, <1>4, <1>5, <1>6, <1>7, <1>8, <1>9

(* Verifying an attempt moves on to the next or ends the commit. *)
LEMMA VerifyAttemptStep == ASSUME IInv, NEW j \in Jobs, VerifyAttempt(j) PROVE IInv'
  <1>1. CASE UNCHANGED verified
    <2>1. verified' \in [Jobs -> 0..NumPartitions]
      BY <1>1 DEF IInv, TypeOK
    <2>2. verified[j] + 1 # verified[j]
      BY SMTT(30), SizeAssumption DEF IInv, TypeOK
    <2>3. CASE Goto(j, "failed")
      BY <2>1, <2>3, GotoLemma DEF VerifyAttempt, Final
    <2>4. CASE ~Goto(j, "failed")
      BY <1>1, <2>2, <2>4 DEF VerifyAttempt, IInv, TypeOK
    <2> QED BY <2>3, <2>4
  <1>2. CASE verified' = [verified EXCEPT ![j] = @ + 1] /\ UNCHANGED pc
    <2>1. verified' \in [Jobs -> 0..NumPartitions]
      BY SMTT(30), <1>2, SizeAssumption DEF IInv, TypeOK, VerifyAttempt
    <2>2. TypeOK'
      BY <1>2, <2>1 DEF IInv, TypeOK, VerifyAttempt, store
    <2> QED BY SMTT(30), <1>2, <2>2
        DEF VerifyAttempt, IInv, FilesInv, UnusedInv, AcceptedInv, SelectionInv,
            Selected, MarkerInv, Committed, Manifest, ReportsTrue, store
  <1> QED BY <1>1, <1>2 DEF VerifyAttempt

(* The marker of job j appears on a path without one. *)
LEMMA PublishLemma ==
  ASSUME IInv, NEW j \in Jobs, ~Committed, Selected(j),
         marker' = Manifest(j), inflight' \subseteq inflight,
         UNCHANGED <<file, writer, attempts, awaited, accepted, verified>>,
         pc' \in {pc, [pc EXCEPT ![j] = "success"]},
         pc'[j] \in {"reread"} \cup Final
  PROVE  IInv'
  <1>1. /\ \A i \in Jobs : pc'[i] # pc[i] => i = j /\ pc'[i] = "success"
        /\ pc' \in [Jobs -> {"check", "schedule", "verify", "publish", "reread"} \cup Final]
    BY DEF IInv, TypeOK, Final
  <1>2. marker' \in [job : Jobs \cup {NoJob}, parts : [Parts -> Numbers \cup {None}]]
    BY DEF IInv, TypeOK, Manifest
  <1>3. TypeOK'
    BY <1>1, <1>2 DEF IInv, TypeOK
  <1>4. FilesInv' /\ UnusedInv' /\ AcceptedInv'
    BY SMTT(30) DEF IInv, FilesInv, UnusedInv, AcceptedInv
  <1>5. SelectionInv'
    BY <1>1 DEF IInv, SelectionInv, Selected, Final
  <1>6. marker'.job = j /\ Committed'
    BY JobsAssumption DEF Manifest, Committed
  <1>7. MarkerInv'
    BY <1>6 DEF MarkerInv, Selected, Manifest
  <1>8. ReportsTrue'
    <2>1. \A i \in Jobs : pc[i] # "success"
      <3>1. ASSUME NEW i \in Jobs, pc[i] = "success" PROVE FALSE
        BY SMTT(30), <3>1, JobsAssumption DEF IInv, ReportsTrue, Manifest, Committed
      <3> QED BY <3>1
    <2>2. \A i \in Jobs : pc'[i] = "success" => i = j
      BY <1>1, <2>1
    <2> QED BY <1>6, <2>2 DEF ReportsTrue, Manifest
  <1> QED BY <1>3, <1>4, <1>5, <1>7, <1>8 DEF IInv

(* The conditional create succeeds. *)
LEMMA PublishStep == ASSUME IInv, NEW j \in Jobs, Publish(j) PROVE IInv'
  <1>1. Selected(j)
    BY DEF IInv, SelectionInv, Publish
  <1>2. pc'[j] = "success"
    BY DEF IInv, TypeOK, Publish, Goto
  <1> QED BY <1>1, <1>2, PublishLemma DEF Publish, Goto, Final

(* The outcome of a put is not known to its caller. *)
LEMMA PublishUnknownStep == ASSUME IInv, NEW j \in Jobs, PublishUnknown(j) PROVE IInv'
  <1>1. Selected(j)
    BY DEF IInv, SelectionInv, PublishUnknown
  <1>2. /\ pc' \in [Jobs -> {"check", "schedule", "verify", "publish", "reread"} \cup Final]
        /\ \A i \in Jobs : pc'[i] = IF i = j THEN "reread" ELSE pc[i]
    BY DEF IInv, TypeOK, PublishUnknown, Goto
  <1>3. TypeOK'
    BY <1>2 DEF IInv, TypeOK, PublishUnknown
  <1>4. FilesInv' /\ UnusedInv' /\ AcceptedInv'
    BY SMTT(30) DEF IInv, FilesInv, UnusedInv, AcceptedInv, PublishUnknown
  <1>5. SelectionInv'
    BY <1>1, <1>2 DEF IInv, SelectionInv, Selected, PublishUnknown
  <1>6. MarkerInv'
    BY <1>2 DEF IInv, TypeOK, MarkerInv, Selected, Committed, Manifest, PublishUnknown
  <1>7. ReportsTrue'
    BY <1>2 DEF IInv, ReportsTrue, Committed, Manifest, PublishUnknown
  <1> QED BY <1>3, <1>4, <1>5, <1>6, <1>7 DEF IInv

(* A put is applied after its caller went on. *)
LEMMA ApplyPutStep == ASSUME IInv, NEW j \in Jobs, ApplyPut(j) PROVE IInv'
  <1>1. Selected(j) /\ pc[j] \in {"reread"} \cup Final
    BY DEF IInv, SelectionInv, ApplyPut
  <1>2. CASE Committed
    BY SMTT(30), <1>2 DEF ApplyPut, IInv, TypeOK, FilesInv, UnusedInv, AcceptedInv, SelectionInv,
       Selected, MarkerInv, Committed, Manifest, ReportsTrue, drivers
  <1>3. CASE ~Committed
    BY <1>1, <1>3, PublishLemma DEF ApplyPut, drivers
  <1> QED BY <1>2, <1>3

(* Every step of a save preserves the invariant. *)
THEOREM NextIInv == IInv /\ [Next]_vars => IInv'
  <1> SUFFICES ASSUME IInv, [Next]_vars PROVE IInv'
    OBVIOUS
  <1>1. CASE UNCHANGED vars
    BY SMTT(30), <1>1 DEF vars, store, drivers, IInv, TypeOK, FilesInv, UnusedInv, AcceptedInv,
       SelectionInv, Selected, MarkerInv, Committed, Manifest, ReportsTrue
  <1>2. CASE \E t \in Tasks : Worker(t)
    BY <1>2, WorkerStep
  <1>3. CASE \E j \in Jobs : Driver(j)
    <2> PICK j \in Jobs : Driver(j)
      BY <1>3
    <2> QED BY DispatchStep, AcceptOutputStep, GiveUpOnStep, WithdrawStep, MoveStep,
               VerifyAttemptStep, PublishStep, PublishUnknownStep, ApplyPutStep DEF Driver
  <1> QED BY <1>1, <1>2, <1>3 DEF Next

(* The invariant holds throughout every execution of any number of saves. *)
THEOREM Invariance == Spec => []IInv
  BY InitIInv, NextIInv, PTL DEF Spec

(* Types: files, reports and the marker are what the code writes, always.  *)
THEOREM TypeCorrect == Spec => []TypeOK
  <1>1. IInv => TypeOK
    BY DEF IInv
  <1> QED BY <1>1, Invariance, PTL

(* The manifest of the invariant names complete files. *)
LEMMA ReadableLemma == IInv => CommittedReadable
  <1> SUFFICES ASSUME IInv, Committed, NEW p \in Parts
               PROVE  /\ marker.parts[p] # None
                      /\ file[AttemptOutputKey(marker.job, p, marker.parts[p])] = "full"
    BY DEF CommittedReadable, Readable
  <1> DEFINE t == <<marker.job, p, marker.parts[p]>>
  <1>1. marker.job \in Jobs
    BY DEF IInv, TypeOK, Committed
  <1>2. marker.parts[p] = accepted[marker.job][p] /\ marker.parts[p] # None
    BY SMTT(30), <1>1 DEF IInv, MarkerInv, Manifest, Selected
  <1>3. t \in Tasks
    BY <1>1, <1>2 DEF IInv, TypeOK, Tasks
  <1>4. writer[t] = "reported"
    BY <1>1, <1>2 DEF IInv, AcceptedInv
  <1> QED BY <1>2, <1>3, <1>4 DEF IInv, FilesInv, Key, AttemptOutputKey

(* A reader that follows _SUCCESS finds complete files, always. *)
THEOREM ReadableCorrect == Spec => []CommittedReadable
  BY Invariance, ReadableLemma, PTL

(* Reports agree with the path, always. *)
THEOREM ReportsCorrect == Spec => []ReportsTrue
  <1>1. IInv => ReportsTrue
    BY DEF IInv
  <1> QED BY <1>1, Invariance, PTL

(* A step never changes a marker that is there. *)
LEMMA StableStep == [Next]_vars => (Committed => marker' = marker)
  <1> SUFFICES ASSUME [Next]_vars, Committed PROVE marker' = marker
    OBVIOUS
  <1>1. CASE UNCHANGED vars
    BY <1>1 DEF vars, store
  <1>2. CASE \E t \in Tasks : Worker(t)
    BY <1>2 DEF Worker, CreateFile, CloseFile, FailWrite, CanceledAfterClose,
       ReportAttempt, RemoveAttempt, CrashWorker, store
  <1>3. CASE \E j \in Jobs : Driver(j)
    BY <1>3 DEF Driver, CheckCommitted, Dispatch, AcceptOutput, GiveUpOn, Withdraw,
       ScheduleFails, SelectOutputs, VerifyAttempt, AllVerified, Publish, PublishFails,
       PublishUnknown, ApplyPut, Reread, CrashDriver, store
  <1> QED BY <1>1, <1>2, <1>3 DEF Next

(* The first commit is final (CommitDistributedOutput). *)
THEOREM StableCorrect == Spec => CommitStable
  <1>1. [Next]_vars => [Committed => marker' = marker]_vars
    BY StableStep
  <1> QED BY <1>1, PTL DEF Spec, CommitStable

-----------------------------------------------------------------------------
(* The refinement of CommitSpec *)

(* Under the invariant readers see the dataset of the job in the marker. *)
LEMMA DatasetLemma == IInv => Dataset = marker.job
  BY ReadableLemma DEF Dataset, CommittedReadable, Committed

(* The same after a step. *)
LEMMA DatasetPrime == IInv' => Dataset' = marker'.job
  <1>1. (IInv => Dataset = marker.job)'
    BY DatasetLemma, PTL
  <1> QED BY <1>1

Reports == [j \in Jobs |-> ReportOf(j)]

(* A driver that moves to l changes its own report and no other. *)
LEMMA ReportLemma ==
  ASSUME IInv, NEW j \in Jobs, NEW l, Goto(j, l)
  PROVE  Reports' = [Reports EXCEPT ![j] =
                       IF l \in {"success", "already"} THEN l
                       ELSE IF l \in Final THEN "failed" ELSE "none"]
  <1>1. \A i \in Jobs : pc'[i] = IF i = j THEN l ELSE pc[i]
    BY DEF IInv, TypeOK, Goto
  <1> QED BY <1>1 DEF Reports, ReportOf

(* A driver that is not done has reported nothing. *)
LEMMA NoReportLemma ==
  ASSUME NEW j \in Jobs, pc[j] \notin Final
  PROVE  Reports[j] = "none" /\ Reports = [Reports EXCEPT ![j] = "none"]
  BY DEF Reports, ReportOf, Final

(* A driver that moves on while the marker stays makes a report or none. *)
LEMMA MoveRefines ==
  ASSUME IInv, IInv', NEW j \in Jobs, NEW l, Goto(j, l), pc[j] \notin Final,
         UNCHANGED marker
  PROVE  [Abstract!CNext]_(Abstract!cvars)
  <1>1. Dataset' = marker'.job
    BY DatasetPrime
  <1>2. Dataset = marker.job /\ Dataset' = Dataset
    BY <1>1, DatasetLemma
  <1>3. /\ l = "success" => marker'.job = j
        /\ l = "already" => marker'.job # NoJob
    <2>1. pc'[j] = l
      BY DEF IInv, TypeOK, Goto
    <2> QED BY SMTT(30), <2>1 DEF IInv, ReportsTrue, Manifest, Committed
  <1>4. CASE l \notin Final
    <2>1. Reports' = Reports
      BY <1>4, ReportLemma, NoReportLemma DEF Final
    <2> QED BY <1>2, <2>1 DEF Abstract!cvars, Reports
  <1>5. CASE l \in Final
    <2> DEFINE r == IF l \in {"success", "already"} THEN l ELSE "failed"
    <2>1. Reports' = [Reports EXCEPT ![j] = r] /\ Reports[j] = "none"
      BY <1>5, ReportLemma, NoReportLemma
    <2>2. /\ r \in {"success", "already", "failed"}
          /\ r = "success" => Dataset = j
          /\ r = "already" => Dataset # NoJob
      BY <1>1, <1>2, <1>3
    <2>3. Abstract!Report(j)
      BY <1>2, <2>1, <2>2 DEF Abstract!Report, Reports
    <2> QED BY <2>3 DEF Abstract!CNext
  <1> QED BY <1>4, <1>5

(* The marker of job j appears. *)
LEMMA PublishRefines ==
  ASSUME IInv, IInv', NEW j \in Jobs, ~Committed, marker' = Manifest(j),
         \/ Reports' = Reports
         \/ Reports' = [Reports EXCEPT ![j] = "success"] /\ Reports[j] = "none"
  PROVE  Abstract!CNext
  <1>1. Dataset = NoJob /\ Dataset' = j
    <2>1. Dataset = marker.job /\ Dataset' = marker'.job
      BY DatasetLemma, DatasetPrime
    <2> QED BY <2>1 DEF Committed, Manifest
  <1>2. Abstract!PublishDataset(j)
    BY <1>1 DEF Abstract!PublishDataset, Reports
  <1> QED BY <1>2 DEF Abstract!CNext

(* Every step of a save is a step of the atomic publication, or none. *)
LEMMA StepRefines ==
  ASSUME IInv, IInv', [Next]_vars
  PROVE  [Abstract!CNext]_(Abstract!cvars)
  <1>1. ASSUME UNCHANGED <<marker, pc>>
        PROVE  [Abstract!CNext]_(Abstract!cvars)
    <2>1. Dataset' = Dataset
      <3>1. Dataset = marker.job /\ Dataset' = marker'.job
        BY DatasetLemma, DatasetPrime
      <3> QED BY <1>1, <3>1
    <2>2. Reports' = Reports
      BY <1>1 DEF Reports, ReportOf
    <2> QED BY <2>1, <2>2 DEF Abstract!cvars, Reports
  <1>2. CASE UNCHANGED vars
    BY <1>1, <1>2 DEF vars, store, drivers
  <1>3. CASE \E t \in Tasks : Worker(t)
    BY <1>1, <1>3 DEF Worker, CreateFile, CloseFile, FailWrite, CanceledAfterClose,
       ReportAttempt, RemoveAttempt, CrashWorker, store, drivers
  <1>4. CASE \E j \in Jobs : Driver(j)
    <2> PICK j \in Jobs : Driver(j)
      BY <1>4
    <2>1. CASE \E p \in Parts : Dispatch(j, p) \/ AcceptOutput(j, p) \/ GiveUpOn(j, p)
      BY <1>1, <2>1 DEF Dispatch, AcceptOutput, GiveUpOn, store
    <2>2. CASE Withdraw(j)
      BY <1>1, <2>2 DEF Withdraw, store
    <2>3. CASE CheckCommitted(j) \/ ScheduleFails(j) \/ SelectOutputs(j)
      BY <2>3, MoveRefines DEF CheckCommitted, ScheduleFails, SelectOutputs, store, Final
    <2>4. CASE AllVerified(j) \/ PublishFails(j) \/ PublishUnknown(j)
      BY <2>4, MoveRefines DEF AllVerified, PublishFails, PublishUnknown, store, Final
    <2>5. CASE Reread(j) \/ CrashDriver(j)
      BY <2>5, MoveRefines DEF Reread, CrashDriver, store, Final
    <2>6. CASE VerifyAttempt(j)
      BY <1>1, <2>6, MoveRefines DEF VerifyAttempt, store, Final
    <2>7. CASE Publish(j)
      <3>1. pc[j] \notin Final
        BY <2>7 DEF Publish, Final
      <3>2. Reports' = [Reports EXCEPT ![j] = "success"] /\ Reports[j] = "none"
        BY <2>7, <3>1, ReportLemma, NoReportLemma DEF Publish
      <3> QED BY <2>7, <3>2, PublishRefines DEF Publish
    <2>8. CASE ApplyPut(j)
      <3>1. CASE Committed
        BY <1>1, <2>8, <3>1 DEF ApplyPut, drivers
      <3>2. CASE ~Committed
        <4>1. Reports' = Reports
          BY <2>8 DEF ApplyPut, drivers, Reports, ReportOf
        <4> QED BY <2>8, <3>2, <4>1, PublishRefines DEF ApplyPut
      <3> QED BY <3>1, <3>2
    <2> QED BY <2>1, <2>2, <2>3, <2>4, <2>5, <2>6, <2>7, <2>8 DEF Driver
  <1> QED BY <1>2, <1>3, <1>4 DEF Next

(* The distributed save is an atomic publication: readers see nothing and  *)
(* then, for good, the complete dataset of one job, whatever crashes,      *)
(* whatever arrives late and however many jobs compete.                    *)
THEOREM CommitRefinement == Spec => ImplementsCommit
  <1>1. Init => Abstract!CInit
    <2> SUFFICES ASSUME Init PROVE Abstract!CInit
      OBVIOUS
    <2>1. Dataset = NoJob
      BY DEF Init, Dataset, Committed, NoManifest
    <2>2. \A j \in Jobs : ReportOf(j) = "none"
      BY DEF Init, ReportOf, Final
    <2> QED BY <2>1, <2>2 DEF Abstract!CInit
  <1>2. IInv /\ IInv' /\ [Next]_vars => [Abstract!CNext]_(Abstract!cvars)
    BY StepRefines
  <1> QED BY <1>1, <1>2, Invariance, PTL DEF Spec, ImplementsCommit, Abstract!CSpec
=============================================================================
