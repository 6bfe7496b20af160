-------------------------- MODULE LocalStoreProofs ---------------------------
(* The stores of a local context, for any number of partitions, checkpoints, *)
(* disk errors and crashes. A checkpoint directory that ReadCheckpoint       *)
(* accepts is complete: the manifest appears after the last part file is     *)
(* whole, and a removal makes files absent, never torn. And Persist,         *)
(* Unpersist, Checkpoint and Stop never change what an RDD is: a partition   *)
(* is kept only while what it was computed from is there.                    *)
EXTENDS LocalStore, DataTheorems

(* Leaves that name no prover are Zenon's.                                   *)
USE ZenonT(60)

Files == {"absent", "torn", "whole"}
Dirs == [rdd : RDDs, parts : [Partitions -> Files], manifest : Files, removed : BOOLEAN]

(* Every part file is there; with its manifest; no part is cut short.        *)
Whole(x) == \A p \in Partitions : x.parts[p] = "whole"
Complete(x) == x.manifest = "whole" /\ Whole(x)
Sound(x) == x.manifest # "absent" => \A p \in Partitions : x.parts[p] # "torn"

(* A Checkpoint call past its beginning.                                     *)
Call == [rdd : RDDs, step : {"parts", "manifest"}]

(* The directory being written is the last one, and no RDD reads from it.    *)
Written ==
    \/ writing = Idle
    \/ /\ writing \in Call
       /\ Len(dirs) \in DOMAIN dirs
       /\ writing.step = "parts" => dirs[Len(dirs)].manifest = "absent"
       /\ writing.step = "manifest" => Whole(dirs[Len(dirs)])
       /\ \A r \in RDDs : saved[r] # Len(dirs)

(* A directory an RDD reads from is complete, or is being removed.           *)
Saved == \A r \in RDDs : saved[r] # 0 =>
    saved[r] \in DOMAIN dirs /\ (Complete(dirs[saved[r]]) \/ dirs[saved[r]].removed)

CInv ==
    /\ dirs \in Seq(Dirs)
    /\ DOMAIN saved = RDDs
    /\ \A d \in DOMAIN dirs : Sound(dirs[d])
    /\ Written
    /\ Saved

(* The invariant is what the property needs.                                 *)
LEMMA CompleteFromInv == CInv => CheckpointsComplete
<1> SUFFICES ASSUME CInv PROVE CheckpointsComplete OBVIOUS
<1>1. ASSUME NEW d \in DOMAIN dirs, ReadCheckpoint(d), NEW p \in Partitions
      PROVE dirs[d].parts[p] = "whole"
  <2>1. dirs[d] \in Dirs BY SMTT(30) DEF CInv
  <2>2. dirs[d].parts[p] \in Files BY <2>1 DEF Dirs
  <2>3. dirs[d].parts[p] # "absent" BY <1>1 DEF ReadCheckpoint
  <2>4. dirs[d].manifest # "absent" BY <1>1 DEF ReadCheckpoint
  <2>5. dirs[d].parts[p] # "torn" BY <2>4 DEF CInv, Sound
  <2> QED BY <2>2, <2>3, <2>5 DEF Files
<1>2. ASSUME NEW r \in RDDs, saved[r] # 0 PROVE ReadCheckpoint(saved[r]) \/ dirs[saved[r]].removed
  BY <1>2 DEF CInv, Saved, Complete, Whole, ReadCheckpoint
<1> QED BY <1>1, <1>2 DEF CheckpointsComplete

(* There are no directories at first.                                      *)
LEMMA InitCheckpoints == Init => CInv
<1> SUFFICES ASSUME Init PROVE CInv OBVIOUS
<1>1. dirs \in Seq(Dirs) /\ DOMAIN dirs = {} BY SMTT(30) DEF Init
<1>2. writing = Idle /\ DOMAIN saved = RDDs /\ \A r \in RDDs : saved[r] = 0 BY DEF Init
<1> QED BY <1>1, <1>2 DEF CInv, Written, Saved

(* A step that leaves directories, the Checkpoint call and the RDDs' paths.  *)
LEMMA Aside ==
    ASSUME CInv, UNCHANGED <<dirs, writing, saved>>
    PROVE CInv'
BY DEF CInv, Written, Saved

(* One directory of the sequence changes.                                    *)
LEMMA OneDir ==
    ASSUME dirs \in Seq(Dirs), NEW d \in DOMAIN dirs, NEW x \in Dirs, dirs' = [dirs EXCEPT ![d] = x]
    PROVE  /\ dirs' \in Seq(Dirs) /\ DOMAIN dirs' = DOMAIN dirs /\ Len(dirs') = Len(dirs)
           /\ dirs'[d] = x /\ \A e \in DOMAIN dirs : e # d => dirs'[e] = dirs[e]
<1>1. dirs' \in Seq(Dirs) /\ Len(dirs') = Len(dirs) BY SMTT(30)
<1>2. DOMAIN dirs' = DOMAIN dirs BY SMTT(30)
<1>3. dirs'[d] = x BY SMTT(30)
<1>4. \A e \in DOMAIN dirs : e # d => dirs'[e] = dirs[e] BY SMTT(30)
<1> QED BY <1>1, <1>2, <1>3, <1>4

(* A step of Checkpoint on the directory it writes.                          *)
LEMMA WriteDir ==
    ASSUME CInv, writing # Idle, NEW x \in Dirs, Sound(x),
           dirs' = [dirs EXCEPT ![Len(dirs)] = x], saved' = saved,
           \/ writing' = Idle
           \/ writing' \in Call /\ writing'.step = "parts" /\ x.manifest = "absent"
           \/ writing' \in Call /\ writing'.step = "manifest" /\ Whole(x)
    PROVE CInv'
<1> DEFINE n == Len(dirs)
<1>1. dirs \in Seq(Dirs) /\ n \in DOMAIN dirs /\ \A r \in RDDs : saved[r] # n BY DEF CInv, Written
<1>2. /\ dirs' \in Seq(Dirs) /\ DOMAIN dirs' = DOMAIN dirs /\ Len(dirs') = n
      /\ dirs'[n] = x /\ \A e \in DOMAIN dirs : e # n => dirs'[e] = dirs[e]
  <2> HIDE DEF n
  <2>1. dirs' = [dirs EXCEPT ![n] = x] BY DEF n
  <2>2. Len(dirs') = Len(dirs) BY <1>1, <2>1, OneDir
  <2> QED BY <1>1, <2>1, <2>2, OneDir DEF n
<1>3. \A d \in DOMAIN dirs' : Sound(dirs'[d]) BY <1>2 DEF CInv
<1>4. Saved' BY <1>1, <1>2 DEF CInv, Saved
<1>5. Written'
  <2>1. CASE writing' = Idle BY <2>1 DEF Written
  <2>2. CASE writing' \in Call /\ writing'.step = "parts" /\ x.manifest = "absent" 
    BY <1>1, <1>2, <2>2 DEF Written
  <2>3. CASE writing' \in Call /\ writing'.step = "manifest" /\ Whole(x) 
    BY <1>1, <1>2, <2>3 DEF Written
  <2> QED BY <2>1, <2>2, <2>3
<1> QED BY <1>2, <1>3, <1>4, <1>5 DEF CInv

(* A directory with some of its files replaced is a directory.             *)
LEMMA DirType ==
    ASSUME NEW r \in RDDs, NEW f \in [Partitions -> Files], NEW m \in Files, NEW b \in BOOLEAN
    PROVE [rdd |-> r, parts |-> f, manifest |-> m, removed |-> b] \in Dirs
BY DEF Dirs

(* What RemoveAll leaves of a directory.                                     *)
LEMMA RestSound ==
    ASSUME NEW x \in Dirs, NEW kept, NEW manifest \in BOOLEAN
    PROVE  /\ Rest(x, kept, manifest) \in Dirs
           /\ Rest(x, kept, manifest).removed
           /\ Sound(x) => Sound(Rest(x, kept, manifest))
<1> DEFINE y == Rest(x, kept, manifest)
<1>1. y.parts = [p \in Partitions |-> IF p \in kept THEN x.parts[p] ELSE "absent"]
  BY DEF Rest
<1>2. y.manifest = IF manifest THEN x.manifest ELSE "absent" BY DEF Rest
<1>3. "absent" \in Files /\ x.manifest \in Files /\ x.rdd \in RDDs BY DEF Files, Dirs
<1>4. \A p \in Partitions : x.parts[p] \in Files BY DEF Dirs
<1>5. y.parts \in [Partitions -> Files] BY <1>1, <1>3, <1>4
<1>6. y.manifest \in Files BY <1>2, <1>3
<1>7. y = [rdd |-> x.rdd, parts |-> y.parts, manifest |-> y.manifest, removed |-> TRUE]
  BY DEF Rest
<1>8. y \in Dirs
  <2> HIDE DEF y
  <2> QED BY <1>3, <1>5, <1>6, <1>7, DirType
<1>9. y.removed BY DEF Rest
<1>10. ASSUME Sound(x), y.manifest # "absent", NEW p \in Partitions PROVE y.parts[p] # "torn"
  <2>1. x.manifest # "absent" BY <1>2, <1>10
  <2>2. x.parts[p] # "torn" BY <1>10, <2>1 DEF Sound
  <2>3. y.parts[p] = IF p \in kept THEN x.parts[p] ELSE "absent" BY <1>1
  <2> QED BY <2>2, <2>3
<1> QED BY <1>8, <1>9, <1>10 DEF Sound

(* The directory that is written, and its type.                              *)
LEMMA LastDir ==
    ASSUME CInv, writing # Idle
    PROVE Len(dirs) \in DOMAIN dirs /\ dirs[Len(dirs)] \in Dirs /\ Sound(dirs[Len(dirs)])
<1>1. Len(dirs) \in DOMAIN dirs BY DEF CInv, Written
<1>2. dirs \in Seq(Dirs) BY DEF CInv
<1>3. \A d \in DOMAIN dirs : dirs[d] \in Dirs BY SMTT(30), <1>2
<1> QED BY <1>1, <1>3 DEF CInv

(* A step named after a phase of Checkpoint is one of a Checkpoint call.     *)
LEMMA InCall ==
    ASSUME writing.step # "idle"
    PROVE writing # Idle
<1>1. Idle.step = "idle" BY DEF Idle
<1> QED BY <1>1

(* A new directory is empty.                                               *)
LEMMA BeginCheckpointInv ==
    ASSUME CInv, NEW r \in RDDs, NEW room, BeginCheckpoint(r, room)
    PROVE CInv'
<1>1. saved' = saved /\ writing = Idle BY DEF BeginCheckpoint
<1>2. \/ dirs' = Append(dirs, NewDir(r)) /\ writing' = [rdd |-> r, step |-> "parts"]
      \/ UNCHANGED <<dirs, writing>>
  BY DEF BeginCheckpoint
<1>3. CASE UNCHANGED <<dirs, writing>> BY <1>1, <1>3, Aside
<1>4. CASE dirs' = Append(dirs, NewDir(r)) /\ writing' = [rdd |-> r, step |-> "parts"]
  <2> DEFINE n == Len(dirs)
  <2>1. dirs \in Seq(Dirs) BY DEF CInv
  <2>2. NewDir(r) \in Dirs
    <3>1. [p \in Partitions |-> "absent"] \in [Partitions -> Files] BY DEF Files
    <3>2. "absent" \in Files BY DEF Files
    <3> QED BY <3>1, <3>2, DirType DEF NewDir
  <2>3. NewDir(r).manifest = "absent" BY DEF NewDir
  <2>4. /\ dirs' \in Seq(Dirs) /\ Len(dirs') = n + 1 /\ n \in Nat
        /\ dirs'[n + 1] = NewDir(r) /\ DOMAIN dirs' = DOMAIN dirs \cup {n + 1}
        /\ n + 1 \notin DOMAIN dirs /\ n + 1 # 0
    <3> HIDE DEF NewDir
    <3> QED BY SMTT(30), <1>4, <2>1, <2>2
  <2>5. \A d \in DOMAIN dirs : dirs'[d] = dirs[d]
    <3> HIDE DEF NewDir
    <3> QED BY SMTT(30), <1>4, <2>1, <2>2
  <2>6. \A d \in DOMAIN dirs' : Sound(dirs'[d]) BY <2>3, <2>4, <2>5 DEF CInv, Sound
  <2>7. Saved' BY <1>1, <2>4, <2>5 DEF CInv, Saved
  <2>8. \A q \in RDDs : saved'[q] # n + 1 BY <1>1, <2>4 DEF CInv, Saved
  <2>9. writing'.step = "parts" /\ writing' \in Call BY <1>4 DEF Call
  <2>10. Written' BY <2>3, <2>4, <2>8, <2>9 DEF Written
  <2> QED BY <1>1, <2>4, <2>6, <2>7, <2>10 DEF CInv
<1> QED BY <1>2, <1>3, <1>4

(* A part file is opened: the manifest is not there yet.                   *)
LEMMA OpenPartInv == CInv /\ OpenPart => CInv'
<1> SUFFICES ASSUME CInv, OpenPart PROVE CInv' OBVIOUS
<1> DEFINE x == dirs[Len(dirs)]
           y == [x EXCEPT !.parts = [x.parts EXCEPT ![NextPart] = "torn"]]
<1>1. writing.step = "parts" /\ writing' = writing /\ saved' = saved BY DEF OpenPart
<1>2. writing # Idle BY <1>1, InCall
<1>3. x \in Dirs BY <1>2, LastDir
<1>4. writing \in Call /\ x.manifest = "absent" BY <1>1, <1>2 DEF CInv, Written
<1>5. dirs' = [dirs EXCEPT ![Len(dirs)] = y] BY DEF OpenPart, Dir
<1>6. y \in Dirs BY <1>3 DEF Dirs, Files
<1>7. y.manifest = "absent" BY <1>3, <1>4 DEF Dirs
<1>8. Sound(y) BY <1>7 DEF Sound
<1> HIDE DEF y
<1> QED BY <1>1, <1>2, <1>4, <1>5, <1>6, <1>7, <1>8, WriteDir

(* A part file is whole.                                                   *)
LEMMA FinishPartInv ==
    ASSUME CInv, NEW put, FinishPart(put)
    PROVE CInv'
<1> DEFINE x == dirs[Len(dirs)]
           y == [x EXCEPT !.parts = [x.parts EXCEPT ![NextPart] = "whole"]]
<1>1. writing.step = "parts" /\ writing' = writing /\ saved' = saved BY DEF FinishPart
<1>2. writing # Idle BY <1>1, InCall
<1>3. x \in Dirs BY <1>2, LastDir
<1>4. writing \in Call /\ x.manifest = "absent" BY <1>1, <1>2 DEF CInv, Written
<1>5. dirs' = [dirs EXCEPT ![Len(dirs)] = y] BY DEF FinishPart, Dir
<1>6. y \in Dirs BY <1>3 DEF Dirs, Files
<1>7. y.manifest = "absent" BY <1>3, <1>4 DEF Dirs
<1>8. Sound(y) BY <1>7 DEF Sound
<1> HIDE DEF y
<1> QED BY <1>1, <1>2, <1>4, <1>5, <1>6, <1>7, <1>8, WriteDir

(* The manifest is begun only when no part is missing.                       *)
LEMMA BeginManifestInv == CInv /\ BeginManifest => CInv'
<1> SUFFICES ASSUME CInv, BeginManifest PROVE CInv' OBVIOUS
<1> DEFINE x == dirs[Len(dirs)]
           y == [x EXCEPT !.manifest = "torn"]
<1>1. writing.step = "parts" /\ writing' = [writing EXCEPT !.step = "manifest"] /\ saved' = saved
  BY DEF BeginManifest
<1>2. writing # Idle BY <1>1, InCall
<1>3. x \in Dirs BY <1>2, LastDir
<1>4. writing \in Call BY <1>2 DEF CInv, Written
<1>5. writing' \in Call /\ writing'.step = "manifest" BY <1>1, <1>4 DEF Call
<1>6. dirs' = [dirs EXCEPT ![Len(dirs)] = y] BY DEF BeginManifest, Dir
<1>7. Whole(x) BY DEF BeginManifest, Unwritten, Dir, Whole
<1>8. y \in Dirs /\ y.parts = x.parts BY <1>3 DEF Dirs, Files
<1>9. Whole(y) BY <1>7, <1>8 DEF Whole
<1>10. Sound(y) BY <1>9 DEF Whole, Sound
<1> HIDE DEF y
<1> QED BY <1>1, <1>2, <1>5, <1>6, <1>8, <1>9, <1>10, WriteDir

(* The manifest appears when every part file is whole.                     *)
LEMMA PublishInv == CInv /\ Publish => CInv'
<1> SUFFICES ASSUME CInv, Publish PROVE CInv' OBVIOUS
<1> DEFINE n == Len(dirs)
           x == dirs[n]
           y == [x EXCEPT !.manifest = "whole"]
<1>1. writing.step = "manifest" /\ writing' = Idle /\ saved' = [saved EXCEPT ![writing.rdd] = n]
  BY DEF Publish, Dir
<1>2. writing # Idle BY <1>1, InCall
<1>3. n \in DOMAIN dirs /\ x \in Dirs BY <1>2, LastDir
<1>4. dirs' = [dirs EXCEPT ![n] = y] BY DEF Publish, Dir
<1>5. Whole(x) BY <1>1, <1>2 DEF CInv, Written
<1>6. y \in Dirs /\ y.parts = x.parts /\ y.manifest = "whole" BY <1>3 DEF Dirs, Files
<1>7. Complete(y) BY <1>5, <1>6 DEF Complete, Whole
<1>8. Sound(y) BY <1>7 DEF Complete, Whole, Sound
<1> HIDE DEF y
<1>9. dirs \in Seq(Dirs) /\ DOMAIN saved = RDDs /\ Saved /\ \A r \in RDDs : saved[r] # n
  BY <1>2 DEF CInv, Written
<1>10. /\ dirs' \in Seq(Dirs) /\ DOMAIN dirs' = DOMAIN dirs
       /\ dirs'[n] = y /\ \A e \in DOMAIN dirs : e # n => dirs'[e] = dirs[e]
  <2> HIDE DEF n
  <2> QED BY <1>3, <1>4, <1>6, <1>9, OneDir
<1>11. \A d \in DOMAIN dirs' : Sound(dirs'[d]) BY <1>8, <1>10 DEF CInv
<1>12. DOMAIN saved' = RDDs BY <1>1, <1>9
<1>13. ASSUME NEW r \in RDDs, saved'[r] # 0
       PROVE saved'[r] \in DOMAIN dirs' /\ (Complete(dirs'[saved'[r]]) \/ dirs'[saved'[r]].removed)
  <2>1. CASE saved'[r] = n BY <1>3, <1>7, <1>10, <2>1
  <2>2. CASE saved'[r] # n
    <3>1. saved'[r] = saved[r] BY <1>1, <1>9, <2>2
    <3> QED BY <1>9, <1>10, <1>13, <3>1 DEF Saved
  <2> QED BY <2>1, <2>2
<1>14. Saved' BY <1>13 DEF Saved
<1> QED BY <1>1, <1>10, <1>11, <1>12, <1>14 DEF CInv, Written

(* A checkpoint that fails removes what it can of what it wrote.           *)
LEMMA FailCheckpointInv ==
    ASSUME CInv, NEW kept, NEW manifest \in BOOLEAN, FailCheckpoint(kept, manifest)
    PROVE CInv'
<1> DEFINE y == Rest(dirs[Len(dirs)], kept, manifest)
<1>1. writing # Idle /\ writing' = Idle /\ saved' = saved BY DEF FailCheckpoint
<1>2. dirs' = [dirs EXCEPT ![Len(dirs)] = y] BY DEF FailCheckpoint, Remove, Dir
<1>3. y \in Dirs /\ Sound(y) BY <1>1, LastDir, RestSound
<1> HIDE DEF y
<1> QED BY <1>1, <1>2, <1>3, WriteDir

(* The application removes a directory an RDD may read from.                 *)
LEMMA RemoveCheckpointInv ==
    ASSUME CInv, NEW d \in DOMAIN dirs, NEW kept, NEW manifest \in BOOLEAN,
           RemoveCheckpoint(d, kept, manifest)
    PROVE CInv'
<1> DEFINE y == Rest(dirs[d], kept, manifest)
<1>1. (d = Len(dirs) => writing = Idle) /\ writing' = writing /\ saved' = saved
  BY DEF RemoveCheckpoint, Dir
<1>2. dirs' = [dirs EXCEPT ![d] = y] BY DEF RemoveCheckpoint, Remove
<1>3. dirs \in Seq(Dirs) BY DEF CInv
<1>4. dirs[d] \in Dirs BY SMTT(30), <1>3
<1>5. y \in Dirs /\ y.removed /\ Sound(y) BY <1>4, RestSound DEF CInv
<1> HIDE DEF y
<1>6. /\ dirs' \in Seq(Dirs) /\ DOMAIN dirs' = DOMAIN dirs /\ Len(dirs') = Len(dirs)
      /\ dirs'[d] = y /\ \A e \in DOMAIN dirs : e # d => dirs'[e] = dirs[e]
  BY <1>2, <1>3, <1>5, OneDir
<1>7. \A e \in DOMAIN dirs' : Sound(dirs'[e]) BY <1>5, <1>6 DEF CInv
<1>8. Saved' BY <1>1, <1>5, <1>6 DEF CInv, Saved
<1>9. Written' BY <1>1, <1>6 DEF CInv, Written
<1> QED BY <1>1, <1>6, <1>7, <1>8, <1>9 DEF CInv

(* A worker that crashes holds nothing.                                    *)
LEMMA CrashInv == CInv /\ Crash => CInv'
<1> SUFFICES ASSUME CInv, Crash PROVE CInv' OBVIOUS
<1>1. dirs' = dirs /\ writing' = Idle /\ saved' = [r \in RDDs |-> 0] BY DEF Crash
<1>2. DOMAIN saved' = RDDs /\ \A r \in RDDs : saved'[r] = 0 BY <1>1
<1> QED BY <1>1, <1>2 DEF CInv, Written, Saved

(* Every step keeps the directories in order.                              *)
LEMMA StepCheckpoints == CInv /\ [Next]_vars => CInv'
<1> SUFFICES ASSUME CInv, [Next]_vars PROVE CInv' OBVIOUS
<1>1. ASSUME NEW r, NEW n, NEW room, NEW put, Action(r, n, room, put) PROVE CInv'
  BY <1>1, Aside DEF Action
<1>2. ASSUME NEW r, NEW l, Persist(r, l) PROVE CInv' BY <1>2, Aside DEF Persist
<1>3. ASSUME NEW r, Unpersist(r) PROVE CInv' BY <1>3, Aside DEF Unpersist
<1>4. ASSUME NEW r \in RDDs, NEW room, BeginCheckpoint(r, room) PROVE CInv'
  BY <1>4, BeginCheckpointInv
<1>5. CASE Stop BY <1>5, Aside DEF Stop
<1>6. ASSUME NEW put, FinishPart(put) PROVE CInv' BY <1>6, FinishPartInv
<1>7. ASSUME NEW kept, NEW manifest \in BOOLEAN, FailCheckpoint(kept, manifest) PROVE CInv'
  BY <1>7, FailCheckpointInv
<1>8. ASSUME NEW kept, NEW manifest \in BOOLEAN, NEW d \in DOMAIN dirs,
             RemoveCheckpoint(d, kept, manifest)
      PROVE CInv'
  BY <1>8, RemoveCheckpointInv
<1>9. CASE UNCHANGED vars BY <1>9, Aside DEF vars
<1> QED
  BY <1>1, <1>2, <1>3, <1>4, <1>5, <1>6, <1>7, <1>8, <1>9,
     OpenPartInv, BeginManifestInv, PublishInv, CrashInv DEF Next

(* Wherever Checkpoint fails, the process dies or a removal stops, every     *)
(* directory ReadCheckpoint accepts is complete, and the one an RDD reads    *)
(* from is accepted as long as the application leaves it alone.              *)
THEOREM CheckpointsCorrect == Spec => []CheckpointsComplete
<1>1. Init => CInv BY InitCheckpoints
<1>2. CInv /\ [Next]_vars => CInv' BY StepCheckpoints
<1>3. CInv => CheckpointsComplete BY CompleteFromInv
<1> QED BY <1>1, <1>2, <1>3, PTL DEF Spec

-----------------------------------------------------------------------------
(* The stores. A partition is kept only while what it was computed from is   *)
(* still there: the shuffle's map outputs, or a checkpoint of RDD 1.         *)
AllStores == [cache : SUBSET Keys, disk : [Keys -> Files], maps : BOOLEAN, ok : BOOLEAN]

(* The stores are empty; what they hold can be computed again.               *)
Nothing(at) == at.cache = {} /\ \A k \in Keys : at.disk[k] = "absent"
Backed(at) == at.maps \/ saved[1] # 0 \/ Nothing(at)

(* No store holds a partition of an unpersisted RDD.                         *)
Gone(at) == \A k \in Keys : k[1] \in dropped => k \notin at.cache /\ at.disk[k] = "absent"

(* What every call leaves the stores in.                                     *)
Good(at) == at \in AllStores /\ Backed(at) /\ Gone(at)

(* What a task on RDD r needs besides the stores; why it may fail late.      *)
Ready(r, at) == at.maps \/ saved[1] # 0 \/ (r = 2 /\ saved[2] # 0)
Removed(r) == \E q \in 1..r : saved[q] # 0 /\ dirs[saved[q]].removed

(* Storage levels are levels, and an unpersisted RDD has none.               *)
LevelInv ==
    /\ level \in [RDDs -> Levels]
    /\ \A r \in RDDs : r \in dropped => level[r] = "none"

(* The inductive invariant of the stores.                                    *)
KInv ==
    /\ LevelInv
    /\ Good(Stores)
    /\ writing # Idle => Partitions = {} \/ maps \/ saved[1] # 0
    /\ outcome # "failed"

(* There are two RDDs.                                                     *)
LEMMA RDDLemma == RDDs = {1, 2} /\ 1..1 = {1} /\ 1..2 = {1, 2}
<1>1. 1..1 = {1} /\ 1..2 = {1, 2} BY SMTT(30)
<1> QED BY <1>1 DEF RDDs

(* A store record with some fields replaced.                                 *)
LEMMA StoresType ==
    ASSUME NEW at \in AllStores, NEW c \in SUBSET Keys, NEW d \in [Keys -> Files]
    PROVE  [at EXCEPT !.cache = c, !.disk = d] \in AllStores
BY DEF AllStores

(* A partition is stored: at the levels of its RDD, whose data is there.     *)
LEMMA PutGood ==
    ASSUME LevelInv, NEW r \in RDDs, NEW p \in Partitions, NEW at, Good(at), NEW put \in Files,
           at.ok => at.maps \/ saved[1] # 0
    PROVE  /\ Good(PutPartition(r, p, at, put))
           /\ (PutPartition(r, p, at, put).ok <=> at.ok)
           /\ (PutPartition(r, p, at, put).maps <=> at.maps)
<1> DEFINE key == <<r, p>>
           written == IF life = "stopped" THEN "absent" ELSE put
           c == IF InMemory(r) THEN at.cache \cup {key} ELSE at.cache
           d == [at.disk EXCEPT ![key] = IF OnDisk(r) /\ written # "absent" THEN written ELSE @]
           b == [at EXCEPT !.cache = c, !.disk = d]
<1>1. CASE ~at.ok
  <2>1. PutPartition(r, p, at, put) = at BY <1>1 DEF PutPartition
  <2> QED BY <2>1
<1>2. CASE at.ok
  <2>1. PutPartition(r, p, at, put) = b BY <1>2 DEF PutPartition
  <2>2. at \in AllStores BY DEF Good
  <2>3. at.cache \in SUBSET Keys /\ at.disk \in [Keys -> Files] BY <2>2 DEF AllStores
  <2>4. key \in Keys BY DEF Keys
  <2>5. c \in SUBSET Keys BY <2>3, <2>4
  <2>6. d \in [Keys -> Files] BY <2>3, <2>4 DEF Files
  <2>7. b \in AllStores BY <2>2, <2>5, <2>6, StoresType
  <2>8. b.cache = c /\ b.disk = d /\ (b.maps <=> at.maps) /\ (b.ok <=> at.ok) BY <2>2 DEF AllStores
  <2>9. ASSUME NEW k \in Keys, k[1] \in dropped PROVE k \notin c /\ d[k] = "absent"
    <3>1. k \notin at.cache /\ at.disk[k] = "absent" BY <2>9 DEF Good, Gone
    <3>2. CASE k # key BY <2>3, <2>4, <3>1, <3>2
    <3>3. CASE k = key
      <4>1. level[r] = "none" BY <2>9, <3>3 DEF LevelInv
      <4>2. ~InMemory(r) /\ ~OnDisk(r) BY <4>1 DEF InMemory, OnDisk
      <4> QED BY <2>3, <2>4, <3>1, <3>3, <4>2
    <3> QED BY <3>2, <3>3
  <2> HIDE DEF b, c, d
  <2> QED BY <1>2, <2>1, <2>7, <2>8, <2>9 DEF Good, Backed, Gone
<1> QED BY <1>1, <1>2

(* Something is stored wherever computePartition hits.                       *)
LEMMA HitStored ==
    ASSUME NEW r \in RDDs, NEW p \in Partitions, NEW at, Good(at), Hit(r, p, at)
    PROVE  at.maps \/ saved[1] # 0
<1>1. <<r, p>> \in Keys BY DEF Keys
<1>2. ~Nothing(at) BY <1>1 DEF Hit, Nothing
<1> QED BY <1>2 DEF Good, Backed

(* A partition found on disk may be kept in memory too.                    *)
LEMMA FoundGood ==
    ASSUME LevelInv, NEW r \in RDDs, NEW p \in Partitions, NEW at, Good(at), Hit(r, p, at)
    PROVE  /\ Good(Found(r, p, at))
           /\ (Found(r, p, at).ok <=> at.ok)
           /\ (Found(r, p, at).maps <=> at.maps)
<1> DEFINE c == at.cache \cup {<<r, p>>}
           b == [at EXCEPT !.cache = c]
<1>1. CASE level[r] # "both"
  <2>1. Found(r, p, at) = at BY <1>1 DEF Found
  <2> QED BY <2>1
<1>2. CASE level[r] = "both"
  <2>1. Found(r, p, at) = b BY <1>2 DEF Found
  <2>2. at \in AllStores BY DEF Good
  <2>3. <<r, p>> \in Keys BY DEF Keys
  <2>4. c \in SUBSET Keys BY <2>2, <2>3 DEF AllStores
  <2>5. b \in AllStores
    <3> HIDE DEF c
    <3> QED BY <2>2, <2>4 DEF AllStores
  <2>6. b.cache = c /\ b.disk = at.disk /\ (b.maps <=> at.maps) /\ (b.ok <=> at.ok) BY <2>2 DEF AllStores
  <2>7. r \notin dropped BY <1>2 DEF LevelInv
  <2>8. ASSUME NEW k \in Keys, k[1] \in dropped PROVE k \notin c
    <3>1. k # <<r, p>> BY SMTT(30), <2>7, <2>8
    <3> QED BY <2>8, <3>1 DEF Good, Gone
  <2>9. at.maps \/ saved[1] # 0 BY HitStored
  <2> HIDE DEF b, c
  <2> QED BY <2>1, <2>5, <2>6, <2>8, <2>9 DEF Good, Backed, Gone
<1> QED BY <1>1, <1>2

(* An action that reports a failure changed nothing else.                    *)
LEMMA FailGood ==
    ASSUME NEW at, Good(at), NEW b \in BOOLEAN
    PROVE  /\ Good([at EXCEPT !.ok = b])
           /\ ([at EXCEPT !.ok = b].ok <=> b)
           /\ ([at EXCEPT !.ok = b].maps <=> at.maps)
<1> DEFINE x == [at EXCEPT !.ok = b]
<1>1. at \in AllStores BY DEF Good
<1>2. x \in AllStores /\ (x.ok <=> b) /\ (x.maps <=> at.maps) /\ x.cache = at.cache /\ x.disk = at.disk
  BY <1>1 DEF AllStores
<1> HIDE DEF x
<1>3. Good(x) BY <1>2 DEF Good, Backed, Gone, Nothing
<1> QED BY <1>2, <1>3 DEF x

(* A checkpoint an RDD reads from is complete until it is removed.           *)
LEMMA ReadLemma ==
    ASSUME CInv, NEW r \in RDDs, saved[r] # 0, NEW p \in Partitions
    PROVE  /\ ReadPart(saved[r], p) \in BOOLEAN
           /\ ~ReadPart(saved[r], p) => dirs[saved[r]].removed
BY DEF CInv, Saved, Complete, Whole, ReadPart

(* A partition of the shuffled RDD: from a checkpoint, a cache or the map  *)
(* outputs.                                                                *)
LEMMA ShuffledGood ==
    ASSUME CInv, LevelInv, NEW p \in Partitions, NEW at, Good(at), NEW put \in Files,
           NEW b, b = ComputeShuffled(p, at, put)
    PROVE  /\ Good(b)
           /\ (b.maps <=> at.maps)
           /\ b.ok => at.ok /\ (at.maps \/ saved[1] # 0)
           /\ at.ok /\ ~b.ok => (IF saved[1] # 0 THEN dirs[saved[1]].removed ELSE ~at.maps)
<1>0. 1 \in RDDs BY RDDLemma
<1>1. at \in AllStores /\ at.ok \in BOOLEAN /\ at.maps \in BOOLEAN BY DEF Good, AllStores
<1>2. CASE saved[1] # 0
  <2> DEFINE v == at.ok /\ ReadPart(saved[1], p)
  <2>1. b = [at EXCEPT !.ok = v] BY <1>1, <1>2 DEF ComputeShuffled
  <2>2. v \in BOOLEAN BY <1>0, <1>1, <1>2, ReadLemma
  <2>3. at.ok /\ ~v => dirs[saved[1]].removed BY <1>0, <1>2, ReadLemma
  <2>4. v => at.ok OBVIOUS
  <2> HIDE DEF v
  <2>5. Good(b) /\ (b.ok <=> v) /\ (b.maps <=> at.maps) BY <2>1, <2>2, FailGood
  <2>6. b.ok => at.ok BY <2>4, <2>5
  <2>7. at.ok /\ ~b.ok => dirs[saved[1]].removed BY <2>3, <2>5
  <2> QED BY <1>2, <2>5, <2>6, <2>7
<1>3. CASE saved[1] = 0 /\ Hit(1, p, at)
  <2>1. b = Found(1, p, at) BY <1>3 DEF ComputeShuffled
  <2>2. Good(b) /\ (b.ok <=> at.ok) /\ (b.maps <=> at.maps) BY SMTT(30), <1>0, <1>3, <2>1, FoundGood
  <2>3. at.maps \/ saved[1] # 0 BY <1>0, <1>3, HitStored
  <2> QED BY <2>2, <2>3
<1>4. CASE saved[1] = 0 /\ ~Hit(1, p, at)
  <2> DEFINE v == at.ok /\ at.maps
             x == [at EXCEPT !.ok = v]
  <2>1. b = PutPartition(1, p, x, put) BY <1>1, <1>4 DEF ComputeShuffled
  <2>2. v \in BOOLEAN BY <1>1
  <2>3. Good(x) /\ (x.ok <=> v) /\ (x.maps <=> at.maps) BY <2>2, FailGood
  <2> HIDE DEF x
  <2>4. x.ok => x.maps \/ saved[1] # 0 BY <2>3
  <2>5. Good(b) /\ (b.ok <=> x.ok) /\ (b.maps <=> x.maps) BY SMTT(30), <1>0, <2>1, <2>3, <2>4, PutGood
  <2> QED BY <1>4, <2>3, <2>5
<1> QED BY <1>2, <1>3, <1>4

(* A partition is computed, or a checkpoint it is read from was removed.     *)
LEMMA PartitionGood ==
    ASSUME CInv, LevelInv, NEW r \in RDDs, NEW p \in Partitions, NEW at, Good(at), at.ok,
           Ready(r, at), NEW put \in Files, NEW b, b = ComputePartition(r, p, at, put)
    PROVE  Good(b) /\ (b.maps <=> at.maps) /\ (~b.ok => Removed(r))
<1> DEFINE x == ComputeShuffled(p, at, put)
<1>1. /\ Good(x)
      /\ (x.maps <=> at.maps)
      /\ x.ok => at.ok /\ (at.maps \/ saved[1] # 0)
      /\ at.ok /\ ~x.ok => (IF saved[1] # 0 THEN dirs[saved[1]].removed ELSE ~at.maps)
  <2> HIDE DEF x
  <2> QED BY ShuffledGood DEF x
<1>2. 1 \in 1..r /\ r \in 1..r BY RDDLemma
<1>3. CASE r = 1
  <2>1. b = x BY <1>3 DEF ComputePartition
  <2> HIDE DEF x
  <2> QED BY <1>1, <1>2, <1>3, <2>1 DEF Ready, Removed
<1>4. CASE r = 2 /\ saved[2] # 0
  <2> DEFINE v == at.ok /\ ReadPart(saved[2], p)
  <2>0. at \in AllStores /\ at.ok \in BOOLEAN BY DEF Good, AllStores
  <2>5. 2 # 1 BY SMTT(30)
  <2>1. b = [at EXCEPT !.ok = v] BY <2>0, <2>5, <1>4 DEF ComputePartition
  <2>2. v \in BOOLEAN BY <1>4, <2>0, ReadLemma
  <2>3. ~v => dirs[saved[2]].removed BY <1>4, ReadLemma
  <2> HIDE DEF v
  <2>4. Good(b) /\ (b.ok <=> v) /\ (b.maps <=> at.maps) BY <2>1, <2>2, FailGood
  <2> QED BY <1>2, <1>4, <2>3, <2>4 DEF Removed
<1>5. CASE r = 2 /\ saved[2] = 0 /\ Hit(2, p, at)
  <2>0. 2 # 1 BY SMTT(30)
  <2>1. b = Found(2, p, at) BY <1>5, <2>0 DEF ComputePartition
  <2>2. Good(b) /\ (b.ok <=> at.ok) /\ (b.maps <=> at.maps) BY SMTT(30), <1>5, <2>1, FoundGood
  <2> QED BY <2>2
<1>6. CASE r = 2 /\ saved[2] = 0 /\ ~Hit(2, p, at)
  <2>0. 2 # 1 BY SMTT(30)
  <2>1. b = PutPartition(2, p, x, put) BY <1>6, <2>0 DEF ComputePartition
  <2> HIDE DEF x
  <2>2. x.ok => x.maps \/ saved[1] # 0 BY <1>1
  <2>3. Good(b) /\ (b.ok <=> x.ok) /\ (b.maps <=> x.maps) BY SMTT(30), <1>1, <1>6, <2>1, <2>2, PutGood
  <2> QED BY <1>1, <1>2, <1>6, <2>3 DEF Ready, Removed
<1> QED BY <1>3, <1>4, <1>5, <1>6, RDDLemma

(* The shuffle is written or not needed; it fails for want of room, or after *)
(* Stop when nothing was checkpointed.                                       *)
LEMMA StageGood ==
    ASSUME KInv, NEW r \in RDDs, NEW room \in BOOLEAN,
           NEW b, b = ComputeShuffleStages(r, Stores, room)
    PROVE  /\ Good(b)
           /\ b.ok /\ Partitions # {} => Ready(r, b)
           /\ ~b.ok => Excused(r, room)
<1>1. Good(Stores) /\ Stores \in AllStores /\ Stores.ok = TRUE /\ Stores.maps = maps BY DEF KInv, Good, Stores
<1>2. CASE \E q \in 1..r : IsCached(q, Stores) \/ saved[q] # 0
  <2>1. b = Stores BY <1>2 DEF ComputeShuffleStages
  <2>2. PICK q \in 1..r : IsCached(q, Stores) \/ saved[q] # 0 BY <1>2
  <2>3. q \in RDDs /\ (q = 1 \/ (q = 2 /\ r = 2)) BY RDDLemma
  <2>4. CASE saved[q] # 0 BY <1>1, <2>1, <2>3, <2>4 DEF Ready
  <2>5. CASE IsCached(q, Stores)
    <3>1. ASSUME NEW p \in Partitions PROVE ~Nothing(Stores)
      <4>1. <<q, p>> \in Keys BY <2>3 DEF Keys
      <4> QED BY <2>5, <4>1 DEF IsCached, Nothing
    <3>4. Partitions # {} => Stores.maps \/ saved[1] # 0 BY <1>1, <3>1 DEF Good, Backed
    <3> QED BY <1>1, <2>1, <3>4 DEF Ready
  <2> QED BY <2>2, <2>4, <2>5
<1>3. CASE ~\E q \in 1..r : IsCached(q, Stores) \/ saved[q] # 0
  <2>1. CASE life = "stopped" \/ ~room
    <3>1. b = [Stores EXCEPT !.ok = FALSE] BY <1>3, <2>1 DEF ComputeShuffleStages
    <3>2. Good(b) /\ b.ok = FALSE BY <1>1, <3>1, FailGood
    <3>3. Excused(r, room) BY <1>3, <2>1 DEF Excused
    <3> QED BY <3>2, <3>3
  <2>2. CASE ~(life = "stopped" \/ ~room)
    <3>1. b = [Stores EXCEPT !.maps = TRUE] BY <1>3, <2>2 DEF ComputeShuffleStages
    <3>2. b \in AllStores /\ b.maps = TRUE /\ b.ok = TRUE /\ b.cache = Stores.cache /\ b.disk = Stores.disk
      BY <1>1, <3>1 DEF AllStores
    <3> QED BY <1>1, <3>2 DEF Good, Backed, Gone, Ready
  <2> QED BY <2>1, <2>2
<1> QED BY <1>2, <1>3

(* The loop of an action over its partitions.                                *)
LEMMA RunGood ==
    ASSUME NumParts \in Nat, CInv, KInv, NEW r \in RDDs, NEW n \in 1..NumParts,
           NEW room \in BOOLEAN, NEW put \in Files
    PROVE  /\ Good(RunAction(r, n, room, put))
           /\ ~RunAction(r, n, room, put).ok => Excused(r, room)
<1> DEFINE Turn(k, g) == IF k = 0 THEN ComputeShuffleStages(r, Stores, room)
                         ELSE IF ~g[k - 1].ok THEN g[k - 1]
                         ELSE ComputePartition(r, k - 1, g[k - 1], put)
           Loop(m, g) == [k \in 0..m |-> Turn(k, g)]
           run == CHOOSE g : g = Loop(n, g)
           Fine(at) == Good(at) /\ (at.ok => Ready(r, at)) /\ (~at.ok => Excused(r, room))
<1>1. RunAction(r, n, room, put) = run[n] BY DEF RunAction
<1>2. n \in Nat /\ n \in 0..n /\ Partitions # {}
  <2>1. n \in Nat /\ n \in 0..n /\ 0 \in 0..(NumParts - 1) BY SMTT(30)
  <2> QED BY <2>1 DEF Partitions
<1>3. \E g : g = Loop(n, g)
  <2> DEFINE S == {m \in Nat : \E g : g = Loop(m, g)}
  <2>1. 0 \in S
    <3> DEFINE g == [k \in 0..0 |-> ComputeShuffleStages(r, Stores, room)]
    <3>1. 0 \in Nat /\ \A k \in 0..0 : k = 0 BY SMTT(30)
    <3>2. \A k \in 0..0 : Turn(k, g) = g[k] BY <3>1
    <3>3. g = Loop(0, g) BY <3>2
    <3> QED BY <3>1, <3>3
  <2>2. ASSUME NEW m \in Nat, m \in S PROVE m + 1 \in S
    <3>1. PICK g : g = Loop(m, g) BY <2>2
    <3> HIDE DEF Turn
    <3> DEFINE h == [k \in 0..(m + 1) |-> IF k = m + 1 THEN Turn(m + 1, g) ELSE g[k]]
    <3>2. m + 1 \in Nat /\ \A k \in 0..(m + 1) : k = m + 1 \/ (k # m + 1 /\ k \in 0..m)
      BY SMTT(30)
    <3>3. \A k \in 0..(m + 1) : k # 0 => k - 1 \in 0..m /\ k - 1 # m + 1 /\ k - 1 \in 0..(m + 1)
      BY SMTT(30)
    <3>4. ASSUME NEW k \in 0..(m + 1) PROVE Turn(k, h) = Turn(k, g)
      <4>1. k # 0 => h[k - 1] = g[k - 1] BY <3>3
      <4> HIDE DEF h
      <4> QED BY <4>1 DEF Turn
    <3>5. \A k \in 0..m : g[k] = Turn(k, g) BY <3>1
    <3>6. h = [k \in 0..(m + 1) |-> Turn(k, h)] BY <3>2, <3>4, <3>5
    <3> QED BY <3>2, <3>6
  <2>3. \A m \in Nat : m \in S
    <3> HIDE DEF S
    <3> QED BY <2>1, <2>2, SetInduction
  <2> QED BY <1>2, <2>3
<1>4. run = Loop(n, run) BY <1>3
<1> HIDE DEF run
<1>5. \A k \in Nat : k \in 0..n => Fine(run[k])
  <2> DEFINE S == {k \in Nat : k \in 0..n => Fine(run[k])}
  <2>1. 0 \in S
    <3>1. 0 \in Nat /\ 0 \in 0..n BY SMTT(30), <1>2
    <3>2. run[0] = ComputeShuffleStages(r, Stores, room) BY <1>4, <3>1
    <3>3. Fine(run[0]) BY <1>2, <3>2, StageGood
    <3> QED BY <3>1, <3>3
  <2>2. ASSUME NEW k \in Nat, k \in S PROVE k + 1 \in S
    <3> SUFFICES ASSUME k + 1 \in 0..n PROVE Fine(run[k + 1])
      BY SMTT(30)
    <3>1. k + 1 \in Nat /\ k \in 0..n /\ k + 1 # 0 /\ (k + 1) - 1 = k /\ k \in 0..(NumParts - 1)
      BY SMTT(30), <1>2
    <3>2. Fine(run[k]) BY <2>2, <3>1
    <3>3. run[k + 1] = IF ~run[k].ok THEN run[k] ELSE ComputePartition(r, k, run[k], put)
      BY <1>4, <3>1
    <3>4. CASE ~run[k].ok BY <3>2, <3>3, <3>4
    <3>5. CASE run[k].ok
      <4>1. k \in Partitions /\ CInv /\ LevelInv /\ Good(run[k]) /\ Ready(r, run[k])
        BY <3>1, <3>2, <3>5 DEF Partitions, KInv
      <4>2. run[k + 1] = ComputePartition(r, k, run[k], put) BY <3>3, <3>5
      <4>3. /\ Good(run[k + 1])
            /\ run[k + 1].maps <=> run[k].maps
            /\ ~run[k + 1].ok => Removed(r)
        BY SMTT(30), <3>5, <4>1, <4>2, PartitionGood
      <4> QED BY <4>1, <4>3 DEF Ready, Removed, Excused
    <3> QED BY <3>4, <3>5
  <2>3. \A k \in Nat : k \in S
    <3> HIDE DEF S
    <3> QED BY <2>1, <2>2, SetInduction
  <2> QED BY <2>3
<1> QED BY <1>1, <1>2, <1>5

(* The stores after a step that leaves the levels and the paths alone.       *)
LEMMA KeepGood ==
    ASSUME LevelInv, NEW at, Good(at), Keep(at), UNCHANGED <<level, dropped, saved>>
    PROVE  LevelInv' /\ Good(Stores)' /\ (maps' <=> at.maps)
<1>1. /\ at \in AllStores
      /\ at.cache \in SUBSET Keys /\ at.disk \in [Keys -> Files] /\ at.maps \in BOOLEAN
  BY DEF Good, AllStores
<1>2. cache' = at.cache /\ disk' = at.disk /\ maps' = at.maps BY DEF Keep
<1>3. Stores' = [cache |-> cache', disk |-> disk', maps |-> maps', ok |-> TRUE] BY DEF Stores
<1>4. Stores' \in AllStores BY <1>1, <1>2, <1>3 DEF AllStores
<1>5. Stores'.cache = at.cache /\ Stores'.disk = at.disk /\ Stores'.maps = at.maps
  BY <1>2, <1>3
<1>6. Backed(Stores)' BY <1>5 DEF Good, Backed, Nothing
<1>7. Gone(Stores)' BY <1>5 DEF Good, Gone
<1> QED BY <1>2, <1>4, <1>6, <1>7 DEF Good, LevelInv

(* The fields of the stores, now and in the next state.                    *)
LEMMA StoresFields ==
    /\ Stores.cache = cache /\ Stores.disk = disk /\ Stores.maps = maps /\ Stores.ok = TRUE
    /\ Stores'.cache = cache' /\ Stores'.disk = disk' /\ Stores'.maps = maps'
BY DEF Stores

(* A task that fails with an excuse is no failure.                         *)
LEMMA OutcomeFine ==
    ASSUME NEW r, NEW room, NEW at, ~at.ok => Excused(r, room)
    PROVE  Outcome(r, room, at) # "failed"
BY DEF Outcome

(* A step that leaves all stores, levels and paths alone.                    *)
LEMMA KAside ==
    ASSUME KInv, UNCHANGED <<level, dropped, cache, disk, maps, saved>>
    PROVE  LevelInv' /\ Good(Stores)'
BY DEF KInv, LevelInv, Good, Backed, Nothing, Gone, Stores

(* Every stored partition is gone.                                           *)
LEMMA EmptyGood ==
    ASSUME LevelInv', cache' = {}, disk' = [k \in Keys |-> "absent"], maps' = FALSE
    PROVE  Good(Stores)'
<1>1. Stores' = [cache |-> cache', disk |-> disk', maps |-> maps', ok |-> TRUE] BY DEF Stores
<1>2. disk' \in [Keys -> Files] BY DEF Files
<1>3. Stores' \in AllStores BY <1>1, <1>2 DEF AllStores
<1>4. Nothing(Stores)' BY StoresFields DEF Nothing
<1>5. Gone(Stores)' BY <1>4 DEF Gone, Nothing
<1> QED BY <1>3, <1>4, <1>5 DEF Good, Backed

(* The stores begin empty.                                                 *)
LEMMA InitStores == Init => KInv
<1> SUFFICES ASSUME Init PROVE KInv OBVIOUS
<1>1. LevelInv BY DEF Init, LevelInv, Levels
<1>2. disk \in [Keys -> Files] BY DEF Init, Files
<1>3. Stores \in AllStores BY <1>2 DEF Init, Stores, AllStores
<1>4. Nothing(Stores) BY StoresFields DEF Nothing, Init
<1>5. Gone(Stores) BY <1>4 DEF Gone, Nothing
<1>6. writing = Idle /\ outcome = "none" BY DEF Init
<1> QED BY <1>1, <1>3, <1>4, <1>5, <1>6 DEF KInv, Good, Backed

(* Unpersist drops what the RDD kept.                                      *)
LEMMA UnpersistStores == ASSUME KInv, NEW r \in RDDs, Unpersist(r) PROVE KInv'
<1>1. /\ level' = [level EXCEPT ![r] = "none"] /\ dropped' = dropped \cup {r}
      /\ cache' = {k \in cache : k[1] # r}
      /\ disk' = [k \in Keys |-> IF k[1] = r THEN "absent" ELSE disk[k]]
      /\ UNCHANGED <<maps, saved, writing, outcome>>
  BY DEF Unpersist
<1>2. Stores \in AllStores BY DEF KInv, Good
<1>3. cache \in SUBSET Keys /\ disk \in [Keys -> Files] /\ maps \in BOOLEAN
  BY <1>2, StoresFields DEF AllStores
<1>4. LevelInv' BY <1>1 DEF KInv, LevelInv, Levels
<1>5. disk' \in [Keys -> Files] /\ cache' \in SUBSET Keys BY <1>1, <1>3 DEF Files
<1>6. Stores' \in AllStores BY <1>1, <1>3, <1>5 DEF Stores, AllStores
<1>7. Gone(Stores) /\ Backed(Stores) BY DEF KInv, Good
<1>8. Gone(Stores)'
  <2> SUFFICES ASSUME NEW k \in Keys, k[1] \in dropped' PROVE k \notin cache' /\ disk'[k] = "absent"
    BY StoresFields DEF Gone
  <2> QED BY <1>1, <1>7, StoresFields DEF Gone
<1>9. Backed(Stores)'
  <2>1. Nothing(Stores) => Nothing(Stores)' BY <1>1, StoresFields DEF Nothing
  <2> QED BY <1>1, <1>7, <2>1, StoresFields DEF Backed
<1> QED BY <1>1, <1>4, <1>6, <1>8, <1>9 DEF KInv, Good

(* Persist sets a level.                                                   *)
LEMMA PersistStores == ASSUME KInv, NEW r \in RDDs, NEW l \in Levels, Persist(r, l) PROVE KInv'
<1>1. /\ level' = [level EXCEPT ![r] = l] /\ dropped' = dropped \ {r}
      /\ UNCHANGED <<cache, disk, maps, saved, writing, outcome>>
  BY DEF Persist
<1>2. LevelInv' BY <1>1 DEF KInv, LevelInv
<1>3. Stores' = Stores BY <1>1 DEF Stores
<1>4. Good(Stores)' BY <1>1, <1>3 DEF KInv, Good, Backed, Nothing, Gone
<1> QED BY <1>1, <1>2, <1>4 DEF KInv

(* An action computes partitions and keeps them at the levels of their     *)
(* RDDs.                                                                   *)
LEMMA ActionStores ==
    ASSUME NumParts \in Nat, CInv, KInv, NEW r \in RDDs, NEW n \in 1..NumParts,
           NEW room \in BOOLEAN, NEW put \in Files, Action(r, n, room, put)
    PROVE  KInv'
<1> DEFINE at == RunAction(r, n, room, put)
<1>1. /\ Keep(at) /\ outcome' = Outcome(r, room, at) /\ writing = Idle
      /\ UNCHANGED <<level, dropped, saved, writing>>
  BY DEF Action
<1>2. Good(at) /\ (~at.ok => Excused(r, room)) BY RunGood
<1> HIDE DEF at
<1>3. LevelInv' /\ Good(Stores)' BY <1>1, <1>2, KeepGood DEF KInv
<1>4. outcome' # "failed" BY <1>1, <1>2, OutcomeFine
<1> QED BY <1>1, <1>3, <1>4 DEF KInv

(* Checkpoint computes the map outputs first.                              *)
LEMMA BeginCheckpointStores ==
    ASSUME KInv, NEW r \in RDDs, NEW room \in BOOLEAN, BeginCheckpoint(r, room)
    PROVE  KInv'
<1> DEFINE at == ComputeShuffleStages(r, Stores, room)
<1>1. /\ Keep(at) /\ outcome' = Outcome(r, room, at) /\ writing = Idle /\ saved[r] = 0
      /\ UNCHANGED <<level, dropped, saved>> /\ (~at.ok => writing' = writing)
  BY DEF BeginCheckpoint
<1> HIDE DEF at
<1>2. Good(at) /\ (at.ok /\ Partitions # {} => Ready(r, at)) /\ (~at.ok => Excused(r, room))
  BY StageGood DEF at
<1>3. LevelInv' /\ Good(Stores)' /\ (maps' <=> at.maps) BY <1>1, <1>2, KeepGood DEF KInv
<1>4. outcome' # "failed" BY <1>1, <1>2, OutcomeFine
<1>5. writing' # Idle => Partitions = {} \/ maps' \/ saved'[1] # 0
  BY <1>1, <1>2, <1>3 DEF Ready
<1> QED BY <1>3, <1>4, <1>5 DEF KInv

(* While Checkpoint writes, its partitions can be computed.                  *)
LEMMA CheckpointReads ==
    ASSUME NumParts \in Nat, CInv, KInv, writing.step = "parts", Unwritten # {}, NEW put \in Files,
           NEW at, at = ComputePartition(writing.rdd, NextPart, Stores, put)
    PROVE  Good(at) /\ (at.maps <=> maps) /\ (~at.ok => Removed(writing.rdd))
<1>1. writing # Idle BY InCall
<1>2. writing.rdd \in RDDs BY <1>1 DEF CInv, Written, Call
<1>3. NextPart \in Partitions
  <2>1. Partitions \subseteq Nat BY SMTT(30) DEF Partitions
  <2>2. Unwritten \subseteq Partitions BY DEF Unwritten
  <2>3. \E p \in Unwritten : \A q \in Unwritten : p <= q BY <2>1, <2>2, NatMin
  <2> QED BY <2>2, <2>3 DEF NextPart
<1>4. Good(Stores) /\ LevelInv BY DEF KInv
<1>5. Stores.ok /\ Stores.maps = maps BY StoresFields
<1>6. Ready(writing.rdd, Stores) BY <1>1, <1>3, <1>5 DEF KInv, Ready
<1>7. Good(at) /\ (at.maps <=> Stores.maps) /\ (~at.ok => Removed(writing.rdd))
  BY SMTT(30), <1>2, <1>3, <1>4, <1>5, <1>6, PartitionGood
<1> QED BY <1>5, <1>7

(* Checkpoint computes a partition and writes it.                          *)
LEMMA FinishPartStores ==
    ASSUME NumParts \in Nat, CInv, KInv, NEW put \in Files, FinishPart(put)
    PROVE  KInv'
<1> DEFINE at == ComputePartition(writing.rdd, NextPart, Stores, put)
<1>1. /\ Keep(at) /\ writing.step = "parts" /\ Unwritten # {}
      /\ UNCHANGED <<level, dropped, saved, writing, outcome>>
  BY DEF FinishPart
<1> HIDE DEF at
<1>2. Good(at) /\ (at.maps <=> maps) BY <1>1, CheckpointReads DEF at
<1>3. LevelInv' /\ Good(Stores)' /\ (maps' <=> at.maps) BY <1>1, <1>2, KeepGood DEF KInv
<1> QED BY <1>1, <1>2, <1>3 DEF KInv

(* A checkpoint fails.                                                     *)
LEMMA FailCheckpointStores ==
    ASSUME NumParts \in Nat, CInv, KInv, NEW kept, NEW manifest, FailCheckpoint(kept, manifest)
    PROVE  KInv'
<1> DEFINE at == ComputePartition(writing.rdd, NextPart, Stores, "whole")
           unreadable == writing.step = "parts" /\ Unwritten # {} /\ ~at.ok
<1>1. /\ outcome' = IF unreadable THEN Outcome(writing.rdd, TRUE, at) ELSE "excused"
      /\ writing' = Idle
      /\ UNCHANGED <<level, dropped, cache, disk, maps, saved>>
  BY DEF FailCheckpoint
<1>2. outcome' # "failed"
  <2>1. CASE unreadable
    <3>1. writing.step = "parts" /\ Unwritten # {} /\ "whole" \in Files BY <2>1 DEF Files
    <3> HIDE DEF at
    <3>2. ~at.ok => Removed(writing.rdd) BY <3>1, CheckpointReads DEF at
    <3>3. ~at.ok => Excused(writing.rdd, TRUE) BY <3>2 DEF Removed, Excused
    <3> QED BY <1>1, <2>1, <3>3, OutcomeFine
  <2>2. CASE ~unreadable BY <1>1, <2>2
  <2> QED BY <2>1, <2>2
<1>3. LevelInv' /\ Good(Stores)' BY <1>1, KAside
<1> QED BY <1>1, <1>2, <1>3 DEF KInv

(* A checkpoint becomes what its RDD is read from.                         *)
LEMMA PublishStores == ASSUME CInv, KInv, Publish PROVE KInv'
<1>1. /\ writing.step = "manifest" /\ saved' = [saved EXCEPT ![writing.rdd] = Len(dirs)] /\ writing' = Idle
      /\ UNCHANGED <<level, dropped, cache, disk, maps, outcome>>
  BY DEF Publish, Dir
<1>2. writing # Idle BY <1>1, InCall
<1>3. Len(dirs) \in DOMAIN dirs /\ dirs \in Seq(Dirs) BY <1>2, LastDir DEF CInv
<1>4. Len(dirs) # 0 BY SMTT(30), <1>3
<1>5. saved[1] # 0 => saved'[1] # 0
  <2>1. 1 \in DOMAIN saved BY RDDLemma DEF CInv
  <2> QED BY <1>1, <1>4, <2>1
<1>6. Stores' = Stores BY <1>1 DEF Stores
<1>7. Good(Stores)' BY <1>1, <1>5, <1>6 DEF KInv, Good, Backed, Nothing, Gone
<1>8. LevelInv' BY <1>1 DEF KInv, LevelInv
<1> QED BY <1>1, <1>7, <1>8 DEF KInv

(* Stop and a crash empty the stores.                                      *)
LEMMA ClearedStores ==
    ASSUME KInv, Stop \/ Crash
    PROVE  KInv'
<1>1. cache' = {} /\ disk' = [k \in Keys |-> "absent"] /\ maps' = FALSE BY DEF Stop, Crash
<1>2. LevelInv' BY DEF Stop, Crash, KInv, LevelInv, Levels
<1>3. Good(Stores)' BY <1>1, <1>2, EmptyGood
<1>4. writing' = Idle BY DEF Stop, Crash
<1>5. outcome' # "failed" BY DEF Stop, Crash, KInv
<1> QED BY <1>2, <1>3, <1>4, <1>5 DEF KInv

(* Every step keeps the stores in order.                                   *)
LEMMA StepStores ==
    ASSUME NumParts \in Nat, CInv, KInv, [Next]_vars
    PROVE  KInv'
<1>1. ASSUME UNCHANGED <<level, dropped, cache, disk, maps, saved, outcome>>,
             writing' # Idle => writing # Idle
      PROVE KInv'
  <2>1. LevelInv' /\ Good(Stores)' BY <1>1, KAside
  <2> QED BY <1>1, <2>1 DEF KInv
<1>2. CASE OpenPart BY <1>1, <1>2 DEF OpenPart
<1>3. CASE BeginManifest
  <2>1. writing.step = "parts" BY <1>3 DEF BeginManifest
  <2>2. writing # Idle BY <2>1, InCall
  <2> QED BY <1>1, <1>3, <2>2 DEF BeginManifest
<1>4. ASSUME NEW d, NEW kept, NEW manifest, RemoveCheckpoint(d, kept, manifest) PROVE KInv'
  BY <1>1, <1>4 DEF RemoveCheckpoint
<1>5. CASE UNCHANGED vars BY <1>1, <1>5 DEF vars
<1>6. {"whole", "torn", "absent"} = Files BY DEF Files
<1>7. ASSUME NEW r \in RDDs, NEW n \in 1..NumParts, NEW room \in BOOLEAN, NEW put \in Files,
             Action(r, n, room, put)
      PROVE KInv'
  BY <1>7, ActionStores
<1>8. ASSUME NEW put \in Files, FinishPart(put) PROVE KInv' BY <1>8, FinishPartStores
<1>9. ASSUME NEW r \in RDDs, Unpersist(r) PROVE KInv' BY <1>9, UnpersistStores
<1>10. ASSUME NEW r \in RDDs, NEW l \in Levels, Persist(r, l) PROVE KInv' BY <1>10, PersistStores
<1>11. ASSUME NEW r \in RDDs, NEW room \in BOOLEAN, BeginCheckpoint(r, room) PROVE KInv'
  BY <1>11, BeginCheckpointStores
<1>12. ASSUME NEW kept, NEW manifest, FailCheckpoint(kept, manifest) PROVE KInv'
  BY <1>12, FailCheckpointStores
<1> QED
  BY <1>2, <1>3, <1>4, <1>5, <1>6, <1>7, <1>8, <1>9, <1>10, <1>11, <1>12, PublishStores,
     ClearedStores DEF Next

(* Persist, Unpersist, Checkpoint, Stop and a full disk never make an action *)
(* fail or return a partition of an unpersisted RDD.                         *)
THEOREM StoredCorrect == ASSUME NumParts \in Nat PROVE Spec => []StoredExact
<1>1. Init => CInv /\ KInv BY InitCheckpoints, InitStores
<1>2. CInv /\ KInv /\ [Next]_vars => (CInv /\ KInv)' BY StepCheckpoints, StepStores
<1>3. CInv /\ KInv => StoredExact
  BY CompleteFromInv, StoresFields DEF KInv, Good, Gone, StoredExact
<1> QED BY <1>1, <1>2, <1>3, PTL DEF Spec
==============================================================================
