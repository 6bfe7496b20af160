------------------------------ MODULE LocalStore ------------------------------
(* Stored partitions of a local Context: Persist and Unpersist at the four   *)
(* storage levels, the memory and the disk cache, the shuffle files actions  *)
(* leave behind, checkpoints and their directories, Stop, and a crash of the *)
(* process. RDD 1 is shuffled; RDD 2 is a narrow child of it. Partition p of *)
(* RDD 2 is computed from partition p of RDD 1, and that from the shuffle.   *)
(* Disk writes may fail, or leave a part of a file. A stored partition is a  *)
(* key <<rdd, part>>: what can be wrong about it is to be absent or torn.    *)
EXTENDS Naturals, Sequences

CONSTANTS
    NumParts,      \* partitions of the RDDs
    MaxCheckpoints,\* bound: checkpoint directories made
    MaxCalls,      \* bound: calls of Persist, Unpersist and Checkpoint
    MaxDiskErrors  \* bound: actions during which the disk is full

VARIABLES
    level,         \* storageLevel of an RDD
    levels,        \* calls of Persist and Unpersist so far
    dropped,       \* history: RDDs unpersisted and not persisted since
    cache,         \* memoryCache: the keys it holds
    disk,          \* diskCache: "absent", "torn" or "whole", by key
    maps,          \* the shuffle's map outputs are installed and on disk
    dirs,          \* checkpoint directories: [rdd, part files, manifest]
    saved,         \* checkpointPath: a directory, or 0
    writing,       \* the Checkpoint call: [rdd, step], or Idle
    life,          \* "running", "stopped" or "crashed"
    errors,        \* actions that met a full disk
    outcome        \* how the last action ended

vars == <<level, levels, dropped, cache, disk, maps, dirs, saved, writing, life, errors, outcome>>

RDDs == {1, 2}
Partitions == 0..(NumParts - 1)
Keys == RDDs \X Partitions
Levels == {"none", "memory", "disk", "both"}
InMemory(r) == level[r] \in {"memory", "both"}
OnDisk(r) == level[r] \in {"disk", "both"}
Idle == [rdd |-> 0, step |-> "idle"]
Alive == life # "crashed"

-----------------------------------------------------------------------------
(* A Context's stores during an action: [cache, disk, maps, ok]. room says   *)
(* whether the disk takes the shuffle, put what a write to the disk cache    *)
(* does: "whole", "torn", or "absent" when the file cannot be made.          *)
Stores == [cache |-> cache, disk |-> disk, maps |-> maps, ok |-> TRUE]

(* IsCached looks at each partition where the level keeps it; a file that    *)
(* exists counts.                                                            *)
IsCached(r, at) ==
    level[r] # "none" /\ \A p \in Partitions :
        \/ InMemory(r) /\ <<r, p>> \in at.cache
        \/ OnDisk(r) /\ at.disk[<<r, p>>] # "absent"

(* computeShuffleStages stops at a cached or checkpointed RDD; otherwise it  *)
(* writes the shuffle again, under the disk cache's directory. What a failed *)
(* stage installed is as good as what it replaced.                           *)
ComputeShuffleStages(r, at, room) ==
    IF \E q \in 1..r : IsCached(q, at) \/ saved[q] # 0 THEN at
    ELSE IF life = "stopped" \/ ~room THEN [at EXCEPT !.ok = FALSE]
    ELSE [at EXCEPT !.maps = TRUE]

(* Files of a checkpoint directory; checkpointIterator needs the part's.     *)
ReadPart(d, p) == dirs[d].parts[p] = "whole"

(* computePartition: the checkpoint, the caches of the level, and otherwise  *)
(* the RDD's own function, after which the partition is stored.              *)
PutPartition(r, p, at, put) ==
    LET key == <<r, p>>
        written == IF life = "stopped" THEN "absent" ELSE put
    IN  IF ~at.ok THEN at
        ELSE [at EXCEPT !.cache = IF InMemory(r) THEN @ \cup {key} ELSE @,
                        !.disk[key] = IF OnDisk(r) /\ written # "absent" THEN written ELSE @]

Hit(r, p, at) ==
    \/ InMemory(r) /\ <<r, p>> \in at.cache
    \/ OnDisk(r) /\ at.disk[<<r, p>>] = "whole"

(* What a hit does: a partition found on disk goes to memory as well.        *)
Found(r, p, at) ==
    IF level[r] = "both" THEN [at EXCEPT !.cache = @ \cup {<<r, p>>}] ELSE at

ComputeShuffled(p, at, put) ==
    IF saved[1] # 0 THEN [at EXCEPT !.ok = @ /\ ReadPart(saved[1], p)]
    ELSE IF Hit(1, p, at) THEN Found(1, p, at)
    ELSE PutPartition(1, p, [at EXCEPT !.ok = @ /\ at.maps], put)

ComputePartition(r, p, at, put) ==
    IF r = 1 THEN ComputeShuffled(p, at, put)
    ELSE IF saved[2] # 0 THEN [at EXCEPT !.ok = @ /\ ReadPart(saved[2], p)]
    ELSE IF Hit(2, p, at) THEN Found(2, p, at)
    ELSE PutPartition(2, p, ComputeShuffled(p, at, put), put)

(* An action over the first n partitions.                                    *)
RunAction(r, n, room, put) ==
    LET run[k \in 0..n] == IF k = 0 THEN ComputeShuffleStages(r, Stores, room)
                           ELSE IF ~run[k - 1].ok THEN run[k - 1]
                           ELSE ComputePartition(r, k - 1, run[k - 1], put)
    IN  run[n]

Keep(at) == cache' = at.cache /\ disk' = at.disk /\ maps' = at.maps

DiskErrors(room, put) ==
    LET bad == ~room \/ put # "whole"
    IN  /\ bad => errors < MaxDiskErrors
        /\ errors' = IF bad THEN errors + 1 ELSE errors

(* Why an action may fail: no room, a stopped context without a checkpoint,  *)
(* a checkpoint the application removed.                                     *)
Excused(r, room) ==
    \/ ~room
    \/ life = "stopped" /\ \A q \in 1..r : saved[q] = 0
    \/ \E q \in 1..r : saved[q] # 0 /\ dirs[saved[q]].removed

Outcome(r, room, at) == IF at.ok THEN "ok" ELSE IF Excused(r, room) THEN "excused" ELSE "failed"

Init ==
    /\ level = [r \in RDDs |-> "none"] /\ levels = 0 /\ dropped = {}
    /\ cache = {} /\ disk = [k \in Keys |-> "absent"] /\ maps = FALSE
    /\ dirs = <<>> /\ saved = [r \in RDDs |-> 0] /\ writing = Idle
    /\ life = "running" /\ errors = 0 /\ outcome = "none"

-----------------------------------------------------------------------------
Action(r, n, room, put) ==
    /\ Alive /\ writing = Idle
    /\ DiskErrors(room, put)
    /\ LET at == RunAction(r, n, room, put)
       IN  Keep(at) /\ outcome' = Outcome(r, room, at)
    /\ UNCHANGED <<level, levels, dropped, dirs, saved, writing, life>>

Persist(r, l) ==
    /\ Alive /\ writing = Idle /\ levels + Len(dirs) < MaxCalls
    /\ level' = [level EXCEPT ![r] = l] /\ levels' = levels + 1 /\ dropped' = dropped \ {r}
    /\ UNCHANGED <<cache, disk, maps, dirs, saved, writing, life, errors, outcome>>

Unpersist(r) ==
    /\ Alive /\ writing = Idle /\ levels + Len(dirs) < MaxCalls
    /\ level' = [level EXCEPT ![r] = "none"] /\ levels' = levels + 1 /\ dropped' = dropped \cup {r}
    /\ cache' = {k \in cache : k[1] # r}
    /\ disk' = [k \in Keys |-> IF k[1] = r THEN "absent" ELSE disk[k]]
    /\ UNCHANGED <<maps, dirs, saved, writing, life, errors, outcome>>

(* Context.Stop; checkpoints stay.                                           *)
Stop ==
    /\ life = "running" /\ writing = Idle
    /\ life' = "stopped"
    /\ cache' = {} /\ disk' = [k \in Keys |-> "absent"] /\ maps' = FALSE
    /\ UNCHANGED <<level, levels, dropped, dirs, saved, writing, errors, outcome>>

-----------------------------------------------------------------------------
(* Checkpoint: a directory, its part files one by one, the manifest, and     *)
(* then the RDD reads from it. Each write is seen half done by a crash.      *)
NewDir(r) == [rdd |-> r, parts |-> [p \in Partitions |-> "absent"], manifest |-> "absent", removed |-> FALSE]

BeginCheckpoint(r, room) ==
    /\ Alive /\ writing = Idle /\ saved[r] = 0
    /\ Len(dirs) < MaxCheckpoints /\ levels + Len(dirs) < MaxCalls
    /\ DiskErrors(room, "whole")
    /\ LET at == ComputeShuffleStages(r, Stores, room)
       IN  /\ Keep(at)
           /\ outcome' = Outcome(r, room, at)
           /\ IF at.ok
              THEN dirs' = Append(dirs, NewDir(r)) /\ writing' = [rdd |-> r, step |-> "parts"]
              ELSE UNCHANGED <<dirs, writing>>
    /\ UNCHANGED <<level, levels, dropped, saved, life>>

Dir == Len(dirs)
Unwritten == {p \in Partitions : dirs[Dir].parts[p] # "whole"}
NextPart == CHOOSE p \in Unwritten : \A q \in Unwritten : p <= q

(* The loop over the partitions: the file is created, then the partition is  *)
(* computed, appended and finished.                                          *)
OpenPart ==
    /\ Alive /\ writing.step = "parts" /\ Unwritten # {}
    /\ dirs[Dir].parts[NextPart] = "absent"
    /\ dirs' = [dirs EXCEPT ![Dir].parts[NextPart] = "torn"]
    /\ UNCHANGED <<level, levels, dropped, cache, disk, maps, saved, writing, life, errors, outcome>>

FinishPart(put) ==
    /\ Alive /\ writing.step = "parts" /\ Unwritten # {}
    /\ dirs[Dir].parts[NextPart] = "torn"
    /\ DiskErrors(TRUE, put)
    /\ LET at == ComputePartition(writing.rdd, NextPart, Stores, put)
       IN  /\ at.ok
           /\ Keep(at)
           /\ dirs' = [dirs EXCEPT ![Dir].parts[NextPart] = "whole"]
    /\ UNCHANGED <<level, levels, dropped, saved, writing, life, outcome>>

(* A plausible slip: the manifest goes first.                                *)
BeginManifestEarly ==
    /\ Alive /\ writing.step = "parts" /\ dirs[Dir].manifest = "absent"
    /\ dirs' = [dirs EXCEPT ![Dir].manifest = "whole"]
    /\ writing' = [writing EXCEPT !.step = IF Unwritten = {} THEN "manifest" ELSE "parts"]
    /\ UNCHANGED <<level, levels, dropped, cache, disk, maps, saved, life, errors, outcome>>

BeginManifest ==
    /\ Alive /\ writing.step = "parts" /\ Unwritten = {}
    /\ dirs' = [dirs EXCEPT ![Dir].manifest = "torn"]
    /\ writing' = [writing EXCEPT !.step = "manifest"]
    /\ UNCHANGED <<level, levels, dropped, cache, disk, maps, saved, life, errors, outcome>>

Publish ==
    /\ Alive /\ writing.step = "manifest"
    /\ dirs' = [dirs EXCEPT ![Dir].manifest = "whole"]
    /\ saved' = [saved EXCEPT ![writing.rdd] = Dir]
    /\ writing' = Idle
    /\ UNCHANGED <<level, levels, dropped, cache, disk, maps, life, errors, outcome>>

(* RemoveAll of a directory, by Checkpoint's deferred function or by the     *)
(* application: it may stop half way, leaving any of the files.              *)
Rest(x, kept, manifest) ==
    [rdd |-> x.rdd,
     parts |-> [p \in Partitions |-> IF p \in kept THEN x.parts[p] ELSE "absent"],
     manifest |-> IF manifest THEN x.manifest ELSE "absent",
     removed |-> TRUE]

Remove(d, kept, manifest) == dirs' = [dirs EXCEPT ![d] = Rest(dirs[d], kept, manifest)]

FailCheckpoint(kept, manifest) ==
    LET r == writing.rdd
        at == ComputePartition(r, NextPart, Stores, "whole")
        unreadable == writing.step = "parts" /\ Unwritten # {} /\ ~at.ok
    IN  /\ Alive /\ writing # Idle
        /\ unreadable \/ errors < MaxDiskErrors
        /\ errors' = IF unreadable THEN errors ELSE errors + 1
        /\ outcome' = IF unreadable THEN Outcome(r, TRUE, at) ELSE "excused"
        /\ Remove(Dir, kept, manifest)
        /\ writing' = Idle
        /\ UNCHANGED <<level, levels, dropped, cache, disk, maps, saved, life>>

RemoveCheckpoint(d, kept, manifest) ==
    /\ ~dirs[d].removed
    /\ d = Dir => writing = Idle
    /\ Remove(d, kept, manifest)
    /\ UNCHANGED <<level, levels, dropped, cache, disk, maps, saved, writing, life, errors, outcome>>

(* The process dies, and its Context with it.                                *)
Crash ==
    /\ Alive /\ dirs # <<>>
    /\ life' = "crashed"
    /\ level' = [r \in RDDs |-> "none"] /\ saved' = [r \in RDDs |-> 0]
    /\ cache' = {} /\ disk' = [k \in Keys |-> "absent"] /\ maps' = FALSE
    /\ dropped' = {} /\ writing' = Idle /\ outcome' = "none"
    /\ UNCHANGED <<levels, dirs, errors>>

Next ==
    \/ \E r \in RDDs : \/ \E n \in 1..NumParts, room \in BOOLEAN, put \in {"whole", "torn", "absent"} :
                              Action(r, n, room, put)
                       \/ \E l \in Levels : Persist(r, l)
                       \/ Unpersist(r)
                       \/ \E room \in BOOLEAN : BeginCheckpoint(r, room)
    \/ Stop \/ OpenPart \/ BeginManifest \/ Publish \/ Crash
    \/ \E put \in {"whole", "torn", "absent"} : FinishPart(put)
    \/ \E kept \in SUBSET Partitions, manifest \in BOOLEAN :
          \/ FailCheckpoint(kept, manifest)
          \/ \E d \in DOMAIN dirs : RemoveCheckpoint(d, kept, manifest)

Spec == Init /\ [][Next]_vars

-----------------------------------------------------------------------------
(* ReadCheckpoint in any process: the manifest parses and every part file it *)
(* lists is there.                                                           *)
ReadCheckpoint(d) == dirs[d].manifest = "whole" /\ \A p \in Partitions : dirs[d].parts[p] # "absent"

(* A directory that ReadCheckpoint accepts holds every partition completely, *)
(* wherever Checkpoint failed or the process died, and whatever a removal    *)
(* that stopped half way left of it; and the one an RDD reads from is        *)
(* accepted until the application removes it.                                *)
CheckpointsComplete ==
    /\ \A d \in DOMAIN dirs : ReadCheckpoint(d) => \A p \in Partitions : dirs[d].parts[p] = "whole"
    /\ \A r \in RDDs : saved[r] # 0 => ReadCheckpoint(saved[r]) \/ dirs[saved[r]].removed

(* Persisting and checkpointing never change what an RDD is. An action that  *)
(* skips a shuffle because IsCached said so never misses it later, even when *)
(* a cached file turns out torn; an unpersisted RDD has left no partition in *)
(* any store, whatever levels it went through; and checkpoints are complete  *)
(* and outlive Stop.                                                         *)
StoredExact ==
    /\ outcome # "failed"
    /\ \A k \in Keys : k[1] \in dropped => k \notin cache /\ disk[k] = "absent"
    /\ CheckpointsComplete
===============================================================================
