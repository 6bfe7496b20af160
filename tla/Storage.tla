------------------------------- MODULE Storage -------------------------------
(* The two stores of partitions side by side: the caches of the workers with *)
(* the jobs that use them, and those of a local context. A behaviour moves   *)
(* one of the two and leaves the other as it began.                          *)
EXTENDS CachedJob

CONSTANTS NumParts, MaxCheckpoints, MaxCalls, MaxDiskErrors

ASSUME NumPartsAssumption == NumParts \in Nat

VARIABLES
    local,         \* which of the two moves
    level, levels, dropped, cache, disk, maps, dirs, saved, writing, life, errors, outcome

Store == INSTANCE LocalStore

store == <<level, levels, dropped, cache, disk, maps, dirs, saved, writing, life, errors, outcome>>
storage == <<local, vars, store>>

First == CHOOSE p \in Programs : TRUE

StorageInit ==
    /\ local \in BOOLEAN
    /\ Init /\ Store!Init
    /\ local => program = First

StorageNext ==
    \/ ~local /\ Next /\ UNCHANGED <<local, store>>
    \/ local /\ Store!Next /\ UNCHANGED <<local, vars>>

StorageSpec == StorageInit /\ [][StorageNext]_storage

(* Persist, Unpersist, Checkpoint and Stop never change what an RDD is, and  *)
(* a checkpoint that ReadCheckpoint accepts is complete.                     *)
StoredExact == Store!StoredExact
=============================================================================
