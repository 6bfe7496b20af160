----------------------------- MODULE MCScheduler -----------------------------
(***************************************************************************)
(* Plans for model checking the scheduler.                                 *)
(***************************************************************************)
EXTENDS SchedulerInv

(* A range sort between two shuffles. *)
ChainPartitions == <<2, 2, 1>>
ChainParents == <<{}, {1}, {2}>>

(* Stages 2 and 4 read stage 1, stage 3 reads the range sort of stage 2,   *)
(* and the result reads both branches: a map of stage 1 found missing by   *)
(* stage 4 withdraws the finished branch of stages 2 and 3.                *)
BranchPartitions == <<2, 2, 1, 1, 1>>
BranchParents == <<{}, {1}, {2}, {1}, {3, 4}>>
=============================================================================
