---------------------------- MODULE MCOutputCommit ----------------------------
(* Small instances of OutputCommit. *)
EXTENDS OutputCommit, TLC

JobSymmetry == Permutations(Jobs)
=============================================================================
