------------------------------ MODULE MCWorker ------------------------------
(* Small instances of Worker. *)
EXTENDS WorkerInv, TLC

CONSTANTS j1, j2, j3, t1, t2, t3, c1, f1

\* two attempts of one job, with no named cache
OneJobOf == (t1 :> j1) @@ (t2 :> j1)
OneIdentityOf == j1 :> NoIdentity
OneFingerprintOf == j1 :> f1

\* three jobs: two that reuse the same named cache, one with its own
ThreeJobOf == (t1 :> j1) @@ (t2 :> j2) @@ (t3 :> j3)
ThreeIdentityOf == (j1 :> c1) @@ (j2 :> c1) @@ (j3 :> NoIdentity)
ThreeFingerprintOf == [j \in {j1, j2, j3} |-> f1]
=============================================================================
