----------------------------- MODULE LineageSpec -----------------------------
(***************************************************************************)
(* What the lineage scheduler promises, with waves, retries, sampling and  *)
(* recursion left out: results are accepted only on top of a complete set  *)
(* of accepted parents, the loss of a map withdraws it together with       *)
(* exactly the results derived from it, at most RecoveryLimit losses are   *)
(* repaired, and the job succeeds only when every result of the plan       *)
(* stands at the same time.                                                *)
(***************************************************************************)
EXTENDS Integers

CONSTANTS Tasks,          \* <<stage, partition>> pairs
          Reads(_, _),    \* Reads(k, u): task k reads the output of map u
          RecoveryLimit

VARIABLES done,    \* the tasks with an accepted result
          losses,  \* repaired losses
          status   \* "running", "ok" or "failed"

avars == <<done, losses, status>>

AInit ==
  /\ done = {}
  /\ losses = 0
  /\ status = "running"

(* The callback told of a result may end the job. *)
Accept(k) ==
  /\ status = "running"
  /\ k \notin done
  /\ \A u \in Tasks : Reads(k, u) => u \in done
  /\ done' = done \cup {k}
  /\ status' \in {"running", "failed"}
  /\ UNCHANGED losses

(* The results that stand without map u: the largest subset that does not  *)
(* hold u and in which every result reads only results of the subset.      *)
Grounded(S, u) == u \notin S /\ \A k \in S : \A m \in done : Reads(k, m) => m \in S
Standing(u) == UNION {S \in SUBSET done : Grounded(S, u)}

Lose(u) ==
  /\ status = "running"
  /\ u \in done
  /\ losses < RecoveryLimit
  /\ done' = Standing(u)
  /\ losses' = losses + 1
  /\ UNCHANGED status

Succeed ==
  /\ status = "running"
  /\ done = Tasks
  /\ status' = "ok"
  /\ UNCHANGED <<done, losses>>

Abort ==
  /\ status = "running"
  /\ status' = "failed"
  /\ UNCHANGED <<done, losses>>

ANext ==
  \/ \E k \in Tasks : Accept(k)
  \/ \E u \in Tasks : Lose(u)
  \/ Succeed
  \/ Abort

ASpec == AInit /\ [][ANext]_avars
=============================================================================
