----------------------------- MODULE MCStorage -----------------------------
(* The programs with which the stores of partitions are checked: jobs of an  *)
(* uncached and of a cached input under up to three faults, and of a         *)
(* reusable one, twice without faults and once with one.                     *)
EXTENDS Storage

Program(cached, reuse, attempts, bounds) ==
    [cached |-> cached, reuse |-> reuse, attempts |-> attempts, jobs |-> bounds[1], faults |-> bounds[2]]

MCPrograms ==
    {Program(FALSE, FALSE, 1, <<1, 1>>), Program(FALSE, FALSE, 2, <<1, 3>>),
     Program(FALSE, FALSE, 2, <<2, 2>>), Program(TRUE, FALSE, 2, <<1, 3>>),
     Program(TRUE, TRUE, 2, <<2, 0>>), Program(TRUE, TRUE, 2, <<1, 1>>)}
=============================================================================
