------------------------------ MODULE RddGraph -------------------------------
(* The lineage graph of RDDs, what a dependency says a partition reads, and  *)
(* the planner that cuts the graph into stages. A graph is a sequence of     *)
(* RDDs, each after its parents; an RDD is                                   *)
(*   [kind, deps, n, uses, level]                                            *)
(* where deps lists its parents, n is the number of partitions it asks for,  *)
(* uses the pipeline values its function reads and level its storage level.  *)
(* A "shuffled" RDD has one shuffle dependency, known by the RDD's own place *)
(* in the graph. The number of partitions of a text input is not in the      *)
(* graph: inputs maps each text RDD to its planned partitions.               *)
EXTENDS TextInput, FiniteSetsExt

OneToOne == {"map", "cogroup", "zip", "zippartitions"}

(* The operators that return their first parent's partitions as their own.   *)
Borrowing == {"map", "zip", "zipindex"}

(* Go's division and remainder truncate towards zero.                        *)
Quotient(a, b) == IF a < 0 THEN -((-a) \div b) ELSE a \div b

Remainder(a, b) == a - b * Quotient(a, b)

(* len(rdd.Partitions()) for every RDD of the graph.                         *)
Partitions(g, inputs) ==
    LET count[i \in DOMAIN g] ==
            LET r == g[i]
                d(k) == count[r.deps[k]]
            IN  CASE r.kind = "text" -> Len(inputs[i])
                  [] r.kind \in {"data", "shuffled"} -> r.n
                  [] r.kind \in OneToOne \cup {"zipindex"} -> d(1)
                  [] r.kind = "union" -> FoldLeft(LAMBDA s, p : s + count[p], 0, r.deps)
                  [] r.kind = "coalesce" -> IF r.n > d(1) THEN d(1) ELSE r.n
                  [] r.kind = "cartesian" -> d(1) * d(2)
    IN  count

(* Where the k-th parent's partitions begin in a union.                      *)
UnionStart(g, count, i, k) ==
    FoldLeft(LAMBDA s, p : s + count[p], 0, SubSeq(g[i].deps, 1, k - 1))

(* partitionMapping of newCoalescedRDD.                                      *)
PartitionMapping(count, parent, n, pid) == {q \in 0..(count[parent] - 1) : q % n = pid}

(* dep.GetParents(pid) of a narrow dependency: the parent partitions it      *)
(* names, whether or not the parent has them.                                *)
UnionParents(g, count, i, k, pid) == {pid - UnionStart(g, count, i, k)}

CoalesceParents(g, count, i, pid) ==
    IF pid < count[i] THEN PartitionMapping(count, g[i].deps[1], count[i], pid) ELSE {pid}

ZipWithIndexParents(pid) == 0..pid

CartesianParents(g, count, i, k, pid) ==
    LET n2 == count[g[i].deps[2]] IN IF k = 1 THEN {Quotient(pid, n2)} ELSE {Remainder(pid, n2)}

GetParents(g, count, i, k, pid) ==
    CASE g[i].kind \in OneToOne -> {pid}
      [] g[i].kind = "union" -> UnionParents(g, count, i, k, pid)
      [] g[i].kind = "coalesce" -> CoalesceParents(g, count, i, pid)
      [] g[i].kind = "zipindex" -> ZipWithIndexParents(pid)
      [] g[i].kind = "cartesian" -> CartesianParents(g, count, i, k, pid)

(* The dependencies that index a slice with pid and so panic outside it.     *)
GetParentsPanics(g, count, i, pid) ==
    \/ g[i].kind = "coalesce" /\ pid < 0
    \/ g[i].kind = "zipindex" /\ (pid < -1 \/ pid >= count[i])
    \/ g[i].kind = "zippartitions" /\ pid \notin 0..(count[i] - 1)

(* The partitions a walk over narrow dependencies visits from a root: the    *)
(* graph is ordered, so one pass from the root down is enough.               *)
Narrow(g, i) == g[i].kind # "shuffled"

Visits(g, count, root, pid) ==
    FoldLeft(LAMBDA seen, back :
                 LET i == root + 1 - back
                     here == {v \in seen : v[1] = i}
                 IN  IF ~Narrow(g, i) THEN seen
                     ELSE seen \cup UNION {UNION {{<<g[i].deps[k], q>> : q \in GetParents(g, count, i, k, v[2])} :
                                                     k \in DOMAIN g[i].deps} : v \in here},
             {<<root, pid>>}, [back \in 1..root |-> back])

WalkPanics(g, count, root, pid) ==
    \E v \in Visits(g, count, root, pid) : GetParentsPanics(g, count, v[1], v[2])

(* A plausible slip: the task's own partition selects the bucket, as if      *)
(* every narrow dependency were one to one.                                  *)
RequiredByIdentity(g, count, root, pid) ==
    {<<v[1], IF pid < g[v[1]].n THEN pid ELSE 0>> :
        v \in {w \in Visits(g, count, root, pid) : ~Narrow(g, w[1])}}

(* requiredShuffleBuckets: the buckets a task downloads before it computes.  *)
RequiredBuckets(g, count, root, pid) ==
    UNION {LET n == g[v[1]].n IN
           IF n = 1 THEN {<<v[1], 0>>}
           ELSE IF v[2] \in 0..(n - 1) THEN {<<v[1], v[2]>>}
           ELSE {<<v[1], b>> : b \in 0..(n - 1)} :
           v \in {w \in Visits(g, count, root, pid) : ~Narrow(g, w[1])}}

-----------------------------------------------------------------------------
(* A compute function is called with a partition object, which may belong to *)
(* another RDD: a borrowing operator has its first parent's partitions and   *)
(* hands the one it is given to all its parents.                             *)
Owner(g) ==
    LET owner[i \in DOMAIN g] == IF g[i].kind \in Borrowing THEN owner[g[i].deps[1]] ELSE i
    IN  owner

(* What the compute functions really read: the parent partitions on which    *)
(* RDD i calls Compute when given partition pid.                             *)
UnionComputes(g, count, i, pid) ==
    {<<g[i].deps[k], pid - UnionStart(g, count, i, k)>> :
        k \in {j \in DOMAIN g[i].deps : /\ pid >= UnionStart(g, count, i, j)
                                         /\ pid < UnionStart(g, count, i, j + 1)}}

CoalesceComputes(g, count, i, pid) ==
    {<<g[i].deps[1], q>> : q \in PartitionMapping(count, g[i].deps[1], count[i], pid)}

ZipWithIndexComputes(g, i, pid) == {<<g[i].deps[1], q>> : q \in 0..pid}

(* A product reads nothing when the partition is not one of a product; the   *)
(* two indices in it are those of the product it belongs to.                 *)
CartesianComputes(g, count, i, pid, owner) ==
    LET n2 == count[g[owner].deps[2]]
        pair == << <<g[i].deps[1], pid \div n2>>, <<g[i].deps[2], pid % n2>> >>
    IN  IF g[owner].kind = "cartesian" /\ \A k \in {1, 2} : pair[k][2] < count[pair[k][1]]
        THEN Range(pair) ELSE {}

(* A call of Compute is <<RDD, partition, owner of the partition>>.          *)
Call(g, root, pid) == <<root, pid, Owner(g)[root]>>

Computes(g, count, call) ==
    LET i == call[1]
        pid == call[2]
        read == CASE g[i].kind \in {"text", "data", "shuffled"} -> {}
                  [] g[i].kind \in OneToOne -> {<<g[i].deps[k], pid>> : k \in DOMAIN g[i].deps}
                  [] g[i].kind = "union" -> UnionComputes(g, count, i, pid)
                  [] g[i].kind = "coalesce" -> CoalesceComputes(g, count, i, pid)
                  [] g[i].kind = "zipindex" -> ZipWithIndexComputes(g, i, pid)
                  [] g[i].kind = "cartesian" -> CartesianComputes(g, count, i, pid, call[3])
        handed(v) == g[i].kind \in Borrowing /\ v[2] = pid
    IN  {IF handed(v) THEN <<v[1], v[2], call[3]>> ELSE Call(g, v[1], v[2]) : v \in read}

Computed(g, count, root, pid) ==
    FoldLeft(LAMBDA seen, back :
                 LET i == root + 1 - back
                 IN  seen \cup UNION {Computes(g, count, v) : v \in {w \in seen : w[1] = i}},
             {Call(g, root, pid)}, [back \in 1..root |-> back])

(* A text RDD asserts that the partition is a text's and panics otherwise.   *)
ComputePanics(g, count, root, pid) ==
    \E v \in Computed(g, count, root, pid) : g[v[1]].kind = "text" /\ g[v[3]].kind # "text"

(* The shuffle buckets a task reads: a shuffled RDD reads the bucket of its  *)
(* partition from every map output.                                          *)
ReadBuckets(g, count, root, pid) ==
    {<<v[1], v[2]>> : v \in {w \in Computed(g, count, root, pid) : ~Narrow(g, w[1])}}
==============================================================================
