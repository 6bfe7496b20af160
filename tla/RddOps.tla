------------------------------- MODULE RddOps -------------------------------
(* The actions and the narrow transformations as operators over the records  *)
(* of an RDD's partitions: parts[i] is what Compute yields for partition i.  *)
EXTENDS Integers, Sequences, FiniteSets, SequencesExt

Collect(parts) == FlattenSeq(parts)

Count(parts) == FoldLeft(LAMBDA n, p : n + Len(p), 0, parts)

(* The user's combining function; see LocalEngine.                           *)
Combine(a, b) == a \o b

(* ReduceIterator: <<>> stands for "no value".                               *)
ReduceIterator(p) == IF p = <<>> THEN <<>> ELSE <<FoldLeft(Combine, Head(p), Tail(p))>>

(* Reduce and mergeTreeResults without an identity: the partials of the      *)
(* nonempty partitions, combined in partition order.                         *)
Reduce(parts) ==
    ReduceIterator(FlattenSeq([i \in DOMAIN parts |-> ReduceIterator(parts[i])]))

(* Fold, TreeAggregate and mergeTreeResults with an identity: every          *)
(* partition starts from zero, and so does the combination.                  *)
TreeAggregate(zero, parts) ==
    FoldLeft(Combine, zero, [i \in DOMAIN parts |-> FoldLeft(Combine, zero, parts[i])])

(* Take: partitions are read in order until n records are there.             *)
Take(parts, n) ==
    FoldLeft(LAMBDA acc, p : acc \o SubSeq(p, 1, IF Len(p) < n - Len(acc) THEN Len(p)
                                                ELSE n - Len(acc)), <<>>, parts)

(* Lookup: only partition "at" is read when the RDD has a partitioner, all   *)
(* partitions when at = -1.                                                  *)
Lookup(parts, key, at) ==
    LET read == IF at = -1 THEN Collect(parts) ELSE parts[at + 1]
        hits == SelectSeq(read, LAMBDA e : e.key = key)
    IN  [i \in 1..Len(hits) |-> hits[i].val]

(* ZipWithIndex: a partition starts at the number of records of the earlier  *)
(* ones.                                                                     *)
ZipWithIndex(parts) ==
    [i \in DOMAIN parts |->
        LET offset == Count(SubSeq(parts, 1, i - 1))
        IN  [n \in 1..Len(parts[i]) |-> <<parts[i][n], offset + n - 1>>]]

(* newCoalescedRDD: parent i is read by partition i % n.                     *)
CoalesceParents(len, n, i) == SelectSeq([k \in 1..len |-> k], LAMBDA k : (k - 1) % n = i - 1)

Coalesce(parts, asked) ==
    IF asked >= Len(parts) THEN parts
    ELSE [i \in 1..asked |->
            LET from == CoalesceParents(Len(parts), asked, i)
            IN  FlattenSeq([k \in DOMAIN from |-> parts[from[k]]])]

(* newCartesianRDD: partition pid pairs left pid / n2 with right pid % n2.   *)
Cartesian(left, right) ==
    LET n2 == Len(right)
    IN  [pid \in 1..(Len(left) * n2) |->
            LET a == left[((pid - 1) \div n2) + 1]
                b == right[((pid - 1) % n2) + 1]
            IN  FlattenSeq([i \in DOMAIN a |-> [j \in DOMAIN b |-> <<a[i], b[j]>>]])]
=============================================================================
