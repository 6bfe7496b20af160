---------------------------- MODULE Partitioning ----------------------------
(* Where a record goes: the slices of a parallelized collection, the        *)
(* partitioners of a shuffle, and the boundaries of a range sort. A key is   *)
(* represented by an integer, its place in the order of the sort's less      *)
(* function; partitions are numbered from 0 as in the code.                  *)
EXTENDS Integers, Sequences, FiniteSets, SequencesExt

(* Start of slice i when n elements are cut into k slices (sliceData).       *)
SliceStart(i, n, k) == (i * n) \div k

(* The number of slices sliceData makes of n > 0 elements.                   *)
SliceCount(n, asked) == IF asked <= 0 THEN 1 ELSE IF asked > n THEN n ELSE asked

(* sliceData: contiguous slices; an empty collection has one empty slice.    *)
SliceData(data, asked) ==
    LET k == SliceCount(Len(data), asked)
    IN  IF data = <<>> THEN << <<>> >>
        ELSE [i \in 1..k |-> SubSeq(data, SliceStart(i - 1, Len(data), k) + 1,
                                          SliceStart(i, Len(data), k))]

(* HashPartitioner.GetPartition, over the 32-bit FNV hash of the key.        *)
HashPartition(hash, n) == hash % n

(* RangePartitioner.GetPartition: sort.Search finds the first boundary above *)
(* the key; without boundaries everything goes to partition 0.               *)
RangePartition(key, bounds, n) ==
    LET above == {i \in 1..Len(bounds) : key < bounds[i]}
        first == IF above = {} THEN Len(bounds)
                 ELSE (CHOOSE i \in above : \A j \in above : i <= j) - 1
    IN  IF first >= n THEN n - 1 ELSE first

(* PartitionIdPassthrough.GetPartition.                                      *)
PassthroughPartition(key, n) == IF key \in 0..(n - 1) THEN key ELSE 0

(* selectRangeBounds: n-1 evenly spaced sample keys, duplicates retained.    *)
(* "sorted" is the sample after its stable sort.                             *)
SelectRangeBounds(sorted, n) ==
    IF sorted = <<>> \/ n <= 1 THEN <<>>
    ELSE [p \in 1..(n - 1) |-> sorted[((p * Len(sorted)) \div n) + 1]]

(* The reservoirs that may result when the keys are offered one by one to a  *)
(* reservoir of cap slots: the slot the pseudo-random generator of           *)
(* sampleSortPartition and appendSortSamples picks is any slot, or none.     *)
Offer(samples, key, cap) ==
    IF Len(samples) < cap THEN {Append(samples, key)}
    ELSE {samples} \cup {[samples EXCEPT ![j] = key] : j \in 1..cap}

Reservoirs(samples, keys, cap) ==
    FoldLeft(LAMBDA S, key : UNION {Offer(s, key, cap) : s \in S}, {samples}, keys)
=============================================================================
