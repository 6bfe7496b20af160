---------------------------- MODULE MCLocalEngine ----------------------------
(* A small instance of LocalEngine: three keys over two reducers, whose      *)
(* tokens sort differently from the keys; at most four records; memory for   *)
(* one, two or three records; one open bucket file per map task.             *)
EXTENDS LocalEngine

CONSTANTS MaxRecords, MaxJoinRecords, MaxSaveRecords

Key == 1..3
MCHash == <<2, 1, 4>>
MCTokenOf == <<2, 3, 1>>
MCKeyBytes == [k \in 0..3 |-> IF k = 3 THEN 2 ELSE 1]
MCBigKeys == {3}

(* A list of records with these keys; values number them from "from".        *)
Records(keys, from) == [i \in 1..Len(keys) |-> [key |-> keys[i], val |-> <<from + i>>]]

KeyLists(n) == UNION {[1..k -> Key] : k \in 0..n}

Job(op, input, other, maps, memory, desc, fs, prior) ==
    [op |-> op, input |-> Records(input, 0), other |-> Records(other, 10), maps |-> maps,
     memory |-> memory, desc |-> desc, fs |-> fs, prior |-> prior]

MCJobs ==
    {Job(op, ks, <<>>, maps, 6, FALSE, "none", FALSE) :
        op \in {"reduce", "combine", "group", "sort"}, ks \in KeyLists(MaxRecords), maps \in {1, 3}}
    \cup {Job("reduce", ks, <<>>, maps, 9, FALSE, "none", FALSE) :
            ks \in KeyLists(MaxRecords), maps \in {1, 2}}
    \cup {Job("group", ks, <<>>, 2, 3, FALSE, "none", FALSE) : ks \in KeyLists(2)}
    \cup {Job("sort", ks, <<>>, 2, 6, TRUE, "none", FALSE) : ks \in KeyLists(MaxRecords)}
    \cup {Job(op, js[1], js[2], 2, 6, FALSE, "none", FALSE) : op \in Joins,
            js \in {p \in KeyLists(MaxJoinRecords) \X KeyLists(MaxJoinRecords) :
                        Len(p[1]) + Len(p[2]) <= MaxJoinRecords}}
    \cup {Job("repartition", [i \in 1..n |-> 1], <<>>, 2, 6, FALSE, fs, prior) :
            n \in 0..MaxSaveRecords, fs \in {"none", "local", "mem", "aws"}, prior \in BOOLEAN}
==============================================================================
