----------------------------- MODULE SortedRuns -----------------------------
(* The algorithms of the reduce side as operators: the runs of externalSort, *)
(* the groups of external_aggregate.go, the merge of Cogroup and the joins   *)
(* built on it. A record is [key, val]; order maps a key to its rank.        *)
EXTENDS Integers, Sequences, SequencesExt

NoRun == <<>>

(* sort.SliceStable over a chunk.                                            *)
InsertStable(order, s, x) ==
    LET after(e) == order[x.key] < order[e.key]
    IN  SelectSeq(s, LAMBDA e : ~after(e)) \o <<x>> \o SelectSeq(s, after)

SortStable(order, s) ==
    FoldLeft(LAMBDA acc, x : InsertStable(order, acc, x), <<>>, s)

(* merge: the left run wins unless the head of the right run is smaller.     *)
Merge(order, l, r) ==
    LET m[i \in 1..(Len(l) + 1), j \in 1..(Len(r) + 1)] ==
            IF j > Len(r) THEN SubSeq(l, i, Len(l))
            ELSE IF i <= Len(l) /\ order[l[i].key] <= order[r[j].key] THEN <<l[i]>> \o m[i + 1, j]
            ELSE <<r[j]>> \o m[i, j + 1]
    IN  m[1, 1]

(* push: the run climbs the levels, merging with the earlier run it finds on *)
(* each one, until a level is free.                                          *)
Push(order, levels, run) ==
    LET free == {i \in 1..Len(levels) : levels[i] = NoRun} \cup {Len(levels) + 1}
        top  == CHOOSE i \in free : \A j \in free : i <= j
        full == FoldLeft(LAMBDA acc, lower : Merge(order, lower, acc),
                         run, SubSeq(levels, 1, top - 1))
    IN  [i \in 1..(IF top > Len(levels) THEN top ELSE Len(levels)) |->
            IF i < top THEN NoRun ELSE IF i = top THEN full ELSE levels[i]]

(* The final merge of externalSort: from the highest level, which holds the  *)
(* earliest records, down.                                                   *)
FinalRun(order, levels) ==
    LET runs == Reverse(SelectSeq(levels, LAMBDA l : l # NoRun))
    IN  IF runs = <<>> THEN <<>>
        ELSE FoldLeft(LAMBDA acc, lower : Merge(order, acc, lower), Head(runs), Tail(runs))

(* How many records at the head of a sorted stream share the first key: the  *)
(* loop of aggregatePairs and boundedGroups up to its pending record.        *)
GroupLength(s) ==
    LET other == {i \in 1..Len(s) : s[i].key # s[1].key} \cup {Len(s) + 1}
    IN  (CHOOSE i \in other : \A j \in other : i <= j) - 1

(* A group as boundedGroups returns it: the key and its values.              *)
Group(s) == [key |-> s[1].key, val |-> [i \in 1..GroupLength(s) |-> s[i].val]]

Rest(s) == SubSeq(s, GroupLength(s) + 1, Len(s))

(* One call of Cogroup's iterator over two streams of groups: the group it   *)
(* returns and what is left of the streams. token orders the keys.           *)
CogroupNext(token, a, b) ==
    IF a # <<>> /\ b # <<>> /\ a[1].key = b[1].key
    THEN [out |-> [key |-> a[1].key, val |-> <<Group(a).val, Group(b).val>>],
          a |-> Rest(a), b |-> Rest(b)]
    ELSE IF b = <<>> \/ (a # <<>> /\ token[a[1].key] < token[b[1].key])
    THEN [out |-> [key |-> a[1].key, val |-> <<Group(a).val, <<>> >>],
          a |-> Rest(a), b |-> b]
    ELSE [out |-> [key |-> b[1].key, val |-> << <<>>, Group(b).val>>],
          a |-> a, b |-> Rest(b)]

(* What the joins emit for a cogroup; Nil is the nil pointer of an absent    *)
(* side. The inner loop runs over the right values.                          *)
Nil == <<"nil">>

Pairs(k, vs, ws) ==
    [n \in 1..(Len(vs) * Len(ws)) |->
        [key |-> k, val |-> << vs[((n - 1) \div Len(ws)) + 1], ws[((n - 1) % Len(ws)) + 1] >>]]

NewJoin(g) == Pairs(g.key, g.val[1], g.val[2])

NewLeftOuterJoin(g) == IF g.val[2] = <<>> THEN Pairs(g.key, g.val[1], <<Nil>>) ELSE NewJoin(g)

NewFullOuterJoin(g) ==
    IF g.val[1] = <<>> THEN Pairs(g.key, <<Nil>>, g.val[2]) ELSE NewLeftOuterJoin(g)

NewSubtractByKey(g) ==
    IF g.val[2] # <<>> THEN <<>>
    ELSE [i \in 1..Len(g.val[1]) |-> [key |-> g.key, val |-> g.val[1][i]]]

(* RightOuterJoin is the left join of the swapped inputs with its pairs      *)
(* swapped back.                                                             *)
SwapPair(rec) == [rec EXCEPT !.val = <<rec.val[2], rec.val[1]>>]
=============================================================================
