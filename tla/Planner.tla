------------------------------- MODULE Planner -------------------------------
(* PlanRDD: the lineage graph of an RDD becomes a list of stages, one per    *)
(* shuffle and one for the result, with the cached partitions each task can  *)
(* use and the text input splits the plan fixes.                             *)
EXTENDS RddGraph

Cached(g, i) == g[i].level \in {"memory", "memory_and_disk"}

(* Every RDD reached over dependencies of both kinds.                        *)
Ancestry(g, root) ==
    FoldLeft(LAMBDA seen, back :
                 LET i == root + 1 - back
                 IN  IF i \in seen THEN seen \cup {g[i].deps[k] : k \in DOMAIN g[i].deps} ELSE seen,
             {root}, [back \in 1..root |-> back])

(* cacheAcrossTasks: no shuffle anywhere above the RDD.                      *)
CacheAcrossTasks(g, root) == \A i \in Ancestry(g, root) : Narrow(g, i)

Shareable(g, i) == Cached(g, i) /\ CacheAcrossTasks(g, i)

(* containsShareableCache walks narrow dependencies without partitions.      *)
NarrowAncestry(g, root) ==
    FoldLeft(LAMBDA seen, back :
                 LET i == root + 1 - back
                 IN  IF i \in seen /\ Narrow(g, i)
                     THEN seen \cup {g[i].deps[k] : k \in DOMAIN g[i].deps} ELSE seen,
             {root}, [back \in 1..root |-> back])

ContainsShareableCache(g, root) == \E i \in NarrowAncestry(g, root) : Shareable(g, i)

CacheHints(g, count, root, pid) ==
    {v \in Visits(g, count, root, pid) : Shareable(g, v[1])}

(* PlanJob persists the output of a job that has a cache identity.           *)
PersistOutput(g, root, identity) ==
    IF identity /\ CacheAcrossTasks(g, root) /\ g[root].level = "none"
    THEN [g EXCEPT ![root].level = "memory"] ELSE g

-----------------------------------------------------------------------------
UniqueInts(ids) == FoldLeft(LAMBDA out, id : IF Contains(out, id) THEN out ELSE Append(out, id), <<>>, ids)

(* The planner: the stages so far and the stage of each shuffle met. A visit *)
(* of parentStages adds its stack, the RDDs seen and the ids collected.      *)
NewPlanner == [stages |-> <<>>, shuffleStages |-> <<>>]

NewStage(p, kind, rdd, parts, shuffle, reducers, parents, range) ==
    [id |-> Len(p.stages), kind |-> kind, rdd |-> rdd, parts |-> parts, shuffle |-> shuffle,
     reducers |-> reducers, parents |-> UniqueInts(parents), range |-> range, hints |-> <<>>]

RECURSIVE Drain(_, _, _)
RECURSIVE GetShuffleMapStage(_, _, _, _)

(* One dependency of the RDD on top of the stack.                            *)
FollowDep(g, count, w, cur, parent) ==
    IF Narrow(g, cur) THEN [w EXCEPT !.stack = Append(@, parent)]
    ELSE LET r == GetShuffleMapStage(g, count, w.planner, cur)
         IN  [w EXCEPT !.ids = Append(@, r.shuffleStages[cur]), !.planner = r]

Drain(g, count, w) ==
    IF w.stack = <<>> THEN w
    ELSE LET cur == Last(w.stack)
             popped == [w EXCEPT !.stack = Front(@), !.seen = @ \cup {cur}]
         IN  Drain(g, count,
                   IF cur \in w.seen THEN popped
                   ELSE FoldLeft(LAMBDA v, d : FollowDep(g, count, v, cur, d), popped, g[cur].deps))

ParentStages(g, count, p, root) ==
    Drain(g, count, [planner |-> p, stack |-> <<root>>, seen |-> {}, ids |-> <<>>])

(* A plausible slip: the stage is planned without looking for the one the    *)
(* shuffle already has.                                                      *)
PlanMapStage(g, count, p, shuffle) ==
    LET parent == g[shuffle].deps[1]
        w == ParentStages(g, count, p, parent)
        q == w.planner
        stage == NewStage(q, "shuffle_map", parent, count[parent], shuffle, g[shuffle].n, w.ids,
                          g[shuffle].sorted /\ g[shuffle].n > 1)
    IN  [stages |-> Append(q.stages, stage),
         shuffleStages |-> [s \in DOMAIN q.shuffleStages \cup {shuffle} |->
                               IF s = shuffle THEN stage.id ELSE q.shuffleStages[s]]]

GetShuffleMapStage(g, count, p, shuffle) ==
    IF shuffle \in DOMAIN p.shuffleStages THEN p ELSE PlanMapStage(g, count, p, shuffle)

-----------------------------------------------------------------------------
(* PlanRDD. A stage's hints are left empty when no task of it has any.       *)
StageHints(g, count, stage) ==
    LET hints == [p \in 1..stage.parts |-> CacheHints(g, count, stage.rdd, p - 1)]
    IN  IF ContainsShareableCache(g, stage.rdd) /\ \E p \in 1..stage.parts : hints[p] # {}
        THEN hints ELSE <<>>

(* captureInputSplits lists the spans of every text RDD above the root; an   *)
(* empty partition is listed without a path. A text RDD's place stands for   *)
(* its (source, call) key.                                                   *)
NoSpan == Span("", 0, 0)

InputSplits(partitions, call) ==
    FlattenSeq([p \in DOMAIN partitions |->
        LET spans == IF partitions[p] = <<>> THEN <<NoSpan>> ELSE partitions[p]
        IN  [s \in DOMAIN spans |-> [call |-> call, part |-> p - 1, span |-> spans[s]]]])

CaptureInputSplits(g, inputs, root) ==
    LET texts == SetToSortSeq({i \in Ancestry(g, root) : g[i].kind = "text"}, <)
    IN  FlattenSeq([k \in DOMAIN texts |-> InputSplits(inputs[texts[k]], texts[k])])

(* plannedTextPartitions puts the splits of one text RDD back together.      *)
Planned(splits, call) == \E k \in DOMAIN splits : splits[k].call = call

PlannedTextPartitions(splits, call) ==
    LET mine == SelectSeq(splits, LAMBDA s : s.call = call)
        ids == SetToSortSeq({mine[k].part : k \in DOMAIN mine}, <)
        files(id) == SelectSeq(mine, LAMBDA s : s.part = id /\ s.span.path # "")
    IN  [k \in DOMAIN ids |-> [f \in DOMAIN files(ids[k]) |-> files(ids[k])[f].span]]

PlanRDD(g, inputs, root) ==
    LET count == Partitions(g, inputs)
        w == ParentStages(g, count, NewPlanner, root)
        result == NewStage(w.planner, "result", root, count[root], 0, 0, w.ids, FALSE)
        stages == Append(w.planner.stages, result)
    IN  [root |-> root, count |-> count, splits |-> CaptureInputSplits(g, inputs, root),
         stages |-> [s \in DOMAIN stages |->
                        [stages[s] EXCEPT !.hints = StageHints(g, count, stages[s])]]]

(* fingerprintPlan hashes the specification and all the plan fixes.          *)
FingerprintPlan(spec, plan) == [spec |-> spec, stages |-> plan.stages, splits |-> plan.splits]
==============================================================================
