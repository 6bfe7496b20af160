------------------------------ MODULE MCJobPlan ------------------------------
(* Small pipelines for TLC. Each is a lineage graph in which an RDD names    *)
(* its parents by their places.                                              *)
EXTENDS JobPlan

Rdd(kind, deps, n) ==
    [kind |-> kind, deps |-> deps, n |-> n, uses |-> {}, level |-> "none", sorted |-> FALSE]

Using(rdd, values) == [rdd EXCEPT !.uses = values]
Persisted(rdd) == [rdd EXCEPT !.level = "memory"]

Pipeline(graph, reductions, asked, identity) ==
    [graph |-> graph, reductions |-> reductions, final |-> Len(graph), asked |-> asked, identity |-> identity]

(* The lines of a text, their partial reduction, and a final map that uses it. *)
Scan(asked) ==
    Pipeline(<<Persisted(Rdd("text", <<>>, 0)), Rdd("map", <<1>>, 0), Using(Rdd("map", <<1>>, 0), {0})>>,
             <<2>>, asked, TRUE)

(* A grouped text, counted and sorted into fewer partitions.                 *)
Regroup ==
    Pipeline(<<Rdd("text", <<>>, 0), Rdd("shuffled", <<1>>, 3), Rdd("map", <<2>>, 0),
               [Using(Rdd("shuffled", <<3>>, 2), {0}) EXCEPT !.sorted = TRUE],
               Rdd("coalesce", <<2>>, 2), Rdd("zip", <<4, 5>>, 0)>>,
             <<3>>, 2, FALSE)

(* Both sides of a join come from one shuffle.                               *)
Diamond ==
    Pipeline(<<Rdd("text", <<>>, 0), Rdd("shuffled", <<1>>, 2), Rdd("map", <<2>>, 0),
               Rdd("shuffled", <<3>>, 2), Rdd("shuffled", <<2>>, 2), Rdd("cogroup", <<4, 5>>, 0)>>,
             <<>>, 2, FALSE)

(* Numbered records of a coalesced shuffle.                                  *)
Numbered ==
    Pipeline(<<Rdd("data", <<>>, 2), Rdd("shuffled", <<1>>, 3), Rdd("coalesce", <<2>>, 2),
               Rdd("zipindex", <<3>>, 0)>>,
             <<>>, 2, FALSE)

(* A product of a shuffle and a cached input.                                *)
Product ==
    Pipeline(<<Rdd("data", <<>>, 2), Rdd("shuffled", <<1>>, 2), Persisted(Rdd("data", <<>>, 2)),
               Rdd("cartesian", <<2, 3>>, 0)>>,
             <<>>, 2, TRUE)

(* A union of a text, a shuffle and the text again; the reduction reads a    *)
(* text the final graph does not.                                            *)
Merged ==
    Pipeline(<<Rdd("text", <<>>, 0), Rdd("text", <<>>, 0), Rdd("map", <<1>>, 0),
               Rdd("shuffled", <<2>>, 2), Using(Rdd("map", <<2>>, 0), {0}), Rdd("union", <<4, 5>>, 0)>>,
             <<3>>, 2, FALSE)

(* The lines of a text zipped or chained with what a map makes of them, and  *)
(* with a shuffle before or after them; the zipped sides always have as many *)
(* partitions as each other.                                                 *)
Paired ==
    Pipeline(<<Rdd("text", <<>>, 0), Rdd("map", <<1>>, 0), Rdd("zip", <<1, 2>>, 0)>>, <<>>, 2, FALSE)

Chained == [Paired EXCEPT !.graph[3].kind = "zippartitions"]

ZippedText(deps) ==
    Pipeline(<<Rdd("text", <<>>, 0), Rdd("data", <<>>, 2), Rdd("shuffled", <<2>>, 1), Rdd("zip", deps, 0)>>,
             <<>>, 1, FALSE)

(* Unions whose second parent is a coalesced shuffle.                        *)
UnionPrograms ==
    {Pipeline(<<Rdd("data", <<>>, 2), Rdd("shuffled", <<1>>, 2), Rdd("shuffled", <<1>>, 3),
                Rdd("coalesce", <<3>>, 2), Rdd("union", <<2, 4>>, 0)>>, <<>>, 2, FALSE)}

(* A union of a numbered RDD; one with a cached parent, as the final graph   *)
(* and as that of a reduction.                                               *)
NumberedUnion ==
    Pipeline(<<Rdd("data", <<>>, 2), Rdd("zipindex", <<1>>, 0), Rdd("union", <<2, 1>>, 0)>>, <<>>, 2, FALSE)

CachedUnion ==
    Pipeline(<<Persisted(Rdd("data", <<>>, 2)), Rdd("data", <<>>, 3), Rdd("coalesce", <<2>>, 2),
               Rdd("union", <<1, 3>>, 0)>>, <<>>, 2, FALSE)

ReducedUnion == [CachedUnion EXCEPT !.graph = Append(@, Using(Rdd("map", <<1>>, 0), {0})),
                                    !.reductions = <<4>>, !.final = 5]

MCPrograms ==
    {Scan(2), Scan(3), Regroup, Diamond, Numbered, Product, Merged, Paired, Chained, ZippedText(<<1, 3>>),
     ZippedText(<<3, 1>>), NumberedUnion, CachedUnion, ReducedUnion} \cup UnionPrograms

(* An empty file, one whose last line has no newline, one with an empty line *)
(* and one with a line too long to read.                                     *)
MCFiles ==
    << [path |-> "a", content |-> <<>>],
       [path |-> "b", content |-> <<1, NL, 1, 1, NL, 1>>],
       [path |-> "c", content |-> <<1, NL, NL, 1, NL>>],
       [path |-> "d", content |-> <<1, 1, 1, NL>>] >>
==============================================================================
