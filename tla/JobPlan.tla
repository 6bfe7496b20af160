------------------------------- MODULE JobPlan -------------------------------
(* A pipeline on the driver and its tasks on workers. The driver plans the   *)
(* final graph, fixing the text input splits; then each reduction runs as a  *)
(* job of its own whose merged value is broadcast to the later phases, and   *)
(* last the final job runs. Every task rebuilds the graph on a worker from   *)
(* what the driver shipped, compares fingerprints, downloads the buckets it  *)
(* was found to need and computes its partition. Files appear in and vanish  *)
(* from the input directory meanwhile. A record is followed by its origin,   *)
(* [rdd, path, at]: the source RDD and the line or slot it comes from.       *)
EXTENDS Planner, TLC

CONSTANTS
    Programs,      \* pipelines: [graph, reductions, final, asked, identity]
    Files,         \* the files the directory may hold, by path: [path, content]
    MaxRecordBytes,
    MaxAttempts,   \* attempts of a task before its job fails
    MaxChanges     \* how often the directory changes: a bound of the model

VARIABLES
    program,       \* the registered pipeline
    present,       \* the files now in the directory, by index
    changes,       \* how often the directory changed
    spec,          \* JobSpec of the pipeline: the input splits and broadcasts
    phase,         \* reductions run so far; the final job comes after them
    job,           \* the running job's plan, what it ships, its finished tasks
    status,
    listed         \* history: the files each text RDD was planned over

vars == <<program, present, changes, spec, phase, job, status, listed>>

Graph == program.graph
Texts == {i \in DOMAIN Graph : Graph[i].kind = "text"}
Final == phase = Len(program.reductions)
Root == IF Final THEN program.final ELSE program.reductions[phase + 1]

NoJob == [plan |-> <<>>, splits |-> <<>>, done |-> <<>>, tries |-> <<>>]

-----------------------------------------------------------------------------
(* What collectTextFiles may return: the files in the directory when it is   *)
(* listed, each with its size, or an error, because the listing failed or    *)
(* because one of them was gone when its size was asked for.                 *)
CollectTextFiles ==
    LET there == SetToSortSeq(present, <)
        found == [k \in DOMAIN there |->
                     [path |-> Files[there[k]].path, size |-> Len(Files[there[k]].content)]]
    IN  {[err |-> FALSE, files |-> found], [err |-> TRUE, files |-> <<>>]}

(* A text RDD takes its planned partitions when the context has them and     *)
(* lists the directory otherwise, with the given outcome.                    *)
TextPartitions(splits, listings) ==
    [i \in Texts |-> IF Planned(splits, i) THEN PlannedTextPartitions(splits, i)
                     ELSE TextInputPartitions(listings[i], program.asked)]

PlanJob(splits, listings, root) ==
    PlanRDD(PersistOutput(Graph, root, program.identity), TextPartitions(splits, listings), root)

(* The search for the cached partitions of a task indexes outside a list;    *)
(* nothing recovers the panic on the driver.                                 *)
PlanPanics(plan) ==
    LET g == PersistOutput(Graph, plan.root, program.identity)
    IN  \E s \in Range(plan.stages) :
           /\ ContainsShareableCache(g, s.rdd)
           /\ \E p \in 0..(s.parts - 1) : WalkPanics(g, plan.count, s.rdd, p)

Fingerprint(plan) == FingerprintPlan([phase |-> phase, broadcasts |-> spec.broadcasts], plan)

-----------------------------------------------------------------------------
(* What a partition computes: the origins of its records, in order.          *)
Content(path) == Files[CHOOSE f \in DOMAIN Files : Files[f].path = path].content

Lines(i, spans) ==
    FlattenSeq([s \in DOMAIN spans |->
        LET starts == SetToSortSeq(LinesRead(Content(spans[s].path), spans[s].offset, spans[s].length), <)
        IN  [k \in DOMAIN starts |-> [rdd |-> i, path |-> spans[s].path, at |-> starts[k]]]])

(* The records of bucket b of a shuffle, from every map output in order.     *)
StageOf(plan, shuffle) == CHOOSE s \in Range(plan.stages) : s.shuffle = shuffle

Bucket(plan, done, shuffle, b) ==
    LET stage == StageOf(plan, shuffle)
    IN  FlattenSeq([m \in 1..stage.parts |-> done[<<stage.id, m - 1>>][b + 1]])

(* Zip pairs records until one side ends.                                    *)
ZipRecords(left, right) ==
    LET m == IF Len(left) < Len(right) THEN Len(left) ELSE Len(right)
    IN  SubSeq(left, 1, m) \o SubSeq(right, 1, m)

(* A text RDD reads the spans of the partition it is given, which under Zip  *)
(* may be those of another text RDD.                                         *)
RECURSIVE Compute(_, _, _, _)
Compute(plan, inputs, done, call) ==
    LET i == call[1]
        pid == call[2]
        r == Graph[i]
        parents == SetToSortSeq(Computes(Graph, plan.count, call),
                                LAMBDA v, w : v[1] < w[1] \/ (v[1] = w[1] /\ v[2] < w[2]))
        of(k) == Compute(plan, inputs, done, parents[k])
        all == FlattenSeq([k \in DOMAIN parents |-> of(k)])
    IN  CASE r.kind = "text" -> Lines(i, inputs[call[3]][pid + 1])
          [] r.kind = "data" -> << [rdd |-> i, path |-> "", at |-> pid] >>
          [] r.kind = "shuffled" -> Bucket(plan, done, i, pid)
          [] r.kind = "zipindex" -> of(Len(parents))
          [] r.kind = "cartesian" -> IF \E k \in DOMAIN parents : of(k) = <<>> THEN <<>> ELSE all
          [] r.kind = "zip" -> ZipRecords(of(1), of(2))
          [] OTHER -> all

(* A record's reducer: any fixed function of the record does.                *)
ReducerOf(record, n) == record.at % n

MapOutput(records, n) ==
    [b \in 1..n |-> SelectSeq(records, LAMBDA r : ReducerOf(r, n) = b - 1)]

-----------------------------------------------------------------------------
(* ExecuteTaskContext on a worker for task <<stage id, partition>>.          *)
Stage(plan, k) == plan.stages[k[1] + 1]

SpansOf(plan, inputs, k) ==
    UNION {Range(inputs[v[3]][v[2] + 1]) :
           v \in {w \in Computed(Graph, plan.count, Stage(plan, k).rdd, k[2]) : Graph[w[1]].kind = "text"}}

Missing(spans) ==
    \E s \in spans : s.length > 0 /\ \A f \in present : Files[f].path # s.path

TooLong(spans) ==
    \E s \in spans : \E l \in LinesRead(Content(s.path), s.offset, s.length) :
        LineBytes(Content(s.path), l) > MaxRecordBytes

(* PipelineValue.Value in a function of the task.                            *)
LacksBroadcast(plan, k) ==
    \E v \in Computed(Graph, plan.count, Stage(plan, k).rdd, k[2]) :
        \E u \in Graph[v[1]].uses : \A b \in DOMAIN spec.broadcasts : spec.broadcasts[b].index # u

(* Why the task fails now, or "none".                                        *)
TaskError(mine, inputs, k) ==
    LET root == Stage(mine, k).rdd
        spans == SpansOf(mine, inputs, k)
    IN  CASE Fingerprint(mine) # Fingerprint(job.plan) -> "fingerprint"
          [] WalkPanics(Graph, mine.count, root, k[2]) -> "panic"
          [] ~(ReadBuckets(Graph, mine.count, root, k[2])
                  \subseteq RequiredBuckets(Graph, mine.count, root, k[2])) -> "bucket"
          [] LacksBroadcast(mine, k) -> "broadcast"
          [] ComputePanics(Graph, mine.count, root, k[2]) -> "panic"
          [] Missing(spans) -> "file"
          [] TooLong(spans) -> "line"
          [] OTHER -> "none"

TaskOutput(inputs, k) ==
    LET stage == Stage(job.plan, k)
        records == Compute(job.plan, inputs, job.done, Call(Graph, stage.rdd, k[2]))
    IN  IF stage.kind = "result" THEN records ELSE MapOutput(records, stage.reducers)

-----------------------------------------------------------------------------
Tasks(plan) == UNION {{s.id} \X (0..(s.parts - 1)) : s \in Range(plan.stages)}

Finished(stage) == \A p \in 0..(stage.parts - 1) : <<stage.id, p>> \in DOMAIN job.done

ResultStage == Last(job.plan.stages)

Rows == FlattenSeq([p \in 1..ResultStage.parts |-> job.done[<<ResultStage.id, p - 1>>]])

Init ==
    /\ program \in Programs
    /\ present \in SUBSET DOMAIN Files
    /\ changes = 0
    /\ spec = [splits |-> <<>>, broadcasts |-> <<>>]
    /\ phase = 0
    /\ job = NoJob
    /\ status = "submitted"
    /\ listed = [i \in Texts |-> {}]

(* preparePipeline plans the final graph before any phase runs, and keeps    *)
(* the splits it found for all of them.                                      *)
PlanFinal ==
    /\ status = "submitted"
    /\ \E listings \in [Texts -> CollectTextFiles] :
          LET plan == PlanJob(<<>>, listings, program.final) IN
          IF PlanPanics(plan) THEN status' = "panic" /\ UNCHANGED <<spec, listed>>
          ELSE /\ spec' = [spec EXCEPT !.splits = plan.splits]
               /\ listed' = [i \in Texts |-> IF Planned(plan.splits, i) /\ ~listings[i].err
                                             THEN present ELSE {}]
               /\ status' = "prepared"
    /\ UNCHANGED <<program, present, changes, phase, job>>

(* scheduleResults: the phase is planned with the pipeline's splits; what it *)
(* captures is shipped with every task.                                      *)
BeginPhase ==
    /\ status = "prepared"
    /\ \E listings \in [Texts -> CollectTextFiles] :
          LET plan == PlanJob(spec.splits, listings, Root)
              lists(i) == Planned(plan.splits, i) /\ ~Planned(spec.splits, i) /\ ~listings[i].err
          IN  IF PlanPanics(plan) THEN status' = "panic" /\ UNCHANGED <<job, listed>>
              ELSE /\ job' = [NoJob EXCEPT !.plan = plan,
                                  !.splits = IF plan.splits # <<>> THEN plan.splits ELSE spec.splits]
                   /\ listed' = [i \in Texts |-> IF lists(i) THEN present ELSE listed[i]]
                   /\ status' = "running"
    /\ UNCHANGED <<program, present, changes, spec, phase>>

(* A worker runs a task of a stage whose parents are finished; the scheduler *)
(* retries it until it has failed MaxAttempts times.                         *)
RunTask(k, listings) ==
    LET mine == PlanJob(job.splits, listings, Root)
        inputs == TextPartitions(job.splits, listings)
        error == TaskError(mine, inputs, k)
        tries == (IF k \in DOMAIN job.tries THEN job.tries[k] ELSE 0) + 1
    IN  /\ status = "running"
        /\ k \notin DOMAIN job.done
        /\ \A q \in Range(Stage(job.plan, k).parents) : Finished(job.plan.stages[q + 1])
        /\ IF error = "none"
           THEN /\ job' = [job EXCEPT !.done = (k :> TaskOutput(inputs, k)) @@ @]
                /\ UNCHANGED status
           ELSE /\ job' = [job EXCEPT !.tries = (k :> tries) @@ @]
                /\ status' = IF tries >= MaxAttempts THEN error ELSE status
        /\ UNCHANGED <<program, present, changes, spec, phase, listed>>

(* The driver merges the partials of a reduction and broadcasts the value;   *)
(* a reduction of nothing fails the pipeline.                                *)
MergePhase ==
    /\ status = "running"
    /\ ~Final
    /\ Finished(ResultStage)
    /\ IF Rows = <<>>
       THEN status' = "empty" /\ UNCHANGED <<spec, phase, job>>
       ELSE /\ spec' = [spec EXCEPT !.broadcasts = Append(@, [index |-> phase, value |-> Rows])]
            /\ phase' = phase + 1
            /\ job' = NoJob
            /\ status' = "prepared"
    /\ UNCHANGED <<program, present, changes, listed>>

FinishFinal ==
    /\ status = "running"
    /\ Final
    /\ Finished(ResultStage)
    /\ status' = "done"
    /\ UNCHANGED <<program, present, changes, spec, phase, job, listed>>

Ended == status \notin {"submitted", "prepared", "running"}

(* Somebody else adds a file to the directory or removes one.                *)
ChangeDirectory(f) ==
    /\ ~Ended
    /\ changes < MaxChanges
    /\ changes' = changes + 1
    /\ present' = IF f \in present THEN present \ {f} ELSE present \cup {f}
    /\ UNCHANGED <<program, spec, phase, job, status, listed>>

Over == Ended /\ UNCHANGED vars

Next ==
    \/ PlanFinal
    \/ BeginPhase
    \/ /\ status = "running"
       /\ \E k \in Tasks(job.plan), listings \in [Texts -> CollectTextFiles] : RunTask(k, listings)
    \/ MergePhase
    \/ FinishFinal
    \/ \E f \in DOMAIN Files : ChangeDirectory(f)
    \/ Over

Spec == Init /\ [][Next]_vars

-----------------------------------------------------------------------------
(* The plan is a correct cut of the lineage graph (PlanRDD, parentStages,    *)
(* getShuffleMapStage): every shuffle above the root has exactly one stage,  *)
(* however many paths lead to it, every stage follows the stages it reads,   *)
(* and it waits for exactly the shuffles its tasks reach without crossing    *)
(* another shuffle.                                                          *)
PlanSound ==
    job.plan # <<>> =>
        LET stages == job.plan.stages
            shuffles(root) == {i \in NarrowAncestry(Graph, root) : ~Narrow(Graph, i)}
        IN  /\ \A s \in DOMAIN stages : stages[s].id = s - 1
            /\ \A i \in Ancestry(Graph, Root) : ~Narrow(Graph, i) =>
                   Cardinality({s \in DOMAIN stages : stages[s].shuffle = i}) = 1
            /\ \A s \in DOMAIN stages :
                   /\ \A q \in Range(stages[s].parents) : q < stages[s].id
                   /\ {stages[q + 1].shuffle : q \in Range(stages[s].parents)} = shuffles(stages[s].rdd)
                   /\ (s < Len(stages)) =>
                          stages[s].shuffle \in Ancestry(Graph, Root) \ {0}

(* The graphs in which the walk over narrow dependencies indexes outside a   *)
(* partition list: a union asks an RDD that looks the partition up, and so   *)
(* panics, about partitions of its other parents.                            *)
UnionOverSlices(root) ==
    \E i \in Ancestry(Graph, root) :
        /\ Graph[i].kind = "union"
        /\ \E j \in NarrowAncestry(Graph, i) : Graph[j].kind \in {"coalesce", "zipindex", "zippartitions"}

(* The graphs in which Zip gives a text RDD a partition that is not a text's.*)
TextZippedSecond(root) ==
    \E i \in Ancestry(Graph, root) :
        /\ Graph[i].kind = "zip"
        /\ Graph[Owner(Graph)[i]].kind # "text"
        /\ \E j \in NarrowAncestry(Graph, Graph[i].deps[2]) : Graph[j].kind = "text"

(* What a task is given covers what its compute functions read: every bucket *)
(* they open is among the buckets requiredShuffleBuckets downloads, and      *)
(* every cached partition they look up is among the plan's cache hints. The  *)
(* walk that finds the buckets can panic, and then the task gets none, only  *)
(* where a union has a Coalesce, ZipWithIndex or ZipPartitions below it.     *)
TaskInputsCovered ==
    job.plan # <<>> => \A k \in Tasks(job.plan) :
        LET stage == Stage(job.plan, k)
            count == job.plan.count
            g == PersistOutput(Graph, Root, program.identity)
        IN  IF WalkPanics(Graph, count, stage.rdd, k[2]) THEN UnionOverSlices(stage.rdd)
            ELSE /\ ReadBuckets(Graph, count, stage.rdd, k[2]) \subseteq RequiredBuckets(Graph, count, stage.rdd, k[2])
                 /\ \A v \in Computed(Graph, count, stage.rdd, k[2]) : Shareable(g, v[1]) =>
                       stage.hints # <<>> /\ <<v[1], v[2]>> \in stage.hints[k[2] + 1]

(* Upstream installation downloads only the buckets the task's partition     *)
(* reaches (DISTRIBUTED.md on requiredShuffleBuckets).                       *)
RequiredReached ==
    job.plan # <<>> => \A k \in Tasks(job.plan) :
        LET root == Stage(job.plan, k).rdd
        IN  /\ ~WalkPanics(Graph, job.plan.count, root, k[2])
            /\ RequiredBuckets(Graph, job.plan.count, root, k[2])
                  = ReadBuckets(Graph, job.plan.count, root, k[2])

(* How many dependency paths lead from the root to an RDD.                   *)
PathsTo(root) ==
    LET paths[i \in 1..root] ==
            IF i = root THEN 1
            ELSE FoldSet(LAMBDA d, n : n + paths[d[1]], 0,
                         {<<j, k>> \in ((i + 1)..root) \X (1..2) :
                             k \in DOMAIN Graph[j].deps /\ Graph[j].deps[k] = i})
    IN  paths

(* The records of a source RDD: the lines of the files it was planned over,  *)
(* none if its directory could not be listed.                                *)
SourceRecords(i) ==
    IF Graph[i].kind = "data" THEN {[rdd |-> i, path |-> "", at |-> p] : p \in 0..(Graph[i].n - 1)}
    ELSE UNION {{[rdd |-> i, path |-> Files[f].path, at |-> s] : s \in LineStarts(Files[f].content)} :
                f \in listed[i]}

Sources(root) == {i \in Ancestry(Graph, root) : Graph[i].kind \in {"text", "data"}}

Plain(root) == \A i \in Ancestry(Graph, root) : Graph[i].kind \notin {"cartesian", "zip"}

(* Splitting, shipping and reading the text input loses and repeats nothing  *)
(* of what planning found, whatever happens to the directory after that: a   *)
(* phase that finishes holds every line of the files found once per path to  *)
(* it, and no other; workers never disagree with the driver's graph or miss  *)
(* a bucket or a broadcast; a pipeline fails only because a file it found is *)
(* gone, because a line of one exceeds MaxRecordBytes, because a reduction   *)
(* has no record among what was found or because its graph is one of those   *)
(* that panic. textInputPartitions drops the error of a listing, so planning *)
(* then finds nothing: the pipeline runs on without that input.              *)
InputExact ==
    /\ status \notin {"fingerprint", "bucket", "broadcast"}
    /\ status = "panic" => \E root \in {Root, program.final} :
          UnionOverSlices(root) \/ TextZippedSecond(root)
    /\ status = "file" => \E i \in Sources(Root) : ~(listed[i] \subseteq present)
    /\ status = "line" => \E f \in UNION {listed[i] : i \in Texts} :
          \E l \in LineStarts(Files[f].content) : LineBytes(Files[f].content, l) > MaxRecordBytes
    /\ status \in {"running", "done", "empty"} /\ Finished(ResultStage) /\ Plain(Root) =>
          /\ \A k \in DOMAIN Rows : Rows[k] \in UNION {SourceRecords(i) : i \in Sources(Root)}
          /\ \A i \in Sources(Root) : \A r \in SourceRecords(i) :
                Cardinality({k \in DOMAIN Rows : Rows[k] = r}) = PathsTo(Root)[i]
          /\ status = "empty" => \A i \in Sources(Root) : SourceRecords(i) = {}
==============================================================================
