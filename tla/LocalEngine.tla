----------------------------- MODULE LocalEngine -----------------------------
(* A local action over a shuffled RDD: computeShuffleStages samples a range  *)
(* sort and writes every map output (writeStreamMap), then one goroutine per *)
(* partition sorts its buckets externally, aggregates or joins them, and     *)
(* either hands its records to Collect or writes them with SaveAsTextFile.   *)
(*                                                                           *)
(* A record is [key, val]; a raw value is a one-element sequence and the     *)
(* user's combining function is concatenation: associative, and it tells     *)
(* every order and every omission apart.                                     *)
EXTENDS Integers, Sequences, FiniteSets, SequencesExt, Partitioning, SortedRuns, OutputWriter, RddOps

CONSTANTS Jobs,           \* the jobs: op, inputs, maps, memory, desc, fs, prior
          NumReducers,    \* partitions of the shuffled RDD
          Hash,           \* key -> its FNV hash
          TokenOf,        \* key -> place of keyToken(key) in string order
          KeyBytes,       \* key -> encoded size
          BigKeys,        \* keys above maxSortSampleBytes
          RecordBytes, GroupBytes,
          MapMaxBytes,    \* GOSPARK_SHUFFLE_MAP_MAX_BYTES, 0 when unset
          FrameBytes, ChunkOverhead, GroupOverhead,
          MaxOpen,        \* buffered files of a map task (16)
          SamplesPerMap, GlobalSamples

VARIABLES
    job,      \* the job, fixed by Init
    phase,    \* "sample", "map", "reduce", "done" or "failed"
    cause,    \* why a failed job failed
    bounds,   \* range boundaries of the partitioner
    cur,      \* <<shuffle, map>> being written
    todo,     \* records its iterator has not returned
    batch,    \* records waiting for combineMapOutput
    out,      \* writers, active and byte count of the map task
    files,    \* shuffle -> map -> reducer -> installed bucket, or Missing
    red,      \* reducer -> its goroutine
    final,    \* reducer -> what is at the final path of the save
    marker    \* the _SUCCESS file exists

vars == <<job, phase, cause, bounds, cur, todo, batch, out, files, red, final, marker>>

(* SparkConf's shuffle memory of the job's context.                          *)
MemoryBytes == job.memory

Reducers == 0..(NumReducers - 1)
Missing == [absent |-> TRUE]

(* A part file left by an earlier save; no record has this value.            *)
OldPart == Whole(<< <<0>> >>)

Joins == {"cogroup", "join", "left", "right", "full", "subtract"}
Saves == job.fs # "none"

(* The inputs of the job's shuffles in the order computeShuffleStages walks  *)
(* them; RightOuterJoin is a left join of the swapped inputs.                *)
Inputs(j) == IF j.op = "right" THEN <<j.other, j.input>>
             ELSE IF j.op \in Joins THEN <<j.input, j.other>> ELSE <<j.input>>

(* Partitions of the parent of shuffle s. shuffleRepartition re-keys each    *)
(* record with its index and its partition.                                  *)
Maps(j, s) == Len(SliceData(Inputs(j)[s], j.maps))

MapRecords(j, s, m) ==
    LET part == SliceData(Inputs(j)[s], j.maps)[m]
    IN  IF j.op # "repartition" THEN part
        ELSE [i \in 1..Len(part) |-> [part[i] EXCEPT !.key = (m - 1 + i - 1) % NumReducers]]

Rank(j, key) == IF j.desc THEN -key ELSE key

(* The order of the reduce side: the sort's, else that of the key tokens.    *)
Order == [k \in DOMAIN TokenOf |-> IF job.op = "sort" THEN Rank(job, k) ELSE TokenOf[k]]

GetPartition(key) ==
    CASE job.op = "sort" -> RangePartition(Rank(job, key), bounds, NumReducers)
      [] job.op = "repartition" -> PassthroughPartition(key, NumReducers)
      [] OTHER -> HashPartition(Hash[key], NumReducers)

Size(rec) == KeyBytes[rec.key] + Len(rec.val)

-----------------------------------------------------------------------------
(* The map side: bucket writers and writeStreamMap.                          *)

(* bucketWriter: records on disk, records in its buffer, count for the       *)
(* header.                                                                   *)
NewBucketWriter == [disk |-> <<>>, buffer |-> <<>>, open |-> FALSE, count |-> 0]

AppendRecord(w, rec) ==
    [w EXCEPT !.open = TRUE, !.buffer = Append(@, rec), !.count = @ + 1]

\* a plausible slip: the file is closed with records still in the buffer
SuspendUnflushed(w) == [w EXCEPT !.buffer = <<>>, !.open = FALSE]

Suspend(w) == [w EXCEPT !.disk = @ \o w.buffer, !.buffer = <<>>, !.open = FALSE]

(* finish: the bucket file a reader opens, its header count included.        *)
FinishBucket(w) == [absent |-> FALSE, recs |-> Suspend(w).disk, count |-> w.count]

NewMapOutput ==
    [writers |-> [r \in Reducers |-> NewBucketWriter], active |-> <<>>,
     bytes |-> NumReducers * FrameBytes,
     err |-> IF MapMaxBytes > 0 /\ NumReducers * FrameBytes > MapMaxBytes
             THEN "map_bytes" ELSE "none"]

(* The write closure of writeStreamMap: at most MaxOpen files stay open, the *)
(* one opened first is suspended for a new one.                              *)
WriteRecord(o, rec) ==
    LET rid   == GetPartition(rec.key)
        open  == o.writers[rid].open
        evict == ~open /\ Len(o.active) = MaxOpen
        kept  == IF evict THEN [o.writers EXCEPT ![Head(o.active)] = Suspend(@)] ELSE o.writers
        rest  == IF evict THEN Tail(o.active) ELSE o.active
    IN  IF o.err # "none" THEN o
        ELSE IF rid \notin Reducers THEN [o EXCEPT !.err = "reduce_id"]
        ELSE IF Size(rec) > RecordBytes THEN [o EXCEPT !.err = "record"]
        ELSE IF MapMaxBytes > 0 /\ Size(rec) + FrameBytes > MapMaxBytes - o.bytes
        THEN [o EXCEPT !.err = "map_bytes"]
        ELSE [o EXCEPT !.bytes = @ + Size(rec) + FrameBytes,
                       !.active = IF open THEN @ ELSE Append(rest, rid),
                       !.writers = [kept EXCEPT ![rid] = AppendRecord(@, rec)]]

WriteRecords(o, recs) == FoldLeft(WriteRecord, o, recs)

MapSideCombine == job.op = "reduce"

(* combineMapOutput: one record per key, its values merged in batch order;   *)
(* the iteration over the slots of a Go map has any order.                   *)
CombineMapOutput(recs) ==
    LET merge(k) == [key |-> k,
                     val |-> FlattenSeq([i \in 1..Len(SelectSeq(recs, LAMBDA e : e.key = k)) |->
                                            SelectSeq(recs, LAMBDA e : e.key = k)[i].val])]
    IN  {[i \in DOMAIN order |-> merge(order[i])] :
            order \in SetToSeqs({recs[i].key : i \in 1..Len(recs)})}

BatchCost(recs) == FoldLeft(LAMBDA n, rec : n + Size(rec) + ChunkOverhead, 0, recs)

(* flush.                                                                    *)
FlushBatch(o, recs) == {WriteRecords(o, combined) : combined \in CombineMapOutput(recs)}

(* One turn of the record loop of a combining map task: the outcomes         *)
(* [out, batch].                                                             *)
BatchRecord(o, recs, rec) ==
    LET full == recs # <<>> /\ BatchCost(recs) + Size(rec) + ChunkOverhead > MemoryBytes
    IN  UNION {
          LET next == Append(IF full THEN <<>> ELSE recs, rec)
          IN  IF BatchCost(next) >= MemoryBytes /\ o1.err = "none"
              THEN {[out |-> o2, batch |-> <<>>] : o2 \in FlushBatch(o1, next)}
              ELSE {[out |-> o1, batch |-> next]} :
          o1 \in IF full THEN FlushBatch(o, recs) ELSE {o}}

-----------------------------------------------------------------------------
(* The reduce side: one record per goroutine.                                *)

NewReducer ==
    [st |-> IF Saves THEN "create" ELSE "open", side |-> 1, rest |-> <<>>, chunk |-> <<>>, levels |-> <<>>,
     flushes |-> 0, sorted |-> <<>>, out |-> <<>>, w |-> Fresh("mem", Absent),
     wrote |-> TRUE, renaming |-> <<>>]

(* fileShuffleManager.stream and fileChain: the buckets of one reducer in    *)
(* map order.                                                                *)
Buckets(s, r) == [m \in 1..Maps(job, s) |-> files[s][m][r]]

Intact(b) == ~b.absent /\ b.count = Len(b.recs)

\* a plausible slip: every chunk stays a run of its own
FlushUnmerged(g) ==
    IF g.chunk = <<>> THEN g
    ELSE [g EXCEPT !.chunk = <<>>, !.flushes = @ + 1,
                   !.levels = <<SortStable(Order, g.chunk)>> \o @]

(* externalSort's flush: an empty chunk writes no run.                       *)
FlushChunk(g) ==
    IF g.chunk = <<>> THEN g
    ELSE [g EXCEPT !.chunk = <<>>, !.flushes = @ + 1,
                   !.levels = Push(Order, @, SortStable(Order, g.chunk))]

\* a plausible slip: the levels are merged from the lowest, latest, run up
FinishSortUpward(g) ==
    LET flushed == FlushChunk(g)
        last    == g.side = Len(Inputs(job))
    IN  [flushed EXCEPT !.levels = <<>>, !.flushes = 0,
                        !.sorted = Append(@, FinalRun(Order, Reverse(flushed.levels))),
                        !.side = IF last THEN @ ELSE @ + 1,
                        !.st = IF last THEN "emit" ELSE "open"]

(* The rest of externalSort once its input is exhausted.                     *)
FinishSort(g) ==
    LET flushed == FlushChunk(g)
        last    == g.side = Len(Inputs(job))
    IN  [flushed EXCEPT !.levels = <<>>, !.flushes = 0,
                        !.sorted = Append(@, FinalRun(Order, flushed.levels)),
                        !.side = IF last THEN @ ELSE @ + 1,
                        !.st = IF last THEN "emit" ELSE "open"]

Values(g) == g.val
GroupCost(vs) == FoldLeft(LAMBDA n, v : n + Len(v) + GroupOverhead, 0, vs)

(* The size check of aggregatePairs, and that of boundedGroups.              *)
TooLarge(g) ==
    IF job.op \in {"reduce", "combine"} THEN Len(FlattenSeq(Values(g))) > GroupBytes
    ELSE GroupCost(Values(g)) > GroupBytes

(* What one call of the partition's iterator yields: the records and the     *)
(* streams left behind.                                                      *)
JoinRecords(g) ==
    CASE job.op = "cogroup" -> <<g>>
      [] job.op = "join" -> NewJoin(g)
      [] job.op = "left" -> NewLeftOuterJoin(g)
      [] job.op = "right" -> [i \in DOMAIN NewLeftOuterJoin(g) |-> SwapPair(NewLeftOuterJoin(g)[i])]
      [] job.op = "full" -> NewFullOuterJoin(g)
      [] job.op = "subtract" -> NewSubtractByKey(g)

Yield(ss) ==
    LET a == ss[1]
    IN  CASE job.op = "sort" -> [recs |-> <<a[1]>>, left |-> <<Tail(a)>>]
          [] job.op = "repartition" -> [recs |-> <<a[1].val>>, left |-> <<Tail(a)>>]
          [] job.op = "group" -> [recs |-> <<Group(a)>>, left |-> <<Rest(a)>>]
          [] job.op \in {"reduce", "combine"} ->
                [recs |-> <<[key |-> a[1].key, val |-> FlattenSeq(Group(a).val)]>>,
                 left |-> <<Rest(a)>>]
          [] job.op \in Joins ->
                LET c == CogroupNext(TokenOf, a, ss[2])
                IN  [recs |-> JoinRecords(c.out), left |-> <<c.a, c.b>>]

(* The groups the iterator holds in memory when it is called.                *)
Heads(ss) ==
    IF job.op \in {"sort", "repartition"} THEN {}
    ELSE {Group(ss[i]) : i \in {k \in 1..Len(ss) : ss[k] # <<>>}}

Exhausted(g) == \A i \in 1..Len(g.sorted) : g.sorted[i] = <<>>

-----------------------------------------------------------------------------
Init ==
    /\ job \in Jobs
    /\ phase = IF job.op = "sort" /\ NumReducers > 1 THEN "sample" ELSE "map"
    /\ cause = "none"
    /\ bounds = <<>>
    /\ cur = <<1, 1>>
    /\ todo = MapRecords(job, 1, 1)
    /\ batch = <<>>
    /\ out = NewMapOutput
    /\ files = [s \in 1..Len(Inputs(job)) |->
                  [m \in 1..Maps(job, s) |-> [r \in Reducers |-> Missing]]]
    /\ red = [r \in Reducers |-> NewReducer]
    /\ final = [r \in Reducers |-> IF job.prior THEN OldPart ELSE Absent]
    /\ marker = job.prior

(* An error of a map task, or the panic of must in a goroutine, ends the     *)
(* job.                                                                      *)
Fail(why) ==
    /\ phase' = "failed"
    /\ cause' = why
    /\ UNCHANGED <<job, bounds, cur, todo, batch, out, files, red, final, marker>>

(* The sampling pass of a range sort: a reservoir per partition, then the    *)
(* driver's reservoir over them.                                             *)
SampleSort ==
    /\ phase = "sample"
    /\ LET keys(m) == LET small == SelectSeq(MapRecords(job, 1, m), LAMBDA e : e.key \notin BigKeys)
                      IN  [i \in 1..Len(small) |-> Rank(job, small[i].key)]
           parts == FoldLeft(LAMBDA S, m :
                        UNION {Reservoirs(s, part, GlobalSamples) :
                            s \in S, part \in Reservoirs(<<>>, keys(m), SamplesPerMap)},
                        {<<>>}, [m \in 1..Maps(job, 1) |-> m])
       IN  \E samples \in parts :
            bounds' = SelectRangeBounds(SortSeq(samples, <), NumReducers)
    /\ phase' = "map"
    /\ UNCHANGED <<job, cause, cur, todo, batch, out, files, red, final, marker>>

(* One turn of the record loop of writeStreamMap.                            *)
MapRecord ==
    /\ phase = "map"
    /\ todo # <<>>
    /\ LET rec == Head(todo)
       IN  \E n \in IF ~MapSideCombine
                    THEN {[out |-> WriteRecord(out, rec), batch |-> <<>>]}
                    ELSE IF Size(rec) > RecordBytes
                    THEN {[out |-> [out EXCEPT !.err = "record"], batch |-> batch]}
                    ELSE BatchRecord(out, batch, rec) :
            IF n.out.err # "none" THEN Fail(n.out.err)
            ELSE /\ out' = n.out
                 /\ batch' = n.batch
                 /\ todo' = Tail(todo)
                 /\ UNCHANGED <<job, phase, cause, bounds, cur, files, red, final, marker>>

(* The end of writeStreamMap: the last flush, the headers, the rename; then  *)
(* install, and the next map task or shuffle of computeShuffleStages.        *)
MapFinish ==
    /\ phase = "map"
    /\ todo = <<>>
    /\ \E o \in IF MapSideCombine THEN FlushBatch(out, batch) ELSE {out} :
        IF o.err # "none" THEN Fail(o.err)
        ELSE LET s == cur[1]
                 m == cur[2]
                 next == IF m < Maps(job, s) THEN <<s, m + 1>> ELSE <<s + 1, 1>>
                 last == next[1] > Len(Inputs(job))
             IN  /\ files' = [files EXCEPT ![s][m] = [r \in Reducers |-> FinishBucket(o.writers[r])]]
                 /\ cur' = IF last THEN cur ELSE next
                 /\ todo' = IF last THEN <<>> ELSE MapRecords(job, next[1], next[2])
                 /\ phase' = IF last THEN "reduce" ELSE "map"
                 /\ out' = NewMapOutput
                 /\ batch' = <<>>
                 /\ UNCHANGED <<job, cause, bounds, red, final, marker>>

(* A step of goroutine r that only changes its own state.                    *)
Step(r, g) ==
    /\ red' = [red EXCEPT ![r] = g]
    /\ UNCHANGED <<job, phase, cause, bounds, cur, todo, batch, out, files, final, marker>>

At(r, st) == phase = "reduce" /\ red[r].st = st

(* SaveAsTextFile creates the temporary file before it computes.             *)
CreatePart(r) ==
    /\ At(r, "create")
    /\ \E o \in Create(job.fs, Absent) :
        Step(r, [red[r] EXCEPT !.w = o.w, !.st = IF o.ok THEN "open" ELSE "error"])

(* shuffleStream: all buckets must be there; repartition reads them as they  *)
(* are.                                                                      *)
OpenStream(r) ==
    /\ At(r, "open")
    /\ LET bs   == Buckets(red[r].side, r)
           recs == FlattenSeq([m \in DOMAIN bs |-> bs[m].recs])
       IN  IF \E m \in DOMAIN bs : bs[m].absent THEN Fail("missing")
           ELSE IF \E m \in DOMAIN bs : ~Intact(bs[m]) THEN Fail("corrupt")
           ELSE IF job.op = "repartition"
           THEN Step(r, [red[r] EXCEPT !.sorted = <<recs>>, !.st = "emit"])
           ELSE Step(r, [red[r] EXCEPT !.rest = recs, !.st = "sort"])

(* One turn of externalSort's input loop.                                    *)
SortRecord(r) ==
    /\ At(r, "sort")
    /\ red[r].rest # <<>>
    /\ LET rec  == Head(red[r].rest)
           cost == Size(rec) + ChunkOverhead
           g    == IF BatchCost(red[r].chunk) + cost > MemoryBytes THEN FlushChunk(red[r]) ELSE red[r]
       IN  IF Size(rec) > RecordBytes THEN Fail("record")
           ELSE IF cost > MemoryBytes THEN Fail("memory")
           ELSE Step(r, [g EXCEPT !.chunk = Append(@, rec), !.rest = Tail(@)])

SortFinish(r) ==
    /\ At(r, "sort")
    /\ red[r].rest = <<>>
    /\ Step(r, FinishSort(red[r]))

(* One call of the partition's iterator; a save writes what it returned and  *)
(* stops reading at the first write error.                                   *)
EmitRecord(r) ==
    /\ At(r, "emit")
    /\ ~Exhausted(red[r])
    /\ LET y == Yield(red[r].sorted)
       IN  IF \E h \in Heads(red[r].sorted) : TooLarge(h) THEN Fail("group")
           ELSE \E o \in IF ~Saves THEN {Outcome(red[r].w, TRUE)}
                         ELSE FoldLeft(LAMBDA S, rec : UNION {IF o.ok THEN Write(o.w, rec) ELSE {o} : o \in S},
                                       {Outcome(red[r].w, TRUE)}, y.recs) :
                Step(r, [red[r] EXCEPT !.sorted = y.left, !.out = @ \o y.recs, !.w = o.w,
                                       !.wrote = o.ok, !.st = IF o.ok THEN "emit" ELSE "close"])

EmitEnd(r) ==
    /\ At(r, "emit")
    /\ Exhausted(red[r])
    /\ Step(r, [red[r] EXCEPT !.st = IF Saves THEN "close" ELSE "done"])

ClosePart(r) ==
    /\ At(r, "close")
    /\ \E o \in CloseChecked(red[r].w, red[r].wrote) :
        Step(r, [red[r] EXCEPT !.w = o.w, !.st = IF o.ok THEN "commit" ELSE "error",
                               !.renaming = RenameSteps(job.fs)])

(* CommitPartition: the calls of Rename, one step each.                      *)
CommitPart(r) ==
    /\ At(r, "commit")
    /\ \E c \in CallOutcomes(job.fs) :
        LET call == Head(red[r].renaming)
            st   == IF ~c.ok THEN "error" ELSE IF Len(red[r].renaming) = 1 THEN "done" ELSE "commit"
        IN  /\ final' = IF c.effect /\ call # "delete" THEN [final EXCEPT ![r] = red[r].w.seen] ELSE final
            /\ red' = [red EXCEPT ![r] =
                    [@ EXCEPT !.st = st, !.renaming = Tail(@),
                              !.w = IF c.effect /\ call # "copy" THEN [@ EXCEPT !.seen = Absent] ELSE @]]
            /\ UNCHANGED <<job, phase, cause, bounds, cur, todo, batch, out, files, marker>>

(* After wg.Wait: Collect returns; SaveAsTextFile returns the first error or *)
(* creates the marker.                                                       *)
Finish ==
    /\ phase = "reduce"
    /\ \A r \in Reducers : red[r].st \in {"done", "error"}
    /\ \E c \in CallOutcomes(job.fs) :
        LET errors == \E r \in Reducers : red[r].st = "error"
        IN  /\ phase' = IF errors \/ (Saves /\ ~c.ok) THEN "error" ELSE "done"
            /\ marker' = (marker \/ (Saves /\ ~errors /\ c.effect))
    /\ UNCHANGED <<job, cause, bounds, cur, todo, batch, out, files, red, final>>

(* The action has returned or the process has panicked.                      *)
Over == phase \in {"done", "error", "failed"} /\ UNCHANGED vars

Next ==
    \/ SampleSort \/ MapRecord \/ MapFinish \/ Finish \/ Over
    \/ \E r \in Reducers :
        \/ CreatePart(r) \/ OpenStream(r) \/ SortRecord(r) \/ SortFinish(r)
        \/ EmitRecord(r) \/ EmitEnd(r) \/ ClosePart(r) \/ CommitPart(r)

Spec == Init /\ [][Next]_vars

-----------------------------------------------------------------------------
(* What the operations promise, stated on the input alone.                   *)

ValuesFor(recs, k) == LET own == SelectSeq(recs, LAMBDA e : e.key = k)
                      IN  [i \in 1..Len(own) |-> own[i].val]

Rows(k, vs, ws, pair(_, _)) ==
    FlattenSeq([i \in 1..Len(vs) |-> [j \in 1..Len(ws) |-> [key |-> k, val |-> pair(vs[i], ws[j])]]])

OrNil(vs) == IF vs = <<>> THEN <<Nil>> ELSE vs

(* The records a keyed operation owes for key k.                             *)
Owed(k) ==
    LET vs == ValuesFor(job.input, k)
        ws == ValuesFor(job.other, k)
        pair(v, w) == <<v, w>>
    IN  CASE job.op \in {"reduce", "combine"} ->
                IF vs = <<>> THEN <<>> ELSE <<[key |-> k, val |-> FlattenSeq(vs)]>>
          [] job.op = "group" -> IF vs = <<>> THEN <<>> ELSE <<[key |-> k, val |-> vs]>>
          [] job.op = "cogroup" ->
                IF vs = <<>> /\ ws = <<>> THEN <<>> ELSE <<[key |-> k, val |-> <<vs, ws>>]>>
          [] job.op = "join" -> Rows(k, vs, ws, pair)
          [] job.op = "left" -> Rows(k, vs, OrNil(ws), pair)
          [] job.op = "right" -> Rows(k, ws, OrNil(vs), LAMBDA w, v : <<v, w>>)
          [] job.op = "full" ->
                IF vs = <<>> /\ ws = <<>> THEN <<>> ELSE Rows(k, OrNil(vs), OrNil(ws), pair)
          [] job.op = "subtract" ->
                IF ws # <<>> THEN <<>>
                ELSE [i \in 1..Len(vs) |-> [key |-> k, val |-> vs[i]]]

(* The keys of reducer r in the order of their tokens.                       *)
KeysOf(r) == SetToSortSeq({k \in DOMAIN Hash : Hash[k] % NumReducers = r},
                          LAMBDA a, b : TokenOf[a] < TokenOf[b])

(* What partition r of the result must hold; a repartitioned record goes to  *)
(* the partition given by its position and its map partition.                *)
PartitionOwed(r) ==
    IF job.op = "repartition"
    THEN FlattenSeq([m \in 1..Maps(job, 1) |-> ValuesFor(MapRecords(job, 1, m), r)])
    ELSE LET keys == KeysOf(r) IN FlattenSeq([i \in DOMAIN keys |-> Owed(keys[i])])

Parts == [i \in 1..NumReducers |-> red[i - 1].out]

(* A range sort is a stable sort of the whole input across the partitions,   *)
(* whatever was sampled. Values are numbered in input order.                 *)
StablySorted(s) ==
    /\ Len(s) = Len(job.input)
    /\ Range(s) = Range(job.input)
    /\ \A i, j \in 1..Len(s) : i < j =>
        /\ Order[s[i].key] <= Order[s[j].key]
        /\ s[i].key = s[j].key => s[i].val[1] < s[j].val[1]

(* The actions over the partitions agree with the same action over the       *)
(* collected records.                                                        *)
ActionsAgree(parts) ==
    LET all == Collect(parts)
        onVals(p) == [i \in 1..Len(p) |-> p[i].val]
        coalesced == Coalesce(parts, 1)
    IN  /\ Count(parts) = Len(all)
        /\ \A n \in 0..Len(all) : Take(parts, n) = SubSeq(all, 1, n)
        /\ Collect(ZipWithIndex(parts)) = [i \in 1..Len(all) |-> <<all[i], i - 1>>]
        /\ Collect(coalesced) = all
        /\ Collect(Cartesian(coalesced, coalesced)) =
                FlattenSeq([i \in DOMAIN all |-> [j \in DOMAIN all |-> <<all[i], all[j]>>]])
        /\ job.op = "reduce" =>
            LET vals == [i \in DOMAIN parts |-> onVals(parts[i])]
            IN  /\ TreeAggregate(<<>>, vals) = FlattenSeq(onVals(all))
                /\ Reduce(vals) = IF all = <<>> THEN <<>> ELSE <<FlattenSeq(onVals(all))>>
                /\ \A k \in {rec.key : rec \in Range(all)} :
                    Lookup(parts, k, GetPartition(k)) = Lookup(parts, k, -1)

(* Collect, ReduceByKey, CombineByKey, GroupByKey, SortByKey, Repartition,   *)
(* Cogroup and the joins return exactly what the input calls for: no record  *)
(* is lost, duplicated or put in the wrong partition, and the values of a    *)
(* key are combined in input order, however batches, buckets, spilled runs   *)
(* and merges were cut; the actions see the same records.                    *)
ResultExact ==
    phase = "done" =>
        /\ IF job.op = "sort" THEN StablySorted(Collect(Parts))
           ELSE \A r \in Reducers : red[r].out = PartitionOwed(r)
        /\ ActionsAgree(Parts)

(* The most a record for one key can grow to: all its values merged.         *)
Merged(recs, k) == FlattenSeq(ValuesFor(recs, k))

(* A job fails only when its data exceeds a configured limit: never because  *)
(* a bucket is missing, has another number of records than its header says,  *)
(* or lies outside the reducers.                                             *)
FailureJustified ==
    LET grown(k) == KeyBytes[k] + Len(Merged(job.input, k))
    IN  CASE cause = "none" -> TRUE
          [] cause = "record" -> \E k \in DOMAIN Hash : grown(k) > RecordBytes
          [] cause = "memory" -> \E k \in DOMAIN Hash : grown(k) + ChunkOverhead > MemoryBytes
          [] cause = "map_bytes" ->
                \E s \in DOMAIN Inputs(job) : \E m \in 1..Maps(job, s) :
                    FoldLeft(LAMBDA n, rec : n + Size(rec) + FrameBytes,
                             NumReducers * FrameBytes, MapRecords(job, s, m)) > MapMaxBytes
          [] cause = "group" ->
                \E s \in DOMAIN Inputs(job), k \in DOMAIN Hash :
                    GroupCost(ValuesFor(Inputs(job)[s], k)) > GroupBytes
          [] OTHER -> FALSE

(* Memory and files stay within their budgets: a chunk of externalSort and a *)
(* combining batch fit MemoryBytes, a map task holds at most MaxOpen files   *)
(* open and no buffered record outside them, and the catalogue of runs is    *)
(* logarithmic in the number of spills.                                      *)
SpillBounded ==
    /\ BatchCost(batch) < MemoryBytes
    /\ \A r \in Reducers :
        /\ out.writers[r].open = (r \in Range(out.active))
        /\ ~out.writers[r].open => out.writers[r].buffer = <<>>
    /\ Len(out.active) = Cardinality(Range(out.active))
    /\ Len(out.active) <= MaxOpen
    /\ \A r \in Reducers :
        /\ BatchCost(red[r].chunk) <= MemoryBytes
        /\ red[r].levels # <<>> => 2 ^ (Len(red[r].levels) - 1) <= red[r].flushes

(* SaveAsTextFile never exposes a partial part file under its final name; a  *)
(* save that returns nil has put every partition there and written _SUCCESS, *)
(* and a _SUCCESS it wrote means that every part is there.                   *)
SaveSound ==
    Saves =>
        /\ \A r \in Reducers :
            final[r] \in {IF job.prior THEN OldPart ELSE Absent, Whole(PartitionOwed(r))}
        /\ (phase = "done" \/ (marker /\ ~job.prior)) =>
            marker /\ \A r \in Reducers : final[r] = Whole(PartitionOwed(r))
=============================================================================
