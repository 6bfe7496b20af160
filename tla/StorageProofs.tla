---------------------------- MODULE StorageProofs ----------------------------
(* A cached input is computed once. As long as nothing fails, its partitions *)
(* are read where they were put (PlaceInv of CachedJobProofs). So a task of  *)
(* the first stage finds its partition exactly when an earlier job left it   *)
(* there, a task of a later stage always does (CacheInv), and the sums of    *)
(* CachedJobProofs have the value AccumulatorsOnce gives. Then the same for  *)
(* the composition with the stores of a local context.                       *)
EXTENDS CachedJobProofs, Storage

(* Leaves that name no prover are Zenon's.                                   *)
USE ZenonT(60)

(* What the workers hold of the input. Its partitions are computed in the    *)
(* first stage of a job, and of the first job only under a reusable identity.*)
Holding == IF program.reuse THEN reusable ELSE jobCache

(* The current job computes the partitions of the input.                     *)
Computes == ~program.reuse \/ succeeded = 0

(* The task of the first stage for partition q has run in this job.          *)
Ran(sch, q) ==
    \/ sch.accepted[<<1, q>>] # None
    \/ \E i \in DOMAIN sch.wave : sch.wave[i].task = <<1, q>> /\ sch.wave[i].state = "ok"

(* What a map task adds to the accumulator: one for a partition it computes. *)
Added(fresh, t) == IF t[1] = 1 /\ fresh THEN 1 ELSE 0

(* A partition is at home once its first task has run or an earlier job left *)
(* it there, in a fresh job nowhere before; and results that are accepted or *)
(* answered carry what their tasks added.                                    *)
Kept(fresh, live, sch, hold) ==
    /\ \A q \in InputParts : Ran(sch, q) \/ ~fresh => q \in hold[Home(q)]
    /\ fresh /\ live => \A q \in InputParts, w \in W : q \in hold[w] => Ran(sch, q)
    /\ \A t \in MapTasks : sch.accepted[t] # None => sch.accepted[t] = Added(fresh, t)
    /\ \A i \in DOMAIN sch.wave :
        sch.wave[i].task \in MapTasks /\ sch.wave[i].state = "ok" =>
            sch.wave[i].added = Added(fresh, sch.wave[i].task)

(* Without faults and releases, the caches hold what the tasks that ran put  *)
(* there, and the accumulator has its exact value.                           *)
CacheInv == program.cached /\ faults = 0 /\ ~released =>
    /\ Kept(Computes, pc # "idle" \/ program.reuse, s, Holding)
    /\ acc = IF program.reuse /\ succeeded > 0 THEN Parts ELSE succeeded * Parts

(* The handle is idle until the first release.                               *)
RelInv == ~released => rel = NoRelease

(* The first stage has a task for every partition of the input.            *)
LEMMA FirstTask == \A q \in InputParts : <<1, q>> \in MapTasks /\ <<1, q>> \in Tasks
<1>1. \A q \in InputParts : q \in Int BY SMTT(30) DEF InputParts
<1>2. 1 \in Int /\ 1 \in 1..MapStages BY SMTT(30), SizesAssumption
<1> QED BY <1>1, <1>2, TaskLemma

(* No task of a new job has run.                                           *)
LEMMA NewKept ==
    ASSUME NEW fresh, NEW live, NEW hold, fresh \/ \A q \in InputParts : q \in hold[Home(q)],
           fresh /\ live => \A w \in W : hold[w] = {}
    PROVE  Kept(fresh, live, NewScheduler, hold)
<1>1. NewScheduler.wave = <<>> /\ NewScheduler.accepted = [t \in Tasks |-> None] BY DEF NewScheduler
<1>2. DOMAIN <<>> = {} BY SMTT(30)
<1>3. \A q \in InputParts : ~Ran(NewScheduler, q) BY <1>1, <1>2, FirstTask DEF Ran
<1>4. \A t \in MapTasks : NewScheduler.accepted[t] = None BY <1>1, TaskLemma
<1> QED BY <1>1, <1>2, <1>3, <1>4 DEF Kept

-----------------------------------------------------------------------------
(* The caches, step by step                                                *)

(* What a task that runs does to the caches.                                 *)
Runs(e, n, hold, new) ==
    /\ n = IF e.task \in MapTasks /\ e.task[2] \notin hold[e.worker] THEN 1 ELSE 0
    /\ \A w \in W : new[w] = IF w = e.worker /\ e.task \in MapTasks THEN hold[w] \cup {e.task[2]} ELSE hold[w]

(* Before the first job nothing is held.                                   *)
LEMMA InitCache == Init => CacheInv /\ RelInv
<1> SUFFICES ASSUME Init PROVE CacheInv /\ RelInv OBVIOUS
<1>1. RelInv BY DEF Init, RelInv
<1>2. s = NewScheduler /\ succeeded = 0 /\ acc = 0 BY DEF Init
<1>3. Computes BY <1>2 DEF Computes
<1>4. \A w \in W : Holding[w] = {} BY DEF Init, Holding
<1>5. Kept(Computes, pc # "idle" \/ program.reuse, s, Holding) BY <1>2, <1>3, <1>4, NewKept
<1>6. acc = IF program.reuse /\ succeeded > 0 THEN Parts ELSE succeeded * Parts
  <2>1. 0 * Parts = 0 /\ ~(0 > 0) BY SMTT(30), SizesAssumption
  <2> QED BY <1>2, <2>1
<1> QED BY <1>1, <1>5, <1>6 DEF CacheInv

(* A release in progress has begun.                                        *)
LEMMA NextRel == RelInv /\ [Next]_vars => RelInv'
<1> SUFFICES ASSUME RelInv, [Next]_vars, ~released' PROVE rel' = NoRelease BY DEF RelInv
<1>1. CASE \/ Submit \/ FillWave \/ CloseWave \/ AcceptWave \/ EnsureRetry \/ RetryAnswered
  <2>1. UNCHANGED <<rel, released>>
    BY <1>1 DEF Submit, FillWave, CloseWave, AcceptWave, EnsureRetry, RetryAnswered, Return, Step, EndJob, handle
  <2> QED BY <2>1 DEF RelInv
<1>2. ASSUME NEW i, CallFails(i) PROVE UNCHANGED <<rel, released>> BY <1>2 DEF CallFails, Answering, handle
<1>3. ASSUME NEW i, NEW lost, RunTask(i, lost) PROVE UNCHANGED <<rel, released>>
  BY <1>3 DEF RunTask, Answering, handle
<1>4. ASSUME NEW i, NEW m, FetchFails(i, m) PROVE UNCHANGED <<rel, released>>
  BY <1>4 DEF FetchFails, Answering, handle
<1>5. CASE \E w \in W : Crash(w) \/ Replace(w) BY SMTT(30), <1>5 DEF Crash, Replace, handle, RelInv
<1>6. CASE Persist \/ Unpersist \/ Stop \/ ReleaseWorker \/ ReleaseFails \/ EndRelease
  BY <1>6 DEF Persist, Unpersist, Stop, ReleaseWorker, ReleaseFails, EndRelease, RelInv
<1>7. CASE UNCHANGED vars BY <1>7 DEF vars, handle, RelInv
<1> QED BY <1>1, <1>2, <1>3, <1>4, <1>5, <1>6, <1>7 DEF Next, RelInv

(* Nothing goes wrong and nothing is released.                               *)
Quiet == Smooth /\ CacheInv /\ RelInv /\ ~released

(* What holds in such a state.                                             *)
LEMMA QuietLemma ==
    ASSUME Quiet
    PROVE  /\ Smooth /\ CountInv /\ program.cached /\ rel = NoRelease
           /\ Kept(Computes, pc # "idle" \/ program.reuse, s, Holding)
           /\ acc = IF program.reuse /\ succeeded > 0 THEN Parts ELSE succeeded * Parts
BY DEF Quiet, Smooth, CacheInv, RelInv

(* Every step keeps CacheInv.                                              *)
LEMMA NextCache == CountInv /\ PlaceInv /\ CacheInv /\ RelInv /\ [Next]_vars => CacheInv'
(* Going on to the next stage changes nothing here,                        *)
<1>SameKept. ASSUME NEW fresh, NEW live, NEW hold, NEW sch, NEW new, Kept(fresh, live, sch, hold),
             new.accepted = sch.accepted, new.wave = sch.wave
      PROVE  Kept(fresh, live, new, hold)
  BY <1>SameKept DEF Kept, Ran
(* nor does sending a task.                                                *)
<1>AppendKept. ASSUME NEW fresh, NEW live, NEW hold, NEW sch \in Schedulers, NEW new, Kept(fresh, live, sch, hold),
             Appends(sch, new)
      PROVE  Kept(fresh, live, new, hold)
  <2> USE <1>AppendKept
  <2>1. PICK e \in CallRecs : e.state = "sent" /\ new.wave = Append(sch.wave, e) BY DEF Appends
  <2>2. new.accepted = sch.accepted BY DEF Appends
  <2>3. sch.wave \in Seq(CallRecs) BY Fields
  <2> DEFINE n == Len(sch.wave)
  <2>4. /\ n \in Nat /\ DOMAIN new.wave = 1..(n + 1) /\ DOMAIN sch.wave = 1..n
        /\ \A i \in 1..n : new.wave[i] = sch.wave[i]
        /\ new.wave[n + 1] = e
    BY SMTT(30), <2>1, <2>3
  <2> HIDE DEF n
  <2>5. \A i \in 1..(n + 1) : i \in 1..n \/ i = n + 1 BY SMTT(30), <2>4
  <2>6. \A i \in 1..n : i \in 1..(n + 1) BY SMTT(30), <2>4
  <2>7. \A i \in DOMAIN new.wave : new.wave[i].state = "ok" => i \in DOMAIN sch.wave /\ new.wave[i] = sch.wave[i]
    BY <2>1, <2>4, <2>5
  <2>8. \A i \in DOMAIN sch.wave : i \in DOMAIN new.wave /\ new.wave[i] = sch.wave[i] BY <2>4, <2>6
  <2>9. \A q : Ran(new, q) <=> Ran(sch, q) BY <2>2, <2>7, <2>8 DEF Ran
  <2>10. \A i \in DOMAIN new.wave :
          new.wave[i].task \in MapTasks /\ new.wave[i].state = "ok" =>
              new.wave[i].added = Added(fresh, new.wave[i].task)
    BY SMTT(30), <2>7 DEF Kept
  <2> QED BY <2>2, <2>9, <2>10 DEF Kept
(* Accepting a result keeps what it added.                                 *)
<1>MovesKept. ASSUME NEW fresh, NEW live, NEW hold, NEW sch \in Schedulers, NEW new, Kept(fresh, live, sch, hold),
             NEW e, e.state = "ok", Moves(sch, e, new)
      PROVE  Kept(fresh, live, new, hold)
  <2> USE <1>MovesKept
  <2>1. sch.wave \in Seq(CallRecs) BY Fields
  <2>2. e \in CallRecs /\ sch.wave # <<>> /\ sch.wave[1] = e /\ new.wave = Tail(sch.wave)
        /\ new.accepted = [sch.accepted EXCEPT ![e.task] = e.added]
    BY DEF Moves
  <2>3. /\ 1 \in DOMAIN sch.wave
        /\ \A i \in DOMAIN Tail(sch.wave) : i + 1 \in DOMAIN sch.wave /\ Tail(sch.wave)[i] = sch.wave[i + 1]
        /\ \A j \in DOMAIN sch.wave : j # 1 => j - 1 \in DOMAIN Tail(sch.wave) /\ Tail(sch.wave)[j - 1] = sch.wave[j]
    BY SMTT(30), <2>1, <2>2, TailIndex
  <2>4. e.task \in Tasks /\ e.added # None
    <3>1. e.task \in Tasks /\ e.added \in {0, 1} BY <2>2 DEF CallRecs
    <3> QED BY SMTT(30), <3>1 DEF None
  <2>5. DOMAIN sch.accepted = Tasks BY DEF Schedulers
  <2>6. \A t \in Tasks : new.accepted[t] = IF t = e.task THEN e.added ELSE sch.accepted[t] BY <2>2, <2>4, <2>5
  <2>7. \A i \in DOMAIN new.wave : i + 1 \in DOMAIN sch.wave /\ new.wave[i] = sch.wave[i + 1] BY <2>2, <2>3
  <2>8. \A j \in DOMAIN sch.wave : sch.wave[j] = e \/ \E i \in DOMAIN new.wave : new.wave[i] = sch.wave[j]
    <3> TAKE j \in DOMAIN sch.wave
    <3>1. CASE j = 1 BY <2>2, <3>1
    <3>2. CASE j # 1
      <4>1. j - 1 \in DOMAIN new.wave /\ new.wave[j - 1] = sch.wave[j] BY <2>2, <2>3, <3>2
      <4> QED BY <4>1
    <3> QED BY <3>1, <3>2
  <2>9. ASSUME NEW q \in InputParts PROVE Ran(new, q) <=> Ran(sch, q)
    <3>1. <<1, q>> \in Tasks BY FirstTask
    <3>2. ASSUME Ran(new, q) PROVE Ran(sch, q)
      <4>1. CASE \E i \in DOMAIN new.wave : new.wave[i].task = <<1, q>> /\ new.wave[i].state = "ok"
        BY <2>7, <4>1 DEF Ran
      <4>2. CASE new.accepted[<<1, q>>] # None
        <5>1. CASE <<1, q>> = e.task BY <2>2, <2>3, <5>1 DEF Ran
        <5>2. CASE <<1, q>> # e.task BY <2>6, <3>1, <4>2, <5>2 DEF Ran
        <5> QED BY <5>1, <5>2
      <4> QED BY <3>2, <4>1, <4>2 DEF Ran
    <3>3. ASSUME Ran(sch, q) PROVE Ran(new, q)
      <4>1. CASE sch.accepted[<<1, q>>] # None BY <2>4, <2>6, <3>1, <4>1 DEF Ran
      <4>2. CASE \E j \in DOMAIN sch.wave : sch.wave[j].task = <<1, q>> /\ sch.wave[j].state = "ok"
        <5>1. PICK j \in DOMAIN sch.wave : sch.wave[j].task = <<1, q>> /\ sch.wave[j].state = "ok" BY <4>2
        <5>2. CASE sch.wave[j] = e
          <6>1. new.accepted[<<1, q>>] = e.added BY <2>6, <3>1, <5>1, <5>2
          <6> QED BY <2>4, <6>1 DEF Ran
        <5>3. CASE \E i \in DOMAIN new.wave : new.wave[i] = sch.wave[j] BY <5>1, <5>3 DEF Ran
        <5> QED BY <2>8, <5>2, <5>3
      <4> QED BY <3>3, <4>1, <4>2 DEF Ran
    <3> QED BY <3>2, <3>3
  <2>10. ASSUME NEW t \in MapTasks, new.accepted[t] # None PROVE new.accepted[t] = Added(fresh, t)
    <3>1. t \in Tasks BY TaskLemma
    <3>2. CASE t = e.task
      <4>1. e.added = Added(fresh, e.task) BY <2>2, <2>3, <2>10, <3>2 DEF Kept
      <4> QED BY <2>6, <3>1, <3>2, <4>1
    <3>3. CASE t # e.task BY <2>6, <2>10, <3>1, <3>3 DEF Kept
    <3> QED BY <3>2, <3>3
  <2>11. \A i \in DOMAIN new.wave :
          new.wave[i].task \in MapTasks /\ new.wave[i].state = "ok" =>
              new.wave[i].added = Added(fresh, new.wave[i].task)
    BY SMTT(30), <2>7 DEF Kept
  <2>12. \A q \in InputParts : Ran(new, q) \/ ~fresh => q \in hold[Home(q)] BY <2>9 DEF Kept
  <2>13. fresh /\ live => \A q \in InputParts, w \in W : q \in hold[w] => Ran(new, q) BY <2>9 DEF Kept
  <2> QED BY <2>10, <2>11, <2>12, <2>13 DEF Kept
(* A map task of the wave: where it runs, and whether its partition has been *)
(* read in this job.                                                         *)
<1>WaveTask. ASSUME NEW sch \in Schedulers, Placed(sch), NEW i \in DOMAIN sch.wave,
             sch.wave[i].task \in MapTasks, NEW q, sch.wave[i].task[2] = q
      PROVE  /\ q \in InputParts /\ sch.wave[i].task = <<sch.stage, q>> /\ sch.wave[i].worker = Home(q)
             /\ Home(q) \in W
             /\ sch.stage # 1 => Ran(sch, q)
             /\ sch.stage = 1 /\ sch.wave[i].state = "sent" => ~Ran(sch, q)
  <2> USE <1>WaveTask
  <2>1. sch.wave \in Seq(CallRecs) /\ sch.stage \in 1..ResultStage /\ sch.stage \in Nat BY Fields
  <2>2. DOMAIN sch.wave \subseteq Nat \ {0} BY SMTT(30), <2>1
  <2> DEFINE low == Low(sch)
  <2>3. low \in Nat BY DEF Placed, Ordered
  <2>4. \A j \in DOMAIN sch.wave :
          /\ sch.wave[j].task = <<sch.stage, low + j - 1>>
          /\ sch.stage # ResultStage => sch.wave[j].worker = Home(low + j - 1)
    BY DEF Placed, Ordered
  <2>5. \A t \in Tasks : sch.accepted[t] # None <=> t[1] < sch.stage \/ (t[1] = sch.stage /\ t[2] < low)
    BY DEF Placed, Ordered
  <2> HIDE DEF low
  <2>6. low + i - 1 = q /\ sch.wave[i].task = <<sch.stage, q>> BY SMTT(30), <2>4
  <2>7. q \in InputParts BY DEF MapTasks, InputParts
  <2>8. sch.wave[i].task[1] = sch.stage BY SMTT(30), <2>6
  <2>9. sch.stage # ResultStage BY SMTT(30), <2>8, TaskLemma
  <2>10. sch.wave[i].worker = Home(q) BY <2>4, <2>6, <2>9
  <2>11. q \in Nat BY SMTT(30), <2>7 DEF InputParts
  <2>12. Home(q) \in W BY <2>11, HomeLemma
  <2>13. <<1, q>> \in Tasks /\ <<1, q>>[1] = 1 /\ <<1, q>>[2] = q BY <2>7, FirstTask
  <2>14. ASSUME sch.stage # 1 PROVE Ran(sch, q)
    <3>1. 1 < sch.stage BY SMTT(30), <2>1, <2>14
    <3> QED BY <2>5, <2>13, <3>1 DEF Ran
  <2>15. ASSUME sch.stage = 1, sch.wave[i].state = "sent" PROVE ~Ran(sch, q)
    <3>1. sch.accepted[<<1, q>>] = None
      <4>1. i \in Nat \ {0} BY <2>2
      <4>2. ~(1 < 1) /\ ~(q < low) BY SMTT(30), <2>3, <2>6, <4>1
      <4> QED BY <2>5, <2>13, <2>15, <4>2
    <3>2. ASSUME NEW j \in DOMAIN sch.wave, sch.wave[j].task = <<1, q>>, sch.wave[j].state = "ok" PROVE FALSE
      <4>1. low + j - 1 = q BY SMTT(30), <2>4, <3>2
      <4>2. i \in Nat /\ j \in Nat BY <2>2
      <4>3. i = j BY SMTT(30), <2>3, <2>6, <4>1, <4>2
      <4> QED BY <2>15, <3>2, <4>3
    <3> QED BY <3>1, <3>2 DEF Ran
  <2> QED BY <2>6, <2>7, <2>10, <2>12, <2>14, <2>15
(* A task runs: in the first stage of a job that computes nobody holds its *)
(* partition yet, later or otherwise its own worker does.                  *)
<1>AnswersKept. ASSUME NEW fresh, NEW sch \in Schedulers, Placed(sch), NEW hold, Kept(fresh, TRUE, sch, hold),
             NEW i, NEW n, NEW new, Answers(sch, i, n, new), NEW held, Runs(sch.wave[i], n, hold, held)
      PROVE  Kept(fresh, TRUE, new, held)
  <2> USE <1>AnswersKept
  <2> DEFINE e == sch.wave[i]
             t == e.task
             ans == [e EXCEPT !.state = "ok", !.added = n]
  <2>1. i \in DOMAIN sch.wave /\ e.state = "sent" /\ ans \in CallRecs /\ new = [sch EXCEPT !.wave[i] = ans]
    BY DEF Answers
  <2>2. e \in CallRecs
    <3>1. sch.wave \in Seq(CallRecs) BY Fields
    <3> QED BY SMTT(30), <2>1, <3>1
  <2>3. ans.task = t /\ ans.state = "ok" /\ ans.added = n BY <2>2 DEF CallRecs
  <2>4. new.accepted = sch.accepted /\ new.wave = [sch.wave EXCEPT ![i] = ans] BY <2>1 DEF Schedulers
  <2>5. /\ DOMAIN new.wave = DOMAIN sch.wave /\ new.wave[i] = ans
        /\ \A j \in DOMAIN sch.wave : j # i => new.wave[j] = sch.wave[j]
    BY <2>1, <2>4
  <2>6. /\ n = IF t \in MapTasks /\ t[2] \notin hold[e.worker] THEN 1 ELSE 0
        /\ \A w \in W : held[w] = IF w = e.worker /\ t \in MapTasks THEN hold[w] \cup {t[2]} ELSE hold[w]
    BY DEF Runs
  <2>7. t \in MapTasks =>
          /\ t[2] \in InputParts /\ t = <<sch.stage, t[2]>> /\ e.worker = Home(t[2])
          /\ Home(t[2]) \in W
          /\ sch.stage # 1 => Ran(sch, t[2])
          /\ sch.stage = 1 => ~Ran(sch, t[2])
    BY <2>1, <1>WaveTask
  <2> HIDE DEF ans, t, e
  <2>8. \A q : Ran(sch, q) => Ran(new, q)
    <3> TAKE q
    <3>1. CASE sch.accepted[<<1, q>>] # None BY <2>4, <3>1 DEF Ran
    <3>2. ASSUME NEW j \in DOMAIN sch.wave, sch.wave[j].task = <<1, q>>, sch.wave[j].state = "ok"
          PROVE  Ran(new, q)
      <4>1. j # i BY <2>1, <3>2 DEF e
      <4> QED BY <2>5, <3>2, <4>1 DEF Ran
    <3> QED BY <3>1, <3>2 DEF Ran
  <2>9. \A q : Ran(new, q) => Ran(sch, q) \/ t = <<1, q>>
    <3> SUFFICES ASSUME NEW q, Ran(new, q), t # <<1, q>> PROVE Ran(sch, q) OBVIOUS
    <3>1. CASE new.accepted[<<1, q>>] # None BY <2>4, <3>1 DEF Ran
    <3>2. ASSUME NEW j \in DOMAIN new.wave, new.wave[j].task = <<1, q>>, new.wave[j].state = "ok"
          PROVE  Ran(sch, q)
      <4>1. j # i BY <2>3, <2>5, <3>2
      <4> QED BY <2>5, <3>2, <4>1 DEF Ran
    <3> QED BY <3>1, <3>2 DEF Ran
  <2>10. ASSUME NEW q \in InputParts, Ran(new, q) \/ ~fresh PROVE q \in held[Home(q)]
    <3>1. Home(q) \in W
      <4>1. q \in Nat BY SMTT(30) DEF InputParts
      <4> QED BY <4>1, HomeLemma
    <3>2. CASE Ran(sch, q) \/ ~fresh
      <4>1. q \in hold[Home(q)] BY <3>2 DEF Kept
      <4> QED BY <2>6, <3>1, <4>1
    <3>3. CASE t = <<1, q>>
      <4>1. t \in MapTasks /\ t[2] = q BY <3>3, FirstTask
      <4> QED BY <2>6, <2>7, <3>1, <4>1
    <3> QED BY <2>9, <2>10, <3>2, <3>3
  <2>11. ASSUME fresh, NEW q \in InputParts, NEW w \in W, q \in held[w] PROVE Ran(new, q)
    <3>1. CASE q \in hold[w]
      <4>1. Ran(sch, q) BY <2>11, <3>1 DEF Kept
      <4> QED BY <2>8, <4>1
    <3>2. CASE t \in MapTasks /\ t[2] = q
      <4>1. CASE sch.stage # 1 BY <2>7, <2>8, <3>2, <4>1
      <4>2. CASE sch.stage = 1
        <5>1. t = <<1, q>> BY <2>7, <3>2, <4>2
        <5>2. new.wave[i].task = <<1, q>> /\ new.wave[i].state = "ok" /\ i \in DOMAIN new.wave
          BY <2>1, <2>3, <2>5, <5>1
        <5> QED BY <5>2 DEF Ran
      <4> QED BY <4>1, <4>2
    <3> QED BY <2>6, <2>11, <3>1, <3>2
  <2>12. t \in MapTasks => n = Added(fresh, t)
    <3> SUFFICES ASSUME t \in MapTasks PROVE n = Added(fresh, t) OBVIOUS
    <3>1. t[1] = sch.stage /\ e.worker = Home(t[2]) /\ t[2] \in InputParts /\ Home(t[2]) \in W BY SMTT(30), <2>7
    <3>2. CASE fresh /\ sch.stage = 1
      <4>1. t[2] \notin hold[e.worker] BY <2>7, <3>1, <3>2 DEF Kept
      <4> QED BY <2>6, <3>1, <3>2, <4>1 DEF Added
    <3>3. CASE ~fresh \/ sch.stage # 1
      <4>1. t[2] \in hold[e.worker] BY <2>7, <3>1, <3>3 DEF Kept
      <4> QED BY <2>6, <3>1, <3>3, <4>1 DEF Added
    <3> QED BY <3>2, <3>3
  <2>13. ASSUME NEW j \in DOMAIN new.wave, new.wave[j].task \in MapTasks, new.wave[j].state = "ok"
         PROVE  new.wave[j].added = Added(fresh, new.wave[j].task)
    <3>1. CASE j = i BY <2>3, <2>5, <2>12, <2>13, <3>1
    <3>2. CASE j # i BY <2>5, <2>13, <3>2 DEF Kept
    <3> QED BY <3>1, <3>2
  <2>14. \A m \in MapTasks : new.accepted[m] # None => new.accepted[m] = Added(fresh, m) BY <2>4 DEF Kept
  <2> QED BY <2>10, <2>11, <2>13, <2>14 DEF Kept
(* What the tasks of a whole job added.                                      *)
<1>KeptSum. ASSUME NEW fresh, NEW live, NEW sch, NEW hold, Kept(fresh, live, sch, hold),
             \A t \in Tasks : sch.accepted[t] # None
      PROVE  SumFunctionOnSet(sch.accepted, MapTasks) = IF fresh THEN Parts ELSE 0
  <2> USE <1>KeptSum
  <2> DEFINE a == sch.accepted
             D == {1} \X InputParts
  <2>1. \A t \in MapTasks : a[t] = Added(fresh, t) BY TaskLemma DEF Kept
  <2>2. IsFiniteSet(MapTasks) BY TasksFinite
  <2> HIDE DEF a
  <2>3. CASE ~fresh
    <3>1. \A t \in MapTasks : a[t] = 0 BY <2>1, <2>3 DEF Added
    <3>2. SumFunctionOnSet(a, MapTasks) = 0 BY <2>2, <3>1, SumZeros
    <3> QED BY <2>3, <3>2 DEF a
  <2>4. CASE fresh
    <3>1. D \in SUBSET MapTasks BY SMTT(30), FirstTask
    <3>2. \A t \in MapTasks : t \in D <=> t[1] = 1
      <4>1. \A t \in MapTasks : t = <<t[1], t[2]>> /\ t[2] \in InputParts BY SMTT(30) DEF MapTasks, InputParts
      <4> QED BY SMTT(30), <4>1
    <3>3. \A t \in MapTasks : a[t] = IF t \in D THEN 1 ELSE 0 BY <2>1, <2>4, <3>2 DEF Added
    <3>4. IsFiniteSet(D) /\ Cardinality(D) = Parts
      <4>1. Parts \in Nat BY SizesAssumption
      <4>2. IsFiniteSet(InputParts) /\ Cardinality(InputParts) = Parts
        <5>1. Parts - 1 \in Int /\ 0 \in Int BY SMTT(30), <4>1
        <5>2. /\ IsFiniteSet(0..(Parts - 1))
              /\ Cardinality(0..(Parts - 1)) = IF 0 > Parts - 1 THEN 0 ELSE (Parts - 1) - 0 + 1 BY <5>1, FS_Interval
        <5> QED BY SMTT(30), <4>1, <5>2 DEF InputParts
      <4>3. IsFiniteSet({1}) /\ Cardinality({1}) = 1 BY FS_Singleton
      <4>4. Cardinality(D) = 1 * Parts /\ IsFiniteSet(D) BY <4>2, <4>3, FS_Product
      <4> QED BY SMTT(30), <4>1, <4>4
    <3> HIDE DEF D
    <3>5. \A t \in MapTasks : a[t] \in Nat
      <4>1. 0 \in Nat /\ 1 \in Nat BY SMTT(30)
      <4> QED BY <3>3, <4>1
    <3>6. SumFunctionOnSet(a, MapTasks) = SumFunctionOnSet(a, D) + SumFunctionOnSet(a, MapTasks \ D)
      BY SMTT(30), <2>2, <3>1, <3>5, SumSplit
    <3>7. SumFunctionOnSet(a, D) = Parts
      <4>1. \A t \in D : a[t] = 1 BY <3>1, <3>3
      <4> QED BY <3>4, <4>1, SumOnes
    <3>8. SumFunctionOnSet(a, MapTasks \ D) = 0
      <4>1. IsFiniteSet(MapTasks \ D) BY <2>2, FS_Subset
      <4>2. \A t \in MapTasks \ D : a[t] = 0 BY <3>3
      <4> QED BY <4>1, <4>2, SumZeros
    <3>9. Parts + 0 = Parts BY SMTT(30), SizesAssumption
    <3> QED BY <2>4, <3>6, <3>7, <3>8, <3>9 DEF a
  <2> QED BY <2>3, <2>4
(* A step of the scheduler that ends no job.                                 *)
<1>StepCache. ASSUME Quiet, NEW at, Step(s', at), pc # "idle", at # "idle",
             Kept(Computes, TRUE, s, Holding) => Kept(Computes, TRUE, s', Holding)
      PROVE  CacheInv'
  <2> USE <1>StepCache
  <2>1. /\ Kept(Computes, pc # "idle" \/ program.reuse, s, Holding)
        /\ acc = IF program.reuse /\ succeeded > 0 THEN Parts ELSE succeeded * Parts
    BY QuietLemma
  <2>2. /\ pc' = at /\ UNCHANGED <<program, succeeded, acc, jobCache, reusable>>
    BY DEF Step, worker
  <2>3. Computes' = Computes /\ Holding' = Holding BY <2>2 DEF Computes, Holding
  <2>4. Kept(Computes, TRUE, s, Holding) BY <2>1 DEF Kept
  <2>5. Kept(Computes, TRUE, s', Holding) BY <2>4
  <2>6. Kept(Computes, pc # "idle" \/ program.reuse, s, Holding)' BY <2>2, <2>3, <2>5
  <2> QED BY <2>1, <2>2, <2>6 DEF CacheInv
(* A new job: its workers hold nothing for it, or what the identity kept.  *)
<1>SubmitCache. Quiet /\ Submit => CacheInv'
  <2> SUFFICES ASSUME Quiet, Submit PROVE CacheInv' OBVIOUS
  <2>1. /\ CountInv
        /\ Kept(Computes, pc # "idle" \/ program.reuse, s, Holding)
        /\ acc = IF program.reuse /\ succeeded > 0 THEN Parts ELSE succeeded * Parts
    BY QuietLemma
  <2>2. /\ s' = NewScheduler /\ pc = "idle" /\ pc' = "fill" /\ jobCache' = [w \in W |-> {}]
        /\ UNCHANGED <<program, succeeded, acc, reusable>>
    BY DEF Submit
  <2>3. s = NewScheduler BY <2>1, <2>2 DEF CountInv, Fine, Typed
  <2>4. Kept(Computes, pc # "idle" \/ program.reuse, s, Holding)'
    <3>1. CASE program.reuse
      <4>1. Computes' = Computes /\ Holding' = Holding BY <2>2, <3>1 DEF Computes, Holding
      <4>2. Kept(Computes, TRUE, s, Holding) BY <2>1, <3>1 DEF Kept
      <4>3. s' = s BY <2>2, <2>3
      <4> QED BY <2>2, <4>1, <4>2, <4>3
    <3>2. CASE ~program.reuse
      <4>1. Computes' BY <2>2, <3>2 DEF Computes
      <4>2. \A w \in W : Holding'[w] = {} BY <2>2, <3>2 DEF Holding
      <4> QED BY <2>2, <4>1, <4>2, NewKept
    <3> QED BY <3>1, <3>2
  <2> QED BY <2>1, <2>2, <2>4 DEF CacheInv
(* A job ends: every partition was computed once, or none, and all are     *)
(* held.                                                                   *)
<1>SuccessCache. ASSUME Quiet, pc # "idle", EndJob(TRUE), \A t \in Tasks : s.accepted[t] # None
      PROVE  CacheInv'
  <2> USE <1>SuccessCache
  <2>1. /\ CountInv
        /\ Kept(Computes, pc # "idle" \/ program.reuse, s, Holding)
        /\ acc = IF program.reuse /\ succeeded > 0 THEN Parts ELSE succeeded * Parts
    BY QuietLemma
  <2>2. /\ s' = NewScheduler /\ pc' = "idle" /\ succeeded' = succeeded + 1
        /\ UNCHANGED <<program, reusable, jobCache>>
    BY DEF EndJob, worker
  <2>3. acc' = acc + SumFunctionOnSet(s.accepted, MapTasks) BY <2>1, SuccessCount
  <2>4. SumFunctionOnSet(s.accepted, MapTasks) = IF Computes THEN Parts ELSE 0 BY <2>1, <1>KeptSum
  <2>5. succeeded \in Nat /\ Parts \in Nat BY <2>1, SizesAssumption DEF CountInv
  <2>6. succeeded + 1 # 0 /\ succeeded + 1 > 0 BY SMTT(30), <2>5
  <2>7. acc' = IF program.reuse /\ succeeded' > 0 THEN Parts ELSE succeeded' * Parts
    <3>1. CASE program.reuse
      <4>1. acc = IF succeeded > 0 THEN Parts ELSE succeeded * Parts BY <2>1, <3>1
      <4>2. Computes <=> succeeded = 0 BY <3>1 DEF Computes
      <4>3. acc' = acc + (IF succeeded = 0 THEN Parts ELSE 0) BY <2>3, <2>4, <4>2
      <4>4. acc' = Parts BY SMTT(30), <2>5, <4>1, <4>3
      <4> QED BY <2>2, <2>6, <3>1, <4>4
    <3>2. CASE ~program.reuse
      <4>1. acc = succeeded * Parts /\ acc' = acc + Parts BY <2>1, <2>3, <2>4, <3>2 DEF Computes
      <4>2. (succeeded + 1) * Parts = succeeded * Parts + Parts BY SMTT(30), <2>5
      <4> QED BY <2>2, <3>2, <4>1, <4>2
    <3> QED BY <3>1, <3>2
  <2>8. Kept(Computes, pc # "idle" \/ program.reuse, s, Holding)'
    <3>1. CASE program.reuse
      <4>1. ~Computes' /\ Holding' = Holding BY <2>2, <2>6, <3>1 DEF Computes, Holding
      <4>2. \A q \in InputParts : Ran(s, q) BY FirstTask DEF Ran
      <4>3. \A q \in InputParts : q \in Holding[Home(q)] BY <2>1, <4>2 DEF Kept
      <4>4. \A q \in InputParts : q \in Holding'[Home(q)] BY <4>1, <4>3
      <4> QED BY <2>2, <4>1, <4>4, NewKept
    <3>2. CASE ~program.reuse
      <4>1. Computes' /\ ~program'.reuse BY <2>2, <3>2 DEF Computes
      <4> QED BY <2>2, <4>1, NewKept
    <3> QED BY <3>1, <3>2
  <2> QED BY <2>2, <2>7, <2>8 DEF CacheInv
(* A task runs.                                                            *)
<1>RunCache. ASSUME Quiet, NEW i \in Calls, NEW lost \in BOOLEAN, RunTask(i, lost), faults' = 0
      PROVE  CacheInv'
  <2> USE <1>RunCache
  <2> DEFINE e == s.wave[i]
             n == Cardinality(Computed(e.task, e.worker))
  <2>1. /\ Smooth /\ CountInv /\ program.cached
        /\ Kept(Computes, pc # "idle" \/ program.reuse, s, Holding)
        /\ acc = IF program.reuse /\ succeeded > 0 THEN Parts ELSE succeeded * Parts
    BY QuietLemma
  <2>2. /\ Answers(s, i, n, s')
        /\ program.reuse => /\ reusable' = [reusable EXCEPT ![e.worker] = @ \cup Puts(e.task)]
                            /\ jobCache' = jobCache
        /\ ~program.reuse => /\ jobCache' = [jobCache EXCEPT ![e.worker] = @ \cup Puts(e.task)]
                             /\ reusable' = reusable
        /\ UNCHANGED <<program, pc, succeeded, acc>>
    BY <2>1, RunPlaced
  <2>3. pc \in {"idle", "fill", "exec"} /\ s \in Schedulers /\ Placed(s) /\ WorkerType BY <2>1, SmoothLemma
  <2>4. /\ e.task \in Tasks /\ e.worker \in W /\ pc = "exec"
    BY <2>1, <2>3, CallLemma
  <2>5. n = IF e.task \in MapTasks /\ e.task[2] \notin Holding[e.worker] THEN 1 ELSE 0
    <3>1. Holds(e.worker) = Holding[e.worker] BY DEF Holds, Holding
    <3>2. n = IF e.task \in MapTasks /\ (program.cached => e.task[2] \notin Holds(e.worker)) THEN 1 ELSE 0
      <4> HIDE DEF e
      <4> QED BY <2>4, ComputedLemma
    <3> HIDE DEF n, e
    <3> QED BY <2>1, <3>1, <3>2
  <2>6. Puts(e.task) = IF e.task \in MapTasks THEN {e.task[2]} ELSE {} BY <2>1 DEF Puts, Reads
  <2> HIDE DEF e, n
  <2>7. DOMAIN Holding = W BY <2>3 DEF WorkerType, Holding
  <2>8. Holding' = [Holding EXCEPT ![e.worker] = @ \cup Puts(e.task)] BY <2>2 DEF Holding
  <2>9. \A w \in W : Holding'[w] =
          IF w = e.worker /\ e.task \in MapTasks THEN Holding[w] \cup {e.task[2]} ELSE Holding[w]
    BY <2>4, <2>6, <2>7, <2>8
  <2>10. Runs(s.wave[i], n, Holding, Holding') BY <2>5, <2>9 DEF Runs, e
  <2>11. Kept(Computes, TRUE, s, Holding) BY <2>1, <2>4 DEF Kept
  <2>12. Kept(Computes, TRUE, s', Holding') BY <2>2, <2>3, <2>10, <2>11, <1>AnswersKept
  <2>13. Computes' = Computes /\ pc' # "idle" BY <2>2, <2>4 DEF Computes
  <2>14. Kept(Computes, pc # "idle" \/ program.reuse, s, Holding)' BY <2>12, <2>13
  <2> QED BY <2>1, <2>2, <2>14 DEF CacheInv
<1> SUFFICES ASSUME CountInv, PlaceInv, CacheInv, RelInv, [Next]_vars,
                    program'.cached, faults' = 0, ~released'
             PROVE  CacheInv'
  BY DEF CacheInv
<1>1. Quiet BY NoneBefore DEF Quiet, Smooth
<1>2. Smooth /\ rel = NoRelease BY <1>1, QuietLemma
<1>3. s \in Schedulers BY <1>2, SmoothLemma
<1>4. CASE Submit BY <1>1, <1>4, <1>SubmitCache
<1>5. CASE FillWave
  <2>1. Step(s', "fill") /\ Appends(s, s') BY <1>2, <1>5, FillPlaced
  <2>2. pc # "idle" BY <1>5 DEF FillWave
  <2>3. Kept(Computes, TRUE, s, Holding) => Kept(Computes, TRUE, s', Holding) BY <1>3, <2>1, <1>AppendKept
  <2> QED BY <1>1, <2>1, <2>2, <2>3, <1>StepCache
<1>6. CASE CloseWave
  <2>1. pc # "idle" BY <1>6 DEF CloseWave
  <2>2. CASE Step(s', "exec") /\ s' = s BY <1>1, <2>1, <2>2, <1>StepCache
  <2>3. CASE Step(s', "fill") /\ s'.accepted = s.accepted /\ s'.wave = s.wave
    <3>1. Kept(Computes, TRUE, s, Holding) => Kept(Computes, TRUE, s', Holding) BY <2>3, <1>SameKept
    <3> QED BY <1>1, <2>1, <2>3, <3>1, <1>StepCache
  <2>4. CASE EndJob(TRUE) /\ \A t \in Tasks : s.accepted[t] # None BY <1>1, <2>1, <2>4, <1>SuccessCache
  <2> QED BY <1>2, <1>6, <2>2, <2>3, <2>4, ClosePlaced
<1>7. CASE AcceptWave
  <2>1. /\ \E at \in {"fill", "exec"} : Step(s', at)
        /\ \E e : e.state = "ok" /\ Moves(s, e, s')
    BY <1>2, <1>7, AcceptPlaced
  <2>2. pc # "idle" BY <1>7 DEF AcceptWave
  <2>3. Kept(Computes, TRUE, s, Holding) => Kept(Computes, TRUE, s', Holding) BY <1>3, <2>1, <1>MovesKept
  <2> QED BY <1>1, <2>1, <2>2, <2>3, <1>StepCache
<1>8. ASSUME NEW i \in Calls, NEW lost \in BOOLEAN, RunTask(i, lost) PROVE CacheInv'
  BY <1>1, <1>8, <1>RunCache
<1>9. CASE Persist \/ UNCHANGED vars
  <2>1. UNCHANGED <<program, s, pc, succeeded, acc, reusable, jobCache>>
    BY <1>9 DEF Persist, vars, job, worker
  <2>2. Computes' = Computes /\ Holding' = Holding BY <2>1 DEF Computes, Holding
  <2> QED BY <1>1, <2>1, <2>2, QuietLemma DEF CacheInv
<1>10. ~Unpersist /\ ~Stop /\ ~ReleaseWorker /\ ~ReleaseFails /\ ~EndRelease
  BY <1>2 DEF Unpersist, Stop, ReleaseWorker, ReleaseFails, EndRelease
<1> QED BY <1>2, <1>4, <1>5, <1>6, <1>7, <1>8, <1>9, <1>10, NoFailure

(* The inductive invariant of the jobs.                                      *)
JobInv == CountInv /\ PlaceInv /\ CacheInv /\ RelInv

(* The invariant of jobs over a cached or uncached input.                  *)
THEOREM JobCorrect == Spec => []JobInv
<1>1. Init => JobInv BY InitCount, InitPlace, InitCache DEF JobInv
<1>2. JobInv /\ [Next]_vars => JobInv' BY NextCount, NextPlace, NextCache, NextRel DEF JobInv
<1> QED BY <1>1, <1>2, PTL DEF Spec

(* mergeAccumulators counts what accepted attempts computed, once. In      *)
(* particular, without faults and releases placement finds every cached    *)
(* partition again: an input is computed once per job, or once in all      *)
(* under a reusable identity.                                              *)
THEOREM AccumulatorsCorrect == Spec => []AccumulatorsOnce
<1>1. JobInv => AccumulatorsOnce BY DEF JobInv, CountInv, CacheInv, AccumulatorsOnce
<1> QED BY <1>1, JobCorrect, PTL

-----------------------------------------------------------------------------
(* The local half of the composition: Store is LocalStore, whose proofs are  *)
(* taken as Local.                                                           *)
Local == INSTANCE LocalStoreProofs

(* A run of the composition is a run of LocalStore,                          *)
LEMMA StorageRuns == StorageSpec => Local!Spec
<1>1. StorageInit => Local!Init
  BY DEF StorageInit,
      Store!Init, Local!Init, Store!RDDs, Local!RDDs, Store!Keys, Local!Keys, Store!Partitions,
      Local!Partitions, Store!Idle, Local!Idle
<1>2. Store!Next => Local!Next
  BY DEF
      Store!RDDs, Local!RDDs, Store!Partitions, Local!Partitions, Store!Keys, Local!Keys,
      Store!Levels, Local!Levels, Store!InMemory, Local!InMemory, Store!OnDisk, Local!OnDisk,
      Store!Idle, Local!Idle, Store!Alive, Local!Alive, Store!Stores, Local!Stores,
      Store!IsCached, Local!IsCached, Store!ComputeShuffleStages, Local!ComputeShuffleStages,
      Store!ReadPart, Local!ReadPart, Store!PutPartition, Local!PutPartition, Store!Hit,
      Local!Hit, Store!Found, Local!Found, Store!ComputeShuffled, Local!ComputeShuffled,
      Store!ComputePartition, Local!ComputePartition, Store!RunAction, Local!RunAction,
      Store!Keep, Local!Keep, Store!DiskErrors, Local!DiskErrors, Store!Excused, Local!Excused,
      Store!Outcome, Local!Outcome, Store!Action, Local!Action, Store!Persist, Local!Persist,
      Store!Unpersist, Local!Unpersist, Store!Stop, Local!Stop, Store!NewDir, Local!NewDir,
      Store!BeginCheckpoint, Local!BeginCheckpoint, Store!Dir, Local!Dir, Store!Unwritten,
      Local!Unwritten, Store!NextPart, Local!NextPart, Store!OpenPart, Local!OpenPart,
      Store!FinishPart, Local!FinishPart, Store!BeginManifest, Local!BeginManifest,
      Store!Publish, Local!Publish, Store!Rest, Local!Rest, Store!Remove, Local!Remove,
      Store!FailCheckpoint, Local!FailCheckpoint, Store!RemoveCheckpoint,
      Local!RemoveCheckpoint, Store!Crash, Local!Crash, Store!Next, Local!Next
<1>3. [StorageNext]_storage => [Local!Next]_(Local!vars)
  BY <1>2 DEF StorageNext, storage, store, Local!vars
<1> QED BY <1>1, <1>3, PTL DEF StorageSpec, Local!Spec

(* and one of CachedJob.                                                     *)
LEMMA StorageJobs == StorageSpec => Spec
<1>1. StorageInit => Init BY DEF StorageInit
<1>2. [StorageNext]_storage => [Next]_vars BY DEF StorageNext, storage
<1> QED BY <1>1, <1>2, PTL DEF StorageSpec, Spec

(* Persist, Unpersist, Checkpoint and Stop never change what an RDD is, and  *)
(* a checkpoint that ReadCheckpoint accepts is complete.                     *)
THEOREM StoredAlways == StorageSpec => []StoredExact
<1>1. Local!Spec => []Local!StoredExact BY NumPartsAssumption, Local!StoredCorrect
<1>2. Local!StoredExact => StoredExact
  BY DEF StoredExact,
      Store!StoredExact, Local!StoredExact, Store!CheckpointsComplete,
      Local!CheckpointsComplete, Store!ReadCheckpoint, Local!ReadCheckpoint, Store!Keys,
      Local!Keys, Store!RDDs, Local!RDDs, Store!Partitions, Local!Partitions
<1> QED BY <1>1, <1>2, StorageRuns, PTL

(* All that the storage run checks, of the composition it checks it of.      *)
THEOREM StorageCorrect == StorageSpec => []AccumulatorsOnce /\ []StoredExact /\ ForgottenIsReleased
BY StorageJobs, AccumulatorsCorrect, StoredAlways, ForgottenCorrect, PTL
==============================================================================
