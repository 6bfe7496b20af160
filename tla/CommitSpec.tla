------------------------------ MODULE CommitSpec ------------------------------
(***************************************************************************)
(* What a distributed save promises: the output path holds nothing until   *)
(* it holds, at once and for good, the complete dataset of one job; a      *)
(* driver that reports success published the dataset that is there, and    *)
(* one that reports "output already committed" found some dataset there.   *)
(***************************************************************************)
CONSTANTS Jobs, NoJob

VARIABLES dataset,  \* the job whose complete dataset readers see, or NoJob
          report    \* what each driver returned, "none" while it runs

cvars == <<dataset, report>>

CInit ==
  /\ dataset = NoJob
  /\ report = [j \in Jobs |-> "none"]

(* Publishing and returning may be one step or two. *)
PublishDataset(j) ==
  /\ dataset = NoJob
  /\ dataset' = j
  /\ report' \in {report, [report EXCEPT ![j] = "success"]}
  /\ report' # report => report[j] = "none"

Report(j) ==
  /\ report[j] = "none"
  /\ \E r \in {"success", "already", "failed"} :
       /\ r = "success" => dataset = j
       /\ r = "already" => dataset # NoJob
       /\ report' = [report EXCEPT ![j] = r]
  /\ UNCHANGED dataset

CNext == \E j \in Jobs : PublishDataset(j) \/ Report(j)

CSpec == CInit /\ [][CNext]_cvars
=============================================================================
