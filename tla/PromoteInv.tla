----------------------------- MODULE PromoteInv -----------------------------
(***************************************************************************)
(* The inductive invariant of Promote.  The safety properties are about    *)
(* states a run is seen in from outside; what makes them hold is what is   *)
(* known at each step of the work in between, which is stated here.        *)
(***************************************************************************)
EXTENDS Promote

PromoteSteps == {"link", "prove", "delete", "seal", "finish", "log", "hash"}
StageSteps == {"stage", "drop", "droplog", "dropfinish", "rename", "sealname", "finishname"}
UnlinkSteps == {"destroy", "logdestroyed", "finishdestroyed"}

\* A run and its worklist exist together, and the object at work is a job.
FlowOK ==
  /\ pc = "idle" <=> mode = "none"
  /\ pc = "idle" => todo = {} /\ \A o \in Objects : job[o] = "none"
  /\ pc \in {"idle", "next"} <=> cur = NoObject
  /\ cur # NoObject => cur \in todo
  /\ \A o \in todo : /\ job[o] # "none"
                     /\ ~Unfinished(o) => pc = "log" /\ cur = o
  /\ pc = "repaired" => mode = "repair"
  /\ pc \in PromoteSteps => job[cur] \in {"promote", "stage_rename"}
  /\ pc \in StageSteps => job[cur] = "stage_rename"
  /\ pc \in UnlinkSteps => job[cur] = "unlink"

Linkable(o) == "orig" \notin ro[o] /\ o \notin shared

\* What the disk holds for the object at work, step by step.
WorkOK ==
  LET o == cur IN
  /\ pc \in {"link", "prove", "delete", "stage", "drop", "rename", "destroy"} =>
       src[o] = "orig"
  /\ pc \in {"seal", "finish", "log", "hash", "droplog", "dropfinish", "sealname",
             "finishname", "logdestroyed", "finishdestroyed"} => src[o] = NoFile
  /\ pc = "delete" => tgt[o] = "orig"
  /\ pc \in {"seal", "finish", "log", "sealname", "finishname"} => tgt[o] = "orig"
  /\ pc \in {"drop", "droplog", "dropfinish"} => HasBytes(tgt[o])
  /\ pc = "hash" => tgt[o] # NoFile
  /\ pc = "log" => fstate[o] = "published"
  /\ pc = "finishdestroyed" => log[o]["unlink"] > 0

\* The ledger row of the object at work was opened before the disk changed.
RowOK ==
  LET o == cur IN
  /\ pc \in PromoteSteps \cup StageSteps => row[o].intent = job[o]
  /\ pc \in UnlinkSteps => row[o].intent = "unlink"
  /\ pc \in (PromoteSteps \cup StageSteps \cup UnlinkSteps) \ {"log"} =>
       row[o].status \in {"intent", "failed"}

\* An object with two names is writable and has no third.
TwoNames ==
  \A o \in Objects : src[o] = "orig" /\ tgt[o] = "orig" => Linkable(o)

\* The jobs a run has put behind it are finished or left whole on record.
JobsBehind ==
  mode = "execute" =>
    /\ \A p \in Objects \ todo : job[p] \in {"promote", "stage_rename"} =>
         \/ fstate[p] = "published"
         \/ row[p].status \in {"collision", "half_linked", "blocked"}
    /\ cur # NoObject => \A p \in todo : Rank(job[cur]) =< Rank(job[p])

Inductive ==
  /\ TypeOK
  /\ FlowOK
  /\ WorkOK
  /\ RowOK
  /\ TwoNames
  /\ JobsBehind
  /\ PublishedHoldsBytes
  /\ ExcludedIsOnRecord
  /\ LogIsTrue
  /\ AbsenceIsOnRecord
  /\ RepairRowsAreRepairable
=============================================================================
