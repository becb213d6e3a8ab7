---------------------------- MODULE ArchiveProofs ----------------------------
(***************************************************************************)
(* Theorems of Promote, for every set of objects, every set of faults and  *)
(* every bound; and of Inventory and Origins: what the five phases report  *)
(* and write, and what the exports say, for every tree of files, every     *)
(* snapshot of it and any number of edits, kills, retries, adoptions and   *)
(* exports.                                                                *)
(***************************************************************************)
EXTENDS MCPromote, Origins, TLAPS


-----------------------------------------------------------------------------
(* Type correctness.                                                       *)

\* A step of the work on an object keeps the types.
LEMMA WorkKeepsTypes ==
  ASSUME TypeOK, NEW o \in Objects, Work(o)
  PROVE  TypeOK'
<1> USE DEF TypeOK, Files, NoFile, Intents, Statuses, LogKinds, Steps, Record,
            Finish, LogDelete, At, Goto, NextJob, Stop, Outside, Refuse,
            Chosen, Called, Deleted, DeleteBlocked, disk, books, volatile
<1>1. CASE RepairClear(o)
  BY <1>1 DEF RepairClear
<1>2. CASE PromoteCollides(o)
  BY <1>2 DEF PromoteCollides
<1>3. CASE PromoteAbsent(o)
  BY <1>3 DEF PromoteAbsent
<1>4. CASE PromoteIntent(o)
  BY <1>4 DEF PromoteIntent
<1>5. CASE PromotePrecondition(o)
  BY <1>5 DEF PromotePrecondition
<1>6. CASE PromoteLink(o)
  BY <1>6 DEF PromoteLink
<1>7. CASE PromoteLinkFails(o)
  BY <1>7 DEF PromoteLinkFails
<1>8. CASE PromoteProve(o)
  BY <1>8 DEF PromoteProve
<1>9. CASE PromoteUnproven(o)
  BY <1>9 DEF PromoteUnproven
<1>10. CASE PromoteDelete(o)
  BY <1>10 DEF PromoteDelete
<1>11. CASE PromoteHalfLinked(o)
  BY <1>11 DEF PromoteHalfLinked
<1>12. CASE PromoteSeal(o)
  BY <1>12 DEF PromoteSeal
<1>13. CASE PromoteUnsealed(o)
  BY <1>13 DEF PromoteUnsealed
<1>14. CASE PromoteFinish(o)
  BY <1>14 DEF PromoteFinish
<1>15. CASE PromoteLog(o)
  BY <1>15 DEF PromoteLog
<1>16. CASE PromoteRecover(o)
  BY <1>16 DEF PromoteRecover
<1>17. CASE PromoteImpostor(o)
  BY <1>17 DEF PromoteImpostor
<1>18. CASE StageGone(o)
  BY <1>18 DEF StageGone
<1>19. CASE StageIntent(o)
  BY <1>19 DEF StageIntent
<1>20. CASE StageImpostor(o)
  BY <1>20 DEF StageImpostor
<1>21. CASE StageLook(o)
  BY <1>21 DEF StageLook
<1>22. CASE StageDrop(o)
  BY <1>22 DEF StageDrop
<1>23. CASE StageBlocked(o)
  BY <1>23 DEF StageBlocked
<1>24. CASE StageDropLog(o)
  BY <1>24 DEF StageDropLog
<1>25. CASE StageDropFinish(o)
  BY <1>25 DEF StageDropFinish
<1>26. CASE StageRename(o)
  BY <1>26 DEF StageRename
<1>27. CASE StageSeal(o)
  BY <1>27 DEF StageSeal
<1>28. CASE StageFinish(o)
  BY <1>28 DEF StageFinish
<1>29. CASE UnlinkIntent(o)
  BY <1>29 DEF UnlinkIntent
<1>30. CASE UnlinkRecover(o)
  BY <1>30 DEF UnlinkRecover
<1>31. CASE UnlinkUnaccounted(o)
  BY <1>31 DEF UnlinkUnaccounted
<1>32. CASE UnlinkDelete(o)
  BY <1>32 DEF UnlinkDelete
<1>33. CASE UnlinkBlocked(o)
  BY <1>33 DEF UnlinkBlocked
<1>34. CASE UnlinkLog(o)
  BY <1>34 DEF UnlinkLog
<1>35. CASE UnlinkFinish(o)
  BY <1>35 DEF UnlinkFinish
<1>36. QED
  BY <1>1, <1>2, <1>3, <1>4, <1>5, <1>6, <1>7, <1>8, <1>9, <1>10, <1>11,
     <1>12, <1>13, <1>14, <1>15, <1>16, <1>17, <1>18, <1>19, <1>20, <1>21,
     <1>22, <1>23, <1>24, <1>25, <1>26, <1>27, <1>28, <1>29, <1>30, <1>31,
     <1>32, <1>33, <1>34, <1>35
  DEF Work, PromoteOne, StageRenameOne, UnlinkOne

\* Every step keeps the types.
LEMMA TypeStep == TypeOK /\ [Next]_vars => TypeOK'
<1> SUFFICES ASSUME TypeOK, [Next]_vars PROVE TypeOK'
  OBVIOUS
<1> USE ObjectsAssumption DEF TypeOK, Files, NoFile, Intents, Statuses,
            LogKinds, Steps, disk, books, volatile, Outside
<1>1. CASE StartExecute
  BY <1>1 DEF StartExecute, Start, Verdict, Worklist
<1>2. CASE StartRepair
  BY <1>2 DEF StartRepair, Start, Verdict, Worklist
<1>3. CASE EndRun
  BY <1>3 DEF EndRun, Stop
<1>4. CASE Kill
  BY <1>4 DEF Kill, Upset, Stop
<1>5. CASE \E o \in Objects : Work(o)
  BY <1>5, WorkKeepsTypes
<1>6. CASE \E o \in Objects : Arrive(o)
  BY <1>6 DEF Arrive, Upset
<1>7. CASE \E o \in Objects : Decide(o)
  BY <1>7 DEF Decide, Upset
<1>8. CASE UNCHANGED vars
  BY <1>8 DEF vars
<1>9. QED
  BY <1>1, <1>2, <1>3, <1>4, <1>5, <1>6, <1>7, <1>8 DEF Next

(***************************************************************************)
(* Every variable keeps its type: statuses, states and intents are never   *)
(* mixed up, and the bounded counters stay in their bounds.                *)
(***************************************************************************)
THEOREM TypeCorrect == Spec => []TypeOK
<1>1. Init => TypeOK
  BY ObjectsAssumption DEF Init, TypeOK, Files, NoFile, Intents, Statuses,
     LogKinds, Steps
<1>2. QED
  BY <1>1, TypeStep, PTL DEF Spec

-----------------------------------------------------------------------------
(* The inductive invariant.                                                *)

\* One step of the work: the types of the next state are given, and each
\* action disturbs only what is known of the object it works on.
LEMMA WorkKeepsInductive ==
  ASSUME Inductive, NEW o \in Objects, Work(o), TypeOK'
  PROVE  Inductive'
<1> USE ObjectsAssumption DEF Inductive, FlowOK, WorkOK, RowOK, TwoNames,
            JobsBehind, PublishedHoldsBytes, ExcludedIsOnRecord, LogIsTrue,
            AbsenceIsOnRecord, RepairRowsAreRepairable, TypeOK, Files, NoFile,
            Intents, Statuses, LogKinds, Steps, HasBytes, Unfinished,
            PromoteSteps, StageSteps, UnlinkSteps, Linkable, Rank, Classify,
            Record, Finish, LogDelete, At, Goto, NextJob, Stop, Outside,
            Refuse, Chosen, Called, Deleted, DeleteBlocked, disk, books,
            volatile
<1>1. CASE RepairClear(o)
  BY <1>1 DEF RepairClear
<1>2. CASE PromoteCollides(o)
  BY <1>2 DEF PromoteCollides
<1>3. CASE PromoteAbsent(o)
  BY <1>3 DEF PromoteAbsent
<1>4. CASE PromoteIntent(o)
  BY <1>4 DEF PromoteIntent
<1>5. CASE PromotePrecondition(o)
  BY <1>5 DEF PromotePrecondition
<1>6. CASE PromoteLink(o)
  BY <1>6 DEF PromoteLink, Baseline, Nlink, One
<1>7. CASE PromoteLinkFails(o)
  BY <1>7 DEF PromoteLinkFails
<1>8. CASE PromoteProve(o)
  BY <1>8 DEF PromoteProve, Linked
<1>9. CASE PromoteUnproven(o)
  BY <1>9 DEF PromoteUnproven
<1>10. CASE PromoteDelete(o)
  BY <1>10 DEF PromoteDelete
<1>11. CASE PromoteHalfLinked(o)
  BY <1>11 DEF PromoteHalfLinked
<1>12. CASE PromoteSeal(o)
  BY <1>12 DEF PromoteSeal
<1>13. CASE PromoteUnsealed(o)
  BY <1>13 DEF PromoteUnsealed
<1>14. CASE PromoteFinish(o)
  BY <1>14 DEF PromoteFinish
<1>15. CASE PromoteLog(o)
  BY <1>15 DEF PromoteLog
<1>16. CASE PromoteRecover(o)
  BY <1>16 DEF PromoteRecover
<1>17. CASE PromoteImpostor(o)
  BY <1>17 DEF PromoteImpostor
<1>18. CASE StageGone(o)
  BY <1>18 DEF StageGone
<1>19. CASE StageIntent(o)
  BY <1>19 DEF StageIntent
<1>20. CASE StageImpostor(o)
  BY <1>20 DEF StageImpostor
<1>21. CASE StageLook(o)
  BY <1>21 DEF StageLook
<1>22. CASE StageDrop(o)
  BY <1>22 DEF StageDrop
<1>23. CASE StageBlocked(o)
  BY <1>23 DEF StageBlocked
<1>24. CASE StageDropLog(o)
  BY <1>24 DEF StageDropLog
<1>25. CASE StageDropFinish(o)
  BY <1>25 DEF StageDropFinish
<1>26. CASE StageRename(o)
  BY <1>26 DEF StageRename
<1>27. CASE StageSeal(o)
  BY <1>27 DEF StageSeal
<1>28. CASE StageFinish(o)
  BY <1>28 DEF StageFinish
<1>29. CASE UnlinkIntent(o)
  BY <1>29 DEF UnlinkIntent
<1>30. CASE UnlinkRecover(o)
  BY <1>30 DEF UnlinkRecover
<1>31. CASE UnlinkUnaccounted(o)
  BY <1>31 DEF UnlinkUnaccounted
<1>32. CASE UnlinkDelete(o)
  BY <1>32 DEF UnlinkDelete
<1>33. CASE UnlinkBlocked(o)
  BY <1>33 DEF UnlinkBlocked
<1>34. CASE UnlinkLog(o)
  BY <1>34 DEF UnlinkLog
<1>35. CASE UnlinkFinish(o)
  BY <1>35 DEF UnlinkFinish
<1>36. QED
  BY <1>1, <1>2, <1>3, <1>4, <1>5, <1>6, <1>7, <1>8, <1>9, <1>10, <1>11,
     <1>12, <1>13, <1>14, <1>15, <1>16, <1>17, <1>18, <1>19, <1>20, <1>21,
     <1>22, <1>23, <1>24, <1>25, <1>26, <1>27, <1>28, <1>29, <1>30, <1>31,
     <1>32, <1>33, <1>34, <1>35
  DEF Work, PromoteOne, StageRenameOne, UnlinkOne

\* A run begins with every job ahead of it, and ends with none.
LEMMA RunsKeepInductive ==
  ASSUME Inductive, StartExecute \/ StartRepair \/ EndRun \/ Kill, TypeOK'
  PROVE  Inductive'
<1> USE ObjectsAssumption DEF Inductive, FlowOK, WorkOK, RowOK, TwoNames,
            JobsBehind, PublishedHoldsBytes, ExcludedIsOnRecord, LogIsTrue,
            AbsenceIsOnRecord, RepairRowsAreRepairable, TypeOK, Files, NoFile,
            Intents, Statuses, LogKinds, Steps, HasBytes, Unfinished,
            PromoteSteps, StageSteps, UnlinkSteps, Linkable, Rank, Classify,
            disk, books, volatile, Outside
<1>1. CASE StartExecute
  BY <1>1 DEF StartExecute, Start, Verdict, Worklist
<1>2. CASE StartRepair
  BY <1>2 DEF StartRepair, Start, Verdict, Worklist
<1>3. CASE EndRun
  BY <1>3 DEF EndRun, Stop
<1>4. CASE Kill
  BY <1>4 DEF Kill, Upset, Stop
<1>5. QED
  BY <1>1, <1>2, <1>3, <1>4

\* What is known survives strangers at a free target name and new verdicts.
LEMMA OthersKeepInductive ==
  ASSUME Inductive, NEW o \in Objects, Arrive(o) \/ Decide(o), TypeOK'
  PROVE  Inductive'
<1> USE ObjectsAssumption DEF Inductive, FlowOK, WorkOK, RowOK, TwoNames,
            JobsBehind, PublishedHoldsBytes, ExcludedIsOnRecord, LogIsTrue,
            AbsenceIsOnRecord, RepairRowsAreRepairable, TypeOK, Files, NoFile,
            Intents, Statuses, LogKinds, Steps, HasBytes, Unfinished,
            PromoteSteps, StageSteps, UnlinkSteps, Linkable, Rank, Classify,
            disk, books, volatile
<1>1. CASE Arrive(o)
  BY <1>1 DEF Arrive, Upset
<1>2. CASE Decide(o)
  BY <1>2 DEF Decide, Upset
<1>3. QED
  BY <1>1, <1>2

\* Every step keeps the inductive invariant.
LEMMA InductiveStep == Inductive /\ [Next]_vars => Inductive'
<1> SUFFICES ASSUME Inductive, [Next]_vars PROVE Inductive'
  OBVIOUS
<1>1. TypeOK'
  BY TypeStep DEF Inductive
<1>2. CASE StartExecute \/ StartRepair \/ EndRun \/ Kill
  BY <1>1, <1>2, RunsKeepInductive
<1>3. CASE \E o \in Objects : Work(o)
  BY <1>1, <1>3, WorkKeepsInductive
<1>4. CASE \E o \in Objects : Arrive(o) \/ Decide(o)
  BY <1>1, <1>4, OthersKeepInductive
<1>5. CASE UNCHANGED vars
  BY <1>1, <1>5 DEF vars, disk, books, volatile, Inductive, FlowOK, WorkOK,
     RowOK, TwoNames, JobsBehind, PublishedHoldsBytes, ExcludedIsOnRecord,
     LogIsTrue, AbsenceIsOnRecord, RepairRowsAreRepairable, HasBytes,
     Unfinished, PromoteSteps, StageSteps, UnlinkSteps, Linkable, Rank,
     Classify
<1>6. QED
  BY <1>2, <1>3, <1>4, <1>5 DEF Next

LEMMA InitIsInductive == Init => Inductive
<1> SUFFICES ASSUME Init PROVE Inductive
  OBVIOUS
<1>1. TypeOK
  BY ObjectsAssumption DEF Init, TypeOK, Files, NoFile, Intents, Statuses,
     LogKinds, Steps
<1>2. QED
  BY <1>1, ObjectsAssumption DEF Init, NoFile, Inductive, FlowOK, WorkOK,
     RowOK, TwoNames, JobsBehind, PublishedHoldsBytes, ExcludedIsOnRecord,
     LogIsTrue, AbsenceIsOnRecord, RepairRowsAreRepairable, HasBytes,
     Unfinished, PromoteSteps, StageSteps, UnlinkSteps, Linkable, Rank,
     Classify

(***************************************************************************)
(* What is known at each step of the work, and of every object between     *)
(* steps, is known in every reachable state.                               *)
(***************************************************************************)
THEOREM InductiveHolds == Spec => []Inductive
BY InitIsInductive, InductiveStep, PTL DEF Spec

-----------------------------------------------------------------------------
(* The safety properties.                                                  *)

(***************************************************************************)
(* F06: no file with both of its names is ever read-only, so no object is  *)
(* ever made undeletable half-way.                                         *)
(***************************************************************************)
THEOREM SealedHasOneName == Spec => []NeverSealedWithTwoNames
<1>1. Inductive => NeverSealedWithTwoNames
  BY DEF Inductive, TwoNames, Linkable, NeverSealedWithTwoNames
<1>2. QED
  BY <1>1, InductiveHolds, PTL

(***************************************************************************)
(* A published object has left MediaVault, its vault name holds its own    *)
(* bytes, and the ledger says how they came there.                         *)
(***************************************************************************)
THEOREM PublishedIsHeld == Spec => []PublishedHoldsBytes
<1>1. Inductive => PublishedHoldsBytes
  BY DEF Inductive
<1>2. QED
  BY <1>1, InductiveHolds, PTL

(***************************************************************************)
(* An excluded object has its line in the log and its unlink row in the    *)
(* ledger before its state says so.                                        *)
(***************************************************************************)
THEOREM ExcludedIsLogged == Spec => []ExcludedIsOnRecord
<1>1. Inductive => ExcludedIsOnRecord
  BY DEF Inductive
<1>2. QED
  BY <1>1, InductiveHolds, PTL

(***************************************************************************)
(* A line of the log is never about a name that is still there.            *)
(***************************************************************************)
THEOREM LogNeverLies == Spec => []LogIsTrue
<1>1. Inductive => LogIsTrue
  BY DEF Inductive
<1>2. QED
  BY <1>1, InductiveHolds, PTL

(***************************************************************************)
(* After a kill at any point, a missing name can be told from an untouched *)
(* object by its ledger row, and lost bytes by an unlink row.              *)
(***************************************************************************)
THEOREM AbsenceIsExplained == Spec => []AbsenceIsOnRecord
<1>1. Inductive => AbsenceIsOnRecord
  BY DEF Inductive
<1>2. QED
  BY <1>1, InductiveHolds, PTL

(***************************************************************************)
(* The two together: every object is accounted for by the ledger and the   *)
(* disk, whatever was killed (promote.py:716).                             *)
(***************************************************************************)
THEOREM ObjectsStayAccounted == Spec => []EveryObjectIsAccounted
<1>1. PublishedHoldsBytes /\ AbsenceIsOnRecord => EveryObjectIsAccounted
  BY DEF EveryObjectIsAccounted
<1>2. QED
  BY <1>1, PublishedIsHeld, AbsenceIsExplained, PTL

(***************************************************************************)
(* Names, attribute and books agree for every set of objects, kills and    *)
(* faults.                                                                 *)
(***************************************************************************)
THEOREM NamesAndBooksAlwaysAgree == Spec => []NamesAndBooksAgree
<1>1. NeverSealedWithTwoNames /\ EveryObjectIsAccounted => NamesAndBooksAgree
  BY DEF NamesAndBooksAgree
<1>2. QED
  BY <1>1, SealedHasOneName, ObjectsStayAccounted, PTL

(***************************************************************************)
(* Every row the repair pass selects by its status is in the state the     *)
(* repair expects, whatever happened since the row was written.            *)
(***************************************************************************)
THEOREM RepairIsPossible == Spec => []RepairRowsAreRepairable
<1>1. Inductive => RepairRowsAreRepairable
  BY DEF Inductive
<1>2. QED
  BY <1>1, InductiveHolds, PTL

(***************************************************************************)
(* No run destroys an excluded object while a kept one of its worklist is  *)
(* still to be moved.                                                      *)
(***************************************************************************)
THEOREM KeptObjectsComeFirst == Spec => []KeptComeFirst
<1>1. Inductive => KeptComeFirst
  BY DEF Inductive, TypeOK, FlowOK, JobsBehind, KeptComeFirst, Rank,
     UnlinkSteps, Intents, Steps
<1>2. QED
  BY <1>1, InductiveHolds, PTL

\* Nothing is done to an object once it is finished.
LEMMA FinishedStep ==
  ASSUME Inductive, [Next]_vars, NEW p \in Objects, ~Unfinished(p)
  PROVE  /\ fstate'[p] = fstate[p]
         /\ src'[p] = src[p]
         /\ tgt'[p] = tgt[p]
         /\ ro'[p] = ro[p]
<1>1. CASE StartExecute \/ StartRepair \/ EndRun \/ Kill \/ UNCHANGED vars
  BY <1>1 DEF StartExecute, StartRepair, Start, EndRun, Kill, vars, disk, books
<1>2. ASSUME NEW o \in Objects, Work(o)
      PROVE  /\ fstate'[p] = fstate[p]
             /\ src'[p] = src[p]
             /\ tgt'[p] = tgt[p]
             /\ ro'[p] = ro[p]
  <2>1. CASE o # p
    BY <1>2, <2>1 DEF Inductive, TypeOK, Work, PromoteOne, StageRenameOne,
       UnlinkOne, RepairClear, PromoteCollides, PromoteAbsent, PromoteIntent,
       PromotePrecondition, PromoteLink, PromoteLinkFails, PromoteProve,
       PromoteUnproven, PromoteDelete, PromoteHalfLinked, PromoteSeal,
       PromoteUnsealed, PromoteFinish, PromoteLog, PromoteRecover,
       PromoteImpostor, StageGone, StageIntent, StageImpostor, StageLook,
       StageDrop, StageBlocked, StageDropLog, StageDropFinish, StageRename,
       StageSeal, StageFinish, UnlinkIntent, UnlinkRecover, UnlinkUnaccounted,
       UnlinkDelete, UnlinkBlocked, UnlinkLog, UnlinkFinish, Record, Finish,
       LogDelete, At, Goto, NextJob, Stop, Outside, Refuse, Chosen, Called,
       Deleted, DeleteBlocked, disk, books
  <2>2. CASE o = p
    <3>1. o \in todo => pc = "log" /\ cur = o
      BY <2>2 DEF Inductive, FlowOK
    <3>2. At(o, "log") \/ Chosen(o) \/ cur = o
      BY <1>2 DEF Work, PromoteOne, StageRenameOne, UnlinkOne, RepairClear,
         PromoteCollides, PromoteAbsent, PromoteIntent, PromotePrecondition,
         PromoteLink, PromoteLinkFails, PromoteProve, PromoteUnproven,
         PromoteDelete, PromoteHalfLinked, PromoteSeal, PromoteUnsealed,
         PromoteFinish, PromoteLog, PromoteRecover, PromoteImpostor,
         StageGone, StageIntent, StageImpostor, StageLook, StageDrop,
         StageBlocked, StageDropLog, StageDropFinish, StageRename, StageSeal,
         StageFinish, UnlinkIntent, UnlinkRecover, UnlinkUnaccounted,
         UnlinkDelete, UnlinkBlocked, UnlinkLog, UnlinkFinish, At, Called,
         Chosen
    <3>3. At(o, "log")
      BY <3>1, <3>2, ObjectsAssumption DEF Inductive, FlowOK, At, Chosen
    <3>4. PromoteLog(o)
      BY <1>2, <3>3 DEF Work, PromoteOne, StageRenameOne, UnlinkOne,
         RepairClear, PromoteCollides, PromoteAbsent, PromoteIntent,
         PromotePrecondition, PromoteLink, PromoteLinkFails, PromoteProve,
         PromoteUnproven, PromoteDelete, PromoteHalfLinked, PromoteSeal,
         PromoteUnsealed, PromoteFinish, PromoteLog, PromoteRecover,
         PromoteImpostor, StageGone, StageIntent, StageImpostor, StageLook,
         StageDrop, StageBlocked, StageDropLog, StageDropFinish, StageRename,
         StageSeal, StageFinish, UnlinkIntent, UnlinkRecover,
         UnlinkUnaccounted, UnlinkDelete, UnlinkBlocked, UnlinkLog,
         UnlinkFinish, At, Called, Chosen, DeleteBlocked
    <3>5. QED
      BY <3>4 DEF PromoteLog, disk
  <2>3. QED
    BY <2>1, <2>2
<1>3. ASSUME NEW o \in Objects, Arrive(o) \/ Decide(o)
      PROVE  /\ fstate'[p] = fstate[p]
             /\ src'[p] = src[p]
             /\ tgt'[p] = tgt[p]
             /\ ro'[p] = ro[p]
  BY <1>3 DEF Inductive, TypeOK, Arrive, Decide, Unfinished, disk, books
<1>4. QED
  BY <1>1, <1>2, <1>3 DEF Next

(***************************************************************************)
(* A finished object keeps its state, its names and its read-only          *)
(* attribute through every later run, repair, kill and recovery.           *)
(***************************************************************************)
THEOREM FinishedStaysFinished == Spec => FinishedIsFinal
<1>1. Inductive /\ [Next]_vars =>
        [\A o \in Objects : ~Unfinished(o) =>
          /\ fstate'[o] = fstate[o]
          /\ src'[o] = src[o]
          /\ tgt'[o] = tgt[o]
          /\ ro'[o] = ro[o]]_vars
  BY FinishedStep
<1>2. QED
  BY <1>1, InductiveHolds, PTL DEF Spec, FinishedIsFinal

-----------------------------------------------------------------------------
(* What promote_verify finds.                                              *)

\* Where the source is gone, the vault name is sealed unless the object is on record as
\* left bare, but while a run is between the delete and the seal.
AfterDelete == {"seal", "finish", "sealname", "finishname", "logdestroyed", "finishdestroyed"}
Resting(o) == src[o] = NoFile /\ ~(cur = o /\ pc \in AfterDelete)
BareInv ==
  /\ \A o \in Objects : src[o] # NoFile => o \notin bare
  /\ \A o \in Objects : Resting(o) /\ fstate[o] \in {"read", "published"} =>
       (tgt[o] \in ro[o] <=> o \notin bare)
  /\ \A o \in Objects : Resting(o) /\ Unfinished(o) /\ row[o].intent = "unlink" =>
       o \in bare /\ tgt[o] \notin ro[o]
  /\ pc \in {"seal", "sealname", "finish", "finishname"} => cur \notin bare
  /\ pc = "seal" => tgt[cur] \notin ro[cur]
  /\ pc \in {"finish", "finishname"} => tgt[cur] \in ro[cur]
  /\ pc \in {"logdestroyed", "finishdestroyed"} => tgt[cur] \notin ro[cur]
  /\ pc \in {"droplog", "dropfinish"} => cur \in bare /\ tgt[cur] \notin ro[cur]

\* What the other two need of names and jobs: nobody seals a file but the object's own,
\* a vault name of it is no third name, and a target is hashed only for an object that
\* was never staged.
NamesInv ==
  /\ shared \cap Staged = {}
  /\ \A o \in Objects : fstate[o] = "staged" \/ job[o] = "stage_rename" => o \in Staged
  /\ \A o \in Objects : ro[o] \subseteq {"orig"} /\ (tgt[o] = "orig" => o \notin shared)
  /\ mode = "execute" => \A o \in Objects : job[o] = "promote" => fstate[o] # "staged"
  /\ \A o \in Objects : job[o] = "stage_rename" => fstate[o] # "read"
  /\ mode = "repair" => \A o \in todo : cur # o \/ pc = "repaired" => src[o] = "orig"
  /\ pc = "hash" => fstate[cur] = "read"

\* A destruction is logged once, or more when a run was killed after the line.
Expected(o) == IF fstate[o] = "excluded" \/ (cur = o /\ pc = "finishdestroyed") THEN 1 ELSE 0
LoggedInv ==
  \A o \in Objects : IF o \in relogged THEN log[o]["unlink"] > Expected(o)
                                      ELSE log[o]["unlink"] = Expected(o)

\* One step of the work, and the names.
LEMMA WorkKeepsNames ==
  ASSUME Inductive, Inductive', NamesInv, NEW o \in Objects, Work(o)
  PROVE  NamesInv'
<1> USE ObjectsAssumption DEF Inductive, FlowOK, WorkOK, RowOK, PublishedHoldsBytes, ExcludedIsOnRecord,
            TypeOK, Files, NoFile, Intents, Statuses, LogKinds, Steps, HasBytes, Unfinished,
            PromoteSteps, StageSteps, UnlinkSteps, Classify, Record, Finish, LogDelete, At, Goto,
            NextJob, Stop, Outside, Refuse, Chosen, Called, Deleted, DeleteBlocked, disk, books,
            volatile, NamesInv
<1>1. CASE RepairClear(o)
  BY <1>1 DEF RepairClear
<1>2. CASE PromoteCollides(o)
  BY <1>2 DEF PromoteCollides
<1>3. CASE PromoteAbsent(o)
  BY <1>3 DEF PromoteAbsent
<1>4. CASE PromoteIntent(o)
  BY <1>4 DEF PromoteIntent
<1>5. CASE PromotePrecondition(o)
  BY <1>5 DEF PromotePrecondition
<1>6. CASE PromoteLink(o)
  BY <1>6 DEF PromoteLink, Baseline, Nlink, One
<1>7. CASE PromoteLinkFails(o)
  BY <1>7 DEF PromoteLinkFails
<1>8. CASE PromoteProve(o)
  BY <1>8 DEF PromoteProve, Linked
<1>9. CASE PromoteUnproven(o)
  BY <1>9 DEF PromoteUnproven
<1>10. CASE PromoteDelete(o)
  BY <1>10 DEF PromoteDelete
<1>11. CASE PromoteHalfLinked(o)
  BY <1>11 DEF PromoteHalfLinked
<1>12. CASE PromoteSeal(o)
  BY <1>12 DEF PromoteSeal, Nlink, One
<1>13. CASE PromoteUnsealed(o)
  BY <1>13 DEF PromoteUnsealed
<1>14. CASE PromoteFinish(o)
  BY <1>14 DEF PromoteFinish
<1>15. CASE PromoteLog(o)
  BY <1>15 DEF PromoteLog
<1>16. CASE PromoteRecover(o)
  BY <1>16 DEF PromoteRecover
<1>17. CASE PromoteImpostor(o)
  BY <1>17 DEF PromoteImpostor
<1>18. CASE StageGone(o)
  BY <1>18 DEF StageGone
<1>19. CASE StageIntent(o)
  BY <1>19 DEF StageIntent
<1>20. CASE StageImpostor(o)
  BY <1>20 DEF StageImpostor
<1>21. CASE StageLook(o)
  BY <1>21 DEF StageLook
<1>22. CASE StageDrop(o)
  BY <1>22 DEF StageDrop
<1>23. CASE StageBlocked(o)
  BY <1>23 DEF StageBlocked
<1>24. CASE StageDropLog(o)
  BY <1>24 DEF StageDropLog
<1>25. CASE StageDropFinish(o)
  BY <1>25 DEF StageDropFinish
<1>26. CASE StageRename(o)
  BY <1>26 DEF StageRename
<1>27. CASE StageSeal(o)
  BY <1>27 DEF StageSeal
<1>28. CASE StageFinish(o)
  BY <1>28 DEF StageFinish
<1>29. CASE UnlinkIntent(o)
  BY <1>29 DEF UnlinkIntent
<1>30. CASE UnlinkRecover(o)
  BY <1>30 DEF UnlinkRecover
<1>31. CASE UnlinkUnaccounted(o)
  BY <1>31 DEF UnlinkUnaccounted
<1>32. CASE UnlinkDelete(o)
  BY <1>32 DEF UnlinkDelete
<1>33. CASE UnlinkBlocked(o)
  BY <1>33 DEF UnlinkBlocked
<1>34. CASE UnlinkLog(o)
  BY <1>34 DEF UnlinkLog
<1>35. CASE UnlinkFinish(o)
  BY <1>35 DEF UnlinkFinish
<1> QED
  BY <1>1, <1>2, <1>3, <1>4, <1>5, <1>6, <1>7, <1>8, <1>9, <1>10, <1>11,
     <1>12, <1>13, <1>14, <1>15, <1>16, <1>17, <1>18, <1>19, <1>20, <1>21, <1>22,
     <1>23, <1>24, <1>25, <1>26, <1>27, <1>28, <1>29, <1>30, <1>31, <1>32, <1>33,
     <1>34, <1>35
  DEF Work, PromoteOne, StageRenameOne, UnlinkOne

\* A step of the work takes a source and seals nothing in two ways only.
LEMMA WorkKeepsBare ==
  ASSUME Inductive, Inductive', NamesInv, BareInv, NEW o \in Objects, Work(o),
         bare \subseteq bare', PromoteUnsealed(o) \/ StageDrop(o) => o \in bare',
         \A p \in bare' \ bare : /\ cur = p
                                /\ \/ pc = "seal" /\ pc' = "idle"
                                   \/ pc = "drop" /\ pc' = "droplog"
  PROVE  BareInv'
<1> USE ObjectsAssumption DEF Inductive, FlowOK, WorkOK, RowOK, PublishedHoldsBytes, ExcludedIsOnRecord,
            TypeOK, Files, NoFile, Intents, Statuses, LogKinds, Steps, HasBytes, Unfinished,
            PromoteSteps, StageSteps, UnlinkSteps, Classify, Record, Finish, LogDelete, At, Goto,
            NextJob, Stop, Outside, Refuse, Chosen, Called, Deleted, DeleteBlocked, disk, books,
            volatile, NamesInv, BareInv, Resting, AfterDelete
<1>1. CASE RepairClear(o)
  BY <1>1 DEF RepairClear
<1>2. CASE PromoteCollides(o)
  BY <1>2 DEF PromoteCollides
<1>3. CASE PromoteAbsent(o)
  BY <1>3 DEF PromoteAbsent
<1>4. CASE PromoteIntent(o)
  BY <1>4 DEF PromoteIntent
<1>5. CASE PromotePrecondition(o)
  BY <1>5 DEF PromotePrecondition
<1>6. CASE PromoteLink(o)
  BY <1>6 DEF PromoteLink, Baseline
<1>7. CASE PromoteLinkFails(o)
  BY <1>7 DEF PromoteLinkFails
<1>8. CASE PromoteProve(o)
  BY <1>8 DEF PromoteProve, Linked
<1>9. CASE PromoteUnproven(o)
  BY <1>9 DEF PromoteUnproven
<1>10. CASE PromoteDelete(o)
  BY <1>10 DEF PromoteDelete
<1>11. CASE PromoteHalfLinked(o)
  BY <1>11 DEF PromoteHalfLinked
<1>12. CASE PromoteSeal(o)
  BY <1>12 DEF PromoteSeal, Nlink, One
<1>13. CASE PromoteUnsealed(o)
  BY <1>13 DEF PromoteUnsealed
<1>14. CASE PromoteFinish(o)
  BY <1>14 DEF PromoteFinish
<1>15. CASE PromoteLog(o)
  BY <1>15 DEF PromoteLog
<1>16. CASE PromoteRecover(o)
  BY <1>16 DEF PromoteRecover
<1>17. CASE PromoteImpostor(o)
  BY <1>17 DEF PromoteImpostor
<1>18. CASE StageGone(o)
  BY <1>18 DEF StageGone
<1>19. CASE StageIntent(o)
  BY <1>19 DEF StageIntent
<1>20. CASE StageImpostor(o)
  BY <1>20 DEF StageImpostor
<1>21. CASE StageLook(o)
  BY <1>21 DEF StageLook
<1>22. CASE StageDrop(o)
  BY <1>22 DEF StageDrop
<1>23. CASE StageBlocked(o)
  BY <1>23 DEF StageBlocked
<1>24. CASE StageDropLog(o)
  BY <1>24 DEF StageDropLog
<1>25. CASE StageDropFinish(o)
  BY <1>25 DEF StageDropFinish
<1>26. CASE StageRename(o)
  BY <1>26 DEF StageRename
<1>27. CASE StageSeal(o)
  BY <1>27 DEF StageSeal
<1>28. CASE StageFinish(o)
  BY <1>28 DEF StageFinish
<1>29. CASE UnlinkIntent(o)
  BY <1>29 DEF UnlinkIntent
<1>30. CASE UnlinkRecover(o)
  BY <1>30 DEF UnlinkRecover
<1>31. CASE UnlinkUnaccounted(o)
  BY <1>31 DEF UnlinkUnaccounted
<1>32. CASE UnlinkDelete(o)
  BY <1>32 DEF UnlinkDelete
<1>33. CASE UnlinkBlocked(o)
  BY <1>33 DEF UnlinkBlocked
<1>34. CASE UnlinkLog(o)
  BY <1>34 DEF UnlinkLog
<1>35. CASE UnlinkFinish(o)
  BY <1>35 DEF UnlinkFinish
<1> QED
  BY <1>1, <1>2, <1>3, <1>4, <1>5, <1>6, <1>7, <1>8, <1>9, <1>10, <1>11,
     <1>12, <1>13, <1>14, <1>15, <1>16, <1>17, <1>18, <1>19, <1>20, <1>21, <1>22,
     <1>23, <1>24, <1>25, <1>26, <1>27, <1>28, <1>29, <1>30, <1>31, <1>32, <1>33,
     <1>34, <1>35
  DEF Work, PromoteOne, StageRenameOne, UnlinkOne

\* One step of the work, and the log.
LEMMA WorkKeepsLogged ==
  ASSUME Inductive, LoggedInv, NEW o \in Objects, Work(o), relogged' = relogged
  PROVE  LoggedInv'
<1> USE ObjectsAssumption DEF Inductive, FlowOK, WorkOK, RowOK, PublishedHoldsBytes, ExcludedIsOnRecord,
            TypeOK, Files, NoFile, Intents, Statuses, LogKinds, Steps, Unfinished,
            PromoteSteps, StageSteps, UnlinkSteps, Classify, Record, Finish, LogDelete, At, Goto,
            NextJob, Stop, Outside, Refuse, Chosen, Called, Deleted, DeleteBlocked, disk, books,
            volatile, LoggedInv, Expected
<1>1. CASE RepairClear(o)
  BY <1>1 DEF RepairClear
<1>2. CASE PromoteCollides(o)
  BY <1>2 DEF PromoteCollides
<1>3. CASE PromoteAbsent(o)
  BY <1>3 DEF PromoteAbsent
<1>4. CASE PromoteIntent(o)
  BY <1>4 DEF PromoteIntent
<1>5. CASE PromotePrecondition(o)
  BY <1>5 DEF PromotePrecondition
<1>6. CASE PromoteLink(o)
  BY <1>6 DEF PromoteLink
<1>7. CASE PromoteLinkFails(o)
  BY <1>7 DEF PromoteLinkFails
<1>8. CASE PromoteProve(o)
  BY <1>8 DEF PromoteProve
<1>9. CASE PromoteUnproven(o)
  BY <1>9 DEF PromoteUnproven
<1>10. CASE PromoteDelete(o)
  BY <1>10 DEF PromoteDelete
<1>11. CASE PromoteHalfLinked(o)
  BY <1>11 DEF PromoteHalfLinked
<1>12. CASE PromoteSeal(o)
  BY <1>12 DEF PromoteSeal
<1>13. CASE PromoteUnsealed(o)
  BY <1>13 DEF PromoteUnsealed
<1>14. CASE PromoteFinish(o)
  BY <1>14 DEF PromoteFinish
<1>15. CASE PromoteLog(o)
  BY <1>15 DEF PromoteLog
<1>16. CASE PromoteRecover(o)
  BY <1>16 DEF PromoteRecover
<1>17. CASE PromoteImpostor(o)
  BY <1>17 DEF PromoteImpostor
<1>18. CASE StageGone(o)
  BY <1>18 DEF StageGone
<1>19. CASE StageIntent(o)
  BY <1>19 DEF StageIntent
<1>20. CASE StageImpostor(o)
  BY <1>20 DEF StageImpostor
<1>21. CASE StageLook(o)
  BY <1>21 DEF StageLook
<1>22. CASE StageDrop(o)
  BY <1>22 DEF StageDrop
<1>23. CASE StageBlocked(o)
  BY <1>23 DEF StageBlocked
<1>24. CASE StageDropLog(o)
  BY <1>24 DEF StageDropLog
<1>25. CASE StageDropFinish(o)
  BY <1>25 DEF StageDropFinish
<1>26. CASE StageRename(o)
  BY <1>26 DEF StageRename
<1>27. CASE StageSeal(o)
  BY <1>27 DEF StageSeal
<1>28. CASE StageFinish(o)
  BY <1>28 DEF StageFinish
<1>29. CASE UnlinkIntent(o)
  BY <1>29 DEF UnlinkIntent
<1>30. CASE UnlinkRecover(o)
  BY <1>30 DEF UnlinkRecover
<1>31. CASE UnlinkUnaccounted(o)
  BY <1>31 DEF UnlinkUnaccounted
<1>32. CASE UnlinkDelete(o)
  BY <1>32 DEF UnlinkDelete
<1>33. CASE UnlinkBlocked(o)
  BY <1>33 DEF UnlinkBlocked
<1>34. CASE UnlinkLog(o)
  BY <1>34 DEF UnlinkLog
<1>35. CASE UnlinkFinish(o)
  BY <1>35 DEF UnlinkFinish
<1> QED
  BY <1>1, <1>2, <1>3, <1>4, <1>5, <1>6, <1>7, <1>8, <1>9, <1>10, <1>11,
     <1>12, <1>13, <1>14, <1>15, <1>16, <1>17, <1>18, <1>19, <1>20, <1>21, <1>22,
     <1>23, <1>24, <1>25, <1>26, <1>27, <1>28, <1>29, <1>30, <1>31, <1>32, <1>33,
     <1>34, <1>35
  DEF Work, PromoteOne, StageRenameOne, UnlinkOne

\* Runs begin, end and are killed.
LEMMA RunsKeepSealed ==
  ASSUME Inductive, Inductive', NamesInv, BareInv, LoggedInv,
         StartExecute \/ StartRepair \/ EndRun, UNCHANGED <<bare, relogged>>
  PROVE  NamesInv' /\ BareInv' /\ LoggedInv'
<1> USE ObjectsAssumption DEF Inductive, FlowOK, TypeOK, RepairRowsAreRepairable, Unfinished, NamesInv,
            BareInv, LoggedInv, Resting, AfterDelete, Expected, NoFile, PromoteSteps, StageSteps,
            UnlinkSteps, disk, books, volatile, Outside
<1>1. CASE StartExecute
  BY <1>1 DEF StartExecute, Start, Verdict, Worklist
<1>2. CASE StartRepair
  BY <1>2 DEF StartRepair, Start, Verdict, Worklist
<1>3. CASE EndRun
  BY <1>3 DEF EndRun, Stop
<1> QED
  BY <1>1, <1>2, <1>3

LEMMA KillKeepsSealed ==
  ASSUME Inductive, Inductive', NamesInv, BareInv, LoggedInv, Kill,
         bare' = bare \cup {o \in Objects : LeftBare(o)},
         relogged' = relogged \cup {o \in Objects : KilledAfterLogging(o)}
  PROVE  NamesInv' /\ BareInv' /\ LoggedInv'
<1> USE ObjectsAssumption DEF Inductive, FlowOK, WorkOK, RowOK, TypeOK, Unfinished, NoFile, PromoteSteps,
            StageSteps, UnlinkSteps, Kill, Upset, Stop, disk, books
<1>1. cur \in Objects => (LeftBare(cur) <=> pc \in {"seal", "logdestroyed", "finishdestroyed"})
  BY DEF LeftBare, PromoteUnsealed, StageDrop, Record, Refuse, Goto, At
<1>2. \A o \in Objects : LeftBare(o) => o = cur
  BY DEF LeftBare, PromoteUnsealed, StageDrop, At
<1>3. NamesInv'
  BY DEF NamesInv
<1>4. BareInv'
  BY <1>1, <1>2 DEF BareInv, NamesInv, Resting, AfterDelete
<1>5. LoggedInv'
  BY DEF LoggedInv, Expected, KilledAfterLogging, At, LogKinds
<1> QED
  BY <1>3, <1>4, <1>5

LEMMA OthersKeepSealed ==
  ASSUME Inductive, Inductive', NamesInv, BareInv, LoggedInv, NEW o \in Objects, Arrive(o) \/ Decide(o),
         UNCHANGED <<bare, relogged>>
  PROVE  NamesInv' /\ BareInv' /\ LoggedInv'
<1> USE ObjectsAssumption DEF Inductive, FlowOK, WorkOK, TypeOK, PublishedHoldsBytes, Unfinished,
            PromoteSteps, StageSteps, UnlinkSteps, HasBytes, Files, NamesInv, BareInv, LoggedInv,
            Resting, AfterDelete, Expected, NoFile, disk, books, volatile
<1>1. CASE Arrive(o)
  BY <1>1 DEF Arrive, Upset
<1>2. CASE Decide(o)
  BY <1>2 DEF Decide
<1> QED
  BY <1>1, <1>2

\* Only a kill uses up an upset and ends the run, so nothing else counts as one.
LEMMA WorkIsNoKill ==
  ASSUME TypeOK, NEW o \in Objects, Work(o)
  PROVE  upsets' = upsets
BY DEF Work, RepairClear, PromoteOne, StageRenameOne, UnlinkOne, PromoteCollides, PromoteAbsent,
       PromoteIntent, PromotePrecondition, PromoteLink, PromoteLinkFails, PromoteProve,
       PromoteUnproven, PromoteDelete, PromoteHalfLinked, PromoteSeal, PromoteUnsealed,
       PromoteFinish, PromoteLog, PromoteRecover, PromoteImpostor, StageGone, StageIntent,
       StageImpostor, StageLook, StageDrop, StageBlocked, StageDropLog, StageDropFinish,
       StageRename, StageSeal, StageFinish, UnlinkIntent, UnlinkRecover, UnlinkUnaccounted,
       UnlinkDelete, UnlinkBlocked, UnlinkLog, UnlinkFinish, DeleteBlocked, Refuse, Outside

LEMMA SealedStep ==
  ASSUME Inductive, NamesInv, BareInv, LoggedInv, [HistoryNext]_historyVars
  PROVE  NamesInv' /\ BareInv' /\ LoggedInv'
<1>1. [Next]_vars /\ Inductive'
  BY InductiveStep DEF HistoryNext, historyVars
<1>2. CASE UNCHANGED historyVars
  BY <1>2 DEF historyVars, vars, disk, books, volatile, NamesInv, BareInv, LoggedInv, Resting, Expected,
              Unfinished
<1>3. CASE HistoryNext
  <2>1. /\ bare' = bare \cup {o \in Objects : LeftBare(o)}
        /\ relogged' = relogged \cup {o \in Objects : KilledAfterLogging(o)}
    BY <1>3 DEF HistoryNext
  <2>2. upsets \in Nat /\ (Kill => upsets' = upsets + 1 /\ UNCHANGED <<disk, kept>>)
    BY DEF Inductive, TypeOK, Kill, Upset
  <2>3. ASSUME NEW o \in Objects, Work(o)
        PROVE  NamesInv' /\ BareInv' /\ LoggedInv'
    <3>1. ~Kill
      BY <2>2, <2>3, WorkIsNoKill DEF Inductive
    <3>2. relogged' = relogged /\ bare \subseteq bare'
      BY <2>1, <3>1 DEF KilledAfterLogging
    <3>3. PromoteUnsealed(o) \/ StageDrop(o) => o \in bare'
      BY <2>1 DEF LeftBare
    <3>4. ASSUME NEW p \in bare' \ bare
          PROVE  /\ cur = p
                 /\ \/ pc = "seal" /\ pc' = "idle"
                    \/ pc = "drop" /\ pc' = "droplog"
      BY <2>1, <3>1, <3>4 DEF LeftBare, PromoteUnsealed, StageDrop, At, Refuse, Stop, Goto
    <3> QED
      BY <1>1, <2>3, <3>2, <3>3, <3>4, WorkKeepsNames, WorkKeepsBare, WorkKeepsLogged
  <2>4. CASE ~Kill /\ ~\E o \in Objects : Work(o)
    <3>1. \A o \in Objects : ~PromoteUnsealed(o) /\ ~StageDrop(o)
      BY <2>4 DEF Work, PromoteOne, StageRenameOne
    <3>2. UNCHANGED <<bare, relogged>>
      BY <2>1, <2>4, <3>1 DEF LeftBare, KilledAfterLogging
    <3> QED
      BY <1>1, <1>3, <2>4, <3>2, RunsKeepSealed, OthersKeepSealed DEF HistoryNext, Next
  <2>5. CASE Kill
    BY <1>1, <2>1, <2>5, KillKeepsSealed
  <2> QED
    BY <2>3, <2>4, <2>5
<1> QED
  BY <1>2, <1>3

(***************************************************************************)
(* What promote_verify finds wrong is what an interrupted step left, and   *)
(* it finds all of that: for any objects, faults and bounds, through every *)
(* kill, resume, repair and new verdict (promote_verify.py:16, 189).       *)
(***************************************************************************)
THEOREM VerifyFindsWhatWasLeft == HistorySpec => []VerifyFindsTheInterrupted
<1> DEFINE Inv == Inductive /\ NamesInv /\ BareInv /\ LoggedInv
<1>1. HistoryInit => Inv
  <2> SUFFICES ASSUME HistoryInit PROVE Inv
    OBVIOUS
  <2>1. Inductive
    BY InitIsInductive DEF HistoryInit
  <2>2. NamesInv
    BY DEF HistoryInit, Init, NamesInv, NoFile
  <2>3. BareInv
    BY DEF HistoryInit, Init, BareInv, Resting, NoFile
  <2>4. LoggedInv
    BY DEF HistoryInit, Init, LoggedInv, Expected, LogKinds
  <2> QED
    BY <2>1, <2>2, <2>3, <2>4
<1>2. Inv /\ [HistoryNext]_historyVars => Inv'
  <2> SUFFICES ASSUME Inv, [HistoryNext]_historyVars PROVE Inv'
    OBVIOUS
  <2>1. Inductive'
    BY InductiveStep DEF HistoryNext, historyVars
  <2> QED
    BY <2>1, SealedStep
<1>3. Inv => VerifyFindsTheInterrupted
  <2> SUFFICES ASSUME Inv, NEW o \in Objects \ {cur}
               PROVE  /\ Reconciled(o) <=> o \notin relogged
                      /\ ~Unfinished(o) => NoLeftover(o) /\ row[o].status = "done"
                      /\ fstate[o] = "published" => Rehashed(o) /\ (ReadOnly(o) <=> o \notin bare)
    BY DEF VerifyFindsTheInterrupted
  <2>1. Reconciled(o) <=> o \notin relogged
    BY DEF LoggedInv, Expected, Reconciled, Inductive, TypeOK, LogKinds
  <2>2. ~Unfinished(o) => NoLeftover(o) /\ row[o].status = "done"
    BY DEF Inductive, TypeOK, PublishedHoldsBytes, ExcludedIsOnRecord, Unfinished, NoLeftover
  <2>3. ASSUME fstate[o] = "published"
        PROVE  Rehashed(o) /\ (ReadOnly(o) <=> o \notin bare)
    <3>1. src[o] = NoFile /\ HasBytes(tgt[o])
      BY <2>3 DEF Inductive, PublishedHoldsBytes
    <3>2. Rehashed(o)
      BY <3>1 DEF Rehashed, Nlink, One, HasBytes, NoFile, NamesInv
    <3>3. ReadOnly(o) <=> o \notin bare
      BY <2>3, <3>1 DEF BareInv, Resting, ReadOnly
    <3> QED
      BY <3>2, <3>3
  <2> QED
    BY <2>1, <2>2, <2>3
<1> QED
  BY <1>1, <1>2, <1>3, PTL DEF HistorySpec

-----------------------------------------------------------------------------
(* The refinement.                                                         *)

\* A step that leaves both names alone moves no bytes, whatever it does to
\* the job list.
LEMMA QuietStep ==
  ASSUME UNCHANGED <<src, tgt>>
  PROVE  Bytes!Next
<1>1. [o \in Objects |-> Place(o)]' = [o \in Objects |-> Place(o)]
  BY DEF Place
<1>2. {o \in Objects : job[o] = "unlink"}' \in SUBSET Objects
  OBVIOUS
<1>3. QED
  BY <1>1, <1>2 DEF Bytes!Next, Bytes!Judge

\* The effects that change a name change it for one object, and leave the
\* job list as it is.
LEMMA NameStep ==
  ASSUME Inductive, NEW o \in Objects, job' = job,
         \A p \in Objects \ {o} : Place(p)' = Place(p),
         \/ Place(o)' = Place(o)
         \/ Place(o) = "mediavault" /\ Place(o)' = "vault"
         \/ Place(o) = "nowhere" /\ Place(o)' = "vault"
         \/ Place(o) = "mediavault" /\ Place(o)' = "nowhere" /\ job[o] = "unlink"
  PROVE  [Bytes!Next]_Bytes!custodyVars
<1> DEFINE P == [p \in Objects |-> Place(p)]
           D == {p \in Objects : job[p] = "unlink"}
<1>1. D' = D
  OBVIOUS
<1>2. CASE Place(o)' = Place(o)
  <2>1. P' = P
    BY <1>2
  <2>2. QED
    BY <1>1, <2>1 DEF Bytes!custodyVars
<1>3. CASE Place(o) = "mediavault" /\ Place(o)' = "vault"
  <2>1. P[o] = "mediavault" /\ P' = [P EXCEPT ![o] = "vault"]
    <3>1. \A p \in Objects : P'[p] = [P EXCEPT ![o] = "vault"][p]
      BY <1>3
    <3>2. QED
      BY <1>3, <3>1
  <2>2. Bytes!Move(o)
    BY <1>1, <2>1 DEF Bytes!Move
  <2>3. QED
    BY <2>2 DEF Bytes!Next
<1>4. CASE Place(o) = "nowhere" /\ Place(o)' = "vault"
  <2>1. P[o] = "nowhere" /\ P' = [P EXCEPT ![o] = "vault"]
    <3>1. \A p \in Objects : P'[p] = [P EXCEPT ![o] = "vault"][p]
      BY <1>4
    <3>2. QED
      BY <1>4, <3>1
  <2>2. Bytes!Restore(o)
    BY <1>1, <2>1 DEF Bytes!Restore
  <2>3. QED
    BY <2>2 DEF Bytes!Next
<1>5. CASE Place(o) = "mediavault" /\ Place(o)' = "nowhere" /\ job[o] = "unlink"
  <2>1. P[o] = "mediavault" /\ P' = [P EXCEPT ![o] = "nowhere"]
    <3>1. \A p \in Objects : P'[p] = [P EXCEPT ![o] = "nowhere"][p]
      BY <1>5
    <3>2. QED
      BY <1>5, <3>1
  <2>2. o \in D
    BY <1>5
  <2>3. Bytes!Destroy(o)
    BY <1>1, <2>1, <2>2 DEF Bytes!Destroy
  <2>4. QED
    BY <2>3 DEF Bytes!Next
<1>6. QED
  BY <1>2, <1>3, <1>4, <1>5

\* Every step of the program is a step of Custody or none.
LEMMA CustodyStep ==
  ASSUME Inductive, [Next]_vars
  PROVE  [Bytes!Next]_Bytes!custodyVars
<1> USE DEF Inductive, TypeOK, HasBytes, NoFile, Place
<1>1. CASE StartExecute \/ StartRepair \/ EndRun \/ Kill \/ UNCHANGED vars
  <2>1. UNCHANGED <<src, tgt>>
    BY <1>1 DEF StartExecute, StartRepair, Start, EndRun, Kill, vars, disk
  <2>2. QED
    BY <2>1, QuietStep
<1>2. ASSUME NEW o \in Objects, Work(o) PROVE [Bytes!Next]_Bytes!custodyVars
  <2> USE DEF At, Goto, Deleted, WorkOK, FlowOK, UnlinkSteps
  <2>1. CASE PromoteLink(o)
    BY <2>1, NameStep DEF PromoteLink
  <2>2. CASE PromoteDelete(o)
    BY <2>2, NameStep DEF PromoteDelete
  <2>3. CASE StageDrop(o)
    BY <2>3, NameStep DEF StageDrop
  <2>4. CASE StageRename(o)
    <3>1. CASE UNCHANGED <<src, tgt>>
      BY <3>1, QuietStep
    <3>2. CASE job' = job
      BY <2>4, <3>2, NameStep DEF StageRename
    <3>3. QED
      BY <2>4, <3>1, <3>2 DEF StageRename
  <2>5. CASE UnlinkDelete(o)
    BY <2>5, NameStep DEF UnlinkDelete
  <2>6. CASE UNCHANGED <<src, tgt>>
    BY <2>6, QuietStep
  <2>7. QED
    BY <1>2, <2>1, <2>2, <2>3, <2>4, <2>5, <2>6 DEF Work, PromoteOne,
       StageRenameOne, UnlinkOne, RepairClear, PromoteCollides, PromoteAbsent,
       PromoteIntent, PromotePrecondition, PromoteLinkFails, PromoteProve,
       PromoteUnproven, PromoteHalfLinked, PromoteSeal, PromoteUnsealed,
       PromoteFinish, PromoteLog, PromoteRecover, PromoteImpostor, StageGone,
       StageIntent, StageImpostor, StageLook, StageBlocked, StageDropLog,
       StageDropFinish, StageSeal, StageFinish, UnlinkIntent, UnlinkRecover,
       UnlinkUnaccounted, UnlinkBlocked, UnlinkLog, UnlinkFinish, Refuse,
       DeleteBlocked, disk
<1>3. ASSUME NEW o \in Objects, Arrive(o) PROVE [Bytes!Next]_Bytes!custodyVars
  BY <1>3, NameStep DEF Arrive, Upset, volatile
<1>4. ASSUME NEW o \in Objects, Decide(o) PROVE [Bytes!Next]_Bytes!custodyVars
  BY <1>4, QuietStep DEF Decide, disk
<1>5. QED
  BY <1>1, <1>2, <1>3, <1>4 DEF Next

(***************************************************************************)
(* The program implements Custody: through every interleaving of effects,  *)
(* faults and kills the bytes of an object are moved once, in one step,    *)
(* and are destroyed only by a run whose worklist condemned the object.    *)
(***************************************************************************)
THEOREM CustodyIsKept == Spec => ImplementsCustody
<1>1. Init => Bytes!Init
  BY DEF Init, Bytes!Init, Place, NoFile
<1>2. QED
  BY <1>1, CustodyStep, InductiveHolds, PTL DEF Spec, ImplementsCustody, Bytes!Spec

-----------------------------------------------------------------------------
(* Inventory and Origins. *)

FileRow == [bytes : Nat, size : Nat, mtime : 1..2]
DiskRow == [size : Nat, mtime : 1..2, sha : Nat \union {NoSha}, error : BOOLEAN]
SubtreeRow == [state : {"sampled", "verified", "hard_stop"}, stops : SUBSET Path]
Phases == {"idle", "a", "b", "c", "write", "d"}

Types ==
    /\ world \in Worlds /\ mishaps \in Nat
    /\ file \in [DOMAIN file -> FileRow] /\ DOMAIN file \subseteq Path
    /\ diskRow \in [DOMAIN diskRow -> DiskRow] /\ Listed \subseteq Path
    /\ snap \subseteq InBackup
    /\ subtree \in [DOMAIN subtree -> SubtreeRow]
    /\ DOMAIN origin \subseteq Path /\ \A p \in DOMAIN origin : origin[p].mtime \in 1..2
    /\ run \in [at : Phases, todo : SUBSET Path, dirs : SUBSET Dirs, loose : SUBSET Path]

\* A process hashes what is listed and not hashed yet, and writes what is hashed.
Worklists ==
    /\ run.at \in {"b", "c"} => run.todo \subseteq Listed \ Hashed
    /\ run.at = "write" => run.todo \subseteq Hashed

\* The repository keeps the snapshot, and a dump yields what is in it.
Dumps ==
    /\ \A p \in InBackup : <<p, Snapshot(p)>> \in stored
    /\ \A p \in DOMAIN repoHash : p \in InBackup /\ repoHash[p] = Snapshot(p)

\* A row is what was walked and hashed until the file is changed after it.
Walked ==
    \A p \in Listed \ drift :
        p \in DOMAIN file /\ file[p].size = diskRow[p].size /\ file[p].mtime = diskRow[p].mtime
HashedAsIs == \A p \in Hashed \ since : p \in DOMAIN file /\ file[p].bytes = diskRow[p].sha

\* Without a reason to, no file and no row differs from the snapshot on equal
\* size and date.
Shown(bytes, size, mtime) == bytes # 0 => size # SnapSize \/ mtime > BACKUP_ENDED
Honest ==
    /\ world.damaged \subseteq excused
    /\ \A p \in (DOMAIN file \intersect InBackup) \ excused :
         Shown(file[p].bytes, file[p].size, file[p].mtime)
    /\ \A p \in (Hashed \intersect InBackup) \ excused :
         /\ Shown(diskRow[p].sha, diskRow[p].size, diskRow[p].mtime)
         /\ diskRow[p].sha = 0 \/ diskRow[p].mtime > BACKUP_ENDED \/ p \in snap

\* A verified directory is one in which nothing hashed before it is a stop.
VerifiedIsClean ==
    \A dir \in Verified : Stops((In(dir) \intersect InBackup) \ unseen) = {}

\* While phase c writes, what is hashed is on record as it is, or will be.
WritesAgree ==
    run.at = "write" =>
        \A p \in Hashed \ late :
            IF p \in DOMAIN origin THEN origin[p].sha = diskRow[p].sha ELSE p \in run.todo

PhasesInv ==
    /\ Types /\ Worklists /\ Dumps /\ Walked /\ HashedAsIs /\ Honest
    /\ HardStopsAreReal /\ topped \subseteq Hashed /\ TopUpIsComplete
    /\ VerifiedIsClean /\ WritesAgree

\* The lines of the map are on record, and hold what the last export found.
All == (UNION map.lines) \union map.tail
MapTyped ==
    /\ map = [there |-> map.there, lines |-> map.lines, tail |-> map.tail, end |-> map.end]
    /\ map.end \in {"line", "open", "cut"}
MapInv ==
    /\ MapTyped
    /\ All \subseteq OnRecord
    /\ map.end = "line" => map.tail = {}
    /\ map.end # "cut" => exported \subseteq All
    /\ ~map.there => map.lines = {} /\ map.end = "line"

-----------------------------------------------------------------------------
(* The steps, an export's included, by what they change. *)

\* Only the process moves, or the rows of `file` are added to.
Moves ==
    \/ \E sample \in SUBSET Subtrees : PhaseB(sample)
    \/ EndB \/ PhaseC \/ CompareOrigins \/ WriteFiles \/ PhaseD \/ EndD
Still == UNCHANGED <<file, stored, work, origin, run, history>>
Edits(p) ==
    \/ \E kind \in {"grow", "rewrite", "replace", "sly"} : Edit(p, kind)
    \/ \E mtime \in 1..2 : Create(p, mtime)
    \/ Delete(p)

Step ==
    /\ world' = world
    /\ mishaps' = mishaps \/ (mishaps > 0 /\ mishaps' = mishaps - 1)
    /\ \/ Still \/ Moves
       \/ \E listed \in SUBSET DOMAIN file : PhaseA(listed)
       \/ LoadSnapshot
       \/ \E p \in Path : HashOne(p) \/ VerifyLoose(p) \/ Adopt(p) \/ Edits(p)
       \/ \E dir \in Dirs : SampleSubtree(dir) \/ VerifySubtree(dir)
       \/ \E batch \in SUBSET Path : WriteOrigins(batch)
       \/ PhaseE \/ KillPhase

LEMMA NextSteps == ASSUME [InventoryNext]_inventoryVars PROVE Step
<1>1. CASE UNCHANGED inventoryVars
  BY <1>1 DEF inventoryVars, bounds, Step, Still, work, catalog, history
<1>2. CASE Calm(PhaseA(DOMAIN file))
  BY <1>2 DEF Calm, bounds, Step
<1>3. ASSUME NEW missed \in SUBSET DOMAIN file, Mishap("unlisted"), PhaseA(DOMAIN file \ missed)
      PROVE  Step
  BY <1>3 DEF Mishap, Step
<1>4. CASE LoadSnapshot
  BY <1>4 DEF LoadSnapshot, bounds, Step
<1>5. ASSUME NEW sample \in SUBSET Subtrees, PhaseB(sample) PROVE Step
  BY <1>5 DEF PhaseB, Moves, bounds, Step
<1>6. ASSUME NEW dir \in Dirs, SampleSubtree(dir) \/ VerifySubtree(dir) PROVE Step
  BY <1>6 DEF SampleSubtree, VerifySubtree, bounds, Step
<1>7. CASE EndB \/ PhaseC \/ CompareOrigins \/ WriteFiles \/ PhaseD \/ EndD
  BY <1>7 DEF EndB, PhaseC, CompareOrigins, WriteFiles, PhaseD, EndD, bounds, Moves, Step
<1>8. CASE PhaseE
  BY <1>8 DEF PhaseE, bounds, Step
<1>9. ASSUME NEW p \in Path, HashOne(p) PROVE Step
  BY <1>9 DEF HashOne, Mishap, bounds, Step
<1>10. ASSUME NEW p \in Path, VerifyLoose(p) PROVE Step
  BY <1>10 DEF VerifyLoose, bounds, history, Step
<1>11. ASSUME NEW p \in Path, Adopt(p) PROVE Step
  BY <1>11 DEF Adopt, Mishap, Step
<1>12. ASSUME NEW p \in Path, Delete(p) PROVE Step
  BY <1>12 DEF Delete, Edits, Mishap, Step
<1>13. ASSUME NEW p \in Path, NEW kind \in {"grow", "rewrite", "replace", "sly"}, Edit(p, kind)
       PROVE  Step
  BY <1>13 DEF Edit, Edits, Mishap, Step
<1>14. ASSUME NEW p \in Path, NEW mtime \in 1..2, Create(p, mtime) PROVE Step
  BY <1>14 DEF Create, Edits, Mishap, Step
<1>15. ASSUME NEW batch \in SUBSET Path, WriteOrigins(batch) PROVE Step
  BY <1>15 DEF WriteOrigins, bounds, Step
<1>16. CASE AdoptAssets
  BY <1>16 DEF AdoptAssets, bounds, Still, Step
<1>17. CASE KillPhase
  BY <1>17 DEF KillPhase, Mishap, Step
<1>18. QED
  BY <1>1, <1>2, <1>3, <1>4, <1>5, <1>6, <1>7, <1>8, <1>9, <1>10, <1>11, <1>12, <1>13,
     <1>14, <1>15, <1>16, <1>17 DEF InventoryNext

-----------------------------------------------------------------------------
(* The types.  The steps that change the disk, the work database, the      *)
(* catalog and the process, one by one.                                    *)

LEMMA InitTypes == ASSUME InventoryInit PROVE Types
<1>1. world \in Worlds /\ mishaps \in Nat
  BY InventoryAssumption DEF InventoryInit
<1>2. file \in [DOMAIN file -> FileRow] /\ DOMAIN file \subseteq Path
  <2>1. world.files \subseteq Path
    BY InventoryAssumption DEF InventoryInit
  <2>2. DOMAIN file = world.files
    BY DEF InventoryInit
  <2>3. QED
    BY <2>1, <2>2 DEF InventoryInit, FileRow, SnapSize
<1>3. diskRow \in [DOMAIN diskRow -> DiskRow] /\ Listed \subseteq Path
  BY DEF InventoryInit, Listed
<1>4. snap \subseteq InBackup /\ subtree \in [DOMAIN subtree -> SubtreeRow]
  BY DEF InventoryInit
<1>5. DOMAIN origin \subseteq Path /\ \A p \in DOMAIN origin : origin[p].mtime \in 1..2
  BY DEF InventoryInit
<1>6. run \in [at : Phases, todo : SUBSET Path, dirs : SUBSET Dirs, loose : SUBSET Path]
  BY DEF InventoryInit, Idle, Phases
<1>7. QED
  BY <1>1, <1>2, <1>3, <1>4, <1>5, <1>6 DEF Types

\* Who changes what.
LEMMA Changes ==
  ASSUME Step
  PROVE  /\ file' = file \/ \E p \in Path : Edits(p)
         /\ diskRow' = diskRow \/ (\E listed \in SUBSET DOMAIN file : PhaseA(listed)) \/ \E p \in Path : HashOne(p)
         /\ snap' = snap \/ LoadSnapshot
         /\ \/ subtree' = subtree
            \/ \E dir \in Dirs : SampleSubtree(dir) \/ VerifySubtree(dir)
            \/ \E p \in Path : VerifyLoose(p)
         /\ \/ repoHash' = repoHash
            \/ \E dir \in Dirs : VerifySubtree(dir)
            \/ \E p \in Path : VerifyLoose(p)
            \/ KillPhase
         /\ \/ origin' = origin
            \/ \E batch \in SUBSET Path : WriteOrigins(batch)
            \/ \E p \in Path : Adopt(p)
         /\ stored' = stored \/ PhaseE
         /\ excused' = excused \/ \E p \in Path : HashOne(p) \/ Edits(p)
         /\ unseen' = unseen \/ (\E dir \in Dirs : VerifySubtree(dir)) \/ \E p \in Path : HashOne(p)
         /\ \/ UNCHANGED <<drift, since>>
            \/ \E listed \in SUBSET DOMAIN file : PhaseA(listed)
            \/ \E p \in Path : HashOne(p) \/ Edits(p)
         /\ topped' = topped \/ PhaseE \/ \E listed \in SUBSET DOMAIN file : PhaseA(listed)
         /\ late' = late \/ \E p \in Path : Adopt(p)
<1> USE DEF work, catalog, history
<1>1. CASE Still
  BY <1>1 DEF Still
<1>2. CASE Moves
  BY <1>2 DEF Moves, PhaseB, EndB, PhaseC, CompareOrigins, WriteFiles, PhaseD, EndD
<1>3. CASE LoadSnapshot
  BY <1>3 DEF LoadSnapshot
<1>4. ASSUME NEW listed \in SUBSET DOMAIN file, PhaseA(listed)
      PROVE  UNCHANGED <<file, stored, snap, repoHash, subtree, origin, excused, unseen, late>>
  BY <1>4 DEF PhaseA, WalkDisk
<1>5. ASSUME NEW p \in Path, HashOne(p)
      PROVE  UNCHANGED <<file, stored, snap, repoHash, subtree, origin, topped, late>>
  BY <1>5 DEF HashOne
<1>6. ASSUME NEW p \in Path, VerifyLoose(p)
      PROVE  UNCHANGED <<file, stored, diskRow, snap, origin, excused, unseen, topped, drift, since, late>>
  BY <1>6 DEF VerifyLoose
<1>7. ASSUME NEW p \in Path, Adopt(p)
      PROVE  UNCHANGED <<file, stored, diskRow, snap, repoHash, subtree, excused, unseen, topped, drift, since>>
  BY <1>7 DEF Adopt
<1>8. ASSUME NEW p \in Path, Edits(p)
      PROVE  UNCHANGED <<stored, diskRow, snap, repoHash, subtree, origin, unseen, topped, late>>
  BY <1>8 DEF Edits, Edit, Create, Delete
<1>9. ASSUME NEW dir \in Dirs, SampleSubtree(dir)
      PROVE  UNCHANGED <<file, stored, diskRow, snap, repoHash, origin, excused, unseen, topped, drift, since, late>>
  BY <1>9 DEF SampleSubtree
<1>10. ASSUME NEW dir \in Dirs, VerifySubtree(dir)
       PROVE  UNCHANGED <<file, stored, diskRow, snap, origin, excused, topped, drift, since, late>>
  BY <1>10 DEF VerifySubtree
<1>11. ASSUME NEW batch \in SUBSET Path, WriteOrigins(batch)
       PROVE  UNCHANGED <<file, stored, diskRow, snap, repoHash, subtree, excused, unseen, topped, drift, since, late>>
  BY <1>11 DEF WriteOrigins
<1>12. CASE PhaseE
  BY <1>12 DEF PhaseE
<1>13. CASE KillPhase
  BY <1>13 DEF KillPhase
<1>14. QED
  BY <1>1, <1>2, <1>3, <1>4, <1>5, <1>6, <1>7, <1>8, <1>9, <1>10, <1>11, <1>12, <1>13,
     SMTT(60) DEF Step

LEMMA FilesTyped == ASSUME Types, Step PROVE file' \in [DOMAIN file' -> FileRow] /\ DOMAIN file' \subseteq Path
<1> USE DEF Types, FileRow
<1>1. CASE file' = file
  BY <1>1
<1>2. ASSUME NEW p \in Path, NEW kind \in {"grow", "rewrite", "replace", "sly"}, Edit(p, kind)
      PROVE  file' \in [DOMAIN file' -> FileRow] /\ DOMAIN file' \subseteq Path
  <2> DEFINE entry == [bytes |-> mishaps,
                     size |-> IF kind \in {"grow", "replace"} THEN file[p].size + 1 ELSE file[p].size,
                     mtime |-> IF kind \in {"grow", "rewrite"} THEN 2 ELSE file[p].mtime]
  <2>1. p \in DOMAIN file /\ file[p] \in FileRow
    BY <1>2 DEF Edit
  <2>2. entry \in FileRow
    BY <2>1
  <2>3. file' = [file EXCEPT ![p] = entry]
    BY <1>2 DEF Edit
  <2> HIDE DEF entry
  <2>4. QED
    BY <2>1, <2>2, <2>3
<1>3. ASSUME NEW p \in Path, NEW mtime \in 1..2, Create(p, mtime)
      PROVE  file' \in [DOMAIN file' -> FileRow] /\ DOMAIN file' \subseteq Path
  <2>1. [bytes |-> mishaps, size |-> SnapSize, mtime |-> mtime] \in FileRow
    BY DEF SnapSize
  <2>2. QED
    BY <1>3, <2>1 DEF Create
<1>4. ASSUME NEW p \in Path, Delete(p)
      PROVE  file' \in [DOMAIN file' -> FileRow] /\ DOMAIN file' \subseteq Path
  BY <1>4 DEF Delete
<1>5. QED
  BY <1>1, <1>2, <1>3, <1>4, Changes DEF Edits

\* What hashing a file does to its row, and to nothing else.
LEMMA HashOneRow ==
  ASSUME Types, NEW p \in Path, HashOne(p)
  PROVE  /\ DOMAIN diskRow' = DOMAIN diskRow
         /\ \A q \in DOMAIN diskRow : q # p => diskRow'[q] = diskRow[q]
         /\ p \in Listed => /\ diskRow'[p] \in DiskRow
                            /\ diskRow'[p].size = diskRow[p].size /\ diskRow'[p].mtime = diskRow[p].mtime
                            /\ \/ p \in DOMAIN file /\ diskRow'[p].sha = file[p].bytes
                               \/ diskRow'[p].sha = diskRow[p].sha
<1>1. CASE diskRow' = [diskRow EXCEPT ![p].error = TRUE]
  BY <1>1 DEF Types, Listed, DiskRow
<1>2. CASE p \in DOMAIN file /\ diskRow' = [diskRow EXCEPT ![p] = [@ EXCEPT !.sha = file[p].bytes, !.error = FALSE]]
  <2> DEFINE entry == [diskRow[p] EXCEPT !.sha = file[p].bytes, !.error = FALSE]
  <2>1. file[p].bytes \in Nat
    BY <1>2 DEF Types, FileRow
  <2>2. p \in Listed => /\ entry \in DiskRow /\ entry.sha = file[p].bytes
                        /\ entry.size = diskRow[p].size /\ entry.mtime = diskRow[p].mtime
    BY <2>1 DEF Types, Listed, DiskRow
  <2>3. diskRow' = [diskRow EXCEPT ![p] = entry]
    BY <1>2
  <2> HIDE DEF entry
  <2>4. QED
    BY <1>2, <2>2, <2>3 DEF Types, Listed
<1>3. QED
  BY <1>1, <1>2 DEF HashOne

LEMMA DiskTyped == ASSUME Types, Step PROVE diskRow' \in [DOMAIN diskRow' -> DiskRow] /\ Listed' \subseteq Path
<1>1. CASE diskRow' = diskRow
  BY <1>1 DEF Types, Listed
<1>2. ASSUME NEW listed \in SUBSET DOMAIN file, PhaseA(listed)
      PROVE  diskRow' \in [DOMAIN diskRow' -> DiskRow] /\ Listed' \subseteq Path
  <2>1. \A p \in listed : [size |-> file[p].size, mtime |-> file[p].mtime, sha |-> NoSha, error |-> FALSE] \in DiskRow
    BY DEF Types, FileRow, DiskRow
  <2>2. QED
    BY <1>2, <2>1 DEF PhaseA, WalkDisk, Types, Listed
<1>3. ASSUME NEW p \in Path, HashOne(p)
      PROVE  diskRow' \in [DOMAIN diskRow' -> DiskRow] /\ Listed' \subseteq Path
  <2>1. diskRow' = [q \in DOMAIN diskRow' |-> diskRow'[q]]
    BY <1>3 DEF HashOne, Types
  <2>2. \A q \in DOMAIN diskRow : diskRow'[q] \in DiskRow
    BY <1>3, HashOneRow DEF Types, Listed
  <2>3. QED
    BY <1>3, <2>1, <2>2, HashOneRow DEF Types, Listed
<1>4. QED
  BY <1>1, <1>2, <1>3, Changes

LEMMA SubtreesTyped == ASSUME Types, Step PROVE subtree' \in [DOMAIN subtree' -> SubtreeRow]
<1>1. ASSUME NEW name, NEW state \in {"sampled", "verified", "hard_stop"}, NEW stops \in SUBSET Path,
             Recorded(name, state, stops)
      PROVE  subtree' \in [DOMAIN subtree' -> SubtreeRow]
  <2>1. [state |-> state, stops |-> stops] \in SubtreeRow
    BY DEF SubtreeRow
  <2>2. QED
    BY <1>1, <2>1 DEF Recorded, Types
<1>2. \A paths : Stops(paths) \subseteq Path
  BY DEF Stops, Hashed, Types
<1>3. \A dir : SampleSubtree(dir) \/ VerifySubtree(dir) => subtree' \in [DOMAIN subtree' -> SubtreeRow]
  BY <1>1, <1>2 DEF SampleSubtree, VerifySubtree, Types
<1>4. \A p : VerifyLoose(p) => subtree' \in [DOMAIN subtree' -> SubtreeRow]
  BY <1>1, <1>2 DEF VerifyLoose, Types
<1>5. CASE subtree' = subtree
  BY <1>5 DEF Types
<1>6. QED
  BY <1>3, <1>4, <1>5, Changes

\* A hash on record stays, and its date is only brought forward.
LEMMA OriginKept ==
  ASSUME Types, Worklists, Step
  PROVE  /\ DOMAIN origin \subseteq DOMAIN origin' /\ DOMAIN origin' \subseteq Path
         /\ \A p \in DOMAIN origin : origin'[p].sha = origin[p].sha /\ origin'[p].mtime <= origin[p].mtime
         /\ \A p \in DOMAIN origin' : origin'[p].mtime \in 1..2
<1> USE DEF Types
<1>1. CASE origin' = origin
  BY <1>1
<1>2. ASSUME NEW batch \in SUBSET Path, WriteOrigins(batch)
      PROVE  /\ DOMAIN origin \subseteq DOMAIN origin' /\ DOMAIN origin' \subseteq Path
             /\ \A p \in DOMAIN origin : origin'[p].sha = origin[p].sha /\ origin'[p].mtime <= origin[p].mtime
             /\ \A p \in DOMAIN origin' : origin'[p].mtime \in 1..2
  <2>1. batch \subseteq Listed
    BY <1>2 DEF WriteOrigins, Worklists, Hashed
  <2>2. \A p \in batch : diskRow[p].mtime \in 1..2
    BY <2>1 DEF Listed, DiskRow
  <2>3. \A p \in batch : /\ Upserted(p).mtime \in 1..2
                         /\ p \in DOMAIN origin => /\ Upserted(p).sha = origin[p].sha
                                                   /\ Upserted(p).mtime <= origin[p].mtime
    <3> SUFFICES ASSUME NEW p \in batch
                 PROVE  /\ Upserted(p).mtime \in 1..2
                        /\ p \in DOMAIN origin => /\ Upserted(p).sha = origin[p].sha
                                                  /\ Upserted(p).mtime <= origin[p].mtime
      OBVIOUS
    <3>1. CASE p \notin DOMAIN origin
      BY <2>2, <3>1 DEF Upserted
    <3>2. CASE p \in DOMAIN origin
      <4> DEFINE m == IF diskRow[p].mtime < origin[p].mtime THEN diskRow[p].mtime ELSE origin[p].mtime
      <4>1. Upserted(p) = [origin[p] EXCEPT !.mtime = m]
        BY <3>2 DEF Upserted
      <4>2. m \in 1..2 /\ m <= origin[p].mtime
        BY <2>2, <3>2
      <4> HIDE DEF m
      <4>3. Upserted(p).mtime = m /\ Upserted(p).sha = origin[p].sha
        BY <4>1, <3>2
      <4>4. QED
        BY <4>2, <4>3
    <3>3. QED
      BY <3>1, <3>2
  <2>4. QED
    BY <1>2, <2>3 DEF WriteOrigins
<1>3. ASSUME NEW p \in Path, Adopt(p)
      PROVE  /\ DOMAIN origin \subseteq DOMAIN origin' /\ DOMAIN origin' \subseteq Path
             /\ \A q \in DOMAIN origin : origin'[q].sha = origin[q].sha /\ origin'[q].mtime <= origin[q].mtime
             /\ \A q \in DOMAIN origin' : origin'[q].mtime \in 1..2
  BY <1>3 DEF Adopt
<1>4. QED
  BY <1>1, <1>2, <1>3, Changes

\* The process and what it has left to do.
LEMMA RunTyped ==
  ASSUME Types, Worklists, Step
  PROVE  /\ run' \in [at : Phases, todo : SUBSET Path, dirs : SUBSET Dirs, loose : SUBSET Path]
         /\ Worklists'
<1> DEFINE Runs == [at : Phases, todo : SUBSET Path, dirs : SUBSET Dirs, loose : SUBSET Path]
<1> DEFINE Good == run' \in Runs /\ Worklists'
<1>0. run \in Runs /\ Listed \subseteq Path
  BY DEF Types
<1>1. CASE run' = Idle
  BY <1>1 DEF Idle, Phases, Worklists
<1>2. ASSUME UNCHANGED <<run, diskRow>> PROVE Good
  BY <1>0, <1>2 DEF Worklists, Listed, Hashed
<1>3. ASSUME NEW listed \in SUBSET DOMAIN file, PhaseA(listed) PROVE Good
  <2>1. run' = [at |-> "a", todo |-> {}, dirs |-> {}, loose |-> {}]
    BY <1>3 DEF PhaseA, WalkDisk, Idle
  <2>2. QED
    BY <2>1 DEF Phases, Worklists
<1>4. ASSUME NEW p \in Path, HashOne(p) PROVE Good
  <2>1. run' = [run EXCEPT !.todo = run.todo \ {p}]
    BY <1>4 DEF HashOne
  <2>2. run' \in Runs /\ run'.at = run.at /\ run'.todo = run.todo \ {p} /\ run.at \in {"b", "c"}
    BY <1>0, <2>1, <1>4 DEF HashOne
  <2>3. Listed' = Listed /\ Hashed' \subseteq Hashed \union {p}
    BY <1>4, HashOneRow DEF Listed, Hashed
  <2>4. QED
    BY <2>2, <2>3 DEF Worklists
<1>5. ASSUME NEW sample \in SUBSET Subtrees, PhaseB(sample) PROVE Good
  <2> DEFINE left == ({p \in Listed : DirOf[p] \in sample} \union Drifted) \ Hashed
  <2>1. run' = [at |-> "b", todo |-> left, dirs |-> sample, loose |-> {}] /\ diskRow' = diskRow
    BY <1>5 DEF PhaseB, Idle, work
  <2>2. left \subseteq Listed \ Hashed
    BY DEF Drifted
  <2>3. sample \subseteq Dirs
    BY <1>0 DEF Subtrees, Dirs
  <2> HIDE DEF left
  <2>4. QED
    BY <1>0, <2>1, <2>2, <2>3 DEF Phases, Worklists, Listed, Hashed
<1>6. ASSUME PhaseC PROVE Good
  <2> DEFINE left == {p \in Listed \ Hashed : ~diskRow[p].error}
  <2>1. run' = [at |-> "c", todo |-> left, dirs |-> {}, loose |-> {}] /\ diskRow' = diskRow
    BY <1>6 DEF PhaseC, Idle, work
  <2>2. left \subseteq Listed \ Hashed
    OBVIOUS
  <2> HIDE DEF left
  <2>3. QED
    BY <1>0, <2>1, <2>2 DEF Phases, Worklists, Listed, Hashed
<1>7. ASSUME CompareOrigins PROVE Good
  <2>1. CASE run' = Idle
    BY <2>1, <1>1
  <2>2. CASE run' = [run EXCEPT !.at = "write", !.todo = Hashed]
    <3>1. Hashed \subseteq Path /\ diskRow' = diskRow
      BY <1>0, <1>7 DEF Hashed, CompareOrigins, work
    <3>2. run' \in Runs /\ run'.at = "write" /\ run'.todo = Hashed
      BY <1>0, <2>2, <3>1 DEF Phases
    <3>3. QED
      BY <3>1, <3>2 DEF Worklists, Listed, Hashed
  <2>3. QED
    BY <1>7, <2>1, <2>2 DEF CompareOrigins, Ends
<1>8. ASSUME NEW batch \in SUBSET Path, WriteOrigins(batch) PROVE Good
  <2>1. run' = [run EXCEPT !.todo = run.todo \ batch] /\ run.at = "write" /\ diskRow' = diskRow
    BY <1>8 DEF WriteOrigins, work
  <2>2. run' \in Runs /\ run'.at = run.at /\ run'.todo = run.todo \ batch
    BY <1>0, <2>1
  <2>3. QED
    BY <2>1, <2>2 DEF Worklists, Listed, Hashed
<1>9. ASSUME PhaseD PROVE Good
  <2>1. run' = [at |-> "d", todo |-> {}, dirs |-> Subtrees \ Verified, loose |-> Loose]
    BY <1>9 DEF PhaseD, Idle
  <2>2. Subtrees \ Verified \subseteq Dirs /\ Loose \subseteq Path
    BY <1>0 DEF Subtrees, Dirs, Loose
  <2>3. QED
    BY <2>1, <2>2 DEF Phases, Worklists
<1>10. ASSUME NEW dir, SampleSubtree(dir) \/ VerifySubtree(dir) PROVE Good
  <2>1. CASE run' = Idle
    BY <2>1, <1>1
  <2>2. CASE run' = [run EXCEPT !.dirs = run.dirs \ {dir}] /\ diskRow' = diskRow
    <3>1. run' \in Runs /\ run'.at = run.at /\ run'.todo = run.todo
      BY <1>0, <2>2
    <3>2. QED
      BY <2>2, <3>1 DEF Worklists, Listed, Hashed
  <2>3. QED
    BY <1>10, <2>1, <2>2 DEF SampleSubtree, VerifySubtree, Ends
<1>11. ASSUME NEW p, VerifyLoose(p) PROVE Good
  <2>1. CASE run' = Idle
    BY <2>1, <1>1
  <2>2. CASE run' = [run EXCEPT !.loose = run.loose \ {p}] /\ diskRow' = diskRow
    <3>1. run' \in Runs /\ run'.at = run.at /\ run'.todo = run.todo
      BY <1>0, <2>2
    <3>2. QED
      BY <2>2, <3>1 DEF Worklists, Listed, Hashed
  <2>3. QED
    BY <1>11, <2>1, <2>2 DEF VerifyLoose, Ends
<1>12. LoadSnapshot \/ EndB \/ WriteFiles \/ EndD \/ KillPhase => run' = Idle
  BY DEF LoadSnapshot, EndB, WriteFiles, EndD, KillPhase, Ends
<1>13. Still \/ PhaseE => UNCHANGED <<run, diskRow>>
  BY DEF Still, PhaseE, work
<1>14. \A p \in Path : Adopt(p) \/ Edits(p) => UNCHANGED <<run, diskRow>>
  BY DEF Adopt, Edits, Edit, Create, Delete, work
<1> HIDE DEF Good
<1>15. Good
  BY <1>1, <1>2, <1>3, <1>4, <1>5, <1>6, <1>7, <1>8, <1>9, <1>10, <1>11, <1>12, <1>13, <1>14
     DEF Step, Moves, Good
<1>16. QED
  BY <1>15 DEF Good

LEMMA TypesStep == ASSUME Types, Worklists, Step PROVE Types' /\ Worklists'
<1>1. world' \in Worlds /\ mishaps' \in Nat
  BY DEF Types, Step
<1>2. snap' \subseteq InBackup
  BY Changes DEF Types, LoadSnapshot
<1>3. QED
  BY <1>1, <1>2, FilesTyped, DiskTyped, SubtreesTyped, OriginKept, RunTyped DEF Types

-----------------------------------------------------------------------------
(* What the repository, the walk and the hashes say of the files.          *)

\* What is stored stays stored, and a dump yields the snapshot.
LEMMA DumpsStep == ASSUME Dumps, Step PROVE Dumps' /\ stored \subseteq stored'
<1>1. \A p : Snapshot(p)' = Snapshot(p)
  BY DEF Step, Snapshot
<1>2. stored \subseteq stored'
  BY Changes DEF PhaseE
<1>3. \A p \in DOMAIN repoHash' : p \in InBackup /\ repoHash'[p] = Snapshot(p)
  <2>1. ASSUME NEW paths \in SUBSET InBackup, Dumped(paths)
        PROVE  \A p \in DOMAIN repoHash' : p \in InBackup /\ repoHash'[p] = Snapshot(p)
    BY <2>1 DEF Dumped, Dumps
  <2>2. CASE repoHash' = repoHash
    BY <2>2 DEF Dumps
  <2>3. \A dir : VerifySubtree(dir) => repoHash' = repoHash \/ Dumped(In(dir) \intersect InBackup)
    BY DEF VerifySubtree
  <2>4. \A p : VerifyLoose(p) => repoHash' = repoHash \/ (p \in InBackup /\ Dumped({p}))
    BY DEF VerifyLoose
  <2>5. KillPhase => repoHash' = repoHash \/ \E paths \in SUBSET InBackup : Dumped(paths)
    <3>1. \A dir : \A part \in SUBSET (In(dir) \intersect InBackup) : part \in SUBSET InBackup
      OBVIOUS
    <3>2. QED
      BY <3>1 DEF KillPhase
  <2>6. QED
    BY <2>1, <2>2, <2>3, <2>4, <2>5, Changes
<1>4. QED
  BY <1>1, <1>2, <1>3 DEF Dumps

\* A file is changed alone, and that is noted.
LEMMA EditsOne ==
  ASSUME Types, NEW p \in Path, Edits(p)
  PROVE  /\ DOMAIN file \ {p} = DOMAIN file' \ {p}
         /\ \A q \in DOMAIN file : q # p => file'[q] = file[q]
         /\ drift' = drift \union {p} /\ since' = since \union {p}
<1>1. CASE Delete(p)
  BY <1>1 DEF Delete, Gone
<1>2. ASSUME NEW mtime \in 1..2, Create(p, mtime)
      PROVE  /\ DOMAIN file \ {p} = DOMAIN file' \ {p}
             /\ \A q \in DOMAIN file : q # p => file'[q] = file[q]
             /\ drift' = drift \union {p} /\ since' = since \union {p}
  BY <1>2 DEF Create, Gone
<1>3. ASSUME NEW kind, Edit(p, kind)
      PROVE  /\ DOMAIN file \ {p} = DOMAIN file' \ {p}
             /\ \A q \in DOMAIN file : q # p => file'[q] = file[q]
             /\ drift' = drift \union {p} /\ since' = since \union {p}
  BY <1>3 DEF Edit, Gone
<1>4. QED
  BY <1>1, <1>2, <1>3 DEF Edits

LEMMA WalkedStep == ASSUME Types, Walked, Step PROVE Walked'
<1>1. CASE UNCHANGED <<file, diskRow, drift>>
  BY <1>1 DEF Walked, Listed
<1>2. ASSUME NEW listed \in SUBSET DOMAIN file, PhaseA(listed) PROVE Walked'
  BY <1>2 DEF PhaseA, WalkDisk, Walked, Listed
<1>3. ASSUME NEW p \in Path, HashOne(p) PROVE Walked'
  <2>1. UNCHANGED <<file, drift>>
    BY <1>3 DEF HashOne
  <2>2. \A q \in Listed : diskRow'[q].size = diskRow[q].size /\ diskRow'[q].mtime = diskRow[q].mtime
    BY <1>3, HashOneRow DEF Listed
  <2>3. QED
    BY <1>3, <2>1, <2>2, HashOneRow DEF Walked, Listed
<1>4. ASSUME NEW p \in Path, Edits(p) PROVE Walked'
  <2>1. diskRow' = diskRow
    BY <1>4 DEF Edits, Edit, Create, Delete, work
  <2>2. QED
    BY <1>4, <2>1, EditsOne DEF Walked, Listed
<1>5. QED
  BY <1>1, <1>2, <1>3, <1>4, Changes

LEMMA HashedAsIsStep == ASSUME Types, HashedAsIs, Step PROVE HashedAsIs'
<1>1. CASE UNCHANGED <<file, diskRow, since>>
  BY <1>1 DEF HashedAsIs, Hashed, Listed
<1>2. ASSUME NEW listed \in SUBSET DOMAIN file, PhaseA(listed) PROVE HashedAsIs'
  BY <1>2 DEF PhaseA, WalkDisk, HashedAsIs, Hashed, Listed
<1>3. ASSUME NEW p \in Path, HashOne(p) PROVE HashedAsIs'
  <2>1. file' = file /\ since \subseteq since' \union {p}
    BY <1>3 DEF HashOne
  <2>2. ASSUME NEW q \in Hashed' \ since', q # p
        PROVE  q \in DOMAIN file /\ file[q].bytes = diskRow'[q].sha
    BY <1>3, <2>1, <2>2, HashOneRow DEF HashedAsIs, Hashed, Listed
  <2>3. ASSUME p \in Hashed' \ since'
        PROVE  p \in DOMAIN file /\ file[p].bytes = diskRow'[p].sha
    <3>1. CASE p \in DOMAIN file /\ diskRow' = [diskRow EXCEPT ![p] = [@ EXCEPT !.sha = file[p].bytes, !.error = FALSE]]
      <4>1. p \in DOMAIN diskRow
        BY <1>3, <2>3, HashOneRow DEF Hashed, Listed
      <4>2. diskRow'[p] = [diskRow[p] EXCEPT !.sha = file[p].bytes, !.error = FALSE]
        BY <3>1, <4>1
      <4>3. diskRow[p] \in DiskRow
        BY <4>1 DEF Types
      <4>4. QED
        BY <3>1, <4>2, <4>3 DEF DiskRow
    <3>2. CASE diskRow' = [diskRow EXCEPT ![p].error = TRUE] /\ since' = since
      <4>1. p \in DOMAIN diskRow
        BY <1>3, <2>3, HashOneRow DEF Hashed, Listed
      <4>2. diskRow'[p].sha = diskRow[p].sha
        BY <3>2, <4>1 DEF Types, DiskRow
      <4>3. QED
        BY <2>3, <3>2, <4>1, <4>2 DEF HashedAsIs, Hashed, Listed
    <3>3. QED
      BY <1>3, <3>1, <3>2 DEF HashOne
  <2>4. QED
    BY <2>1, <2>2, <2>3 DEF HashedAsIs
<1>4. ASSUME NEW p \in Path, Edits(p) PROVE HashedAsIs'
  <2>1. diskRow' = diskRow
    BY <1>4 DEF Edits, Edit, Create, Delete, work
  <2>2. QED
    BY <1>4, <2>1, EditsOne DEF HashedAsIs, Hashed, Listed
<1>5. QED
  BY <1>1, <1>2, <1>3, <1>4, Changes

-----------------------------------------------------------------------------
(* A hard stop has its reason.                                             *)

LEMMA ExcusedGrows == ASSUME Step PROVE excused \subseteq excused'
<1>1. \A p : HashOne(p) \/ Edits(p) => excused \subseteq excused'
  BY DEF HashOne, Edits, Edit, Create, Delete
<1>2. QED
  BY <1>1, Changes

LEMMA FilesHonest ==
  ASSUME Types, Honest, Step
  PROVE  \A p \in (DOMAIN file' \intersect InBackup) \ excused' :
           Shown(file'[p].bytes, file'[p].size, file'[p].mtime)
<1>1. CASE file' = file
  BY <1>1, ExcusedGrows DEF Honest
<1>2. ASSUME NEW p \in Path, Edits(p), p \in (DOMAIN file' \intersect InBackup) \ excused'
      PROVE  Shown(file'[p].bytes, file'[p].size, file'[p].mtime)
  <2>1. ~Delete(p)
    BY <1>2 DEF Delete
  <2>2. \A mtime : ~Create(p, mtime)
    BY <1>2 DEF Create
  <2>3. PICK kind \in {"grow", "rewrite", "replace", "sly"} : Edit(p, kind)
    BY <1>2, <2>1, <2>2 DEF Edits
  <2>4. kind # "sly"
    BY <1>2, <2>3 DEF Edit
  <2>5. /\ file'[p].size = IF kind \in {"grow", "replace"} THEN file[p].size + 1 ELSE file[p].size
        /\ file'[p].mtime = IF kind \in {"grow", "rewrite"} THEN 2 ELSE file[p].mtime
    BY <2>3 DEF Edit, Types
  <2>6. file[p].size \in Nat
    BY <2>3 DEF Edit, Types, FileRow
  <2>7. QED
    BY <2>3, <2>4, <2>5, <2>6 DEF Shown, SnapSize, BACKUP_ENDED
<1>3. ASSUME NEW p \in Path, Edits(p), NEW q \in (DOMAIN file' \intersect InBackup) \ excused', q # p
      PROVE  Shown(file'[q].bytes, file'[q].size, file'[q].mtime)
  BY <1>3, EditsOne, ExcusedGrows DEF Honest
<1>4. QED
  BY <1>1, <1>2, <1>3, Changes

LEMMA RowsHonest ==
  ASSUME Types, Walked, Honest, Step
  PROVE  \A p \in (Hashed' \intersect InBackup) \ excused' :
           /\ Shown(diskRow'[p].sha, diskRow'[p].size, diskRow'[p].mtime)
           /\ diskRow'[p].sha = 0 \/ diskRow'[p].mtime > BACKUP_ENDED \/ p \in snap'
<1>1. snap \subseteq snap'
  BY Changes DEF LoadSnapshot, Types
<1>2. CASE diskRow' = diskRow
  BY <1>1, <1>2, ExcusedGrows DEF Honest, Hashed, Listed
<1>3. ASSUME NEW listed \in SUBSET DOMAIN file, PhaseA(listed) PROVE Hashed' = {}
  BY <1>3 DEF PhaseA, WalkDisk, Hashed, Listed
<1>4. ASSUME NEW p \in Path, HashOne(p), NEW q \in (Hashed' \intersect InBackup) \ excused'
      PROVE  /\ Shown(diskRow'[q].sha, diskRow'[q].size, diskRow'[q].mtime)
             /\ diskRow'[q].sha = 0 \/ diskRow'[q].mtime > BACKUP_ENDED \/ q \in snap'
  <2>1. snap' = snap /\ q \in Listed
    BY <1>4, HashOneRow DEF HashOne, Hashed, Listed
  <2>2. CASE diskRow'[q].sha = diskRow[q].sha /\ diskRow'[q].size = diskRow[q].size /\ diskRow'[q].mtime = diskRow[q].mtime
    BY <1>4, <2>1, <2>2, ExcusedGrows DEF Honest, Hashed, Listed
  <2>3. CASE q = p /\ diskRow' = [diskRow EXCEPT ![p].error = TRUE]
    <3>1. diskRow'[q].sha = diskRow[q].sha /\ diskRow'[q].size = diskRow[q].size /\ diskRow'[q].mtime = diskRow[q].mtime
      BY <2>1, <2>3 DEF Types, Listed, DiskRow
    <3>2. QED
      BY <2>2, <3>1
  <2>4. CASE /\ q = p /\ p \in DOMAIN file
             /\ diskRow' = [diskRow EXCEPT ![p] = [@ EXCEPT !.sha = file[p].bytes, !.error = FALSE]]
             /\ excused' = IF p \in drift \/ (p \notin snap /\ diskRow[p].size # SnapSize)
                           THEN excused \union {p} ELSE excused
    <3>1. p \notin drift /\ ~(p \notin snap /\ diskRow[p].size # SnapSize) /\ p \notin excused
      BY <1>4, <2>4, ExcusedGrows
    <3>2. diskRow'[p] = [diskRow[p] EXCEPT !.sha = file[p].bytes, !.error = FALSE] /\ diskRow[p] \in DiskRow
      BY <2>1, <2>4 DEF Types, Listed
    <3>3. diskRow'[p].sha = file[p].bytes /\ diskRow'[p].size = diskRow[p].size /\ diskRow'[p].mtime = diskRow[p].mtime
      BY <3>2 DEF DiskRow
    <3>4. file[p].size = diskRow[p].size /\ file[p].mtime = diskRow[p].mtime
      BY <2>1, <2>4, <3>1 DEF Walked
    <3>5. Shown(file[p].bytes, file[p].size, file[p].mtime)
      BY <1>4, <2>4, <3>1 DEF Honest
    <3>6. QED
      BY <2>1, <2>4, <3>1, <3>3, <3>4, <3>5 DEF Shown
  <2>5. CASE q # p
    BY <1>4, <2>1, <2>2, <2>5, HashOneRow DEF Listed
  <2>6. QED
    BY <1>4, <2>3, <2>4, <2>5 DEF HashOne
<1>5. QED
  BY <1>2, <1>3, <1>4, Changes

LEMMA HonestStep == ASSUME Types, Walked, Honest, Step PROVE Honest'
<1>1. world'.damaged \subseteq excused'
  BY ExcusedGrows DEF Honest, Step
<1>2. QED
  BY <1>1, FilesHonest, RowsHonest DEF Honest

\* What stops a phase is excused: the code's classification, read backwards.
LEMMA StopsAreExcused ==
  ASSUME Types, Honest, NEW paths \in SUBSET InBackup
  PROVE  Stops(paths) \subseteq excused
<1> SUFFICES ASSUME NEW p \in Stops(paths), p \notin excused PROVE FALSE
  OBVIOUS
<1>1. p \in Hashed /\ p \in InBackup /\ ClassOf(p, Snapshot(p)) = "hard_stop"
  BY DEF Stops
<1>2. Snapshot(p) = 0
  BY DEF Honest, Snapshot
<1>3. diskRow[p].sha # 0 /\ ~(p \in snap /\ diskRow[p].size # SnapSize) /\ ~(diskRow[p].mtime > BACKUP_ENDED)
  BY <1>1, <1>2 DEF ClassOf
<1>4. QED
  BY <1>1, <1>3 DEF Honest, Shown

LEMMA HardStopsStep ==
  ASSUME Types, Honest, HardStopsAreReal, Step PROVE HardStopsAreReal'
<1>1. ASSUME NEW name, NEW state, NEW stops \in SUBSET excused, Recorded(name, state, stops)
      PROVE  \A n \in DOMAIN subtree' : subtree'[n].stops \subseteq excused'
  BY <1>1, ExcusedGrows DEF Recorded, HardStopsAreReal
<1>2. CASE subtree' = subtree
  BY <1>2, ExcusedGrows DEF HardStopsAreReal
<1>3. \A dir : Stops((In(dir) \intersect InBackup) \ Drifted) \subseteq excused
  BY StopsAreExcused
<1>4. \A dir : Stops(In(dir) \intersect InBackup) \subseteq excused
  BY StopsAreExcused
<1>5. \A p \in InBackup : Stops({p}) \subseteq excused
  BY StopsAreExcused
<1>6. ASSUME NEW dir, SampleSubtree(dir) PROVE HardStopsAreReal'
  BY <1>1, <1>2, <1>3, <1>6 DEF SampleSubtree, HardStopsAreReal
<1>7. ASSUME NEW dir, VerifySubtree(dir) PROVE HardStopsAreReal'
  BY <1>1, <1>2, <1>4, <1>7 DEF VerifySubtree, HardStopsAreReal
<1>8. ASSUME NEW p, VerifyLoose(p) PROVE HardStopsAreReal'
  BY <1>1, <1>2, <1>5, <1>8 DEF VerifyLoose, HardStopsAreReal
<1>9. QED
  BY <1>2, <1>6, <1>7, <1>8, Changes

-----------------------------------------------------------------------------
(* What was backed up on top is in the repository.                         *)

\* Only what was not hashed is hashed, and it stays so until the next walk.
LEMMA HashedGrows ==
  ASSUME Types, Worklists, NEW p \in Path, HashOne(p)
  PROVE  Hashed \subseteq Hashed' /\ p \in Listed \ Hashed
<1>1. p \in Listed \ Hashed
  BY DEF HashOne, Worklists
<1>2. QED
  BY <1>1, HashOneRow DEF Hashed, Listed

LEMMA ToppedStep ==
  ASSUME Types, Worklists, topped \subseteq Hashed, Step PROVE topped' \subseteq Hashed'
<1>1. CASE UNCHANGED <<topped, diskRow>>
  BY <1>1 DEF Hashed, Listed
<1>2. \A listed : PhaseA(listed) => topped' = {}
  BY DEF PhaseA, WalkDisk
<1>3. ASSUME NEW p \in Path, HashOne(p) PROVE topped' \subseteq Hashed'
  <2>1. topped' = topped
    BY <1>3 DEF HashOne
  <2>2. QED
    BY <1>3, <2>1, HashedGrows
<1>4. ASSUME PhaseE PROVE topped' \subseteq Hashed'
  BY <1>4 DEF PhaseE, work, Hashed, Listed
<1>5. QED
  BY <1>1, <1>2, <1>3, <1>4, Changes

\* What the last phase leaves out is what the snapshot holds as it is.
LEMMA BackedUp ==
  ASSUME Types, Dumps, HashedAsIs, PhaseE, NEW p \in topped' \ since
  PROVE  <<p, file[p].bytes>> \in stored'
<1>1. p \in Hashed /\ p \in DOMAIN file /\ file[p].bytes = diskRow[p].sha
  BY DEF PhaseE, HashedAsIs
<1>2. CASE p \in TopUpSet
  BY <1>1, <1>2 DEF PhaseE
<1>3. CASE p \notin TopUpSet
  <2>1. p \in DOMAIN repoHash /\ repoHash[p] = diskRow[p].sha
    BY <1>1, <1>3 DEF TopUpSet, Hashed
  <2>2. <<p, Snapshot(p)>> \in stored /\ Snapshot(p) = file[p].bytes
    BY <1>1, <2>1 DEF Dumps
  <2>3. QED
    BY <2>2 DEF PhaseE
<1>4. QED
  BY <1>2, <1>3

LEMMA TopUpStep ==
  ASSUME Types, Worklists, Dumps, HashedAsIs, topped \subseteq Hashed, TopUpIsComplete, Step
  PROVE  TopUpIsComplete'
<1>1. stored \subseteq stored'
  BY DumpsStep
<1>2. CASE UNCHANGED <<file, topped, since>>
  BY <1>1, <1>2 DEF TopUpIsComplete
<1>3. \A listed : PhaseA(listed) => topped' = {}
  BY DEF PhaseA, WalkDisk
<1>4. ASSUME NEW p \in Path, HashOne(p) PROVE TopUpIsComplete'
  <2>1. UNCHANGED <<file, topped>> /\ since \subseteq since' \union {p}
    BY <1>4 DEF HashOne
  <2>2. p \notin topped
    BY <1>4, HashedGrows
  <2>3. QED
    BY <1>1, <2>1, <2>2 DEF TopUpIsComplete
<1>5. ASSUME NEW p \in Path, Edits(p) PROVE TopUpIsComplete'
  <2>1. topped' = topped
    BY <1>5 DEF Edits, Edit, Create, Delete
  <2>2. \A q \in topped \ since : q \in DOMAIN file
    BY DEF HashedAsIs
  <2>3. QED
    BY <1>1, <1>5, <2>1, <2>2, EditsOne DEF TopUpIsComplete
<1>6. ASSUME PhaseE PROVE TopUpIsComplete'
  <2>1. UNCHANGED <<file, since>>
    BY <1>6 DEF PhaseE
  <2>2. QED
    BY <1>6, <2>1, BackedUp DEF TopUpIsComplete
<1>7. QED
  BY <1>2, <1>3, <1>4, <1>5, <1>6, Changes DEF TopUpIsComplete

-----------------------------------------------------------------------------
(* A verified directory has no stop in it that was there to be seen.       *)

IsStop(p) == p \in Hashed /\ ClassOf(p, Snapshot(p)) = "hard_stop"

LEMMA StopsAre == \A paths : Stops(paths) = {p \in paths : IsStop(p)}
BY DEF Stops, IsStop

LEMMA StopStep ==
  ASSUME Types, Step, NEW p, IsStop(p)'
  PROVE  IsStop(p) \/ (p \in Path /\ HashOne(p))
<1>1. Snapshot(p)' = Snapshot(p)
  BY DEF Step, Snapshot
<1>2. snap \subseteq snap'
  BY Changes DEF LoadSnapshot, Types
<1>3. CASE diskRow' = diskRow
  BY <1>1, <1>2, <1>3 DEF IsStop, ClassOf, Hashed, Listed
<1>4. ASSUME NEW listed \in SUBSET DOMAIN file, PhaseA(listed) PROVE Hashed' = {}
  BY <1>4 DEF PhaseA, WalkDisk, Hashed, Listed
<1>5. ASSUME NEW q \in Path, HashOne(q), q # p PROVE IsStop(p)
  <2>1. snap' = snap
    BY <1>5 DEF HashOne
  <2>2. QED
    BY <1>1, <1>5, <2>1, HashOneRow DEF IsStop, ClassOf, Hashed, Listed
<1>6. QED
  BY <1>3, <1>4, <1>5, Changes DEF IsStop

LEMMA CleanStep ==
  ASSUME Types, Worklists, VerifiedIsClean, Step PROVE VerifiedIsClean'
<1> SUFFICES ASSUME NEW dir \in Verified', NEW p \in In(dir) \intersect InBackup, IsStop(p)'
             PROVE  p \in unseen'
  BY StopsAre DEF VerifiedIsClean, Stops, IsStop
<1>1. \A d \in Verified : \A q \in In(d) \intersect InBackup : IsStop(q) => q \in unseen
  BY StopsAre DEF VerifiedIsClean
<1>2. p \in Path /\ DirOf[p] = dir
  BY DEF In
<1>3. ASSUME HashOne(p) PROVE p \in unseen'
  <2>1. subtree' = subtree
    BY <1>3 DEF HashOne
  <2>2. DirOf[p] \in Verified
    BY <1>2, <2>1 DEF Verified
  <2>3. p \notin Hashed
    BY <1>2, <1>3, HashedGrows
  <2>4. diskRow' # [diskRow EXCEPT ![p].error = TRUE]
    BY <1>2, <1>3, <2>3 DEF IsStop, Hashed, Listed, Types, DiskRow
  <2>5. QED
    BY <1>3, <2>2, <2>4 DEF HashOne
<1>4. ASSUME ~HashOne(p), subtree' = subtree, unseen \subseteq unseen' PROVE p \in unseen'
  BY <1>1, <1>4, StopStep DEF Verified
<1>5. ASSUME NEW d \in Dirs, VerifySubtree(d) PROVE p \in unseen'
  <2> DEFINE paths == In(d) \intersect InBackup
  <2>1. UNCHANGED <<diskRow, snap>> /\ Snapshot(p)' = Snapshot(p)
    BY <1>5 DEF VerifySubtree, Step, Snapshot
  <2>2. IsStop(p)
    BY <2>1 DEF IsStop, ClassOf, Hashed, Listed
  <2>3. CASE paths = {}
    BY <1>1, <1>5, <2>2, <2>3 DEF VerifySubtree, Verified
  <2>4. CASE paths # {}
    <3>1. /\ Recorded(d, IF Stops(paths) = {} THEN "verified" ELSE "hard_stop", Stops(paths))
          /\ unseen' = unseen \ paths
      BY <1>5, <2>4 DEF VerifySubtree
    <3>2. dir # d
      BY <2>2, <3>1, StopsAre DEF Recorded, Verified
    <3>3. dir \in Verified
      BY <3>1, <3>2 DEF Recorded, Verified
    <3>4. p \in unseen /\ p \notin In(d)
      BY <1>1, <2>2, <3>2, <3>3 DEF In
    <3>5. QED
      BY <3>1, <3>4
  <2>5. QED
    BY <2>3, <2>4
<1>6. ASSUME NEW q \in Path, VerifyLoose(q) PROVE p \in unseen'
  <2>1. unseen' = unseen /\ diskRow' = diskRow
    BY <1>6 DEF VerifyLoose, history
  <2>2. Snapshot(p)' = Snapshot(p) /\ snap' = snap
    BY <1>6 DEF VerifyLoose, Step, Snapshot
  <2>3. IsStop(p)
    BY <2>1, <2>2 DEF IsStop, ClassOf, Hashed, Listed
  <2>4. CASE subtree' = subtree
    BY <1>1, <2>1, <2>3, <2>4 DEF Verified
  <2>5. CASE q \in InBackup /\ \E state : Recorded(q, state, Stops({q}))
    <3>1. dir # q
      BY InventoryAssumption, <1>2, <2>5
    <3>2. dir \in Verified
      BY <2>5, <3>1 DEF Recorded, Verified
    <3>3. QED
      BY <1>1, <2>1, <2>3, <3>2
  <2>6. QED
    BY <1>6, <2>4, <2>5 DEF VerifyLoose
<1>7. ASSUME NEW d \in Dirs, SampleSubtree(d) PROVE p \in unseen'
  <2>1. unseen' = unseen /\ diskRow' = diskRow /\ snap' = snap /\ Snapshot(p)' = Snapshot(p)
    BY <1>7 DEF SampleSubtree, history, Step, Snapshot
  <2>2. IsStop(p)
    BY <2>1 DEF IsStop, ClassOf, Hashed, Listed
  <2>3. dir \in Verified
    BY <1>7 DEF SampleSubtree, Recorded, Verified
  <2>4. QED
    BY <1>1, <2>1, <2>2, <2>3
<1>8. ASSUME NEW q \in Path, HashOne(q) PROVE subtree' = subtree /\ unseen \subseteq unseen'
  BY <1>8 DEF HashOne
<1>9. QED
  BY <1>3, <1>4, <1>5, <1>6, <1>7, <1>8, Changes

-----------------------------------------------------------------------------
(* Phase c writes what it has compared.                                    *)

LEMMA WritingSteps ==
  ASSUME Types, Step, run'.at = "write"
  PROVE  /\ UNCHANGED diskRow
         /\ \/ CompareOrigins /\ run.at # "write"
            \/ run.at = "write" /\ \E batch \in SUBSET Path : WriteOrigins(batch)
            \/ UNCHANGED run /\ \E p \in Path : Adopt(p)
            \/ UNCHANGED <<run, origin, late>>
<1> USE DEF Types
<1>1. Idle.at = "idle"
  BY DEF Idle
<1>2. CASE Still
  BY <1>2 DEF Still, work, history
<1>3. \A listed : ~PhaseA(listed)
  BY DEF PhaseA, WalkDisk, Idle
<1>4. ~LoadSnapshot /\ ~EndB /\ ~WriteFiles /\ ~EndD /\ ~KillPhase
  BY <1>1 DEF LoadSnapshot, EndB, WriteFiles, EndD, KillPhase, Ends
<1>5. \A sample : ~PhaseB(sample)
  BY DEF PhaseB, Idle
<1>6. ~PhaseC /\ ~PhaseD
  <2>1. \A left : [[Idle EXCEPT !.at = "c"] EXCEPT !.todo = left].at = "c"
    BY DEF Idle
  <2>2. ~PhaseC
    BY <2>1 DEF PhaseC
  <2>3. \A dirs, loose : [[[Idle EXCEPT !.at = "d"] EXCEPT !.dirs = dirs] EXCEPT !.loose = loose].at = "d"
    BY DEF Idle
  <2>4. ~PhaseD
    BY <2>3 DEF PhaseD
  <2>5. QED
    BY <2>2, <2>4
<1>7. CASE CompareOrigins
  BY <1>7 DEF CompareOrigins, work
<1>8. \A p : ~HashOne(p)
  BY DEF HashOne
<1>9. \A p : ~VerifyLoose(p)
  BY <1>1 DEF VerifyLoose, Ends
<1>10. \A dir : ~SampleSubtree(dir) /\ ~VerifySubtree(dir)
  BY <1>1 DEF SampleSubtree, VerifySubtree, Ends
<1>11. ASSUME NEW p \in Path, Adopt(p) \/ Edits(p)
       PROVE  UNCHANGED <<diskRow, run>> /\ (Adopt(p) \/ UNCHANGED <<origin, late>>)
  BY <1>11 DEF Adopt, Edits, Edit, Create, Delete, work, catalog
<1>12. ASSUME NEW batch \in SUBSET Path, WriteOrigins(batch) PROVE UNCHANGED diskRow /\ run.at = "write"
  BY <1>12 DEF WriteOrigins, work
<1>13. CASE PhaseE
  BY <1>13 DEF PhaseE, work, catalog
<1>14. QED
  BY <1>2, <1>3, <1>4, <1>5, <1>6, <1>7, <1>8, <1>9, <1>10, <1>11, <1>12, <1>13 DEF Step, Moves

LEMMA WritesStep ==
  ASSUME Types, Worklists, WritesAgree, Step PROVE WritesAgree'
<1> SUFFICES ASSUME run'.at = "write", NEW p \in Hashed' \ late'
             PROVE  IF p \in DOMAIN origin' THEN origin'[p].sha = diskRow'[p].sha ELSE p \in run'.todo
  BY DEF WritesAgree
<1>1. diskRow' = diskRow /\ p \in Hashed
  BY WritingSteps DEF Hashed, Listed
<1>2. CASE CompareOrigins
  <2>1. run' = [run EXCEPT !.at = "write", !.todo = Hashed]
    BY <1>2 DEF CompareOrigins, Ends, Idle
  <2>2. run'.todo = Hashed /\ origin' = origin
    BY <1>2, <2>1 DEF CompareOrigins, catalog, Types
  <2>3. \A q \in Hashed \intersect DOMAIN origin : origin[q].sha = diskRow[q].sha
    BY <1>2 DEF CompareOrigins, Ends, Idle
  <2>4. QED
    BY <1>1, <2>2, <2>3
<1>3. ASSUME NEW batch \in SUBSET Path, WriteOrigins(batch), run.at = "write"
      PROVE  IF p \in DOMAIN origin' THEN origin'[p].sha = diskRow'[p].sha ELSE p \in run'.todo
  <2>1. /\ late' = late /\ run'.todo = run.todo \ batch
        /\ origin' = [q \in DOMAIN origin \union batch |-> IF q \in batch THEN Upserted(q) ELSE origin[q]]
    BY <1>3 DEF WriteOrigins, history, Types
  <2>2. IF p \in DOMAIN origin THEN origin[p].sha = diskRow[p].sha ELSE p \in run.todo
    BY <1>1, <1>3, <2>1 DEF WritesAgree
  <2>3. CASE p \in DOMAIN origin
    BY <1>1, <1>3, <2>1, <2>2, <2>3, OriginKept
  <2>4. CASE p \notin DOMAIN origin /\ p \in batch
    <3>1. Upserted(p).sha = diskRow[p].sha
      BY <2>4 DEF Upserted
    <3>2. QED
      BY <1>1, <2>1, <2>4, <3>1
  <2>5. CASE p \notin DOMAIN origin /\ p \notin batch
    BY <2>1, <2>2, <2>5
  <2>6. QED
    BY <2>3, <2>4, <2>5
<1>4. ASSUME NEW q \in Path, Adopt(q), run' = run
      PROVE  IF p \in DOMAIN origin' THEN origin'[p].sha = diskRow'[p].sha ELSE p \in run'.todo
  <2>1. late \subseteq late' /\ (q \notin DOMAIN origin => q \in late')
    BY <1>4 DEF Adopt
  <2>2. IF p \in DOMAIN origin THEN origin[p].sha = diskRow[p].sha ELSE p \in run.todo
    BY <1>1, <1>4, <2>1 DEF WritesAgree
  <2>3. p \in DOMAIN origin' <=> p \in DOMAIN origin
    BY <1>4, <2>1 DEF Adopt
  <2>4. QED
    BY <1>1, <1>4, <2>2, <2>3, OriginKept
<1>5. CASE UNCHANGED <<run, origin, late>>
  BY <1>1, <1>5 DEF WritesAgree
<1>6. QED
  BY <1>2, <1>3, <1>4, <1>5, WritingSteps

-----------------------------------------------------------------------------
(* The invariant, and what it says of the phases.                          *)

LEMMA PhasesInit == ASSUME InventoryInit PROVE PhasesInv
<1>1. Types
  BY InitTypes
<1>2. Listed = {} /\ Hashed = {} /\ Verified = {}
  BY DEF InventoryInit, Listed, Hashed, Verified
<1>3. run.at = "idle"
  BY DEF InventoryInit, Idle
<1>4. Dumps
  BY DEF InventoryInit, Dumps
<1>5. Honest
  BY <1>2 DEF InventoryInit, Honest, Shown
<1>6. HardStopsAreReal /\ TopUpIsComplete
  BY DEF InventoryInit, HardStopsAreReal, TopUpIsComplete
<1>7. Worklists /\ Walked /\ HashedAsIs /\ VerifiedIsClean /\ WritesAgree
  BY <1>2, <1>3 DEF Worklists, Walked, HashedAsIs, VerifiedIsClean, WritesAgree
<1>8. topped \subseteq Hashed
  BY DEF InventoryInit
<1>9. QED
  BY <1>1, <1>4, <1>5, <1>6, <1>7, <1>8 DEF PhasesInv

LEMMA PhasesStep == ASSUME PhasesInv, Step PROVE PhasesInv'
BY TypesStep, DumpsStep, WalkedStep, HashedAsIsStep, HonestStep, HardStopsStep, ToppedStep,
   TopUpStep, CleanStep, WritesStep DEF PhasesInv

\* An export leaves everything but its own file, and the bound on kills, alone.
LEMMA OriginsSteps ==
  ASSUME [OriginsNext]_originsVars
  PROVE  /\ Step
         /\ (UNCHANGED <<map, exported>>) \/ (UNCHANGED <<origin, rows>> /\ Exports)
<1>1. CASE UNCHANGED originsVars
  BY <1>1, NextSteps DEF originsVars
<1>2. CASE InventoryNext /\ UNCHANGED <<map, exported>>
  BY <1>2, NextSteps
<1>3. CASE ExportFirst \/ ExportMore
  <2>1. UNCHANGED inventoryVars
    BY <1>3 DEF ExportFirst, ExportMore
  <2>2. QED
    BY <1>3, <2>1, NextSteps DEF Exports, inventoryVars, catalog
<1>4. CASE ExportKilled
  <2>1. Step
    BY <1>4 DEF ExportKilled, Mishap, Step, Still, catalog
  <2>2. QED
    BY <1>4, <2>1 DEF ExportKilled, Exports, catalog
<1>5. QED
  BY <1>1, <1>2, <1>3, <1>4 DEF OriginsNext, Exports

(***************************************************************************)
(* The rows are what was walked and hashed, the repository holds the       *)
(* snapshot, and nothing differs from it without a reason, in every state. *)
(***************************************************************************)
THEOREM PhasesInvariant == OriginsSpec => []PhasesInv
<1>1. OriginsInit => PhasesInv
  BY PhasesInit DEF OriginsInit
<1>2. PhasesInv /\ [OriginsNext]_originsVars => PhasesInv'
  BY PhasesStep, OriginsSteps
<1>3. QED
  BY <1>1, <1>2, PTL DEF OriginsSpec

(***************************************************************************)
(* A hard stop is never drift, and a success of phase e leaves no hashed   *)
(* file out of the repository.                                             *)
(***************************************************************************)
THEOREM PhasesReportTrulyAlways == OriginsSpec => []PhasesReportTruly
<1>1. PhasesInv => PhasesReportTruly
  BY DEF PhasesInv, PhasesReportTruly
<1>2. QED
  BY <1>1, PhasesInvariant, PTL

(***************************************************************************)
(* Nothing is added to a repository with a stop in a directory, and the    *)
(* hash on record is the first and, where phase c wrote, its own.          *)
(***************************************************************************)
THEOREM PhasesBuildAlways == OriginsSpec => PhasesBuildOnEarlierOnes
<1> DEFINE Top == stored' # stored \/ topped' \ topped # {} =>
                    \A dir \in Subtrees : Stops((In(dir) \intersect InBackup) \ unseen) = {}
<1> DEFINE Agree == /\ \A p \in DOMAIN origin : origin'[p].sha = origin[p].sha /\ origin'[p].mtime <= origin[p].mtime
                    /\ run.at = "write" /\ run.todo = {} =>
                         \A p \in Hashed \ late : origin[p].sha = diskRow[p].sha
<1>1. PhasesInv /\ [OriginsNext]_originsVars => Top
  <2> SUFFICES ASSUME PhasesInv, Step, stored' # stored \/ topped' \ topped # {} PROVE Top
    BY OriginsSteps
  <2>1. \A listed : PhaseA(listed) => topped' = {} /\ stored' = stored
    BY DEF PhaseA, WalkDisk
  <2>2. PhaseE
    BY <2>1, Changes
  <2>3. QED
    BY <2>2 DEF PhaseE, Complete, PhasesInv, VerifiedIsClean
<1>2. PhasesInv /\ [OriginsNext]_originsVars => Agree
  <2> SUFFICES ASSUME PhasesInv, Step PROVE Agree
    BY OriginsSteps
  <2>1. QED
    BY OriginKept DEF PhasesInv, WritesAgree
<1>3. QED
  BY <1>1, <1>2, PhasesInvariant, PTL DEF OriginsSpec, PhasesBuildOnEarlierOnes, TopUpIsVerified, OriginsAgree

-----------------------------------------------------------------------------
(* origins.jsonl.                                                          *)

LEMMA OnRecordIs == OnRecord = {<<origin[p].sha, p>> : p \in DOMAIN origin}
BY DEF OnRecord, Line

\* What is on record stays so.
LEMMA OnRecordGrows == ASSUME Types, Worklists, Step PROVE OnRecord \subseteq OnRecord'
<1>1. \A p \in DOMAIN origin : p \in DOMAIN origin' /\ origin'[p].sha = origin[p].sha
  BY OriginKept
<1>2. OnRecord' = {<<origin'[p].sha, p>> : p \in DOMAIN origin'}
  BY DEF OnRecord, Line
<1>3. QED
  BY <1>1, <1>2, OnRecordIs

LEMMA LinesAreOnRecord == \A h : Line(h) \subseteq OnRecord
BY OnRecordIs DEF Line

\* With the tables in step every hash on record is exported, and an export owes
\* every line that the file does not have.
LEMMA AllOnRecordIsReady == ASSUME Unmatched = {} PROVE Ready = Shas
BY DEF Unmatched, Ready

LEMMA OwedOrFound ==
  ASSUME Unmatched = {}
  PROVE  OnRecord \subseteq Readable \union UNION {Line(h) : h \in Owing}
<1> SUFFICES ASSUME NEW p \in DOMAIN origin
             PROVE  <<origin[p].sha, p>> \in Readable \union UNION {Line(h) : h \in Owing}
  BY OnRecordIs
<1> DEFINE h == origin[p].sha
<1>1. h \in Ready /\ <<h, p>> \in Line(h)
  BY AllOnRecordIsReady DEF Shas, Line
<1>2. CASE h \in Owing
  BY <1>1, <1>2
<1>3. CASE h \notin Owing
  BY <1>1, <1>3 DEF Owing, Found
<1>4. QED
  BY <1>2, <1>3


LEMMA AppendMap ==
  ASSUME NEW written, NEW end \in {"line", "open", "cut"}, Append(written, end), MapInv,
         map.end # "cut", map.there
  PROVE  /\ MapTyped'
         /\ map'.there
         /\ All' \subseteq OnRecord
         /\ map'.end = "line" => map'.tail = {}
         /\ map'.end # "cut" => /\ All \subseteq All'
                                /\ end = "line" => UNION {Line(h) : h \in written} \subseteq All'
<1> DEFINE joined == map.end = "open" /\ written # {}
           open == IF end = "open" THEN {Last(written)} ELSE {}
           bad == IF joined THEN {First(written)} ELSE {}
           lines == map.lines \union {Line(h) : h \in written \ (open \union bad)}
           tail == IF written = {} THEN map.tail ELSE UNION {Line(h) : h \in open \ bad}
           to == IF joined THEN "cut" ELSE IF written = {} /\ end = "line" THEN map.end ELSE end
<1>1. map' = [[[map EXCEPT !.lines = lines] EXCEPT !.tail = tail] EXCEPT !.end = to]
  BY DEF Append
<1>2. map' = [there |-> map.there, lines |-> lines, tail |-> tail, end |-> to]
  <2> HIDE DEF lines, tail, to
  <2>1. \A t, l, a, e, x : [[there |-> t, lines |-> l, tail |-> a, end |-> e] EXCEPT !.lines = x]
                           = [there |-> t, lines |-> x, tail |-> a, end |-> e]
    OBVIOUS
  <2>2. \A t, l, a, e, x : [[there |-> t, lines |-> l, tail |-> a, end |-> e] EXCEPT !.tail = x]
                           = [there |-> t, lines |-> l, tail |-> x, end |-> e]
    OBVIOUS
  <2>3. \A t, l, a, e, x : [[there |-> t, lines |-> l, tail |-> a, end |-> e] EXCEPT !.end = x]
                           = [there |-> t, lines |-> l, tail |-> a, end |-> x]
    OBVIOUS
  <2>4. PICK t, l, a, e : map = [there |-> t, lines |-> l, tail |-> a, end |-> e]
    BY DEF MapInv, MapTyped
  <2>5. map' = [there |-> t, lines |-> lines, tail |-> tail, end |-> to]
    BY <1>1, <2>1, <2>2, <2>3, <2>4
  <2>6. QED
    BY <2>4, <2>5
<1>3. map'.there = map.there /\ map'.lines = lines /\ map'.tail = tail /\ map'.end = to
  <2> HIDE DEF lines, tail, to
  <2> QED
    BY <1>2
<1>4. All' = (UNION lines) \union tail
  <2> HIDE DEF lines, tail, to
  <2> QED
    BY <1>3 DEF All
<1>5. (UNION lines) \union tail \subseteq OnRecord
  <2>1. UNION map.lines \subseteq OnRecord /\ map.tail \subseteq OnRecord
    BY DEF MapInv, All
  <2>2. \A S : UNION {Line(h) : h \in S} \subseteq OnRecord
    BY LinesAreOnRecord
  <2>3. UNION lines \subseteq OnRecord
    BY <2>1, LinesAreOnRecord
  <2>4. tail \subseteq OnRecord
    BY <2>1, <2>2
  <2>5. QED
    BY <2>3, <2>4
<1>6. to = "line" => tail = {}
  BY DEF MapInv
<1>7. ASSUME to # "cut"
      PROVE  /\ All \subseteq (UNION lines) \union tail
             /\ end = "line" => UNION {Line(h) : h \in written} \subseteq UNION lines
  <2>1. ~joined /\ bad = {}
    BY <1>7
  <2>2. UNION map.lines \subseteq UNION lines
    OBVIOUS
  <2>3. map.tail \subseteq (UNION lines) \union tail
    BY <2>1 DEF MapInv, MapTyped
  <2>4. end = "line" => open \union bad = {}
    BY <2>1
  <2>5. end = "line" => UNION {Line(h) : h \in written} \subseteq UNION lines
    BY <2>4
  <2>6. QED
    BY <2>2, <2>3, <2>5 DEF All
<1>8. MapTyped'
  <2> HIDE DEF lines, tail, to, joined
  <2>1. to \in {"line", "open", "cut"}
    BY DEF to, MapInv, MapTyped
  <2> QED
    BY <1>2, <1>3, <2>1 DEF MapTyped
<1> HIDE DEF lines, tail, to
<1>9. QED
  BY <1>3, <1>4, <1>5, <1>6, <1>7, <1>8

\* An export, whole or killed, leaves a map that matches.
LEMMA MapStep ==
  ASSUME PhasesInv, MapInv, Step, UNCHANGED <<map, exported>> \/ (UNCHANGED <<origin, rows>> /\ Exports)
  PROVE  MapInv'
<1>1. OnRecord \subseteq OnRecord'
  BY OnRecordGrows DEF PhasesInv
<1>2. CASE UNCHANGED <<map, exported>>
  BY <1>1, <1>2 DEF MapInv, MapTyped, All
<1>3. ASSUME map.end # "cut" PROVE Readable = All
  BY <1>3 DEF Readable, All
<1>4. ASSUME ExportFirst PROVE MapInv'
  <2> DEFINE lines == {Line(h) : h \in Owing}
  <2>1. map.lines = {} /\ map.end = "line" /\ map.tail = {} /\ ~map.there
    BY <1>4 DEF ExportFirst, MapInv
  <2>2. map' = [there |-> TRUE, lines |-> lines, tail |-> {}, end |-> "line"]
    <3>1. map = [there |-> FALSE, lines |-> {}, tail |-> {}, end |-> "line"]
      <4>1. map.there = FALSE
        BY <1>4, <2>1 DEF ExportFirst
      <4>2. QED
        BY <2>1, <4>1 DEF MapInv, MapTyped
    <3>2. map' = [map EXCEPT !.there = TRUE, !.lines = lines]
      BY <1>4 DEF ExportFirst
    <3> HIDE DEF lines
    <3>3. QED
      BY <3>1, <3>2
  <2>3. OnRecord \subseteq UNION lines
    BY <1>3, <1>4, <2>1, OwedOrFound DEF ExportFirst, All
  <2>4. UNION lines \subseteq OnRecord
    BY LinesAreOnRecord
  <2> HIDE DEF lines
  <2>5. map'.there = TRUE /\ map'.lines = lines /\ map'.tail = {} /\ map'.end = "line"
    BY <2>2
  <2>6. exported' = OnRecord
    BY <1>4 DEF ExportFirst
  <2>7. All' = UNION lines
    BY <2>5 DEF All
  <2>8. MapTyped'
    BY <2>2, <2>5 DEF MapTyped
  <2>9. QED
    BY <1>1, <2>3, <2>4, <2>5, <2>6, <2>7, <2>8 DEF MapInv
<1>5. ASSUME ExportMore PROVE MapInv'
  <2>1. Append(Owing, "line") /\ map.there /\ map.end # "cut"
    BY <1>5 DEF ExportMore
  <2>2. ASSUME map'.end # "cut" PROVE exported' \subseteq All'
    <3>1. All \subseteq All' /\ UNION {Line(h) : h \in Owing} \subseteq All'
      BY <2>1, <2>2, AppendMap
    <3>2. CASE Unmatched = {}
      BY <1>3, <1>5, <2>1, <3>1, <3>2, OwedOrFound DEF ExportMore
    <3>3. CASE Unmatched # {}
      BY <1>5, <2>1, <3>1, <3>3 DEF ExportMore, MapInv
    <3>4. QED
      BY <3>2, <3>3
  <2>3. QED
    BY <1>1, <2>1, <2>2, AppendMap DEF MapInv
<1>6. ASSUME ExportKilled PROVE MapInv'
  <2>1. \E w : \E e \in {"line", "open", "cut"} : Append(w, e)
    <3>1. PICK h \in Owing : \/ \E end \in {"line", "open"} : Append({g \in Owing : g <= h}, end)
                           \/ Append({g \in Owing : g < h}, "cut")
      BY <1>6 DEF ExportKilled
    <3>2. ASSUME NEW end \in {"line", "open"}, Append({g \in Owing : g <= h}, end)
          PROVE  \E w : \E e \in {"line", "open", "cut"} : Append(w, e)
      BY <3>2
    <3>3. ASSUME Append({g \in Owing : g < h}, "cut")
          PROVE  \E w : \E e \in {"line", "open", "cut"} : Append(w, e)
      BY <3>3
    <3>4. QED
      BY <3>1, <3>2, <3>3
  <2>2. map.there /\ map.end # "cut" /\ exported' = exported
    BY <1>6 DEF ExportKilled
  <2>3. PICK written : \E e \in {"line", "open", "cut"} : Append(written, e)
    BY <2>1
  <2>4. PICK end \in {"line", "open", "cut"} : Append(written, end)
    BY <2>3
  <2>5. QED
    BY <1>1, <2>2, <2>4, AppendMap DEF MapInv
<1>7. QED
  BY <1>2, <1>4, <1>5, <1>6 DEF Exports

(***************************************************************************)
(* While every line of origins.jsonl parses, it has no pair that is not on *)
(* record and misses none that was there when an export last ended, for    *)
(* any adoption, phase c and kills between the exports.                    *)
(***************************************************************************)
THEOREM MapMatchesAlways == OriginsSpec => []MapMatches
<1>1. OriginsInit => MapInv
  <2> SUFFICES ASSUME OriginsInit PROVE MapInv
    OBVIOUS
  <2>1. map = [there |-> FALSE, lines |-> {}, tail |-> {}, end |-> "line"] /\ exported = {}
    BY DEF OriginsInit, NoLine
  <2>2. All = {}
    BY <2>1 DEF All
  <2>3. MapTyped
    BY <2>1 DEF MapTyped
  <2>4. QED
    BY <2>1, <2>2, <2>3 DEF MapInv
<1>2. PhasesInv /\ MapInv /\ [OriginsNext]_originsVars => MapInv'
  BY MapStep, OriginsSteps
<1>3. MapInv => MapMatches
  BY DEF MapInv, MapMatches, Readable, All
<1>4. QED
  BY <1>1, <1>2, <1>3, PhasesInvariant, PTL DEF OriginsSpec
=============================================================================
