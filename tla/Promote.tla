------------------------------ MODULE Promote ------------------------------
(***************************************************************************)
(* archive/pipeline/promote.py: the one step that deletes.  One process    *)
(* (see RunLock) takes the objects of the catalogue one at a time and, by  *)
(* the verdict of the saved rule set, moves each kept object from          *)
(* MediaVault to the vault by hardlink and unlink, renames each accepted   *)
(* staged copy into the vault, and unlinks each excluded object.           *)
(*                                                                         *)
(* A filesystem name is modelled by the file it is bound to, a database    *)
(* transaction is one action, and every effect a killed run could leave    *)
(* behind without the next one is an action of its own.  The mode of the   *)
(* failure is a kill of the process: what a syscall returned, what a       *)
(* transaction committed and what the log flushed all survive it.          *)
(***************************************************************************)
EXTENDS Naturals, FiniteSets

CONSTANTS
  Objects,    \* the digests of the catalogue that have a vault copy to make
  NoObject,   \* no object is being worked on
  Staged,     \* the objects whose bytes are a staged copy, not a MediaVault one
  Limits,     \* the bounds an operator may pass to --limit
  Faults,     \* what the world outside may do, a subset of FaultKinds
  MaxUpsets   \* bounds how often kills, arrivals and decisions happen

FaultKinds ==
  { "kill",       \* the process dies between two effects
    "busy",       \* another handle blocks a delete past every retry
    "degraded",   \* os.stat reports file index 0 for a name it cannot open
    "linkerror",  \* os.link fails for a reason that is not the target name
    "alien",      \* a file with other bytes appears at a target name
    "twin",       \* a separate copy of the bytes appears at a target name
    "shared",     \* some objects have a third name outside both roots
    "readonly",   \* some objects are read-only before the first run
    "decide" }    \* the user changes the verdict on an object

ASSUME ObjectsAssumption ==
  /\ NoObject \notin Objects
  /\ Staged \subseteq Objects
  /\ Faults \subseteq FaultKinds
  /\ Limits \subseteq Nat
  /\ MaxUpsets \in Nat

VARIABLES
  src,      \* the file each object's source name is bound to
  tgt,      \* the file each object's vault name is bound to
  shared,   \* the objects whose file has a third name elsewhere
  ro,       \* the files of each object that carry the read-only attribute
  fstate,   \* file.state of the catalogue
  row,      \* the promotion ledger
  log,      \* the completed deletes in promote-unlink.log, by intent
  kept,     \* the verdict of the saved rule set and the overrides, now
  mode,     \* what the running process was asked to do
  job,      \* the worklist it computed when it started
  todo,     \* the jobs it has not finished
  cur,      \* the object it is working on
  pc,       \* the next effect of that work
  upsets    \* how many bounded faults have happened

disk == <<src, tgt, shared, ro>>
books == <<fstate, row, log>>
volatile == <<mode, job, todo, cur, pc>>
vars == <<disk, books, kept, volatile, upsets>>

NoFile == "none"
Files == {"orig", "twin", "alien"}
HasBytes(f) == f \in {"orig", "twin"}
Intents == {"promote", "stage_rename", "unlink"}
Statuses == {"none", "intent", "done", "half_linked", "collision", "blocked", "failed"}
LogKinds == {"promote", "staging_drop", "unlink"}
Steps == {"idle", "next", "repaired", "link", "prove", "delete", "seal", "finish", "log",
          "hash", "stage", "drop", "droplog", "dropfinish", "rename", "sealname",
          "finishname", "destroy", "logdestroyed", "finishdestroyed"}

TypeOK ==
  /\ src \in [Objects -> {"orig", NoFile}]
  /\ tgt \in [Objects -> Files \cup {NoFile}]
  /\ shared \subseteq Objects
  /\ ro \in [Objects -> SUBSET Files]
  /\ fstate \in [Objects -> {"read", "staged", "published", "excluded"}]
  /\ row \in [Objects -> [intent : Intents \cup {"none"}, status : Statuses]]
  /\ log \in [Objects -> [LogKinds -> 0 .. 2]]
  /\ kept \in [Objects -> BOOLEAN]
  /\ mode \in {"none", "execute", "repair"}
  /\ job \in [Objects -> Intents \cup {"none"}]
  /\ todo \subseteq Objects
  /\ cur \in Objects \cup {NoObject}
  /\ pc \in Steps
  /\ upsets \in 0 .. MaxUpsets

Init ==
  /\ src = [o \in Objects |-> "orig"]
  /\ tgt = [o \in Objects |-> NoFile]
  /\ shared \in IF "shared" \in Faults THEN SUBSET (Objects \ Staged) ELSE {{}}
  /\ ro \in [Objects -> IF "readonly" \in Faults THEN {{}, {"orig"}} ELSE {{}}]
  /\ fstate = [o \in Objects |-> IF o \in Staged THEN "staged" ELSE "read"]
  /\ row = [o \in Objects |-> [intent |-> "none", status |-> "none"]]
  /\ log = [o \in Objects |-> [k \in LogKinds |-> 0]]
  /\ kept \in [Objects -> BOOLEAN]
  /\ mode = "none"
  /\ job = [o \in Objects |-> "none"]
  /\ todo = {}
  /\ cur = NoObject
  /\ pc = "idle"
  /\ upsets = 0

-----------------------------------------------------------------------------
(* Identity and the classifier.                                            *)

One(b) == IF b THEN 1 ELSE 0

\* st_nlink of a file: the names bound to it, a third one included.
Nlink(o, f) ==
  One(src[o] = f) + One(tgt[o] = f) + One(f = "orig" /\ o \in shared)

\* Bug: two existing names are taken for strangers without looking.
BugNamesOnly(o) ==
  IF src[o] # NoFile
    THEN IF tgt[o] = NoFile THEN "S0" ELSE "collision"
    ELSE IF tgt[o] # NoFile THEN "ambiguous" ELSE "absent"

Classify(o) ==
  IF src[o] # NoFile
    THEN IF tgt[o] = NoFile THEN "S0"
         ELSE IF src[o] = tgt[o] THEN "S1" ELSE "collision"
    ELSE IF tgt[o] # NoFile THEN "ambiguous" ELSE "absent"

-----------------------------------------------------------------------------
(* The ledger, the log and the flow of one run.                            *)

Record(o, status) ==
  row' = [row EXCEPT ![o] = [intent |-> job[o], status |-> status]]

\* One transaction over the ledger row and the file row.
Finish(o, state) ==
  /\ row[o].status # "none"
  /\ row' = [row EXCEPT ![o].status = "done"]
  /\ fstate' = [fstate EXCEPT ![o] = state]

\* Append-only; the model counts lines to two.
LogDelete(o, kind) ==
  log' = [log EXCEPT ![o][kind] = IF @ = 2 THEN 2 ELSE @ + 1]

At(o, step) == pc = step /\ cur = o
Goto(o, step) ==
  /\ pc' = step
  /\ cur' = o
  /\ UNCHANGED <<mode, job, todo>>

\* The job is over, whatever its outcome, and the loop takes the next one.
NextJob(o) ==
  /\ pc' = "next"
  /\ cur' = NoObject
  /\ todo' = todo \ {o}
  /\ UNCHANGED <<mode, job>>

\* The process is gone: it finished, refused to go on, or was killed.
Stop ==
  /\ pc' = "idle"
  /\ cur' = NoObject
  /\ todo' = {}
  /\ mode' = "none"
  /\ job' = [o \in Objects |-> "none"]

Outside == <<kept, upsets>>

-----------------------------------------------------------------------------
(* Starting and ending a run.                                              *)

\* The objects `worklist` returns: the finished ones have left it.
Worklist == {o \in Objects : fstate[o] \in {"read", "staged"}}

\* A kept object is promoted or, when it is a staged copy, renamed.
Verdict(o) ==
  IF ~kept[o] THEN "unlink"
  ELSE IF fstate[o] = "staged" THEN "stage_rename" ELSE "promote"

\* --limit takes the same number of jobs, at most, from each intent.
Bounded(jobs, limit) ==
  \A i \in Intents :
    LET offered == {o \in Worklist : Verdict(o) = i}
        taken == jobs \cap offered
    IN /\ Cardinality(taken) =< limit
       /\ taken = offered \/ Cardinality(taken) = limit

\* The rule set is read once; the run acts on what it said then.
Start(jobs) ==
  /\ pc = "idle"
  /\ job' = [o \in Objects |-> IF o \in jobs THEN Verdict(o) ELSE "none"]
  /\ pc' = "next"
  /\ cur' = NoObject
  /\ UNCHANGED <<disk, books, Outside>>

StartExecute ==
  \E limit \in Limits, jobs \in SUBSET Worklist :
    /\ Bounded(jobs, limit)
    /\ Start(jobs)
    /\ jobs # {}
    /\ todo' = jobs
    /\ mode' = "execute"

\* `--repair` takes its rows from the ledger and its authority from the verdict.
StartRepair ==
  \E limit \in Limits, jobs \in SUBSET Worklist :
    /\ Bounded(jobs, limit)
    /\ Start(jobs)
    /\ todo' = {o \in jobs : row[o].status \in {"half_linked", "blocked"}}
    /\ todo' # {}
    /\ mode' = "repair"

EndRun ==
  /\ pc = "next"
  /\ todo = {}
  /\ Stop
  /\ UNCHANGED <<disk, books, Outside>>

Refuse == Stop /\ UNCHANGED <<disk, Outside>>

\* Promotions first, then staged renames, then the excluded deletes.
Rank(intent) ==
  CASE intent = "promote" -> 1 [] intent = "stage_rename" -> 2 [] OTHER -> 3

\* Bug: the jobs are taken in the order of the catalogue.
BugAnyOrder(o) == pc = "next" /\ o \in todo

Chosen(o) ==
  /\ pc = "next"
  /\ o \in todo
  /\ mode = "execute" => \A p \in todo : Rank(job[o]) =< Rank(job[p])

\* `repair` clears read-only on either name before it hands the object on.
RepairClear(o) ==
  /\ Chosen(o)
  /\ mode = "repair"
  /\ ro' = [ro EXCEPT ![o] = @ \ {src[o], tgt[o]}]
  /\ Goto(o, "repaired")
  /\ UNCHANGED <<src, tgt, shared, books, Outside>>

\* Which of the three procedures the loop calls; a repair knows only two.
Called(o, procedure) ==
  \/ mode = "execute" /\ Chosen(o) /\ job[o] = procedure
  \/ /\ At(o, "repaired")
     /\ procedure = IF job[o] = "unlink" THEN "unlink" ELSE "promote"

-----------------------------------------------------------------------------
(* promote_one.                                                            *)

\* A pair that cannot be identified counts as a collision, never as a match.
PromoteCollides(o) ==
  /\ Called(o, "promote")
  /\ \/ Classify(o) = "collision"
     \/ Classify(o) = "S1" /\ "degraded" \in Faults
  /\ Record(o, "collision")
  /\ NextJob(o)
  /\ UNCHANGED <<disk, fstate, log, Outside>>

PromoteAbsent(o) ==
  /\ Called(o, "promote")
  /\ Classify(o) = "absent"
  /\ Refuse
  /\ UNCHANGED books

\* The intent row is committed before anything is linked, hashed or deleted.
PromoteIntent(o) ==
  /\ Called(o, "promote")
  /\ \/ Classify(o) = "S0" /\ Goto(o, "link")
     \/ Classify(o) = "S1" /\ Goto(o, "prove")
     \/ Classify(o) = "ambiguous" /\ Goto(o, "hash")
  /\ Record(o, "intent")
  /\ UNCHANGED <<disk, fstate, log, Outside>>

Baseline(o) == Nlink(o, src[o]) = 1 /\ src[o] \notin ro[o]

PromotePrecondition(o) ==
  /\ At(o, "link")
  /\ ~Baseline(o) \/ "degraded" \in Faults
  /\ Record(o, "failed")
  /\ Refuse
  /\ UNCHANGED <<fstate, log>>

\* Bug: the new name is sealed as soon as it exists.
BugSealsAtLink(o) ==
  /\ At(o, "link")
  /\ Baseline(o)
  /\ tgt[o] = NoFile
  /\ tgt' = [tgt EXCEPT ![o] = src[o]]
  /\ ro' = [ro EXCEPT ![o] = @ \cup {src[o]}]
  /\ Goto(o, "prove")
  /\ UNCHANGED <<src, shared, books, Outside>>

PromoteLink(o) ==
  /\ At(o, "link")
  /\ Baseline(o)
  /\ tgt[o] = NoFile
  /\ tgt' = [tgt EXCEPT ![o] = src[o]]
  /\ Goto(o, "prove")
  /\ UNCHANGED <<src, shared, ro, books, Outside>>

\* Bug: a target that exists is taken for the link already made, and proven.
BugReadsAsLinked(o) ==
  /\ At(o, "link")
  /\ Baseline(o)
  /\ tgt[o] # NoFile
  /\ Goto(o, "delete")
  /\ UNCHANGED <<disk, books, Outside>>

\* Whatever the error, 183 included, it is the classifier that decides.
PromoteLinkFails(o) ==
  /\ At(o, "link")
  /\ Baseline(o)
  /\ tgt[o] # NoFile \/ "linkerror" \in Faults
  /\ Record(o, "failed")
  /\ IF Classify(o) = "S1" THEN Goto(o, "prove") ELSE Stop
  /\ UNCHANGED <<disk, fstate, log, Outside>>

\* assert_linked: one file, two names, both of them ours.
Linked(o) ==
  /\ src[o] # NoFile
  /\ src[o] = tgt[o]
  /\ Nlink(o, src[o]) = 2

PromoteProve(o) ==
  /\ At(o, "prove")
  /\ Linked(o)
  /\ Goto(o, "delete")
  /\ UNCHANGED <<disk, books, Outside>>

PromoteUnproven(o) ==
  /\ At(o, "prove")
  /\ ~Linked(o) \/ "degraded" \in Faults
  /\ Record(o, "failed")
  /\ Refuse
  /\ UNCHANGED <<fstate, log>>

\* clear_readonly, then delete_with_backoff: the source name goes ...
Deleted(o) ==
  /\ src' = [src EXCEPT ![o] = NoFile]
  /\ ro' = [ro EXCEPT ![o] = @ \ {src[o]}]
  /\ UNCHANGED <<tgt, shared>>

\* ... or another handle holds it, which is recorded and left.
DeleteBlocked(o, status) ==
  /\ "busy" \in Faults
  /\ src[o] # NoFile
  /\ ro' = [ro EXCEPT ![o] = @ \ {src[o]}]
  /\ Record(o, status)
  /\ NextJob(o)
  /\ UNCHANGED <<src, tgt, shared, fstate, log, Outside>>

\* Bug: the survivor is never sealed.
BugNeverSeals(o) ==
  /\ At(o, "delete")
  /\ Deleted(o)
  /\ Goto(o, "finish")
  /\ UNCHANGED <<books, Outside>>

PromoteDelete(o) ==
  /\ At(o, "delete")
  /\ Deleted(o)
  /\ Goto(o, "seal")
  /\ UNCHANGED <<books, Outside>>

\* Read-only stays clear: setting it now would make the object undeletable.
PromoteHalfLinked(o) ==
  /\ At(o, "delete")
  /\ DeleteBlocked(o, "half_linked")

\* Only now is the survivor one name, and only now is it sealed.
PromoteSeal(o) ==
  /\ At(o, "seal")
  /\ tgt[o] # NoFile
  /\ Nlink(o, tgt[o]) = 1
  /\ ro' = [ro EXCEPT ![o] = @ \cup {tgt[o]}]
  /\ Goto(o, "finish")
  /\ UNCHANGED <<src, tgt, shared, books, Outside>>

PromoteUnsealed(o) ==
  /\ At(o, "seal")
  /\ tgt[o] = NoFile \/ Nlink(o, tgt[o]) # 1 \/ "degraded" \in Faults
  /\ Record(o, "failed")
  /\ Refuse
  /\ UNCHANGED <<fstate, log>>

PromoteFinish(o) ==
  /\ At(o, "finish")
  /\ Finish(o, "published")
  /\ Goto(o, "log")
  /\ UNCHANGED <<disk, log, Outside>>

PromoteLog(o) ==
  /\ At(o, "log")
  /\ LogDelete(o, "promote")
  /\ NextJob(o)
  /\ UNCHANGED <<disk, fstate, row, Outside>>

\* Bug: the recovered object is finished first and sealed afterwards.
BugFinishesThenSeals(o) ==
  /\ At(o, "hash")
  /\ HasBytes(tgt[o])
  /\ Finish(o, "published")
  /\ Goto(o, "seal")
  /\ UNCHANGED <<disk, log, Outside>>

\* _resolve_ambiguous: the bytes of the target decide, not its name.
PromoteRecover(o) ==
  /\ At(o, "hash")
  /\ HasBytes(tgt[o])
  /\ Finish(o, "published")
  /\ NextJob(o)
  /\ UNCHANGED <<disk, log, Outside>>

PromoteImpostor(o) ==
  /\ At(o, "hash")
  /\ ~HasBytes(tgt[o])
  /\ Record(o, "failed")
  /\ Refuse
  /\ UNCHANGED <<fstate, log>>

-----------------------------------------------------------------------------
(* stage_rename_one.                                                       *)

\* prove_inside comes first, and it refuses a name that does not exist.
StageGone(o) ==
  /\ Called(o, "stage_rename")
  /\ src[o] = NoFile
  /\ Refuse
  /\ UNCHANGED books

StageIntent(o) ==
  /\ Called(o, "stage_rename")
  /\ src[o] # NoFile
  /\ Record(o, "intent")
  /\ Goto(o, "stage")
  /\ UNCHANGED <<disk, fstate, log, Outside>>

\* A target that exists is hashed; one with other bytes stops the run.
StageImpostor(o) ==
  /\ At(o, "stage")
  /\ tgt[o] # NoFile
  /\ ~HasBytes(tgt[o])
  /\ Record(o, "collision")
  /\ Refuse
  /\ UNCHANGED <<fstate, log>>

StageLook(o) ==
  /\ At(o, "stage")
  /\ \/ tgt[o] = NoFile /\ Goto(o, "rename")
     \/ HasBytes(tgt[o]) /\ Goto(o, "drop")
  /\ UNCHANGED <<disk, books, Outside>>

\* The published name is kept and the staged duplicate dropped.
StageDrop(o) ==
  /\ At(o, "drop")
  /\ Deleted(o)
  /\ Goto(o, "droplog")
  /\ UNCHANGED <<books, Outside>>

StageBlocked(o) ==
  /\ At(o, "drop")
  /\ DeleteBlocked(o, "blocked")

StageDropLog(o) ==
  /\ At(o, "droplog")
  /\ LogDelete(o, "staging_drop")
  /\ Goto(o, "dropfinish")
  /\ UNCHANGED <<disk, fstate, row, Outside>>

StageDropFinish(o) ==
  /\ At(o, "dropfinish")
  /\ Finish(o, "published")
  /\ NextJob(o)
  /\ UNCHANGED <<disk, log, Outside>>

\* os.rename refuses to replace: the process dies on the error.
StageRename(o) ==
  /\ At(o, "rename")
  /\ IF src[o] # NoFile /\ tgt[o] = NoFile
       THEN /\ tgt' = [tgt EXCEPT ![o] = src[o]]
            /\ src' = [src EXCEPT ![o] = NoFile]
            /\ Goto(o, "sealname")
       ELSE Stop /\ UNCHANGED <<src, tgt>>
  /\ UNCHANGED <<shared, ro, books, Outside>>

\* The name just made is there, with its size: nobody else removes it.
StageSeal(o) ==
  /\ At(o, "sealname")
  /\ tgt[o] # NoFile
  /\ ro' = [ro EXCEPT ![o] = @ \cup {tgt[o]}]
  /\ Goto(o, "finishname")
  /\ UNCHANGED <<src, tgt, shared, books, Outside>>

StageFinish(o) ==
  /\ At(o, "finishname")
  /\ Finish(o, "published")
  /\ NextJob(o)
  /\ UNCHANGED <<disk, log, Outside>>

-----------------------------------------------------------------------------
(* unlink_one.                                                             *)

UnlinkIntent(o) ==
  /\ Called(o, "unlink")
  /\ src[o] # NoFile
  /\ Record(o, "intent")
  /\ Goto(o, "destroy")
  /\ UNCHANGED <<disk, fstate, log, Outside>>

\* Bug: the resume takes the line for written.
BugTakesLineForWritten(o) ==
  /\ Called(o, "unlink")
  /\ src[o] = NoFile
  /\ row[o].intent = "unlink"
  /\ Goto(o, "finishdestroyed")
  /\ UNCHANGED <<disk, books, Outside>>

\* _recover_unlinked: a resume only when an earlier run meant to unlink it.
UnlinkRecover(o) ==
  /\ Called(o, "unlink")
  /\ src[o] = NoFile
  /\ row[o].intent = "unlink"
  /\ Goto(o, "logdestroyed")
  /\ UNCHANGED <<disk, books, Outside>>

UnlinkUnaccounted(o) ==
  /\ Called(o, "unlink")
  /\ src[o] = NoFile
  /\ row[o].intent # "unlink"
  /\ Refuse
  /\ UNCHANGED books

UnlinkDelete(o) ==
  /\ At(o, "destroy")
  /\ Deleted(o)
  /\ Goto(o, "logdestroyed")
  /\ UNCHANGED <<books, Outside>>

UnlinkBlocked(o) ==
  /\ At(o, "destroy")
  /\ DeleteBlocked(o, "blocked")

\* The log line comes first: the row must not claim what the log cannot show.
UnlinkLog(o) ==
  /\ At(o, "logdestroyed")
  /\ LogDelete(o, "unlink")
  /\ Goto(o, "finishdestroyed")
  /\ UNCHANGED <<disk, fstate, row, Outside>>

UnlinkFinish(o) ==
  /\ At(o, "finishdestroyed")
  /\ Finish(o, "excluded")
  /\ NextJob(o)
  /\ UNCHANGED <<disk, log, Outside>>

-----------------------------------------------------------------------------
(* The world outside.                                                      *)

Upset(kind) ==
  /\ kind \in Faults
  /\ upsets < MaxUpsets
  /\ upsets' = upsets + 1

\* A kill loses the process and nothing else; the worklist dies with it.
Kill ==
  /\ Upset("kill")
  /\ pc # "idle"
  /\ Stop
  /\ UNCHANGED <<disk, books, kept>>

\* Somebody puts a file where a vault name will go.
Arrive(o) ==
  /\ tgt[o] = NoFile
  /\ fstate[o] \in {"read", "staged"}
  /\ \E f \in {"alien", "twin"} : Upset(f) /\ tgt' = [tgt EXCEPT ![o] = f]
  /\ UNCHANGED <<src, shared, ro, books, kept, volatile>>

\* A rule or an override is saved while the object is still in the worklist.
Decide(o) ==
  /\ Upset("decide")
  /\ fstate[o] \in {"read", "staged"}
  /\ kept' = [kept EXCEPT ![o] = ~@]
  /\ UNCHANGED <<disk, books, volatile>>

PromoteOne(o) ==
  \/ PromoteCollides(o) \/ PromoteAbsent(o) \/ PromoteIntent(o)
  \/ PromotePrecondition(o) \/ PromoteLink(o) \/ PromoteLinkFails(o)
  \/ PromoteProve(o) \/ PromoteUnproven(o)
  \/ PromoteDelete(o) \/ PromoteHalfLinked(o)
  \/ PromoteSeal(o) \/ PromoteUnsealed(o) \/ PromoteFinish(o) \/ PromoteLog(o)
  \/ PromoteRecover(o) \/ PromoteImpostor(o)

StageRenameOne(o) ==
  \/ StageGone(o) \/ StageIntent(o) \/ StageImpostor(o) \/ StageLook(o)
  \/ StageDrop(o) \/ StageBlocked(o) \/ StageDropLog(o) \/ StageDropFinish(o)
  \/ StageRename(o) \/ StageSeal(o) \/ StageFinish(o)

UnlinkOne(o) ==
  \/ UnlinkIntent(o) \/ UnlinkRecover(o) \/ UnlinkUnaccounted(o)
  \/ UnlinkDelete(o) \/ UnlinkBlocked(o) \/ UnlinkLog(o) \/ UnlinkFinish(o)

Work(o) == RepairClear(o) \/ PromoteOne(o) \/ StageRenameOne(o) \/ UnlinkOne(o)

Next ==
  \/ StartExecute
  \/ StartRepair
  \/ EndRun
  \/ \E o \in Objects : Work(o) \/ Arrive(o) \/ Decide(o)
  \/ Kill

Spec == Init /\ [][Next]_vars

(***************************************************************************)
(* A started process goes on until it ends (its own steps are weakly fair),*)
(* a delete that is retried for ever is not blocked for ever, and the      *)
(* operator runs --execute again while there is work.                      *)
(***************************************************************************)
Fairness ==
  /\ WF_vars(EndRun \/ \E o \in Objects : Work(o))
  /\ \A o \in Objects :
       SF_vars(PromoteDelete(o) \/ StageDrop(o) \/ UnlinkDelete(o))
  /\ SF_vars(StartExecute)

FairSpec == Spec /\ Fairness

-----------------------------------------------------------------------------
(* What must hold.                                                         *)

Unfinished(o) == fstate[o] \in {"read", "staged"}

(***************************************************************************)
(* The read-only attribute belongs to the file, so sealing a vault name    *)
(* whose MediaVault name still exists makes both undeletable (the module's *)
(* docstring, F06).  No interleaving of seals, blocked deletes, repairs    *)
(* and kills leaves a file that has both names and is read-only.           *)
(***************************************************************************)
NeverSealedWithTwoNames ==
  \A o \in Objects :
    src[o] = "orig" /\ tgt[o] = "orig" => "orig" \notin ro[o]

(***************************************************************************)
(* A row in state published is the record that the bytes are in the vault: *)
(* the source name is gone, the vault name holds the object's own bytes    *)
(* and not a stranger's, and the ledger row says which procedure moved it. *)
(***************************************************************************)
PublishedHoldsBytes ==
  \A o \in Objects : fstate[o] = "published" =>
    /\ src[o] = NoFile
    /\ HasBytes(tgt[o])
    /\ row[o].status = "done"
    /\ row[o].intent \in {"promote", "stage_rename"}

(***************************************************************************)
(* A row in state excluded is never the only trace of a destruction: the   *)
(* source is gone, the log already holds the line, and the ledger row was  *)
(* an unlink from the start, whatever run recovered it.                    *)
(***************************************************************************)
ExcludedIsOnRecord ==
  \A o \in Objects : fstate[o] = "excluded" =>
    /\ src[o] = NoFile
    /\ log[o]["unlink"] > 0
    /\ row[o] = [intent |-> "unlink", status |-> "done"]

(***************************************************************************)
(* The log never runs ahead of the disk: a line that says a name was       *)
(* deleted is only ever about a name that is gone.                         *)
(***************************************************************************)
LogIsTrue ==
  \A o \in Objects :
    (\E k \in LogKinds : log[o][k] > 0) => src[o] = NoFile

(***************************************************************************)
(* What a kill leaves behind can be told from an untouched object: a name  *)
(* missing from an unfinished object has a ledger row that was open when   *)
(* it went, and an object with no name left at all has an unlink row.      *)
(***************************************************************************)
AbsenceIsOnRecord ==
  \A o \in Objects : Unfinished(o) /\ src[o] = NoFile =>
    /\ row[o].status \in {"intent", "failed"}
    /\ tgt[o] = NoFile => row[o].intent = "unlink"

(***************************************************************************)
(* The ledger can account for every object, whatever was killed between    *)
(* the delete of a name and its finish (promote.py:716): it is published   *)
(* and its bytes are there, or a row says what was about to be done.       *)
(***************************************************************************)
EveryObjectIsAccounted == PublishedHoldsBytes /\ AbsenceIsOnRecord

(***************************************************************************)
(* The names on disk, the attribute they share and the books agree about   *)
(* every object, between any two steps of the work on it (promote.py:716). *)
(***************************************************************************)
NamesAndBooksAgree == NeverSealedWithTwoNames /\ EveryObjectIsAccounted

(***************************************************************************)
(* What the repair pass selects by status it can repair: a half-linked row *)
(* is one writable file with both names, a blocked row still has its       *)
(* source.                                                                 *)
(***************************************************************************)
RepairRowsAreRepairable ==
  \A o \in Objects :
    /\ row[o].status = "half_linked" =>
         src[o] = "orig" /\ tgt[o] = "orig" /\ "orig" \notin ro[o]
    /\ row[o].status = "blocked" => src[o] = "orig"

(***************************************************************************)
(* When a run destroys its first excluded object, every kept object of its *)
(* worklist has been dealt with: published, or left whole on record as a   *)
(* collision or behind a blocked delete.                                   *)
(***************************************************************************)
KeptComeFirst ==
  mode = "execute" /\ pc \in {"destroy", "logdestroyed", "finishdestroyed"} =>
    \A p \in Objects : job[p] \in {"promote", "stage_rename"} =>
      \/ fstate[p] = "published"
      \/ row[p].status \in {"collision", "half_linked", "blocked"}

(***************************************************************************)
(* A finished object is left alone: no later run, repair or recovery moves *)
(* its state, its names or its read-only attribute.                        *)
(***************************************************************************)
FinishedIsFinal ==
  [][\A o \in Objects : ~Unfinished(o) =>
       /\ fstate'[o] = fstate[o]
       /\ src'[o] = src[o]
       /\ tgt'[o] = tgt[o]
       /\ ro'[o] = ro[o]]_vars

(***************************************************************************)
(* The bytes are where the abstract specification says: the refinement     *)
(* mapping reads them off the two names, so a delete is a move when the    *)
(* other name holds the bytes and a destruction when it does not.          *)
(***************************************************************************)
Place(o) ==
  IF src[o] # NoFile THEN "mediavault"
  ELSE IF HasBytes(tgt[o]) THEN "vault" ELSE "nowhere"

Bytes == INSTANCE Custody WITH
           place <- [o \in Objects |-> Place(o)],
           doomed <- {o \in Objects : job[o] = "unlink"}

ImplementsCustody == Bytes!Spec

(***************************************************************************)
(* promote_verify: what its four checks ask of one object.                 *)
(***************************************************************************)
Rehashed(o) == HasBytes(tgt[o]) /\ Nlink(o, tgt[o]) = 1
ReadOnly(o) == tgt[o] \in ro[o]
NoLeftover(o) == src[o] = NoFile
Reconciled(o) == log[o]["unlink"] = (IF fstate[o] = "excluded" THEN 1 ELSE 0)

(***************************************************************************)
(* Kills, blocked deletes and half-finished objects do not stop the work:  *)
(* every object is published or excluded in the end.                       *)
(***************************************************************************)
EveryObjectSettles == \A o \in Objects : <>~Unfinished(o)

=============================================================================
