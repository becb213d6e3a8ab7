--------------------------- MODULE WebsiteProofs ----------------------------
(***************************************************************************)
(* The website's server, photolib: what the job promises (rebuild.py) and  *)
(* what the memos of the grid are (grid.py), for every set of photographs, *)
(* every number of requests and every budget; and its rules (Triage): the  *)
(* verdict the generated SQL computes is that of the first rule that takes *)
(* a bucket, for every list of rules, and the preview of a rule is the     *)
(* verdict of the list with that rule inserted; and the sheet of the grid, *)
(* which shows its view whatever answers land late.                        *)
(***************************************************************************)
EXTENDS Sheet, Triage, SetTheorems, Integers, FiniteSetTheorems, SequenceTheorems, TLAPS

-----------------------------------------------------------------------------
(* The job and the memos.                                                  *)

\* Whether a set of tiles shows every decision older than the last start.
Shows(S) == \A f \in Photos \ touched : f \in S <=> f \notin excluded

\* What a job has loaded shows them, and so does what a console run loads once
\* a job has started, unless it had loaded before.
LoadedShows ==
  /\ \A w \in Threads : group[w] = "writing" => Shows(kept[w])
  /\ state \in {"running", "done"} /\ ~overtaken /\ group["console"] = "writing" => Shows(kept["console"])

\* From the COMMIT of the job on, the tiles show them.
CommittedShows ==
  /\ state = "done" /\ ~overtaken => Shows(tiles)
  /\ \A w \in Threads :
       /\ ~overtaken
       /\ thread[w] \in {"after", "landing"} \/ group[w] \in {"reporting", "ended"}
       => Shows(tiles)

\* Tiles of the job are heard of before its state says done.
JobIsHeard ==
  /\ state = "done" => "job" \notin unheard
  /\ \A w \in Threads : thread[w] = "landing" => "job" \notin unheard

\* What is about to be committed is not an empty grid.
LoadedIsSome == \A g \in Groups : group[g] = "writing" => kept[g] # {}

JobInv ==
  /\ RebuildTypeOK
  /\ LoadedIsSome
  /\ SingleFlight
  /\ RestorePointIsOurs
  /\ LoadedShows
  /\ CommittedShows
  /\ JobIsHeard

\* The lock is held by a request that fills a memo.
HolderFills == \A r \in Requests : lock = r => at[r] \in Memos
MemoInv == GridTypeOK /\ HolderFills /\ HeardMemosAreFresh

-----------------------------------------------------------------------------
(* The job.                                                                *)

LEMMA JobStarts == RebuildInit => JobInv
<1> SUFFICES ASSUME RebuildInit PROVE JobInv
  OBVIOUS
<1> USE RebuildAssumption DEF RebuildInit
<1>1. RebuildTypeOK /\ LoadedIsSome
  BY DEF RebuildTypeOK, LoadedIsSome, Threads, Groups
<1>2. SingleFlight /\ RestorePointIsOurs /\ LoadedShows /\ CommittedShows /\ JobIsHeard
  BY DEF SingleFlight, Working, RestorePointIsOurs, LoadedShows, CommittedShows, JobIsHeard, Threads, Groups
<1> QED
  BY <1>1, <1>2 DEF JobInv

LEMMA DecideKeeps == ASSUME JobInv, NEW f \in Photos, Decide(f) PROVE JobInv'
<1> USE DEF JobInv, Decide, Spend, job, tables, processes
<1>1. RebuildTypeOK' /\ LoadedIsSome'
  BY DEF RebuildTypeOK, LoadedIsSome
<1>2. \A S : Shows(S) => Shows(S)'
  BY DEF Shows
<1>3. SingleFlight' /\ JobIsHeard'
  BY DEF SingleFlight, Working, JobIsHeard
<1>4. RestorePointIsOurs'
  BY DEF RestorePointIsOurs
<1>5. LoadedShows' /\ CommittedShows'
  BY <1>2 DEF LoadedShows, CommittedShows, Shows
<1> QED
  BY <1>1, <1>3, <1>4, <1>5

LEMMA GroupKeeps ==
  ASSUME JobInv, NEW g \in Groups, Load(g) \/ Commit(g) \/ Exit(g) \/ Die(g)
  PROVE  JobInv'
<1> USE DEF JobInv, outside, job, tables, processes, ToGroup, Groups, Threads
<1>1. CASE Load(g)
  <2> USE <1>1 DEF Load
  <2>1. RebuildTypeOK' /\ LoadedIsSome'
    BY DEF RebuildTypeOK, LoadedIsSome
  <2>2. SingleFlight' /\ RestorePointIsOurs' /\ JobIsHeard'
    BY DEF RebuildTypeOK, SingleFlight, Working, RestorePointIsOurs, JobIsHeard
  <2>3. LoadedShows' /\ CommittedShows'
    BY DEF RebuildTypeOK, LoadedShows, CommittedShows, Shows
  <2> QED
    BY <2>1, <2>2, <2>3
<1>2. CASE Commit(g)
  <2> USE <1>2 DEF Commit
  <2>1. RebuildTypeOK' /\ LoadedIsSome'
    BY DEF RebuildTypeOK, LoadedIsSome, Owner
  <2>2. SingleFlight' /\ RestorePointIsOurs'
    BY DEF RebuildTypeOK, SingleFlight, Working, RestorePointIsOurs
  <2>3. JobIsHeard'
    BY DEF RebuildTypeOK, SingleFlight, Working, JobIsHeard, Owner
  <2>4. LoadedShows'
    BY DEF RebuildTypeOK, LoadedShows, Shows
  <2>5. CommittedShows'
    BY DEF RebuildTypeOK, SingleFlight, Working, LoadedShows, CommittedShows, Shows
  <2> QED
    BY <2>1, <2>2, <2>3, <2>4, <2>5
<1>3. CASE Exit(g)
  <2> USE <1>3 DEF Exit
  <2>1. RebuildTypeOK' /\ LoadedIsSome'
    BY DEF RebuildTypeOK, LoadedIsSome
  <2>2. SingleFlight' /\ RestorePointIsOurs' /\ JobIsHeard'
    BY DEF RebuildTypeOK, SingleFlight, Working, RestorePointIsOurs, JobIsHeard
  <2>3. LoadedShows' /\ CommittedShows'
    BY DEF RebuildTypeOK, LoadedShows, CommittedShows, Shows
  <2> QED
    BY <2>1, <2>2, <2>3
<1>4. CASE Die(g)
  <2> USE <1>4 DEF Die, Spend
  <2>1. RebuildTypeOK' /\ LoadedIsSome'
    BY DEF RebuildTypeOK, LoadedIsSome
  <2>2. SingleFlight' /\ RestorePointIsOurs' /\ JobIsHeard'
    BY DEF RebuildTypeOK, SingleFlight, Working, RestorePointIsOurs, JobIsHeard
  <2>3. LoadedShows' /\ CommittedShows'
    BY DEF RebuildTypeOK, LoadedShows, CommittedShows, Shows
  <2> QED
    BY <2>1, <2>2, <2>3
<1> QED
  BY <1>1, <1>2, <1>3, <1>4

LEMMA OutsideKeeps ==
  ASSUME JobInv, OpenConsole \/ CloseConsole \/ StartRefused
  PROVE  JobInv'
<1> USE DEF JobInv, Startable, Spend, ToGroup, outside, job, tables, processes, Groups, Threads
<1>1. CASE OpenConsole
  <2> USE <1>1 DEF OpenConsole
  <2>1. RebuildTypeOK' /\ LoadedIsSome'
    BY DEF RebuildTypeOK, LoadedIsSome
  <2>2. SingleFlight' /\ RestorePointIsOurs' /\ JobIsHeard'
    BY DEF RebuildTypeOK, SingleFlight, Working, RestorePointIsOurs, JobIsHeard
  <2>3. LoadedShows' /\ CommittedShows'
    BY DEF RebuildTypeOK, LoadedShows, CommittedShows, Shows
  <2> QED
    BY <2>1, <2>2, <2>3
<1>2. CASE CloseConsole
  <2> USE <1>2 DEF CloseConsole
  <2>1. RebuildTypeOK' /\ LoadedIsSome'
    BY DEF RebuildTypeOK, LoadedIsSome
  <2>2. SingleFlight' /\ RestorePointIsOurs' /\ JobIsHeard'
    BY DEF RebuildTypeOK, SingleFlight, Working, RestorePointIsOurs, JobIsHeard
  <2>3. LoadedShows' /\ CommittedShows'
    BY DEF RebuildTypeOK, LoadedShows, CommittedShows, Shows
  <2> QED
    BY <2>1, <2>2, <2>3
<1>3. CASE StartRefused
  <2> USE <1>3 DEF StartRefused
  <2>1. RebuildTypeOK' /\ LoadedIsSome'
    BY DEF RebuildTypeOK, LoadedIsSome
  <2>2. SingleFlight' /\ RestorePointIsOurs' /\ JobIsHeard'
    BY DEF RebuildTypeOK, SingleFlight, Working, RestorePointIsOurs, JobIsHeard
  <2>3. LoadedShows' /\ CommittedShows'
    BY DEF RebuildTypeOK, LoadedShows, CommittedShows, Shows
  <2> QED
    BY <2>1, <2>2, <2>3
<1> QED
  BY <1>1, <1>2, <1>3

\* No thread is at work when a run starts: what the last one promised is void.
LEMMA StartKeeps == ASSUME JobInv, NEW w \in Threads, Start(w) PROVE JobInv'
<1> USE DEF JobInv, Start, Startable, Spend, ToThread, tables, processes
<1>1. \A v \in Threads : thread[v] = "none" /\ group[v] = "none"
  BY DEF SingleFlight, Working
<1>2. RebuildTypeOK' /\ LoadedIsSome'
  BY DEF RebuildTypeOK, LoadedIsSome
<1>3. SingleFlight'
  BY <1>1 DEF RebuildTypeOK, SingleFlight, Working
<1>4. RestorePointIsOurs' /\ JobIsHeard'
  BY <1>1 DEF RebuildTypeOK, RestorePointIsOurs, JobIsHeard
<1>5. LoadedShows' /\ CommittedShows'
  BY <1>1 DEF RebuildTypeOK, LoadedShows, CommittedShows, Shows
<1> QED
  BY <1>2, <1>3, <1>4, <1>5

LEMMA WorkKeeps ==
  ASSUME JobInv, NEW w \in Threads,
         Snapshot(w) \/ SnapshotFails(w) \/ TilesFail(w) \/ TilesDone(w) \/ After(w) \/ Land(w)
  PROVE  JobInv'
<1> USE DEF JobInv, Spend, ToThread, ToGroup, outside, job, tables, processes
<1>0. /\ thread[w] # "none" => \A v \in Threads \ {w} : thread[v] = "none" /\ group[v] = "none"
      /\ w \in Groups /\ w # "console"
  BY DEF SingleFlight, Working, Groups, Threads
<1>1. CASE Snapshot(w)
  <2> USE <1>0, <1>1 DEF Snapshot
  <2>1. RebuildTypeOK' /\ LoadedIsSome'
    BY DEF RebuildTypeOK, LoadedIsSome
  <2>2. SingleFlight' /\ JobIsHeard'
    BY DEF RebuildTypeOK, SingleFlight, Working, JobIsHeard
  <2>3. RestorePointIsOurs'
    BY DEF RestorePointIsOurs
  <2>4. LoadedShows' /\ CommittedShows'
    BY DEF RebuildTypeOK, SingleFlight, Working, LoadedShows, CommittedShows, Shows
  <2> QED
    BY <2>1, <2>2, <2>3, <2>4
<1>2. CASE SnapshotFails(w)
  <2> USE <1>0, <1>2 DEF SnapshotFails
  <2>1. RebuildTypeOK' /\ LoadedIsSome'
    BY DEF RebuildTypeOK, LoadedIsSome
  <2>2. SingleFlight' /\ JobIsHeard'
    BY DEF RebuildTypeOK, SingleFlight, Working, JobIsHeard
  <2>3. RestorePointIsOurs'
    BY DEF RebuildTypeOK, SingleFlight, Working, RestorePointIsOurs
  <2>4. LoadedShows' /\ CommittedShows'
    BY DEF RebuildTypeOK, SingleFlight, Working, LoadedShows, CommittedShows, Shows
  <2> QED
    BY <2>1, <2>2, <2>3, <2>4
<1>3. CASE TilesFail(w)
  <2> USE <1>0, <1>3 DEF TilesFail
  <2>1. RebuildTypeOK' /\ LoadedIsSome'
    BY DEF RebuildTypeOK, LoadedIsSome
  <2>2. SingleFlight' /\ JobIsHeard'
    BY DEF RebuildTypeOK, SingleFlight, Working, JobIsHeard
  <2>3. RestorePointIsOurs'
    BY DEF RebuildTypeOK, SingleFlight, Working, RestorePointIsOurs
  <2>4. LoadedShows' /\ CommittedShows'
    BY DEF RebuildTypeOK, SingleFlight, Working, LoadedShows, CommittedShows, Shows
  <2> QED
    BY <2>1, <2>2, <2>3, <2>4
<1>4. CASE TilesDone(w)
  <2> USE <1>0, <1>4 DEF TilesDone
  <2>1. RebuildTypeOK' /\ LoadedIsSome'
    BY DEF RebuildTypeOK, LoadedIsSome
  <2>2. SingleFlight' /\ JobIsHeard'
    BY DEF RebuildTypeOK, SingleFlight, Working, JobIsHeard
  <2>3. RestorePointIsOurs'
    BY DEF RebuildTypeOK, SingleFlight, Working, RestorePointIsOurs
  <2>4. LoadedShows' /\ CommittedShows'
    BY DEF RebuildTypeOK, SingleFlight, Working, LoadedShows, CommittedShows, Shows
  <2> QED
    BY <2>1, <2>2, <2>3, <2>4
<1>5. CASE After(w)
  <2> USE <1>0, <1>5 DEF After
  <2>1. RebuildTypeOK' /\ LoadedIsSome'
    BY DEF RebuildTypeOK, LoadedIsSome
  <2>2. SingleFlight' /\ JobIsHeard'
    BY DEF RebuildTypeOK, SingleFlight, Working, JobIsHeard
  <2>3. RestorePointIsOurs'
    BY DEF RebuildTypeOK, SingleFlight, Working, RestorePointIsOurs
  <2>4. LoadedShows' /\ CommittedShows'
    BY DEF RebuildTypeOK, SingleFlight, Working, LoadedShows, CommittedShows, Shows
  <2> QED
    BY <2>1, <2>2, <2>3, <2>4
<1>6. CASE Land(w)
  <2> USE <1>0, <1>6 DEF Land
  <2>1. RebuildTypeOK' /\ LoadedIsSome'
    BY DEF RebuildTypeOK, LoadedIsSome
  <2>2. SingleFlight' /\ JobIsHeard'
    BY DEF RebuildTypeOK, SingleFlight, Working, JobIsHeard
  <2>3. RestorePointIsOurs'
    BY DEF RebuildTypeOK, SingleFlight, Working, RestorePointIsOurs
  <2>4. LoadedShows' /\ CommittedShows'
    BY DEF RebuildTypeOK, SingleFlight, Working, LoadedShows, CommittedShows, Shows
  <2> QED
    BY <2>1, <2>2, <2>3, <2>4
<1> QED
  BY <1>1, <1>2, <1>3, <1>4, <1>5, <1>6

LEMMA RestartKeeps == ASSUME JobInv, Restart PROVE JobInv'
<1> USE DEF JobInv, Restart, Spend, Groups, Threads
<1>1. RebuildTypeOK' /\ LoadedIsSome'
  BY DEF RebuildTypeOK, LoadedIsSome
<1>2. SingleFlight' /\ RestorePointIsOurs' /\ JobIsHeard'
  BY DEF RebuildTypeOK, SingleFlight, Working, RestorePointIsOurs, JobIsHeard
<1>3. LoadedShows' /\ CommittedShows'
  BY DEF RebuildTypeOK, LoadedShows, CommittedShows, Shows
<1> QED
  BY <1>1, <1>2, <1>3

\* A step that spends of the budget and leaves the job alone, or no step.
LEMMA QuietKeeps ==
  ASSUME JobInv, UNCHANGED <<excluded, touched, job, tables, processes>>,
         UNCHANGED budget \/ Spend("fault") \/ Spend("view")
  PROVE  JobInv'
<1> USE DEF JobInv, Spend, job, tables, processes
<1>1. RebuildTypeOK' /\ LoadedIsSome'
  BY DEF RebuildTypeOK, LoadedIsSome
<1>2. SingleFlight' /\ RestorePointIsOurs' /\ JobIsHeard'
  BY DEF SingleFlight, Working, RestorePointIsOurs, JobIsHeard
<1>3. LoadedShows' /\ CommittedShows'
  BY DEF LoadedShows, CommittedShows, Shows
<1> QED
  BY <1>1, <1>2, <1>3

LEMMA JobStepKeeps == ASSUME JobInv, RebuildStep PROVE JobInv'
<1>1. CASE \E f \in Photos : Decide(f)
  BY <1>1, DecideKeeps
<1>2. CASE \E g \in Groups : Load(g) \/ Commit(g) \/ Exit(g) \/ Die(g)
  BY <1>2, GroupKeeps
<1>3. CASE OpenConsole \/ CloseConsole \/ StartRefused
  BY <1>3, OutsideKeeps
<1>4. CASE \E w \in Threads : Start(w)
  BY <1>4, StartKeeps
<1>5. CASE \E w \in Threads : Snapshot(w) \/ SnapshotFails(w) \/ TilesFail(w) \/ TilesDone(w) \/ Land(w)
  BY <1>5, WorkKeeps
<1> QED
  BY <1>1, <1>2, <1>3, <1>4, <1>5 DEF RebuildStep

LEMMA ServerKeepsTheJob == ASSUME JobInv, [GridNext]_<<rebuildVars, gridVars>> PROVE JobInv'
<1>1. CASE RebuildStep
  BY <1>1, JobStepKeeps
<1>2. CASE \E w \in Threads : After(w)
  BY <1>2, WorkKeeps
<1>3. CASE Restart
  BY <1>3, RestartKeeps
<1>4. CASE UNCHANGED rebuildVars
  BY <1>4, QuietKeeps DEF rebuildVars, outside, job, tables, processes
<1>5. CASE \E m \in Memos : Evict(m)
  BY <1>5, QuietKeeps DEF Evict
<1> QED
  BY <1>1, <1>2, <1>3, <1>4, <1>5 DEF GridNext, GridStep

-----------------------------------------------------------------------------
(* The memos.                                                              *)

LEMMA MemosStart == RebuildInit /\ GridInit => MemoInv
BY GridAssumption DEF RebuildInit, GridInit, MemoInv, GridTypeOK, HolderFills, HeardMemosAreFresh, FreshMemos,
                      NoMemos, Memos, Views

\* Tiles that nobody has heard of make no claim on the memos.
LEMMA JobStepSparesMemos == ASSUME MemoInv, RebuildStep, UNCHANGED gridVars PROVE MemoInv'
<1> USE DEF MemoInv, gridVars
<1>1. GridTypeOK' /\ HolderFills'
  BY DEF GridTypeOK, HolderFills
<1>2. unheard' = {} => unheard = {} /\ tiles' = tiles
  <2>1. CASE \E g \in Groups : Commit(g)
    BY <2>1 DEF Commit
  <2>2. CASE ~\E g \in Groups : Commit(g)
    BY <2>2 DEF RebuildStep, Decide, Load, Exit, Die, OpenConsole, CloseConsole, StartRefused, Start,
                Snapshot, SnapshotFails, TilesFail, TilesDone, Land, tables
  <2> QED
    BY <2>1, <2>2
<1>3. HeardMemosAreFresh'
  BY <1>2 DEF HeardMemosAreFresh, FreshMemos
<1> QED
  BY <1>1, <1>3

LEMMA InvalidateKeeps == ASSUME MemoInv, NEW w \in Threads, After(w), Invalidate PROVE MemoInv'
<1> USE GridAssumption DEF MemoInv, After, Invalidate
<1>1. GridTypeOK' /\ HolderFills'
  BY DEF GridTypeOK, HolderFills, NoMemos
<1>2. HeardMemosAreFresh'
  BY DEF HeardMemosAreFresh, FreshMemos, NoMemos
<1> QED
  BY <1>1, <1>2

LEMMA ForgetKeeps == ASSUME MemoInv, Restart, Forget PROVE MemoInv'
<1> USE GridAssumption DEF MemoInv, Restart, Forget
<1>1. GridTypeOK' /\ HolderFills'
  BY DEF GridTypeOK, HolderFills, NoMemos, Views
<1>2. HeardMemosAreFresh'
  BY DEF HeardMemosAreFresh, FreshMemos, NoMemos
<1> QED
  BY <1>1, <1>2

LEMMA MemoingKeeps ==
  ASSUME JobInv, MemoInv, UNCHANGED rebuildVars, NEW r \in Requests, NEW m \in Memos,
         Take(r, m) \/ Read(r, m) \/ Fill(r, m)
  PROVE  MemoInv'
<1> USE GridAssumption DEF MemoInv, ToRequest, Following, rebuildVars, tables
<1>1. CASE Take(r, m)
  <2>1. GridTypeOK' /\ HolderFills'
    BY <1>1 DEF Take, GridTypeOK, HolderFills, Memos
  <2>2. HeardMemosAreFresh'
    BY <1>1 DEF Take, GridTypeOK, HeardMemosAreFresh, FreshMemos
  <2> QED
    BY <2>1, <2>2
<1>2. CASE Read(r, m)
  <2>1. GridTypeOK' /\ HolderFills'
    BY <1>2 DEF Read, GridTypeOK, HolderFills, JobInv, RebuildTypeOK
  <2>2. HeardMemosAreFresh'
    BY <1>2 DEF Read, GridTypeOK, HeardMemosAreFresh, FreshMemos
  <2> QED
    BY <2>1, <2>2
<1>3. CASE Fill(r, m)
  <2>1. GridTypeOK' /\ HolderFills'
    BY <1>3 DEF Fill, GridTypeOK, HolderFills, Memos
  <2>2. HeardMemosAreFresh'
    BY <1>3 DEF Fill, GridTypeOK, HeardMemosAreFresh, FreshMemos
  <2> QED
    BY <2>1, <2>2
<1> QED
  BY <1>1, <1>2, <1>3

LEMMA AskingKeeps ==
  ASSUME MemoInv, UNCHANGED tables, NEW r \in Requests, EndRequest(r) \/ \E v \in Views : Ask(r, v)
  PROVE  MemoInv'
<1> USE DEF MemoInv, EndRequest, Ask, ToRequest, tables
<1>1. lock # r
  BY DEF HolderFills, Memos
<1>2. GridTypeOK' /\ HolderFills'
  BY <1>1 DEF GridTypeOK, HolderFills, NoMemos, Views, Memos
<1>3. HeardMemosAreFresh'
  BY <1>1 DEF GridTypeOK, HeardMemosAreFresh, FreshMemos
<1> QED
  BY <1>2, <1>3

LEMMA EvictKeeps == ASSUME MemoInv, NEW m \in Memos, Evict(m) PROVE MemoInv'
<1> USE DEF MemoInv, Evict, tables
<1>1. GridTypeOK' /\ HolderFills'
  BY DEF GridTypeOK, HolderFills
<1>2. HeardMemosAreFresh'
  BY DEF GridTypeOK, HeardMemosAreFresh, FreshMemos
<1> QED
  BY <1>1, <1>2

LEMMA ServerKeepsTheMemos ==
  ASSUME JobInv, MemoInv, [GridNext]_<<rebuildVars, gridVars>>
  PROVE  MemoInv'
<1>1. CASE RebuildStep /\ UNCHANGED gridVars
  BY <1>1, JobStepSparesMemos
<1>2. CASE (\E w \in Threads : After(w)) /\ Invalidate
  BY <1>2, InvalidateKeeps
<1>3. CASE Restart /\ Forget
  BY <1>3, ForgetKeeps
<1>4. CASE (\E r \in Requests, m \in Memos : Take(r, m) \/ Read(r, m) \/ Fill(r, m)) /\ UNCHANGED rebuildVars
  BY <1>4, MemoingKeeps
<1>5. CASE (\E r \in Requests : EndRequest(r) \/ \E v \in Views : Ask(r, v)) /\ UNCHANGED rebuildVars
  BY <1>5, AskingKeeps DEF rebuildVars
<1>6. CASE \E m \in Memos : Evict(m)
  BY <1>6, EvictKeeps
<1>7. CASE UNCHANGED <<rebuildVars, gridVars>>
  BY <1>7 DEF MemoInv, GridTypeOK, HolderFills, HeardMemosAreFresh, FreshMemos, rebuildVars, tables, gridVars
<1> QED
  BY <1>1, <1>2, <1>3, <1>4, <1>5, <1>6, <1>7 DEF GridNext, GridStep

-----------------------------------------------------------------------------
(* The theorems.                                                           *)

LEMMA HeardWhenDone == JobInv /\ MemoInv => DoneMeansFresh
<1> SUFFICES ASSUME JobInv, MemoInv, state = "done", "console" \notin unheard PROVE FreshMemos
  BY DEF DoneMeansFresh
<1>1. unheard = {}
  BY DEF JobInv, RebuildTypeOK, JobIsHeard
<1> QED
  BY <1>1 DEF MemoInv, HeardMemosAreFresh

LEMMA JobPromises == JobInv /\ MemoInv => OneRunInOrder /\ DoneIsShown
<1>1. JobInv => OneRunInOrder
  BY DEF JobInv, OneRunInOrder
<1>2. JobInv => DecisionsAreShown
  BY DEF JobInv, CommittedShows, Shows, DecisionsAreShown
<1> QED
  BY <1>1, <1>2, HeardWhenDone DEF DoneIsShown

\* The job and the memos keep their invariants through decisions, console
\* runs, failures, restarts and requests in any order.
THEOREM ServingInvariant == GridSpec => [](JobInv /\ MemoInv)
<1>1. RebuildInit /\ GridInit => JobInv /\ MemoInv
  BY JobStarts, MemosStart
<1>2. JobInv /\ MemoInv /\ [GridNext]_<<rebuildVars, gridVars>> => (JobInv /\ MemoInv)'
  BY ServerKeepsTheJob, ServerKeepsTheMemos
<1> QED
  BY <1>1, <1>2, PTL DEF GridSpec

\* The types of the job and of the memos.
THEOREM ServingTypes == GridSpec => [](RebuildTypeOK /\ GridTypeOK)
<1>1. JobInv /\ MemoInv => RebuildTypeOK /\ GridTypeOK
  BY DEF JobInv, MemoInv
<1> QED
  BY <1>1, ServingInvariant, PTL

\* rebuild.py, start and _work: one run at a time, and no process outlives it.
THEOREM OneRunAtATime == GridSpec => []SingleFlight
<1>1. JobInv => SingleFlight
  BY DEF JobInv
<1> QED
  BY <1>1, ServingInvariant, PTL

\* rebuild.py, STEPS: tiles are never touched without a restore point.
THEOREM SnapshotGoesFirst == GridSpec => []RestorePointIsOurs
<1>1. JobInv => RestorePointIsOurs
  BY DEF JobInv
<1> QED
  BY <1>1, ServingInvariant, PTL

\* rebuild.py: both, one run at a time and its restore point first.
THEOREM RunsGoInOrder == GridSpec => []OneRunInOrder
<1>1. SingleFlight /\ RestorePointIsOurs => OneRunInOrder
  BY DEF OneRunInOrder
<1> QED
  BY <1>1, OneRunAtATime, SnapshotGoesFirst, PTL

\* rebuild.py and group.py: done means that the decisions are in the tiles.
THEOREM DoneShowsDecisions == GridSpec => []DecisionsAreShown
<1>1. JobInv => DecisionsAreShown
  BY DEF JobInv, CommittedShows, Shows, DecisionsAreShown
<1> QED
  BY <1>1, ServingInvariant, PTL

\* grid.py, invalidate: memos of tiles that were heard of are of those tiles.
THEOREM HeardIsFresh == GridSpec => []HeardMemosAreFresh
<1>1. MemoInv => HeardMemosAreFresh
  BY DEF MemoInv
<1> QED
  BY <1>1, ServingInvariant, PTL

\* rebuild.py, after: no memo of the tiles before outlives the state running.
THEOREM DoneIsFresh == GridSpec => []DoneMeansFresh
<1>1. JobInv /\ MemoInv => DoneMeansFresh
  BY HeardWhenDone
<1> QED
  BY <1>1, ServingInvariant, PTL

\* A run that says done shows its own decisions in fresh numbers, for any number
\* of requests, photographs and tiles.
THEOREM DoneIsAlwaysShown == GridSpec => []DoneIsShown
<1>1. DecisionsAreShown /\ DoneMeansFresh => DoneIsShown
  BY DEF DoneIsShown
<1> QED
  BY <1>1, DoneShowsDecisions, DoneIsFresh, PTL

-----------------------------------------------------------------------------
(* The rules.                                                              *)

Rule == [pred : Predicate, dec : Decision]
Matches(rules, b) == {i \in DOMAIN rules : Takes(rules[i].pred, b)}

LEMMA LeastOfIsLeast ==
  ASSUME NEW S \in SUBSET Nat
  PROVE  /\ S = {} => LeastOf(S) = NO_MATCH
         /\ S # {} => LeastOf(S) \in S /\ \A y \in S : LeastOf(S) <= y
<1>1. CASE S = {}
  BY <1>1, SMT DEF LeastOf
<1>2. CASE S # {}
  <2>1. \E x \in S : \A y \in S : x <= y
    BY <1>2, LeastExists
  <2> QED
    BY <1>2, <2>1, ZenonT(30) DEF LeastOf
<1> QED
  BY <1>1, <1>2

LEMMA RulesAreRules ==
  ASSUME NEW rules \in Seq(Rule), NEW i \in DOMAIN rules
  PROVE  /\ rules[i] \in Rule /\ rules[i].pred \in Predicate
         /\ rules[i].dec \in {"include", "exclude"}
<1>1. rules[i] \in Rule
  OBVIOUS
<1> QED
  BY <1>1 DEF Rule, Decision

LEMMA NoMatchIsNat == NO_MATCH \in Nat
  BY SMT DEF NO_MATCH

\* The lower of the two positions is the position of the first rule that takes
\* the bucket.
LEMMA WinnerIsFirst ==
  ASSUME NEW rules \in Seq(Rule), Len(rules) < NO_MATCH, NEW b
  PROVE  /\ Matches(rules, b) = {} => Winner(rules, b) = NO_MATCH
         /\ Matches(rules, b) # {} => /\ Winner(rules, b) \in Matches(rules, b)
                                      /\ \A j \in Matches(rules, b) : Winner(rules, b) <= j
<1> DEFINE dirs == {i \in DOMAIN rules : rules[i].pred.kind = "dir" /\ Takes(rules[i].pred, b)}
           cases == {i \in DOMAIN rules : rules[i].pred.kind = "bucket" /\ Takes(rules[i].pred, b)}
<1>1. /\ dirs \in SUBSET (1..Len(rules)) /\ cases \in SUBSET (1..Len(rules))
      /\ Matches(rules, b) = dirs \union cases
  <2>1. \A i \in DOMAIN rules : rules[i].pred.kind \in {"dir", "bucket"}
    BY TriageAssumption, RulesAreRules
  <2> QED
    BY <2>1 DEF Matches
<1>2. DirPosition(rules, b) = LeastOf(dirs) /\ CasePosition(rules, b) = LeastOf(cases)
  BY DEF DirPosition, CasePosition
<1> HIDE DEF dirs, cases
<1>3. dirs \in SUBSET Nat /\ cases \in SUBSET Nat /\ \A i \in dirs \union cases : i < NO_MATCH
  BY <1>1, NoMatchIsNat
<1>4. /\ dirs = {} => LeastOf(dirs) = NO_MATCH
      /\ dirs # {} => LeastOf(dirs) \in dirs /\ \A y \in dirs : LeastOf(dirs) <= y
      /\ cases = {} => LeastOf(cases) = NO_MATCH
      /\ cases # {} => LeastOf(cases) \in cases /\ \A y \in cases : LeastOf(cases) <= y
  BY <1>3, LeastOfIsLeast
<1> DEFINE d == LeastOf(dirs)
           c == LeastOf(cases)
<1>5. /\ d \in Nat /\ c \in Nat /\ Winner(rules, b) = IF d <= c THEN d ELSE c
      /\ dirs # {} => d < NO_MATCH
      /\ cases # {} => c < NO_MATCH
  BY <1>2, <1>3, <1>4, NoMatchIsNat DEF Winner
<1> HIDE DEF d, c
<1>6. /\ dirs = {} => d = NO_MATCH
      /\ dirs # {} => d \in dirs /\ \A y \in dirs : d <= y
      /\ cases = {} => c = NO_MATCH
      /\ cases # {} => c \in cases /\ \A y \in cases : c <= y
  BY <1>4 DEF d, c
<1> DEFINE w == Winner(rules, b)
<1>7. ASSUME dirs \union cases # {}
      PROVE  w \in dirs \union cases
  <2>1. CASE dirs = {}
    BY <1>5, <1>6, <1>7, <2>1
  <2>2. CASE cases = {}
    BY <1>5, <1>6, <1>7, <2>2
  <2>3. CASE dirs # {} /\ cases # {}
    BY <1>5, <1>6, <2>3
  <2> QED
    BY <2>1, <2>2, <2>3
<1>8. w <= d /\ w <= c
  BY <1>5
<1>9. ASSUME NEW j \in dirs \union cases
      PROVE  w <= j
  <2>1. d <= j \/ c <= j
    BY <1>6, <1>9
  <2>2. w \in Nat /\ j \in Nat
    BY <1>3, <1>5, <1>9
  <2> QED
    BY <1>5, <1>8, <2>1, <2>2
<1>10. dirs \union cases = {} => w = NO_MATCH
  BY <1>5, <1>6
<1> HIDE DEF w
<1>11. /\ dirs \union cases = {} => w = NO_MATCH
       /\ dirs \union cases # {} => w \in dirs \union cases /\ \A j \in dirs \union cases : w <= j
  BY <1>7, <1>9, <1>10
<1> QED
  BY <1>1, <1>11 DEF w

LEMMA KeptIsFirst ==
  ASSUME NEW rules \in Seq(Rule), Len(rules) < NO_MATCH, NEW b
  PROVE  Kept(rules, b) = (Matches(rules, b) = {} \/ rules[Winner(rules, b)].dec = "include")
<1>1. NO_MATCH \notin DOMAIN rules
  BY NoMatchIsNat
<1>2. \A i \in DOMAIN rules : rules[i].dec \in {"include", "exclude"}
  BY RulesAreRules
<1>3. Matches(rules, b) \subseteq DOMAIN rules
  BY DEF Matches
<1>4. CASE Matches(rules, b) = {}
  BY <1>1, <1>4, WinnerIsFirst DEF Kept
<1>5. CASE Matches(rules, b) # {}
  <2>1. Winner(rules, b) \in DOMAIN rules
    BY <1>3, <1>5, WinnerIsFirst
  <2> QED
    BY <1>2, <1>5, <2>1 DEF Kept
<1> QED
  BY <1>4, <1>5

-----------------------------------------------------------------------------
(* Reading the rules from the top. *)

\* The matches from a position on, and the verdict they give.
MatchesFrom(rules, b, i) == {j \in Matches(rules, b) : i <= j}
VerdictFrom(rules, b, i) ==
    MatchesFrom(rules, b, i) = {} \/ rules[LeastOf(MatchesFrom(rules, b, i))].dec = "include"

\* One line of the reading.
Line(rules, b, i, below) ==
    IF i > Len(rules) THEN TRUE
    ELSE IF Takes(rules[i].pred, b) THEN rules[i].dec = "include" ELSE below
Reading(rules, b, f) ==
    f = [i \in 1..(Len(rules) + 1) |-> Line(rules, b, i, f[i + 1])]

LEMMA VerdictIsALine ==
  ASSUME NEW rules \in Seq(Rule), NEW b, NEW i \in 1..(Len(rules) + 1)
  PROVE  VerdictFrom(rules, b, i) = Line(rules, b, i, VerdictFrom(rules, b, i + 1))
<1> DEFINE M == MatchesFrom(rules, b, i)
           N == MatchesFrom(rules, b, i + 1)
<1>1. M \in SUBSET Nat /\ N \in SUBSET Nat /\ \A j \in M : j <= Len(rules) /\ i <= j
  BY DEF MatchesFrom, Matches
<1>2. CASE i > Len(rules)
  <2>1. M = {}
    BY <1>1, <1>2
  <2> QED
    BY <1>2, <2>1 DEF VerdictFrom, Line
<1>3. CASE i <= Len(rules) /\ Takes(rules[i].pred, b)
  <2>1. i \in M
    BY <1>3 DEF MatchesFrom, Matches
  <2>2. LeastOf(M) \in M /\ LeastOf(M) <= i
    BY <1>1, <2>1, LeastOfIsLeast
  <2>3. LeastOf(M) = i
    BY <1>1, <2>2
  <2>4. ~(i > Len(rules))
    BY <1>3
  <2>5. VerdictFrom(rules, b, i) = (rules[i].dec = "include")
    BY <2>1, <2>3, Zenon DEF VerdictFrom
  <2> QED
    BY <1>3, <2>4, <2>5, Zenon DEF Line
<1>4. CASE i <= Len(rules) /\ ~Takes(rules[i].pred, b)
  <2>1. M = N
    BY <1>4 DEF MatchesFrom, Matches
  <2>2. VerdictFrom(rules, b, i) = VerdictFrom(rules, b, i + 1)
    BY <2>1 DEF VerdictFrom
  <2>3. ~(i > Len(rules))
    BY <1>4
  <2> QED
    BY <1>4, <2>2, <2>3, Zenon DEF Line
<1> QED
  BY <1>2, <1>3, <1>4

LEMMA ReadingIsTheVerdict ==
  ASSUME NEW rules \in Seq(Rule), NEW b, NEW f, Reading(rules, b, f),
         NEW i \in 1..(Len(rules) + 1)
  PROVE  f[i] = VerdictFrom(rules, b, i)
<1> DEFINE n == Len(rules) + 1
           wrong == {k \in 1..n : f[k] # VerdictFrom(rules, b, k)}
           far == {n - k : k \in wrong}
<1>1. \A k \in 1..n : f[k] = Line(rules, b, k, f[k + 1])
  BY DEF Reading
<1>2. SUFFICES ASSUME wrong # {}
               PROVE  FALSE
  OBVIOUS
<1>3. far \in SUBSET Nat /\ far # {}
  BY <1>2
<1>4. PICK d \in far : \A e \in far : d <= e
  <2> HIDE DEF far
  <2> QED
    BY <1>3, LeastExists
<1>5. PICK k \in wrong : d = n - k
  BY <1>4
<1>6. CASE k = n
  <2>1. \A below : Line(rules, b, k, below) = TRUE
    BY <1>6 DEF Line
  <2> QED
    BY <1>1, <1>5, <2>1, VerdictIsALine
<1>7. CASE k # n
  <2>1. k + 1 \in 1..n /\ k + 1 \notin wrong
    <3>1. k + 1 \in 1..n /\ ~(d <= n - (k + 1))
      BY <1>5, <1>7
    <3> QED
      BY <1>4, <3>1
  <2>2. f[k + 1] = VerdictFrom(rules, b, k + 1)
    BY <2>1
  <2>3. VerdictFrom(rules, b, k) = Line(rules, b, k, VerdictFrom(rules, b, k + 1))
    BY <1>5, VerdictIsALine
  <2> QED
    BY <1>1, <1>5, <2>2, <2>3
<1> QED
  BY <1>6, <1>7

\* The verdict the SQL computes, the lower of a directory rule's position and a
\* bucket rule's, is that of the first rule from the top that takes the bucket,
\* whatever the rules are and however the two kinds are mixed (triage.py:388).
THEOREM FirstMatchDecides ==
  ASSUME NEW rules \in Seq(Rule), Len(rules) < NO_MATCH, NEW b
  PROVE  Kept(rules, b) = FirstMatchKeeps(rules, b)
<1> DEFINE F == [i \in 1..(Len(rules) + 1) |-> VerdictFrom(rules, b, i)]
<1>1. Reading(rules, b, F)
  <2> SUFFICES ASSUME NEW i \in 1..(Len(rules) + 1)
               PROVE  F[i] = Line(rules, b, i, F[i + 1])
    BY DEF Reading
  <2>1. CASE i > Len(rules)
    BY <2>1, VerdictIsALine DEF Line
  <2>2. CASE i <= Len(rules)
    <3>1. F[i + 1] = VerdictFrom(rules, b, i + 1)
      BY <2>2
    <3> QED
      BY <3>1, VerdictIsALine
  <2> QED
    BY <2>1, <2>2
<1>2. PICK g : Reading(rules, b, g) /\ FirstMatchKeeps(rules, b) = g[1]
  <2> DEFINE g == CHOOSE f : Reading(rules, b, f)
  <2>1. Reading(rules, b, g)
    BY <1>1
  <2>2. FirstMatchKeeps(rules, b) = g[1]
    BY DEF FirstMatchKeeps, Reading, Line
  <2> QED
    BY <2>1, <2>2
<1>3. g[1] = VerdictFrom(rules, b, 1)
  BY <1>2, ReadingIsTheVerdict
<1>4. MatchesFrom(rules, b, 1) = Matches(rules, b) /\ Matches(rules, b) \in SUBSET Nat
  BY DEF MatchesFrom, Matches
<1>5. Matches(rules, b) # {} => LeastOf(Matches(rules, b)) = Winner(rules, b)
  <2> SUFFICES ASSUME Matches(rules, b) # {}
               PROVE  LeastOf(Matches(rules, b)) = Winner(rules, b)
    OBVIOUS
  <2>1. /\ LeastOf(Matches(rules, b)) \in Matches(rules, b) /\ Winner(rules, b) \in Matches(rules, b)
        /\ LeastOf(Matches(rules, b)) <= Winner(rules, b)
        /\ Winner(rules, b) <= LeastOf(Matches(rules, b))
    BY <1>4, LeastOfIsLeast, WinnerIsFirst
  <2> QED
    BY <1>4, <2>1
<1> QED
  BY <1>2, <1>3, <1>4, <1>5, KeptIsFirst DEF VerdictFrom

-----------------------------------------------------------------------------
(* A candidate, among the rules it would be inserted into. *)

LEMMA Joined ==
  ASSUME NEW V, NEW s \in Seq(V), NEW t \in Seq(V)
  PROVE  /\ s \o t \in Seq(V) /\ Len(s \o t) = Len(s) + Len(t)
         /\ \A i \in 1..Len(s) : (s \o t)[i] = s[i]
         /\ \A i \in 1..Len(t) : (s \o t)[Len(s) + i] = t[i]
  OBVIOUS

\* `new` is `rules` with c at position place, what stood there moved down.
IsInsertion(V, new, rules, place, c) ==
    /\ new \in Seq(V) /\ Len(new) = Len(rules) + 1
    /\ \A i \in 1..(Len(rules) + 1) :
         new[i] = IF i < place THEN rules[i] ELSE IF i = place THEN c ELSE rules[i - 1]

LEMMA Inserted ==
  ASSUME NEW V, NEW rules \in Seq(V), NEW c \in V, NEW place \in 1..(Len(rules) + 1)
  PROVE  IsInsertion(V, InsertAt(rules, place, c), rules, place, c)
<1> DEFINE front == SubSeq(rules, 1, place - 1)
           back == SubSeq(rules, place, Len(rules))
<1>1. /\ front \in Seq(V) /\ Len(front) = place - 1
      /\ \A i \in 1..(place - 1) : front[i] = rules[i]
  OBVIOUS
<1>2. /\ back \in Seq(V) /\ Len(back) = Len(rules) + 1 - place
      /\ \A i \in 1..(Len(rules) + 1 - place) : back[i] = rules[place + i - 1]
  OBVIOUS
<1>3. InsertAt(rules, place, c) = (front \o <<c>>) \o back
  BY DEF InsertAt
<1> HIDE DEF front, back
<1>4. /\ front \o <<c>> \in Seq(V) /\ Len(front \o <<c>>) = place
      /\ \A i \in 1..place : (front \o <<c>>)[i] = IF i < place THEN rules[i] ELSE c
  BY <1>1
<1> DEFINE head == front \o <<c>>
<1> HIDE DEF head
<1>5. /\ head \in Seq(V) /\ Len(head) = place
      /\ \A i \in 1..place : head[i] = IF i < place THEN rules[i] ELSE c
  BY <1>4 DEF head
<1>6. /\ head \o back \in Seq(V) /\ Len(head \o back) = Len(rules) + 1
      /\ \A i \in 1..place : (head \o back)[i] = head[i]
      /\ \A i \in 1..(Len(rules) + 1 - place) : (head \o back)[place + i] = back[i]
  <2>1. /\ head \o back \in Seq(V) /\ Len(head \o back) = Len(head) + Len(back)
        /\ \A i \in 1..Len(head) : (head \o back)[i] = head[i]
        /\ \A i \in 1..Len(back) : (head \o back)[Len(head) + i] = back[i]
    BY <1>2, <1>5, Joined
  <2>2. Len(head) + Len(back) = Len(rules) + 1
    BY <1>2, <1>5
  <2> QED
    BY <1>2, <1>5, <2>1, <2>2, Zenon
<1>7. ASSUME NEW i \in (place + 1)..(Len(rules) + 1)
      PROVE  (head \o back)[i] = rules[i - 1]
  <2>1. i - place \in 1..(Len(rules) + 1 - place) /\ place + (i - place) = i /\ place + (i - place) - 1 = i - 1
    OBVIOUS
  <2> QED
    BY <1>2, <1>6, <2>1
<1>8. \A i \in 1..(Len(rules) + 1) :
        (head \o back)[i] = IF i < place THEN rules[i] ELSE IF i = place THEN c ELSE rules[i - 1]
  <2> TAKE i \in 1..(Len(rules) + 1)
  <2>1. CASE i <= place
    BY <1>5, <1>6, <2>1
  <2>2. CASE i > place
    <3>1. i \in (place + 1)..(Len(rules) + 1) /\ ~(i < place) /\ i # place
      BY <2>2
    <3> QED
      BY <1>7, <3>1, Zenon
  <2>3. i <= place \/ i > place
    OBVIOUS
  <2> QED
    BY <2>1, <2>2, <2>3, Zenon
<1> QED
  <2>1. InsertAt(rules, place, c) = head \o back
    BY <1>3 DEF head
  <2> HIDE DEF head
  <2> QED
    BY <1>6, <1>8, <2>1 DEF IsInsertion

\* The preview of a rule among the others, computed without inserting it, is the
\* verdict of the list it would be inserted into, at every position and for
\* every bucket (triage.py:490).
THEOREM PreviewIsInsertion ==
  ASSUME NEW rules \in Seq(Rule), Len(rules) + 1 < NO_MATCH, NEW c \in Rule,
         NEW place \in 1..(Len(rules) + 1), NEW b
  PROVE  CandidateKeeps(rules, c, place, b) = Kept(InsertAt(rules, place, c), b)
<1>0. IsInsertion(Rule, InsertAt(rules, place, c), rules, place, c)
  BY Inserted, Zenon
<1> DEFINE new == InsertAt(rules, place, c)
           n == Len(rules)
           M == Matches(rules, b)
           N == Matches(new, b)
           w == Winner(rules, b)
           v == Winner(new, b)
<1>1. /\ new \in Seq(Rule) /\ Len(new) = n + 1
      /\ \A i \in 1..(n + 1) : new[i] = IF i < place THEN rules[i] ELSE IF i = place THEN c ELSE rules[i - 1]
  BY <1>0 DEF IsInsertion
<1> HIDE DEF new
<1>2. /\ \A i \in 1..n : i \in M <=> Takes(rules[i].pred, b)
      /\ M \subseteq 1..n
      /\ \A i \in 1..(n + 1) : i \in N <=> Takes(new[i].pred, b)
      /\ N \subseteq 1..(n + 1)
  BY <1>1 DEF Matches
<1>3. \A i \in N : \/ i < place /\ i \in M
                   \/ i = place /\ Takes(c.pred, b)
                   \/ i > place /\ i - 1 \in M
  <2> TAKE i \in N
  <2>1. CASE i < place
    <3>1. i \in 1..(n + 1) /\ i \in 1..n
      BY <1>2, <2>1
    <3>2. new[i] = rules[i]
      BY <1>1, <2>1, <3>1
    <3> QED
      BY <1>2, <2>1, <3>1, <3>2
  <2>2. CASE i = place
    BY <1>1, <1>2, <2>2
  <2>3. CASE i > place
    <3>1. i \in 1..(n + 1) /\ i - 1 \in 1..n
      BY <1>2, <2>3
    <3>2. new[i] = rules[i - 1]
      BY <1>1, <2>3, <3>1
    <3> QED
      BY <1>2, <2>3, <3>1, <3>2
  <2> QED
    BY <1>2, <2>1, <2>2, <2>3
<1>4. \A i \in M : (i < place => i \in N) /\ (i >= place => i + 1 \in N)
  <2> TAKE i \in M
  <2>1. CASE i < place
    BY <1>1, <1>2, <2>1
  <2>2. CASE i >= place
    <3>1. i + 1 \in 1..(n + 1) /\ i + 1 > place /\ (i + 1) - 1 = i /\ i \in 1..n
      BY <1>2, <2>2
    <3>2. new[i + 1] = rules[i]
      BY <1>1, <3>1
    <3> QED
      BY <1>2, <2>2, <3>1, <3>2
  <2> QED
    BY <2>1, <2>2
<1>5. Takes(c.pred, b) <=> place \in N
  BY <1>1, <1>2
<1>6. /\ M = {} => w = NO_MATCH
      /\ M # {} => w \in M /\ \A j \in M : w <= j
      /\ N # {} => v \in N /\ \A j \in N : v <= j
      /\ n < NO_MATCH /\ Len(new) < NO_MATCH /\ place < NO_MATCH
  BY <1>1, NoMatchIsNat, WinnerIsFirst
<1>7. /\ Kept(rules, b) = (M = {} \/ rules[w].dec = "include")
      /\ Kept(new, b) = (N = {} \/ new[v].dec = "include")
  BY <1>1, <1>6, KeptIsFirst
<1>8. CandidateKeeps(rules, c, place, b)
        = IF Takes(c.pred, b) /\ w >= place THEN c.dec = "include" ELSE Kept(rules, b)
  BY DEF CandidateKeeps
<1> HIDE DEF M, N, w, v, n
<1>a. n \in Nat /\ place \in 1..(n + 1) /\ NO_MATCH \in Nat /\ w \in Nat /\ M \subseteq Nat /\ N \subseteq Nat
  <2>1. n \in Nat /\ place \in 1..(n + 1) /\ NO_MATCH \in Nat
    BY NoMatchIsNat DEF n
  <2>2. M \subseteq Nat /\ N \subseteq Nat
    BY <1>2, <2>1
  <2> QED
    BY <1>6, <2>1, <2>2
<1>9. CASE Takes(c.pred, b) /\ w >= place
  <2>1. place \in N /\ N # {}
    BY <1>5, <1>9
  <2>2. \A i \in N : i >= place
    BY <1>3, <1>6, <1>9, <1>a
  <2>3. v = place
    <3>1. v \in N /\ v \in Nat /\ v <= place /\ v >= place
      BY <1>6, <1>a, <2>1, <2>2
    <3> QED
      BY <1>a, <3>1
  <2>4. new[v] = c
    BY <1>1, <1>a, <2>3 DEF n
  <2> QED
    BY <1>7, <1>8, <1>9, <2>1, <2>4 DEF new
<1>10. CASE ~(Takes(c.pred, b) /\ w >= place) /\ M = {}
  <2>1. ~Takes(c.pred, b)
    BY <1>6, <1>10, <1>a, NoMatchIsNat
  <2>2. N = {}
    BY <1>3, <1>10, <2>1
  <2> QED
    BY <1>7, <1>8, <1>10, <2>2, Zenon DEF new
<1>11. CASE ~(Takes(c.pred, b) /\ w >= place) /\ M # {} /\ w < place
  <2>1. w \in N
    BY <1>4, <1>6, <1>11
  <2>2. \A i \in N : w <= i
    BY <1>3, <1>6, <1>11, <1>a
  <2>3. v = w
    <3>1. v \in N /\ v \in Nat /\ v <= w /\ w <= v
      BY <1>6, <1>a, <2>1, <2>2
    <3> QED
      BY <1>a, <3>1
  <2>4. new[v] = rules[w]
    BY <1>1, <1>2, <1>6, <1>11, <1>a, <2>3 DEF n
  <2> QED
    BY <1>7, <1>8, <1>11, <2>1, <2>4, Zenon DEF new
<1>12. CASE ~(Takes(c.pred, b) /\ w >= place) /\ M # {} /\ ~(w < place)
  <2>1. w \in M /\ w \in Nat /\ w >= place /\ ~Takes(c.pred, b)
    BY <1>6, <1>12, <1>a
  <2>2. w + 1 \in N
    BY <1>4, <2>1
  <2>3. \A i \in N : w + 1 <= i
    BY <1>3, <1>6, <1>12, <1>a, <2>1
  <2>4. v = w + 1
    <3>1. v \in N /\ v \in Nat /\ v <= w + 1 /\ w + 1 <= v
      BY <1>6, <1>a, <2>2, <2>3
    <3> QED
      BY <1>a, <3>1
  <2>5. new[v] = rules[w]
    BY <1>1, <1>2, <1>a, <2>1, <2>4 DEF n
  <2> QED
    BY <1>7, <1>8, <1>12, <2>2, <2>5, Zenon DEF new
<1> QED
  BY <1>9, <1>10, <1>11, <1>12
-----------------------------------------------------------------------------
(* The contact sheet: pages read while the rules and the survey move. *)

\* What Sorted returns: every member once, in order.
LEMMA SortedIsInOrder ==
  ASSUME NEW S \in SUBSET Nat, IsFiniteSet(S)
  PROVE  /\ Sorted(S) \in Seq(S)
         /\ \A i, j \in 1..Len(Sorted(S)) : i < j => Sorted(S)[i] < Sorted(S)[j]
         /\ \A x \in S : \E i \in 1..Len(Sorted(S)) : Sorted(S)[i] = x
<1>1. PICK s, R : s = Sorted(S) /\ R = {e \in S \X S : e[1] < e[2]}
  OBVIOUS
<1>2. \A x \in S : Lower(R, S, x) = {y \in S : y < x}
  BY <1>1 DEF Lower
<1>3. s = [k \in 1..Cardinality(S) |-> CHOOSE x \in S : Cardinality({y \in S : y < x}) = k - 1]
  BY <1>1 DEF Sorted, Ordered
<1>4. Orders(R, S)
  BY <1>1 DEF Orders
<1>5. Lists(s, S) /\ Rises(s, R)
  <2>0. /\ Cardinality(S) \in Nat
        /\ \A i \in 0..(Cardinality(S) - 1) : \E x \in S : Cardinality(Lower(R, S, x)) = i
    <3>1. Ranked(R, S)
      BY <1>4, LowerIsOnto
    <3> QED
      BY <3>1 DEF Ranked
  <2>1. ASSUME NEW k \in 1..Cardinality(S)
        PROVE  s[k] \in S /\ Cardinality(Lower(R, S, s[k])) = k - 1
    <3>1. k - 1 \in 0..(Cardinality(S) - 1)
      BY <2>0
    <3>2. \E x \in S : Cardinality({y \in S : y < x}) = k - 1
      <4>1. PICK x \in S : Cardinality(Lower(R, S, x)) = k - 1
        BY <2>0, <3>1
      <4> QED
        BY <1>2, <4>1
    <3>3. s[k] = CHOOSE x \in S : Cardinality({y \in S : y < x}) = k - 1
      BY <1>3
    <3>4. s[k] \in S /\ Cardinality({y \in S : y < s[k]}) = k - 1
      BY <3>2, <3>3
    <3> QED
      BY <1>2, <3>4
  <2>2. s \in [1..Cardinality(S) -> S]
    BY <1>3, <2>1
  <2> QED
    BY <1>4, <2>1, <2>2, ListedIs
<1>6. s \in Seq(S) /\ Len(s) = Cardinality(S) /\ DOMAIN s = 1..Len(s)
  BY <1>5 DEF Lists
<1>7. \A i, j \in 1..Len(s) : i < j => s[i] < s[j]
  BY <1>1, <1>5, <1>6 DEF Rises
<1> QED
  BY <1>1, <1>5, <1>6, <1>7 DEF Lists

LEMMA RulesStay ==
  ASSUME table' = table
  PROVE  Rules' = Rules
  BY DEF Rules, RuleIds, RulesOf, Ordered, Precedes

\* Every path shown is at or before the cursor; every path steadily covered is
\* shown or still ahead of it, and still covered.
SheetInv ==
    /\ DOMAIN survey \subseteq Path
    /\ sheet \in [at : {"closed", "open", "read"}, cand : SUBSET Candidate, cursor : Nat,
                  shown : Seq(Path), steady : SUBSET Path]
    /\ \A i, j \in DOMAIN sheet.shown : i < j => sheet.shown[i] < sheet.shown[j]
    /\ sheet.at = "open" =>
         /\ \A i \in DOMAIN sheet.shown : sheet.shown[i] <= sheet.cursor
         /\ sheet.steady \subseteq PageOf(Rules, survey, sheet.cand)
         /\ \A p \in sheet.steady : p > sheet.cursor \/ \E i \in DOMAIN sheet.shown : sheet.shown[i] = p
    /\ sheet.at = "read" => sheet.steady \subseteq {sheet.shown[i] : i \in DOMAIN sheet.shown}

LEMMA SheetInit == Init => SheetInv
<1> SUFFICES ASSUME Init
             PROVE  SheetInv
  OBVIOUS
<1>1. DOMAIN survey \subseteq Path
  BY DEF Init, Surveyed
<1> QED
  BY <1>1 DEF Init, SheetInv, Closed

LEMMA EditKeeps ==
  ASSUME SheetInv, Covered, DOMAIN survey' \subseteq Path
  PROVE  SheetInv'
<1>1. /\ sheet'.at = sheet.at /\ sheet'.cand = sheet.cand /\ sheet'.cursor = sheet.cursor
      /\ sheet'.shown = sheet.shown
      /\ sheet'.steady = sheet.steady \cap PageOf(Rules', survey', sheet.cand)
      /\ sheet' \in [at : {"closed", "open", "read"}, cand : SUBSET Candidate, cursor : Nat,
                     shown : Seq(Path), steady : SUBSET Path]
  BY DEF SheetInv, Covered
<1>2. sheet'.steady \subseteq PageOf(Rules', survey', sheet'.cand)
  BY <1>1
<1> QED
  BY <1>1, <1>2 DEF SheetInv

LEMMA OthersKeep ==
  ASSUME SheetInv, UNCHANGED <<table, survey, sheet>>
  PROVE  SheetInv'
<1>1. Rules' = Rules
  BY RulesStay
<1> QED
  BY <1>1 DEF SheetInv

LEMMA OpenKeeps ==
  ASSUME SheetInv, NEW cand \in SUBSET Candidate, OpenSheet(cand)
  PROVE  SheetInv'
<1>1. Rules' = Rules /\ survey' = survey
  BY RulesStay DEF OpenSheet
<1>2. PageOf(Rules, survey, cand) \subseteq DOMAIN survey
  BY DEF PageOf
<1>3. sheet' = [at |-> "open", cand |-> cand, cursor |-> 0, shown |-> <<>>,
                steady |-> PageOf(Rules, survey, cand)]
  BY DEF OpenSheet, Closed
<1>4. \A p \in PageOf(Rules, survey, cand) : p \in Path /\ p > 0
  BY <1>2, TriageAssumption DEF SheetInv
<1> QED
  BY <1>1, <1>2, <1>3, <1>4 DEF SheetInv

LEMMA ReadKeeps ==
  ASSUME SheetInv, ReadPage
  PROVE  SheetInv'
<1> DEFINE left == {p \in PageOf(Rules, survey, sheet.cand) : p > sheet.cursor}
           sorted == Sorted(left)
           more == Len(sorted) > PageLimit
           part == IF more THEN SubSeq(sorted, 1, PageLimit) ELSE sorted
           old == sheet.shown
           m == Len(part)
<1>1. left \subseteq Path /\ left \in SUBSET Nat /\ IsFiniteSet(left)
  <2>1. left \subseteq Path
    BY DEF SheetInv, PageOf
  <2> HIDE DEF left
  <2> QED
    BY <2>1, TriageAssumption, FS_Subset
<1>2. /\ sorted \in Seq(left)
      /\ \A i, j \in 1..Len(sorted) : i < j => sorted[i] < sorted[j]
      /\ \A x \in left : \E i \in 1..Len(sorted) : sorted[i] = x
  <2> HIDE DEF left
  <2> QED
    BY <1>1, SortedIsInOrder
<1>3. PageLimit \in Nat \ {0}
  BY TriageAssumption
<1>4. /\ sheet.at = "open"
      /\ sheet' = [sheet EXCEPT !.shown = @ \o part,
                                !.cursor = IF more THEN SubSeq(sorted, 1, PageLimit + 1)[PageLimit] ELSE @,
                                !.at = IF more THEN "open" ELSE "read"]
      /\ UNCHANGED <<table, survey>>
  BY DEF ReadPage, CursorOf
<1>5. Rules' = Rules
  BY <1>4, RulesStay
<1>6. \A p \in left : p \in Nat /\ p > sheet.cursor
  BY <1>1
<1>7. left \in SUBSET Path /\ \A p \in sheet.steady : p > sheet.cursor => p \in left
  BY <1>1, <1>4 DEF SheetInv
<1>8. /\ old \in Seq(Path) /\ sheet.cursor \in Nat /\ sheet.steady \in SUBSET Path
      /\ \A i, j \in 1..Len(old) : i < j => old[i] < old[j]
      /\ \A i \in 1..Len(old) : old[i] <= sheet.cursor
      /\ \A p \in sheet.steady : p > sheet.cursor \/ \E i \in 1..Len(old) : old[i] = p
  BY <1>4 DEF SheetInv
<1> HIDE DEF left, sorted, old
<1>9. /\ part \in Seq(left) /\ m \in Nat /\ m <= Len(sorted)
      /\ \A i \in 1..m : part[i] = sorted[i] /\ i \in 1..Len(sorted)
      /\ more => m = PageLimit
      /\ ~more => part = sorted
  <2>1. CASE more
    <3>1. PageLimit \in 1..Len(sorted)
      BY <1>2, <1>3, <2>1
    <3> QED
      BY <1>2, <1>3, <2>1, <3>1
  <2>2. CASE ~more
    BY <1>2, <2>2
  <2> QED
    BY <2>1, <2>2
<1> DEFINE new == old \o part
<1>10. /\ new \in Seq(Path) /\ Len(new) = Len(old) + m
       /\ \A i \in 1..Len(old) : new[i] = old[i]
       /\ \A i \in 1..m : new[Len(old) + i] = part[i]
  <2>1. part \in Seq(Path)
    BY <1>7, <1>9
  <2> HIDE DEF part
  <2> QED
    BY <1>8, <2>1
<1>11. \A i \in 1..Len(new) : \/ i \in 1..Len(old) /\ new[i] = old[i]
                              \/ \E k \in 1..m : i = Len(old) + k /\ new[i] = sorted[k]
  <2> TAKE i \in 1..Len(new)
  <2>1. CASE i <= Len(old)
    BY <1>8, <1>10, <2>1
  <2>2. CASE i > Len(old)
    <3> DEFINE k == i - Len(old)
    <3>1. k \in 1..m /\ i = Len(old) + k
      BY <1>8, <1>9, <1>10, <2>2
    <3> HIDE DEF k
    <3>2. new[i] = sorted[k]
      BY <1>9, <1>10, <3>1
    <3> QED
      BY <3>1, <3>2
  <2>3. i <= Len(old) \/ i > Len(old)
    <3>1. i \in Nat /\ Len(old) \in Nat
      BY <1>8, <1>10
    <3> QED
      BY <3>1
  <2> QED
    BY <2>1, <2>2, <2>3, Zenon
<1>12. \A i, j \in 1..Len(new) : i < j => new[i] < new[j]
  <2> TAKE i, j \in 1..Len(new)
  <2> HAVE i < j
  <2>1. CASE j \in 1..Len(old)
    <3>1. i \in 1..Len(old)
      BY <1>8, <2>1
    <3> QED
      BY <1>8, <1>10, <2>1, <3>1
  <2>2. CASE j \notin 1..Len(old)
    <3>1. PICK l \in 1..m : j = Len(old) + l /\ new[j] = sorted[l]
      BY <1>11, <2>2
    <3>2. l \in 1..Len(sorted) /\ sorted[l] \in left
      BY <1>2, <1>9
    <3>3. CASE i \in 1..Len(old)
      <4>1. new[i] = old[i] /\ old[i] <= sheet.cursor /\ old[i] \in Path
        BY <1>8, <1>10, <3>3
      <4>2. old[i] \in Nat /\ sorted[l] \in Nat /\ sorted[l] > sheet.cursor
        BY <1>6, <3>2, <4>1, TriageAssumption
      <4>3. sheet.cursor \in Nat
        BY <1>8
      <4>4. old[i] < sorted[l]
        BY <4>1, <4>2, <4>3
      <4> QED
        BY <3>1, <4>1, <4>4
    <3>4. CASE i \notin 1..Len(old)
      <4>1. PICK k \in 1..m : i = Len(old) + k /\ new[i] = sorted[k]
        BY <1>11, <3>4
      <4>2. k < l /\ k \in 1..Len(sorted)
        BY <1>8, <1>9, <3>1, <4>1
      <4> QED
        BY <1>2, <3>1, <3>2, <4>1, <4>2
    <3> QED
      BY <3>3, <3>4
  <2> QED
    BY <2>1, <2>2
<1>13. /\ \A i \in 1..Len(old) : \E k \in 1..Len(new) : new[k] = old[i]
       /\ \A i \in 1..m : \E k \in 1..Len(new) : new[k] = sorted[i]
  <2>1. ASSUME NEW i \in 1..Len(old)
        PROVE  i \in 1..Len(new) /\ new[i] = old[i]
    BY <1>8, <1>9, <1>10
  <2>2. ASSUME NEW i \in 1..m
        PROVE  Len(old) + i \in 1..Len(new) /\ new[Len(old) + i] = sorted[i]
    BY <1>8, <1>9, <1>10
  <2> QED
    BY <2>1, <2>2
<1>14. DOMAIN new = 1..Len(new)
  BY <1>10
<1>15. CASE more
  <2> DEFINE reached == sorted[PageLimit]
  <2>1. PageLimit \in 1..Len(sorted) /\ PageLimit \in 1..m
    BY <1>2, <1>3, <1>9, <1>15
  <2>2. SubSeq(sorted, 1, PageLimit + 1)[PageLimit] = reached
    BY <1>2, <1>3, <1>15
  <2>3. reached \in left /\ reached \in Nat /\ reached > sheet.cursor
    <3>1. sorted[PageLimit] \in left
      BY <1>2, <2>1
    <3> QED
      BY <1>6, <3>1
  <2>4. sheet' = [sheet EXCEPT !.shown = new, !.cursor = reached, !.at = "open"]
    <3> HIDE DEF reached, part
    <3> QED
      BY <1>4, <1>15, <2>2 DEF old
  <2> HIDE DEF part, new
  <2>5. /\ sheet'.at = "open" /\ sheet'.cand = sheet.cand /\ sheet'.cursor = reached
        /\ sheet'.shown = new /\ sheet'.steady = sheet.steady
        /\ sheet' \in [at : {"closed", "open", "read"}, cand : SUBSET Candidate, cursor : Nat,
                       shown : Seq(Path), steady : SUBSET Path]
    BY <1>10, <2>3, <2>4 DEF SheetInv
  <2>6. \A i \in 1..Len(new) : new[i] <= reached
    <3> TAKE i \in 1..Len(new)
    <3>1. CASE i \in 1..Len(old) /\ new[i] = old[i]
      <4>1. old[i] <= sheet.cursor /\ old[i] \in Path
        BY <1>8, <3>1
      <4>2. old[i] \in Nat
        BY <4>1, TriageAssumption
      <4> QED
        BY <1>8, <2>3, <3>1, <4>1, <4>2
    <3>2. CASE \E k \in 1..m : i = Len(old) + k /\ new[i] = sorted[k]
      <4>1. PICK k \in 1..m : new[i] = sorted[k]
        BY <3>2
      <4>2. k \in 1..Len(sorted) /\ k <= PageLimit /\ sorted[k] \in left
        BY <1>2, <1>9, <1>15
      <4>3. k = PageLimit \/ sorted[k] < sorted[PageLimit]
        BY <1>2, <1>3, <2>1, <4>2
      <4>4. sorted[k] \in Nat
        BY <1>6, <4>2
      <4> QED
        BY <2>3, <4>1, <4>3, <4>4
    <3> QED
      BY <1>11, <3>1, <3>2
  <2>7. ASSUME NEW p \in sheet.steady
        PROVE  p > reached \/ \E i \in 1..Len(new) : new[i] = p
    <3>1. CASE \E i \in 1..Len(old) : old[i] = p
      BY <1>13, <3>1
    <3>2. CASE p > sheet.cursor
      <4>1. PICK i \in 1..Len(sorted) : sorted[i] = p
        BY <1>2, <1>7, <3>2
      <4>2. CASE i <= PageLimit
        <5>1. i \in 1..m
          BY <1>9, <1>15, <4>2
        <5> QED
          BY <1>13, <4>1, <5>1
      <4>3. CASE ~(i <= PageLimit)
        <5>1. PageLimit < i
          BY <1>3, <4>3
        <5> QED
          BY <1>2, <2>1, <4>1, <5>1
      <4> QED
        BY <4>2, <4>3
    <3> QED
      BY <1>8, <3>1, <3>2
  <2>8. sheet'.steady \subseteq PageOf(Rules', survey', sheet'.cand)
    BY <1>4, <1>5, <2>5 DEF SheetInv
  <2>9. DOMAIN survey' \subseteq Path
    BY <1>4 DEF SheetInv
  <2> QED
    BY <1>12, <1>14, <2>5, <2>6, <2>7, <2>8, <2>9 DEF SheetInv
<1>16. CASE ~more
  <2>1. sheet' = [sheet EXCEPT !.shown = new, !.at = "read"]
    <3>1. sheet.cursor = sheet.cursor /\ sheet = [sheet EXCEPT !.cursor = sheet.cursor]
      BY DEF SheetInv
    <3> HIDE DEF part
    <3> QED
      BY <1>4, <1>16, <3>1 DEF old, SheetInv
  <2>2. m = Len(sorted)
    BY <1>9, <1>16
  <2> HIDE DEF part, new
  <2>3. /\ sheet'.at = "read" /\ sheet'.cand = sheet.cand
        /\ sheet'.shown = new /\ sheet'.steady = sheet.steady
        /\ sheet' \in [at : {"closed", "open", "read"}, cand : SUBSET Candidate, cursor : Nat,
                       shown : Seq(Path), steady : SUBSET Path]
    BY <1>10, <2>1 DEF SheetInv
  <2>4. ASSUME NEW p \in sheet.steady
        PROVE  \E i \in 1..Len(new) : new[i] = p
    <3>1. CASE \E i \in 1..Len(old) : old[i] = p
      BY <1>13, <3>1
    <3>2. CASE p > sheet.cursor
      <4>1. PICK i \in 1..Len(sorted) : sorted[i] = p
        BY <1>2, <1>7, <3>2
      <4> QED
        BY <1>13, <2>2, <4>1
    <3> QED
      BY <1>8, <3>1, <3>2
  <2>5. DOMAIN survey' \subseteq Path
    BY <1>4 DEF SheetInv
  <2> QED
    BY <1>12, <1>14, <2>3, <2>4, <2>5 DEF SheetInv
<1> QED
  BY <1>15, <1>16

LEMMA SheetStep == SheetInv /\ [Next]_vars => SheetInv'
<1> SUFFICES ASSUME SheetInv, [Next]_vars
             PROVE  SheetInv'
  OBVIOUS
<1>1. ASSUME NEW c \in Candidate, NEW place \in 1..(MaxRules + 1), AddRule(c, place)
      PROVE  SheetInv'
  BY <1>1, EditKeeps DEF AddRule, SheetInv
<1>2. ASSUME NEW id \in DOMAIN table, DeleteRule(id)
      PROVE  SheetInv'
  BY <1>2, EditKeeps DEF DeleteRule, SheetInv
<1>3. ASSUME NEW id \in DOMAIN table, NEW place \in 1..MaxRules, MoveRule(id, place)
      PROVE  SheetInv'
  BY <1>3, EditKeeps DEF MoveRule, SheetInv
<1>4. ASSUME NEW c \in Content, Probe(c)
      PROVE  SheetInv'
  BY <1>4, OthersKeep DEF Probe
<1>5. ASSUME NEW c \in Content, NEW d \in Decision \union {"none"}, SetOverride(c, d)
      PROVE  SheetInv'
  BY <1>5, OthersKeep DEF SetOverride
<1>6. ASSUME BuildSurvey
      PROVE  SheetInv'
  <2>1. DOMAIN survey' \subseteq Path
    BY <1>6 DEF BuildSurvey, Surveyed
  <2> QED
    BY <1>6, <2>1, EditKeeps DEF BuildSurvey
<1>7. ASSUME NEW cand \in {{}} \union {{c} : c \in {x \in Candidate : x.dec = "exclude"}}, OpenSheet(cand)
      PROVE  SheetInv'
  <2>1. cand \in SUBSET Candidate
    OBVIOUS
  <2> QED
    BY <1>7, <2>1, OpenKeeps
<1>8. ASSUME CloseSheet
      PROVE  SheetInv'
  BY <1>8 DEF CloseSheet, Closed, SheetInv
<1>9. ASSUME UNCHANGED vars
      PROVE  SheetInv'
  BY <1>9, OthersKeep DEF vars
<1> QED
  BY <1>1, <1>2, <1>3, <1>4, <1>5, <1>6, <1>7, <1>8, <1>9, ReadKeeps DEF Next

\* A sheet scrolled to its end has shown, once and in order, every path it
\* covered all the while, whatever rules, overrides and surveys were written
\* between its pages and however long they are (triage_screens.py:410).
THEOREM SheetAlwaysShowsTheSteady == Spec => []SheetShowsTheSteady
<1>1. SheetInv => SheetShowsTheSteady
  BY DEF SheetInv, SheetShowsTheSteady
<1> QED
  BY <1>1, SheetInit, SheetStep, PTL DEF Spec

-----------------------------------------------------------------------------
(* The table of rules.                                                      *)

TableRow == [seq : Nat, pred : Predicate, dec : Decision]
TableIs(tbl) ==
    /\ tbl \in [DOMAIN tbl -> TableRow] /\ DOMAIN tbl \subseteq Nat \ {0}
    /\ IsFiniteSet(DOMAIN tbl) /\ Cardinality(DOMAIN tbl) <= MaxRules

RulesInv ==
    /\ TableIs(table)
    /\ override \in [Content -> Decision \union {"none"}]
    /\ DOMAIN survey \subseteq Path

\* The ids in the order (seq, id), which lists every one of them once.
Before(tbl, i, j) == tbl[i].seq < tbl[j].seq \/ (tbl[i].seq = tbl[j].seq /\ i < j)
Earlier(tbl, S) == {e \in S \X S : Before(tbl, e[1], e[2])}
InOrder(tbl, S) == [n \in 1..Cardinality(S) |-> CHOOSE x \in S : Cardinality({y \in S : Before(tbl, y, x)}) = n - 1]

LEMMA IdsAre ==
  ASSUME NEW tbl, TableIs(tbl), NEW S \in SUBSET DOMAIN tbl
  PROVE  Lists(InOrder(tbl, S), S) /\ Rises(InOrder(tbl, S), Earlier(tbl, S)) /\ Orders(Earlier(tbl, S), S)
<1>1. PICK R, s : R = Earlier(tbl, S) /\ s = InOrder(tbl, S)
  OBVIOUS
<1>2. \A x \in S : Lower(R, S, x) = {y \in S : Before(tbl, y, x)}
  BY <1>1 DEF Lower, Earlier
<1>3. \A i \in S : i \in Nat /\ tbl[i].seq \in Nat
  BY DEF TableIs, TableRow
<1>4. \A i, j \in S : <<i, j>> \in R <=> tbl[i].seq < tbl[j].seq \/ (tbl[i].seq = tbl[j].seq /\ i < j)
  BY <1>1 DEF Before, Earlier
<1>5. Orders(R, S)
  <2>1. \A x \in S : <<x, x>> \notin R
    BY <1>3, <1>4
  <2>2. \A x, y, z \in S : <<x, y>> \in R /\ <<y, z>> \in R => <<x, z>> \in R
    BY <1>3, <1>4
  <2>3. ASSUME NEW x \in S, NEW y \in S, x # y
        PROVE  <<x, y>> \in R \/ <<y, x>> \in R
    <3>1. PICK m, n : m = tbl[x].seq /\ n = tbl[y].seq
      OBVIOUS
    <3>2. m \in Nat /\ n \in Nat /\ x \in Nat /\ y \in Nat
      BY <1>3, <3>1
    <3>3. (m < n \/ (m = n /\ x < y)) \/ (n < m \/ (n = m /\ y < x))
      BY <2>3, <3>2
    <3> QED
      BY <1>4, <3>1, <3>3
  <2> QED
    BY <2>1, <2>2, <2>3 DEF Orders
<1>6. IsFiniteSet(S)
  BY FS_Subset DEF TableIs
<1>7. /\ Cardinality(S) \in Nat
      /\ \A i \in 0..(Cardinality(S) - 1) : \E x \in S : Cardinality(Lower(R, S, x)) = i
  <2>1. Ranked(R, S)
    BY <1>5, <1>6, LowerIsOnto
  <2> QED
    BY <2>1 DEF Ranked
<1>8. ASSUME NEW k \in 1..Cardinality(S)
      PROVE  s[k] \in S /\ Cardinality(Lower(R, S, s[k])) = k - 1
  <2>1. k - 1 \in 0..(Cardinality(S) - 1)
    BY <1>7
  <2>2. \E x \in S : Cardinality({y \in S : Before(tbl, y, x)}) = k - 1
    <3>1. PICK x \in S : Cardinality(Lower(R, S, x)) = k - 1
      BY <1>7, <2>1
    <3> QED
      BY <1>2, <3>1
  <2>3. s[k] = CHOOSE x \in S : Cardinality({y \in S : Before(tbl, y, x)}) = k - 1
    BY <1>1 DEF InOrder
  <2>4. s[k] \in S /\ Cardinality({y \in S : Before(tbl, y, s[k])}) = k - 1
    BY <2>2, <2>3
  <2> QED
    BY <1>2, <2>4
<1>9. s \in [1..Cardinality(S) -> S]
  BY <1>1, <1>8 DEF InOrder
<1>10. Lists(s, S) /\ Rises(s, R)
  BY <1>5, <1>6, <1>8, <1>9, ListedIs
<1> QED
  BY <1>1, <1>5, <1>10

LEMMA RuleIdsAre ==
  ASSUME TableIs(table)
  PROVE  Lists(RuleIds, DOMAIN table)
<1>1. RuleIds = InOrder(table, DOMAIN table)
  BY DEF RuleIds, Ordered, Precedes, InOrder, Before
<1> QED
  BY <1>1, IdsAre

LEMMA IdsWithoutAre ==
  ASSUME TableIs(table), NEW id
  PROVE  Lists(IdsWithout(id), DOMAIN table \ {id})
<1>1. IdsWithout(id) = InOrder(table, DOMAIN table \ {id})
  BY DEF IdsWithout, Ordered, Precedes, InOrder, Before
<1> QED
  BY <1>1, IdsAre

\* Every rule gets its place for a number, and nothing else changes.
LEMMA RenumberedIs ==
  ASSUME NEW tbl, tbl \in [DOMAIN tbl -> TableRow], NEW ids, Lists(ids, DOMAIN tbl)
  PROVE  /\ Renumbered(ids, tbl) \in [DOMAIN tbl -> TableRow]
         /\ \A i \in 1..Cardinality(DOMAIN tbl) :
              Renumbered(ids, tbl)[ids[i]] = [seq |-> i, pred |-> tbl[ids[i]].pred, dec |-> tbl[ids[i]].dec]
<1>1. PICK n, D : n = Cardinality(DOMAIN tbl) /\ D = DOMAIN tbl
  OBVIOUS
<1>2. /\ n \in Nat /\ ids \in [1..n -> D] /\ DOMAIN ids = 1..n
      /\ \A i, j \in 1..n : i # j => ids[i] # ids[j]
      /\ \A x \in D : \E i \in 1..n : ids[i] = x
  BY <1>1 DEF Lists
<1>3. ASSUME NEW i \in 1..n
      PROVE  (CHOOSE j \in DOMAIN ids : ids[j] = ids[i]) = i
  BY <1>2
<1>4. ASSUME NEW i \in 1..n
      PROVE  Renumbered(ids, tbl)[ids[i]] = [seq |-> i, pred |-> tbl[ids[i]].pred, dec |-> tbl[ids[i]].dec]
  <2>1. ids[i] \in D /\ tbl[ids[i]] \in TableRow
    BY <1>1, <1>2
  <2>2. Renumbered(ids, tbl)[ids[i]] = [tbl[ids[i]] EXCEPT !.seq = CHOOSE j \in DOMAIN ids : ids[j] = ids[i]]
    BY <1>1, <2>1 DEF Renumbered
  <2>3. Renumbered(ids, tbl)[ids[i]] = [tbl[ids[i]] EXCEPT !.seq = i]
    BY <1>3, <2>2
  <2> QED
    BY <2>1, <2>3 DEF TableRow
<1>5. ASSUME NEW x \in D
      PROVE  Renumbered(ids, tbl)[x] \in TableRow
  <2>1. PICK i \in 1..n : ids[i] = x
    BY <1>2
  <2>2. tbl[x] \in TableRow
    BY <1>1
  <2>3. Renumbered(ids, tbl)[x] = [seq |-> i, pred |-> tbl[x].pred, dec |-> tbl[x].dec]
    BY <1>4, <2>1
  <2>4. i \in Nat
    BY <1>2
  <2> QED
    BY <2>2, <2>3, <2>4 DEF TableRow
<1>6. Renumbered(ids, tbl) \in [D -> TableRow]
  <2>1. Renumbered(ids, tbl) = [x \in D |-> Renumbered(ids, tbl)[x]]
    BY <1>1 DEF Renumbered
  <2> QED
    BY <1>5, <2>1
<1> QED
  BY <1>1, <1>4, <1>6

\* A list with one more in it.
LEMMA OneMore ==
  ASSUME NEW S, IsFiniteSet(S), NEW s, Lists(s, S), NEW x, x \notin S, NEW place \in 1..(Len(s) + 1)
  PROVE  Lists(InsertAt(s, place, x), S \union {x}) /\ Len(InsertAt(s, place, x)) = Len(s) + 1
<1>1. PICK n, V, t : n = Cardinality(S) /\ V = S \union {x} /\ t = InsertAt(s, place, x)
  OBVIOUS
<1>2. /\ n \in Nat /\ s \in [1..n -> S] /\ s \in Seq(V) /\ Len(s) = n
      /\ \A i, j \in 1..n : i # j => s[i] # s[j]
      /\ \A y \in S : \E i \in 1..n : s[i] = y
  BY <1>1 DEF Lists
<1>3. IsInsertion(V, t, s, place, x)
  BY <1>1, <1>2, Inserted
<1>4. /\ t \in Seq(V) /\ Len(t) = n + 1 /\ place \in 1..(n + 1)
      /\ \A i \in 1..(n + 1) : t[i] = IF i < place THEN s[i] ELSE IF i = place THEN x ELSE s[i - 1]
  BY <1>2, <1>3 DEF IsInsertion
<1>5. Cardinality(V) = n + 1
  BY <1>1, FS_AddElement
<1>6. t \in [1..(n + 1) -> V]
  BY <1>4
<1>7. ASSUME NEW i \in 1..(n + 1), NEW j \in 1..(n + 1), i < j
      PROVE  t[i] # t[j]
  <2>1. CASE i < place /\ j < place
    BY <1>2, <1>4, <1>7, <2>1
  <2>2. CASE i < place /\ j = place
    <3>1. t[i] = s[i] /\ i \in 1..n /\ t[j] = x
      BY <1>2, <1>4, <2>2
    <3> QED
      BY <1>2, <3>1
  <2>3. CASE i < place /\ j > place
    <3>1. t[i] = s[i] /\ t[j] = s[j - 1] /\ i \in 1..n /\ j - 1 \in 1..n /\ i # j - 1
      BY <1>2, <1>4, <1>7, <2>3
    <3> QED
      BY <1>2, <3>1
  <2>4. CASE i = place
    <3>1. t[i] = x /\ t[j] = s[j - 1] /\ j - 1 \in 1..n
      BY <1>2, <1>4, <1>7, <2>4
    <3> QED
      BY <1>2, <3>1
  <2>5. CASE i > place
    <3>1. t[i] = s[i - 1] /\ t[j] = s[j - 1] /\ i - 1 \in 1..n /\ j - 1 \in 1..n /\ i - 1 # j - 1
      BY <1>2, <1>4, <1>7, <2>5
    <3> QED
      BY <1>2, <3>1
  <2> QED
    BY <1>4, <2>1, <2>2, <2>3, <2>4, <2>5
<1>8. \A i, j \in 1..(n + 1) : i # j => t[i] # t[j]
  <2> TAKE i, j \in 1..(n + 1)
  <2>1. i # j => i < j \/ j < i
    BY <1>2
  <2> QED
    BY <1>7, <2>1
<1>9. ASSUME NEW y \in V
      PROVE  \E i \in 1..(n + 1) : t[i] = y
  <2>1. CASE y = x
    BY <1>4, <2>1
  <2>2. CASE y \in S
    <3>1. PICK i \in 1..n : s[i] = y
      BY <1>2, <2>2
    <3>2. CASE i < place
      BY <1>2, <1>4, <3>1, <3>2
    <3>3. CASE i >= place
      <4>1. i + 1 \in 1..(n + 1) /\ ~(i + 1 < place) /\ i + 1 # place /\ (i + 1) - 1 = i
        BY <1>2, <1>4, <3>3
      <4>2. t[i + 1] = s[i]
        BY <1>4, <4>1
      <4> QED
        BY <3>1, <4>1, <4>2
    <3> QED
      BY <1>2, <1>4, <3>2, <3>3
  <2> QED
    BY <1>1, <2>1, <2>2
<1> QED
  <2>1. Cardinality(V) \in Nat /\ t \in [1..Cardinality(V) -> V]
    BY <1>2, <1>5, <1>6
  <2>2. Lists(t, V)
    BY <1>5, <1>8, <1>9, <2>1 DEF Lists
  <2> QED
    BY <1>1, <1>2, <1>4, <2>2

\* The list by (seq, id) is the one the table was numbered by.
LEMMA NumberedAnew ==
  ASSUME TableIs(table'), NEW ids, Lists(ids, DOMAIN table'),
         \A i \in DOMAIN ids : table'[ids[i]].seq = i
  PROVE  RuleIds' = ids
<1>1. PICK tbl, D, n, R, s : /\ tbl = table' /\ D = DOMAIN tbl /\ n = Cardinality(D) /\ s = InOrder(tbl, D)
                             /\ R = Earlier(tbl, D)
  OBVIOUS
<1>2. Lists(s, D) /\ Rises(s, R) /\ Orders(R, D)
  BY <1>1, IdsAre
<1>7. RuleIds' = s
  BY <1>1 DEF RuleIds, Ordered, Precedes, InOrder, Before
<1>3. n \in Nat /\ ids \in [1..n -> D] /\ DOMAIN ids = 1..n
  BY <1>1 DEF Lists
<1>4. ASSUME NEW i \in 1..n, NEW j \in 1..n, i < j
      PROVE  <<ids[i], ids[j]>> \in R
  <2>1. tbl[ids[i]].seq < tbl[ids[j]].seq /\ ids[i] \in D /\ ids[j] \in D
    BY <1>1, <1>3, <1>4
  <2> QED
    BY <1>1, <2>1 DEF Before, Earlier
<1>5. Rises(ids, R)
  BY <1>3, <1>4 DEF Rises
<1>6. IsFiniteSet(D)
  BY <1>1 DEF TableIs
<1> QED
  BY <1>1, <1>2, <1>5, <1>6, <1>7, OneList

LEMMA NextIdIsNew ==
  ASSUME TableIs(table)
  PROVE  NextId \in Nat \ {0} /\ NextId \notin DOMAIN table
<1>1. CASE DOMAIN table = {}
  BY <1>1 DEF NextId
<1>2. CASE DOMAIN table # {}
  <2>1. DOMAIN table \in SUBSET Nat /\ IsFiniteSet(DOMAIN table)
    BY DEF TableIs
  <2>2. PICK m : m = Max(DOMAIN table)
    OBVIOUS
  <2>3. m \in DOMAIN table /\ \A i \in DOMAIN table : i <= m
    BY <1>2, <2>1, <2>2, MaxIs
  <2>4. NextId = m + 1
    BY <1>2, <2>2 DEF NextId
  <2> QED
    BY <2>1, <2>3, <2>4
<1> QED
  BY <1>1, <1>2

\* A rule added is at its position among the others, as it was written.
LEMMA AddedIs ==
  ASSUME TableIs(table), NEW c \in Candidate, NEW place, AddRule(c, place)
  PROVE  /\ TableIs(table') /\ place \in 1..(Len(RuleIds) + 1)
         /\ RuleIds' = InsertAt(RuleIds, place, NextId)
         /\ \A i \in DOMAIN table : table'[i].pred = table[i].pred /\ table'[i].dec = table[i].dec
         /\ table'[NextId] = [seq |-> place, pred |-> c.pred, dec |-> c.dec]
<1>1. PICK D, new, ids, tbl, rows : /\ D = DOMAIN table \union {NextId} /\ new = NextId /\ rows = table'
                                    /\ ids = InsertAt(RuleIds, place, NextId) /\ tbl = WithRow(c, place)
  OBVIOUS
<1>2. /\ Lists(RuleIds, DOMAIN table) /\ place \in 1..(Len(RuleIds) + 1)
      /\ new \notin DOMAIN table /\ new \in Nat \ {0} /\ IsFiniteSet(DOMAIN table)
      /\ Cardinality(DOMAIN table) < MaxRules
  BY <1>1, RuleIdsAre, NextIdIsNew DEF TableIs, AddRule
<1>3. /\ DOMAIN tbl = D /\ tbl \in [D -> TableRow]
      /\ \A i \in DOMAIN table : tbl[i] = table[i]
      /\ tbl[new] = [seq |-> place, pred |-> c.pred, dec |-> c.dec]
  BY <1>1, NextIdIsNew DEF WithRow, TableIs, TableRow, Candidate, AddRule
<1>4. Lists(ids, D) /\ D = DOMAIN table \union {new}
  BY <1>1, <1>2, OneMore
<1>5. /\ rows \in [D -> TableRow]
      /\ \A i \in 1..Cardinality(D) : rows[ids[i]] = [seq |-> i, pred |-> tbl[ids[i]].pred, dec |-> tbl[ids[i]].dec]
  <2>1. rows = Renumbered(ids, tbl)
    BY <1>1 DEF AddRule
  <2> QED
    BY <1>3, <1>4, <2>1, RenumberedIs
<1>6. TableIs(rows) /\ DOMAIN rows = D
  <2>1. IsFiniteSet(D) /\ Cardinality(D) = Cardinality(DOMAIN table) + 1
    BY <1>2, <1>4, FS_AddElement
  <2>2. Cardinality(D) <= MaxRules
    BY <1>2, <2>1, TriageAssumption, FS_CardinalityType
  <2>3. D \subseteq Nat \ {0}
    BY <1>2, <1>4 DEF TableIs
  <2> QED
    BY <1>5, <2>1, <2>2, <2>3 DEF TableIs
<1>7. /\ \A i, j \in 1..Cardinality(D) : i # j => ids[i] # ids[j]
      /\ \A x \in D : \E i \in 1..Cardinality(D) : ids[i] = x
      /\ DOMAIN ids = 1..Cardinality(D)
  BY <1>4 DEF Lists
<1>8. RuleIds' = ids
  <2>1. ASSUME NEW i \in 1..Cardinality(D)
        PROVE  rows[ids[i]].seq = i
    <3>1. rows[ids[i]] = [seq |-> i, pred |-> tbl[ids[i]].pred, dec |-> tbl[ids[i]].dec]
      BY <1>5
    <3> QED
      BY <3>1
  <2> QED
    BY <1>1, <1>4, <1>6, <1>7, <2>1, NumberedAnew
<1>9. ASSUME NEW x \in D
      PROVE  rows[x].pred = tbl[x].pred /\ rows[x].dec = tbl[x].dec
  <2>1. PICK i \in 1..Cardinality(D) : ids[i] = x
    BY <1>7
  <2>2. rows[x] = [seq |-> i, pred |-> tbl[x].pred, dec |-> tbl[x].dec]
    BY <1>5, <2>1
  <2> QED
    BY <2>2
<1>10. \A i \in DOMAIN table : rows[i].pred = table[i].pred /\ rows[i].dec = table[i].dec
  BY <1>3, <1>4, <1>9
<1>11. rows[new] = [seq |-> place, pred |-> c.pred, dec |-> c.dec]
  <2>1. place \in 1..Cardinality(D) /\ ids[place] = new
    <3>1. RuleIds \in Seq(D) /\ Len(RuleIds) = Cardinality(DOMAIN table) /\ new \in D
      BY <1>2, <1>4 DEF Lists
    <3>2. IsInsertion(D, ids, RuleIds, place, new)
      BY <1>1, <1>2, <3>1, Inserted
    <3>3. Len(RuleIds) \in Nat
      BY <3>1
    <3>4. place \in 1..(Len(RuleIds) + 1) /\ ids[place] = IF place < place THEN RuleIds[place]
            ELSE IF place = place THEN new ELSE RuleIds[place - 1]
      BY <1>2, <3>2 DEF IsInsertion
    <3>5. ids[place] = new
      BY <3>3, <3>4
    <3>6. Cardinality(D) = Cardinality(DOMAIN table) + 1
      BY <1>2, <1>4, FS_AddElement
    <3> QED
      BY <1>2, <3>1, <3>5, <3>6
  <2> QED
    BY <1>3, <1>5, <2>1
<1> QED
  BY <1>1, <1>2, <1>6, <1>8, <1>10, <1>11

\* The rules read in that order, as many as there are rows.
LEMMA RulesAre ==
  ASSUME TableIs(table)
  PROVE  /\ Rules \in Seq(Rule) /\ Len(Rules) = Cardinality(DOMAIN table) /\ Len(Rules) = Len(RuleIds)
         /\ \A i \in 1..Len(Rules) : RuleIds[i] \in DOMAIN table
         /\ \A i \in 1..Len(Rules) : Rules[i] = [pred |-> table[RuleIds[i]].pred, dec |-> table[RuleIds[i]].dec]
<1>1. PICK n, ids, rules : n = Cardinality(DOMAIN table) /\ ids = RuleIds /\ rules = Rules
  OBVIOUS
<1>2. n \in Nat /\ ids \in [1..n -> DOMAIN table]
  BY <1>1, RuleIdsAre DEF Lists
<1>3. rules = [i \in 1..n |-> [pred |-> table[ids[i]].pred, dec |-> table[ids[i]].dec]]
  BY <1>1, <1>2 DEF Rules, RulesOf
<1>4. \A i \in 1..n : [pred |-> table[ids[i]].pred, dec |-> table[ids[i]].dec] \in Rule
  <2> TAKE i \in 1..n
  <2>1. table[ids[i]] \in TableRow
    BY <1>2 DEF TableIs
  <2> QED
    BY <2>1 DEF TableRow, Rule
<1>5. rules \in [1..n -> Rule]
  BY <1>3, <1>4
<1>6. rules \in Seq(Rule) /\ Len(rules) = n /\ Len(ids) = n
  BY <1>2, <1>5
<1> QED
  BY <1>1, <1>2, <1>3, <1>6

\* As the rules are read after it, the rule is inserted where it was added.
LEMMA RulesAdded ==
  ASSUME TableIs(table), NEW c \in Candidate, NEW place, AddRule(c, place)
  PROVE  /\ Rules' = InsertAt(Rules, place, c)
         /\ place \in 1..(Len(Rules) + 1) /\ Len(Rules) + 1 < NO_MATCH
<1>1. PICK n, ids, rules, new : /\ n = Cardinality(DOMAIN table) /\ ids = RuleIds /\ rules = Rules /\ new = NextId
  OBVIOUS
<1>2. /\ n \in Nat /\ rules \in Seq(Rule) /\ Len(rules) = n /\ Len(ids) = n /\ c \in Rule
      /\ \A i \in 1..n : ids[i] \in DOMAIN table
      /\ \A i \in 1..n : rules[i] = [pred |-> table[ids[i]].pred, dec |-> table[ids[i]].dec]
  <2>1. n \in Nat
    BY <1>1, FS_CardinalityType DEF TableIs
  <2>2. c \in Rule
    BY DEF Candidate, Rule
  <2> QED
    BY <1>1, <2>1, <2>2, RulesAre
<1>3. place \in 1..(n + 1) /\ n + 1 < NO_MATCH
  <2>1. n < MaxRules /\ place \in 1..(Len(RuleIds) + 1)
    BY <1>1 DEF AddRule
  <2> QED
    BY <1>1, <1>2, <2>1, TriageAssumption, NoMatchIsNat
<1>4. PICK row : row = table'
  OBVIOUS
<1>5. PICK later, order : later = Rules' /\ order = RuleIds'
  OBVIOUS
<1>6. /\ order = InsertAt(ids, place, new)
      /\ \A i \in DOMAIN table : row[i].pred = table[i].pred /\ row[i].dec = table[i].dec
      /\ row[new] = [seq |-> place, pred |-> c.pred, dec |-> c.dec]
  BY <1>1, <1>4, <1>5, AddedIs
<1>7. PICK V : V = DOMAIN table \union {new}
  OBVIOUS
<1>8. IsInsertion(V, order, ids, place, new)
  <2>1. ids \in Seq(V)
    BY <1>1, <1>7, RuleIdsAre DEF Lists
  <2> QED
    BY <1>2, <1>3, <1>6, <1>7, <2>1, Inserted
<1>9. /\ order \in Seq(V) /\ Len(order) = n + 1
      /\ \A i \in 1..(n + 1) : order[i] = IF i < place THEN ids[i] ELSE IF i = place THEN new ELSE ids[i - 1]
  BY <1>2, <1>8 DEF IsInsertion
<1>10. later = [i \in 1..(n + 1) |-> [pred |-> row[order[i]].pred, dec |-> row[order[i]].dec]]
  <2>1. DOMAIN order = 1..(n + 1)
    BY <1>2, <1>9
  <2> QED
    BY <1>4, <1>5, <2>1 DEF Rules, RulesOf
<1>11. PICK made : made = InsertAt(rules, place, c)
  OBVIOUS
<1>12. /\ made \in Seq(Rule) /\ Len(made) = n + 1
       /\ \A i \in 1..(n + 1) : made[i] = IF i < place THEN rules[i] ELSE IF i = place THEN c ELSE rules[i - 1]
  <2>1. IsInsertion(Rule, made, rules, place, c)
    BY <1>2, <1>3, <1>11, Inserted
  <2> QED
    BY <1>2, <2>1 DEF IsInsertion
<1>13. ASSUME NEW i \in 1..(n + 1)
       PROVE  later[i] = made[i]
  <2>1. later[i] = [pred |-> row[order[i]].pred, dec |-> row[order[i]].dec]
    BY <1>10
  <2>2. CASE i < place
    <3>1. i \in 1..n /\ order[i] = ids[i] /\ made[i] = rules[i]
      BY <1>2, <1>3, <1>9, <1>12, <2>2
    <3> QED
      BY <1>2, <1>6, <2>1, <3>1
  <2>3. CASE i = place
    <3>1. order[i] = new /\ made[i] = c
      BY <1>2, <1>3, <1>9, <1>12, <2>3
    <3> QED
      BY <1>6, <2>1, <3>1 DEF Candidate
  <2>4. CASE i > place
    <3>1. i - 1 \in 1..n /\ order[i] = ids[i - 1] /\ made[i] = rules[i - 1]
      BY <1>2, <1>3, <1>9, <1>12, <2>4
    <3> QED
      BY <1>2, <1>6, <2>1, <3>1
  <2> QED
    BY <1>2, <1>3, <2>2, <2>3, <2>4
<1>14. later = made
  <2>1. made \in [1..(n + 1) -> Rule]
    BY <1>2, <1>12
  <2> QED
    BY <1>10, <1>13, <2>1
<1> QED
  BY <1>1, <1>2, <1>3, <1>5, <1>11, <1>14

-----------------------------------------------------------------------------
(* The counts.                                                             *)

\* The paths of some buckets.
PathsIn(B) == {p \in DOMAIN survey : survey[p] \in B}

\* A bucket less, and its paths are so many fewer.
LEMMA FoldsAdd ==
  ASSUME IsFiniteSet(DOMAIN survey), NEW B, NEW b \in B
  PROVE  /\ Fold(b) \in Nat /\ Cardinality(PathsIn(B)) \in Nat
         /\ Cardinality(PathsIn(B)) = Fold(b) + Cardinality(PathsIn(B \ {b}))
<1>1. PICK X, Y, Z : X = PathsIn(B) /\ Y = PathsIn(B \ {b}) /\ Z = {p \in DOMAIN survey : survey[p] = b}
  OBVIOUS
<1>2. X = Y \union Z /\ Y \cap Z = {} /\ X \subseteq DOMAIN survey /\ Y \subseteq DOMAIN survey /\ Z \subseteq DOMAIN survey
  BY <1>1 DEF PathsIn
<1>3. IsFiniteSet(X) /\ IsFiniteSet(Y) /\ IsFiniteSet(Z)
  BY <1>2, FS_Subset
<1>4. Cardinality(X) \in Nat /\ Cardinality(Y) \in Nat /\ Cardinality(Z) \in Nat
  BY <1>3, FS_CardinalityType
<1>5. Cardinality(X) = Cardinality(Y) + Cardinality(Z) - Cardinality(Y \cap Z)
  BY <1>2, <1>3, FS_Union
<1>6. Cardinality(Y \cap Z) = 0
  BY <1>2, FS_EmptySet
<1>7. Fold(b) = Cardinality(Z)
  BY <1>1 DEF Fold
<1> QED
  BY <1>1, <1>4, <1>5, <1>6, <1>7

\* The sum of what some buckets fold is the number of their paths.
LEMMA SumsUp ==
  ASSUME IsFiniteSet(DOMAIN survey), NEW B, IsFiniteSet(B)
  PROVE  MapThenSumSet(Fold, B) = Cardinality(PathsIn(B))
<1>0. PICK ch : ch = [q \in SUBSET B |-> CHOOSE x \in q : TRUE]
  OBVIOUS
<1>1. PICK op : op = [p \in B \X Nat |-> Fold(p[1]) + p[2]]
  OBVIOUS
<1>2. ASSUME NEW q \in SUBSET B, q # {}
      PROVE  ch[q] \in q /\ ch[q] = CHOOSE x \in q : TRUE
  BY <1>0, <1>2
<1>3. \A b \in B, v \in Nat : op[<<b, v>>] = Fold(b) + v /\ Fold(b) + v \in Nat
  <2> TAKE b \in B, v \in Nat
  <2>1. PICK k : k = Fold(b)
    OBVIOUS
  <2>2. k \in Nat
    BY <2>1, FoldsAdd
  <2>3. op[<<b, v>>] = k + v
    BY <1>1, <2>1
  <2> QED
    BY <2>1, <2>2, <2>3
<1>4. Folds(B, ch, Nat, 0, op)
  <2>1. op \in [B \X Nat -> Nat]
    BY <1>1, <1>3
  <2> QED
    BY <1>2, <2>1 DEF Folds
<1>5. PICK g \in [SUBSET B -> Nat] : FoldsTo(B, g, ch, 0, op)
  BY <1>4, FoldExists
<1>6. g = [q \in SUBSET B |-> IF q = {} THEN 0 ELSE Fold(CHOOSE x \in q : TRUE) + g[q \ {CHOOSE x \in q : TRUE}]]
  <2>1. ASSUME NEW q \in SUBSET B
        PROVE  g[q] = IF q = {} THEN 0 ELSE Fold(CHOOSE x \in q : TRUE) + g[q \ {CHOOSE x \in q : TRUE}]
    <3>1. CASE q = {}
      BY <1>5, <3>1 DEF FoldsTo
    <3>2. CASE q # {}
      <4>1. PICK b : b = ch[q]
        OBVIOUS
      <4>2. b \in q /\ b \in B /\ b = CHOOSE x \in q : TRUE
        BY <1>2, <3>2, <4>1
      <4>3. g[q \ {b}] \in Nat /\ g[q] = op[<<b, g[q \ {b}]>>]
        BY <1>5, <3>2, <4>1 DEF FoldsTo
      <4> QED
        BY <1>3, <3>2, <4>2, <4>3
    <3> QED
      BY <3>1, <3>2
  <2> QED
    BY <1>5, <2>1
<1>7. PICK h : /\ h = [q \in SUBSET B |-> IF q = {} THEN 0
                                          ELSE Fold(CHOOSE x \in q : TRUE) + h[q \ {CHOOSE x \in q : TRUE}]]
               /\ MapThenSumSet(Fold, B) = h[B]
  BY <1>6 DEF MapThenSumSet, MapThenFoldSet
<1>8. h[B] = g[B]
  <2>1. PICK P : P = {q \in SUBSET B : h[q] = g[q]}
    OBVIOUS
  <2>2. ASSUME NEW q \in SUBSET B, \A p \in (SUBSET q) \ {q} : p \in P
        PROVE  q \in P
    <3>1. CASE q = {}
      BY <1>6, <1>7, <2>1, <3>1
    <3>2. CASE q # {}
      <4>1. PICK b, p : b = (CHOOSE x \in q : TRUE) /\ p = q \ {b}
        OBVIOUS
      <4>2. p \in (SUBSET q) \ {q}
        BY <1>2, <3>2, <4>1
      <4>3. h[p] = g[p]
        BY <2>1, <2>2, <4>2
      <4>4. g[q] = Fold(b) + g[p]
        BY <1>6, <3>2, <4>1
      <4>5. h[q] = Fold(b) + h[p]
        BY <1>7, <3>2, <4>1
      <4> QED
        BY <2>1, <4>3, <4>4, <4>5
    <3> QED
      BY <3>1, <3>2
  <2>3. Climbs(B, P)
    BY <2>2 DEF Climbs
  <2>4. SUBSET B \subseteq P
    BY <2>3, BySubsets
  <2> QED
    BY <2>1, <2>4
<1>9. PICK P : P = {p \in (SUBSET B) \X Nat : p[2] = Cardinality(PathsIn(p[1]))}
  OBVIOUS
<1>10. <<{}, 0>> \in P
  <2>1. PICK none : none = {}
    OBVIOUS
  <2>2. PathsIn(none) = {}
    BY <2>1 DEF PathsIn
  <2>3. Cardinality(PathsIn(none)) = 0
    BY <2>2, FS_EmptySet
  <2>4. <<none, 0>> \in P
    <3>1. PICK z : z = <<none, 0>>
      OBVIOUS
    <3>2. z \in (SUBSET B) \X Nat /\ z[1] = none /\ z[2] = 0
      BY <2>1, <3>1
    <3>3. z[2] = Cardinality(PathsIn(z[1]))
      BY <2>3, <3>2
    <3> QED
      BY <1>9, <3>1, <3>2, <3>3
  <2> QED
    BY <2>1, <2>4
<1>11. ASSUME NEW q \in SUBSET B, NEW v \in Nat, q # {}, <<q \ {ch[q]}, v>> \in P
       PROVE  <<q, op[<<ch[q], v>>]>> \in P
  <2>1. PICK b : b = ch[q]
    OBVIOUS
  <2>2. b \in q /\ b \in B /\ v = Cardinality(PathsIn(q \ {b}))
    BY <1>2, <1>9, <1>11, <2>1
  <2>3. Cardinality(PathsIn(q)) = Fold(b) + v /\ Fold(b) + v \in Nat /\ op[<<b, v>>] = Fold(b) + v
    BY <1>3, <2>2, FoldsAdd
  <2> QED
    BY <1>9, <2>1, <2>3
<1>12. \A q \in SUBSET B : g[q] \in Nat /\ <<q, g[q]>> \in P
  <2>1. Keeps(B, ch, Nat, 0, op, P)
    BY <1>10, <1>11 DEF Keeps
  <2>2. FoldsTo(B, g, ch, 0, op)
    BY <1>5
  <2> QED
    BY <1>4, <2>1, <2>2, FoldKeeps
<1>13. g[B] = Cardinality(PathsIn(B))
  BY <1>9, <1>12
<1> QED
  BY <1>7, <1>8, <1>13

\* The finite sets the counts are of.
LEMMA SurveyIsFinite ==
  ASSUME RulesInv
  PROVE  IsFiniteSet(DOMAIN survey) /\ IsFiniteSet(Folded) /\ \A p \in DOMAIN survey : survey[p] \in Folded
<1>1. IsFiniteSet(DOMAIN survey)
  BY TriageAssumption, FS_Subset DEF RulesInv
<1>2. IsFiniteSet({survey[p] : p \in DOMAIN survey})
  <2>1. PICK f : f = [p \in DOMAIN survey |-> survey[p]]
    OBVIOUS
  <2>2. f \in Surjection(DOMAIN survey, {survey[p] : p \in DOMAIN survey})
    BY <2>1 DEF Surjection
  <2> QED
    BY <1>1, <2>2, FS_Surjection
<1> QED
  BY <1>1, <1>2 DEF Folded

\* What is kept of the rules' verdict over the folded buckets, over the paths.
RulesKeep(rules) == {p \in DOMAIN survey : Kept(rules, survey[p])}
Changed(rules, decision, verdict) ==
    {p \in DOMAIN survey : override[ContentOf[p]] = decision /\ Kept(rules, survey[p]) = verdict}

LEMMA KeptPathsAre ==
  ASSUME RulesInv, NEW rules
  PROVE  KeptPaths(rules) = Cardinality(RulesKeep(rules)) + Cardinality(Changed(rules, "include", FALSE))
                                - Cardinality(Changed(rules, "exclude", TRUE))
<1>1. PICK B : B = {b \in Folded : Kept(rules, b)}
  OBVIOUS
<1>2. IsFiniteSet(B) /\ PathsIn(B) = RulesKeep(rules)
  BY <1>1, SurveyIsFinite, FS_Subset DEF PathsIn, RulesKeep
<1>3. MapThenSumSet(Fold, B) = Cardinality(RulesKeep(rules))
  BY <1>2, SurveyIsFinite, SumsUp
<1>4. KeptPaths(rules) = MapThenSumSet(Fold, B) + Correction(rules).plus - Correction(rules).minus
  BY <1>1 DEF KeptPaths
<1>5. /\ Correction(rules).plus = Cardinality(Changed(rules, "include", FALSE))
      /\ Correction(rules).minus = Cardinality(Changed(rules, "exclude", TRUE))
  BY DEF Correction, Changed
<1> QED
  BY <1>3, <1>4, <1>5

\* The same of a candidate among the rules.
CandidateKeepsOf(rules, c, place) == {p \in DOMAIN survey : CandidateKeeps(rules, c, place, survey[p])}

LEMMA CandidateKeptIs ==
  ASSUME RulesInv, NEW rules, NEW c, NEW place
  PROVE  CandidateKept(rules, c, place) =
           Cardinality(CandidateKeepsOf(rules, c, place)) + Cardinality(Changed(rules, "include", FALSE))
             - Cardinality(Changed(rules, "exclude", TRUE))
<1>1. PICK B : B = {b \in Folded : CandidateKeeps(rules, c, place, b)}
  OBVIOUS
<1>2. IsFiniteSet(B) /\ PathsIn(B) = CandidateKeepsOf(rules, c, place)
  BY <1>1, SurveyIsFinite, FS_Subset DEF PathsIn, CandidateKeepsOf
<1>3. MapThenSumSet(Fold, B) = Cardinality(CandidateKeepsOf(rules, c, place))
  BY <1>2, SurveyIsFinite, SumsUp
<1>4. CandidateKept(rules, c, place) = MapThenSumSet(Fold, B) + Correction(rules).plus - Correction(rules).minus
  BY <1>1 DEF CandidateKept
<1>5. /\ Correction(rules).plus = Cardinality(Changed(rules, "include", FALSE))
      /\ Correction(rules).minus = Cardinality(Changed(rules, "exclude", TRUE))
  BY DEF Correction, Changed
<1> QED
  BY <1>3, <1>4, <1>5

\* The correction makes of the rules' verdict the one the overrides give.
LEMMA CountsAre ==
  ASSUME RulesInv
  PROVE  CountsAreOfThePaths
<1>1. PICK X, plus, minus, Y :
        /\ X = RulesKeep(Rules)
        /\ plus = Changed(Rules, "include", FALSE) /\ minus = Changed(Rules, "exclude", TRUE)
        /\ Y = {p \in DOMAIN survey : IF override[ContentOf[p]] # "none" THEN override[ContentOf[p]] = "include"
                                      ELSE FirstMatchKeeps(Rules, survey[p])}
  OBVIOUS
<1>2. \A b : Kept(Rules, b) = FirstMatchKeeps(Rules, b) /\ Kept(Rules, b) \in BOOLEAN
  <2>1. Rules \in Seq(Rule) /\ Len(Rules) < NO_MATCH
    <3>1. Rules \in Seq(Rule) /\ Len(Rules) = Cardinality(DOMAIN table)
      BY RulesAre DEF RulesInv
    <3>2. Cardinality(DOMAIN table) \in Nat /\ Cardinality(DOMAIN table) <= MaxRules
      BY FS_CardinalityType DEF RulesInv, TableIs
    <3> QED
      BY <3>1, <3>2, TriageAssumption, NoMatchIsNat
  <2> QED
    BY <2>1, FirstMatchDecides DEF Kept
<1>3. \A p \in DOMAIN survey : override[ContentOf[p]] \in {"include", "exclude", "none"}
  BY DEF RulesInv, Content, Decision
<1>4. /\ X \subseteq DOMAIN survey /\ plus \subseteq DOMAIN survey /\ minus \subseteq DOMAIN survey
      /\ minus \subseteq X /\ plus \cap X = {}
  BY <1>1 DEF RulesKeep, Changed
<1>5. Y = (X \ minus) \union plus
  <2>1. ASSUME NEW p \in DOMAIN survey
        PROVE  p \in Y <=> p \in (X \ minus) \union plus
    <3>1. PICK k, o : k = Kept(Rules, survey[p]) /\ o = override[ContentOf[p]]
      OBVIOUS
    <3>2. k \in BOOLEAN /\ o \in {"include", "exclude", "none"} /\ k = FirstMatchKeeps(Rules, survey[p])
      BY <1>2, <1>3, <3>1
    <3>3. /\ p \in X <=> k
          /\ p \in plus <=> o = "include" /\ k = FALSE
          /\ p \in minus <=> o = "exclude" /\ k = TRUE
          /\ p \in Y <=> IF o # "none" THEN o = "include" ELSE k
      BY <1>1, <3>1, <3>2 DEF RulesKeep, Changed
    <3> QED
      BY <3>2, <3>3
  <2> QED
    BY <1>1, <1>4, <2>1
<1>6. Cardinality(Y) = Cardinality(X) + Cardinality(plus) - Cardinality(minus)
  <2>1. IsFiniteSet(X) /\ IsFiniteSet(plus) /\ IsFiniteSet(minus)
    BY <1>4, SurveyIsFinite, FS_Subset
  <2>2. PICK W : W = X \ minus
    OBVIOUS
  <2>3. IsFiniteSet(W) /\ Cardinality(W) = Cardinality(X) - Cardinality(X \cap minus)
    BY <2>1, <2>2, FS_Difference
  <2>4. X \cap minus = minus /\ W \cap plus = {} /\ Y = W \union plus
    BY <1>4, <1>5, <2>2
  <2>5. Cardinality(Y) = Cardinality(W) + Cardinality(plus) - Cardinality(W \cap plus)
    BY <2>1, <2>3, <2>4, FS_Union
  <2>6. Cardinality(W \cap plus) = 0
    BY <2>4, FS_EmptySet
  <2>7. PICK x, m, w, a, y : /\ x = Cardinality(X) /\ m = Cardinality(minus) /\ w = Cardinality(W)
                             /\ a = Cardinality(plus) /\ y = Cardinality(Y)
    OBVIOUS
  <2>8. x \in Nat /\ m \in Nat /\ w \in Nat /\ a \in Nat
    BY <2>1, <2>3, <2>7, FS_CardinalityType
  <2>9. w = x - m
    BY <2>3, <2>4, <2>7
  <2>10. y = w + a - 0
    BY <2>5, <2>6, <2>7
  <2>11. y = x + a - m
    BY <2>8, <2>9, <2>10
  <2> QED
    BY <2>7, <2>11
<1>7. KeptPaths(Rules) = Cardinality(X) + Cardinality(plus) - Cardinality(minus)
  BY <1>1, KeptPathsAre
<1> QED
  BY <1>1, <1>6, <1>7 DEF CountsAreOfThePaths

-----------------------------------------------------------------------------
(* Every step keeps the table one that can be numbered.                     *)

LEMMA DeletedIs ==
  ASSUME TableIs(table), NEW id, DeleteRule(id)
  PROVE  TableIs(table') /\ DOMAIN table' \subseteq DOMAIN table
<1>1. PICK D, ids, tbl, rows : /\ D = DOMAIN table \ {id} /\ ids = IdsWithout(id) /\ rows = table'
                               /\ tbl = [i \in DOMAIN table \ {id} |-> table[i]]
  OBVIOUS
<1>2. DOMAIN tbl = D /\ tbl \in [D -> TableRow]
  BY <1>1 DEF TableIs
<1>3. Lists(ids, D)
  BY <1>1, IdsWithoutAre
<1>4. rows = Renumbered(ids, tbl)
  BY <1>1 DEF DeleteRule
<1>5. rows \in [D -> TableRow]
  BY <1>2, <1>3, <1>4, RenumberedIs
<1>6. D \subseteq DOMAIN table
  BY <1>1
<1>7. IsFiniteSet(D) /\ Cardinality(D) <= Cardinality(DOMAIN table)
  BY <1>6, FS_Subset DEF TableIs
<1>8. Cardinality(D) <= MaxRules
  BY <1>7, TriageAssumption, FS_CardinalityType DEF TableIs
<1>9. TableIs(rows)
  BY <1>5, <1>6, <1>7, <1>8 DEF TableIs
<1> QED
  BY <1>1, <1>5, <1>6, <1>9

LEMMA MovedIs ==
  ASSUME TableIs(table), NEW id, NEW place, MoveRule(id, place)
  PROVE  TableIs(table') /\ DOMAIN table' = DOMAIN table
<1>1. PICK D, less, ids, rows : /\ D = DOMAIN table /\ less = IdsWithout(id) /\ rows = table'
                                /\ ids = InsertAt(less, place, id)
  OBVIOUS
<1>2. id \in D /\ place \in DOMAIN RuleIds
  BY <1>1 DEF MoveRule
<1>3. Lists(less, D \ {id}) /\ IsFiniteSet(D)
  BY <1>1, IdsWithoutAre DEF TableIs
<1>4. IsFiniteSet(D \ {id}) /\ Cardinality(D \ {id}) = Cardinality(D) - 1 /\ Cardinality(D) \in Nat
  BY <1>2, <1>3, FS_RemoveElement, FS_CardinalityType
<1>5. place \in 1..Cardinality(D)
  BY <1>1, <1>2, RuleIdsAre DEF Lists
<1>6. Len(less) + 1 = Cardinality(D)
  <2>1. PICK k : k = Cardinality(D \ {id})
    OBVIOUS
  <2>2. k \in Nat /\ less \in [1..k -> D \ {id}]
    BY <1>3, <2>1 DEF Lists
  <2>3. Len(less) = k
    BY <2>2
  <2> QED
    BY <1>4, <2>1, <2>2, <2>3
<1>7. Lists(ids, (D \ {id}) \union {id})
  BY <1>1, <1>3, <1>4, <1>5, <1>6, OneMore
<1>8. (D \ {id}) \union {id} = D
  BY <1>2
<1>9. rows = Renumbered(ids, table)
  BY <1>1 DEF MoveRule
<1>10. rows \in [D -> TableRow]
  <2>1. table \in [DOMAIN table -> TableRow] /\ Lists(ids, DOMAIN table)
    BY <1>1, <1>7, <1>8 DEF TableIs
  <2> QED
    BY <1>1, <1>9, <2>1, RenumberedIs
<1>11. TableIs(rows)
  BY <1>1, <1>10 DEF TableIs
<1> QED
  BY <1>1, <1>10, <1>11

LEMMA RulesInit == Init => RulesInv
<1> SUFFICES ASSUME Init
             PROVE  RulesInv
  OBVIOUS
<1>1. TableIs(table)
  <2>1. table = << >> /\ DOMAIN table = {}
    BY DEF Init
  <2>2. IsFiniteSet({}) /\ Cardinality({}) = 0
    BY FS_EmptySet
  <2> QED
    BY <2>1, <2>2, TriageAssumption DEF TableIs
<1>2. DOMAIN survey \subseteq Path
  BY DEF Init, Surveyed
<1>3. override \in [Content -> Decision \union {"none"}]
  BY DEF Init
<1> QED
  BY <1>1, <1>2, <1>3 DEF RulesInv

LEMMA RulesStep == RulesInv /\ [Next]_vars => RulesInv'
<1> SUFFICES ASSUME RulesInv, [Next]_vars
             PROVE  RulesInv'
  OBVIOUS
<1>1. ASSUME NEW c \in Candidate, NEW place \in 1..(MaxRules + 1), AddRule(c, place)
      PROVE  RulesInv'
  <2>1. TableIs(table')
    BY <1>1, AddedIs DEF RulesInv
  <2> QED
    BY <1>1, <2>1 DEF AddRule, RulesInv
<1>2. ASSUME NEW id \in DOMAIN table, DeleteRule(id)
      PROVE  RulesInv'
  <2>1. TableIs(table')
    BY <1>2, DeletedIs DEF RulesInv
  <2> QED
    BY <1>2, <2>1 DEF DeleteRule, RulesInv
<1>3. ASSUME NEW id \in DOMAIN table, NEW place \in 1..MaxRules, MoveRule(id, place)
      PROVE  RulesInv'
  <2>1. TableIs(table')
    BY <1>3, MovedIs DEF RulesInv
  <2> QED
    BY <1>3, <2>1 DEF MoveRule, RulesInv
<1>4. ASSUME UNCHANGED <<table, override, survey>>
      PROVE  RulesInv'
  BY <1>4 DEF RulesInv, TableIs
<1>5. ASSUME NEW c \in Content, Probe(c)
      PROVE  RulesInv'
  BY <1>4, <1>5 DEF Probe
<1>6. ASSUME NEW c \in Content, NEW d \in Decision \union {"none"}, SetOverride(c, d)
      PROVE  RulesInv'
  <2>1. override' \in [Content -> Decision \union {"none"}]
    BY <1>6 DEF SetOverride, RulesInv
  <2> QED
    BY <1>6, <2>1 DEF SetOverride, RulesInv, TableIs
<1>7. ASSUME BuildSurvey
      PROVE  RulesInv'
  <2>1. DOMAIN survey' \subseteq Path
    BY <1>7 DEF BuildSurvey, Surveyed
  <2> QED
    BY <1>7, <2>1 DEF BuildSurvey, RulesInv, TableIs
<1>8. ASSUME NEW cand, OpenSheet(cand)
      PROVE  RulesInv'
  BY <1>4, <1>8 DEF OpenSheet
<1>9. CASE ReadPage \/ CloseSheet \/ UNCHANGED vars
  BY <1>4, <1>9 DEF ReadPage, CloseSheet, vars
<1> QED
  BY <1>1, <1>2, <1>3, <1>5, <1>6, <1>7, <1>8, <1>9 DEF Next

LEMMA RulesHold == Spec => []RulesInv
  BY RulesInit, RulesStep, PTL DEF Spec

\* The counts printed while rules are edited are of the paths, whatever rules,
\* overrides and surveys were written: the two positions, the fold into buckets
\* and the overrides as a correction count what the first matching rule or the
\* override keeps (triage.py:367, 388, 463).
THEOREM CountsAreAlwaysOfThePaths == Spec => []CountsAreOfThePaths
<1>1. RulesInv => CountsAreOfThePaths
  BY CountsAre
<1> QED
  BY <1>1, RulesHold, PTL

\* The preview of one rule, and what adding it does to the count.
LEMMA PreviewedIs ==
  ASSUME RulesInv, NEW c \in Candidate, NEW place, AddRule(c, place),
         KeptPaths(Rules)' = (Cardinality(RulesKeep(Rules)) + Cardinality(Changed(Rules, "include", FALSE))
                                - Cardinality(Changed(Rules, "exclude", TRUE)))',
         \A p \in DOMAIN survey : Takes(c.pred, survey[p]) => override[ContentOf[p]] = "none"
  PROVE  KeptPaths(Rules)' = CandidateKept(Rules, c, place)
<1>1. PICK before, after : before = Rules /\ after = Rules'
  OBVIOUS
<1>2. /\ after = InsertAt(before, place, c) /\ before \in Seq(Rule) /\ c \in Rule
      /\ place \in 1..(Len(before) + 1) /\ Len(before) + 1 < NO_MATCH
  <2>1. Rules' = InsertAt(Rules, place, c) /\ place \in 1..(Len(Rules) + 1) /\ Len(Rules) + 1 < NO_MATCH
    BY RulesAdded DEF RulesInv
  <2>2. Rules \in Seq(Rule)
    BY RulesAre DEF RulesInv
  <2> QED
    BY <1>1, <2>1, <2>2 DEF Candidate, Rule
<1>3. \A b : CandidateKeeps(before, c, place, b) = Kept(after, b)
  BY <1>2, PreviewIsInsertion
<1>4. survey' = survey /\ override' = override
  BY DEF AddRule
<1>5. KeptPaths(Rules)' = Cardinality(RulesKeep(after)) + Cardinality(Changed(after, "include", FALSE))
                             - Cardinality(Changed(after, "exclude", TRUE))
  BY <1>1, <1>4 DEF RulesKeep, Changed
<1>6. RulesKeep(after) = CandidateKeepsOf(before, c, place)
  BY <1>3 DEF RulesKeep, CandidateKeepsOf
<1>7. ASSUME NEW p \in DOMAIN survey, override[ContentOf[p]] # "none"
      PROVE  Kept(after, survey[p]) = Kept(before, survey[p])
  <2>1. ~Takes(c.pred, survey[p])
    BY <1>7
  <2> QED
    BY <1>3, <2>1 DEF CandidateKeeps
<1>8. /\ Changed(after, "include", FALSE) = Changed(before, "include", FALSE)
      /\ Changed(after, "exclude", TRUE) = Changed(before, "exclude", TRUE)
  BY <1>7 DEF Changed
<1> QED
  BY <1>1, <1>5, <1>6, <1>8, CandidateKeptIs

\* A rule added where it was previewed moves the count by exactly what the
\* preview said, when no override speaks of a path it covers, whatever the
\* rules are that it goes among (triage.py:592).
THEOREM PreviewsComeTrue == Spec => PreviewIsWhatAddingDoes
<1> DEFINE Kind == [pred |-> table'[NextId].pred, dec |-> table'[NextId].dec]
           Silent == \A p \in DOMAIN survey : Takes(table'[NextId].pred, survey[p]) => override[ContentOf[p]] = "none"
           Step == NextId \in DOMAIN table' /\ Silent => KeptPaths(Rules)' = CandidateKept(Rules, Kind, table'[NextId].seq)
<1>1. RulesInv => KeptPaths(Rules) = Cardinality(RulesKeep(Rules)) + Cardinality(Changed(Rules, "include", FALSE))
                                       - Cardinality(Changed(Rules, "exclude", TRUE))
  BY KeptPathsAre
<1>2. RulesInv /\ RulesInv' /\ [Next]_vars
        /\ (KeptPaths(Rules) = Cardinality(RulesKeep(Rules)) + Cardinality(Changed(Rules, "include", FALSE))
                                 - Cardinality(Changed(Rules, "exclude", TRUE)))'
      => [Step]_vars
  <2> SUFFICES ASSUME RulesInv, Next, NextId \in DOMAIN table', Silent,
                      (KeptPaths(Rules) = Cardinality(RulesKeep(Rules)) + Cardinality(Changed(Rules, "include", FALSE))
                                            - Cardinality(Changed(Rules, "exclude", TRUE)))'
               PROVE  KeptPaths(Rules)' = CandidateKept(Rules, Kind, table'[NextId].seq)
    OBVIOUS
  <2>1. PICK c \in Candidate, place \in 1..(MaxRules + 1) : AddRule(c, place)
    <3>1. NextId \notin DOMAIN table
      BY NextIdIsNew DEF RulesInv
    <3>2. ASSUME NEW id \in DOMAIN table, DeleteRule(id)
          PROVE  FALSE
      BY <3>1, <3>2, DeletedIs DEF RulesInv
    <3>3. ASSUME NEW id \in DOMAIN table, NEW place \in 1..MaxRules, MoveRule(id, place)
          PROVE  FALSE
      BY <3>1, <3>3, MovedIs DEF RulesInv
    <3>4. table' # table
      BY <3>1
    <3> QED
      BY <3>2, <3>3, <3>4 DEF Next, Probe, SetOverride, BuildSurvey, ReadPage, CloseSheet, OpenSheet
  <2>2. table'[NextId] = [seq |-> place, pred |-> c.pred, dec |-> c.dec]
    BY <2>1, AddedIs DEF RulesInv
  <2>3. Kind = c /\ table'[NextId].seq = place /\ table'[NextId].pred = c.pred
    BY <2>2 DEF Candidate
  <2>4. \A p \in DOMAIN survey : Takes(c.pred, survey[p]) => override[ContentOf[p]] = "none"
    BY <2>3
  <2>5. KeptPaths(Rules)' = CandidateKept(Rules, c, place)
    BY <2>1, <2>4, PreviewedIs
  <2> QED
    BY <2>3, <2>5
<1>3. [][Step]_vars => PreviewIsWhatAddingDoes
  BY PTL DEF PreviewIsWhatAddingDoes
<1> QED
  BY <1>1, <1>2, <1>3, RulesHold, PTL DEF Spec

-----------------------------------------------------------------------------
(* The sheet of the grid.                                                   *)

\* A listing in its order, which nothing shares a place in.
Descends(rows) ==
  /\ Len(rows) \in Nat /\ DOMAIN rows = 1 .. Len(rows) /\ rows \in Seq({rows[i] : i \in 1 .. Len(rows)})
  /\ \A i \in 1 .. Len(rows) : rows[i].place \in Nat \X Nat
  /\ \A i, j \in 1 .. Len(rows) : i < j => Beyond(rows[j].place, rows[i].place)

\* The tiles are numbered apart.
LEMMA IdsRise ==
  ASSUME NEW S \in Sets, NEW p \in S
  PROVE  Id(S, p) \in Nat /\ \A q \in S : p < q => Id(S, p) < Id(S, q)
<1>1. S \subseteq Nat /\ IsFiniteSet(S)
  BY RebuildAssumption, FS_Subset DEF Sets
<1>2. ASSUME NEW q \in S
      PROVE  IsFiniteSet({x \in S : x <= q}) /\ Id(S, q) = Cardinality({x \in S : x <= q}) /\ Id(S, q) \in Nat
  BY <1>1, FS_Subset, FS_CardinalityType DEF Id
<1>3. ASSUME NEW q \in S, p < q
      PROVE  Id(S, p) < Id(S, q)
  <2>1. PICK A, B : A = {x \in S : x <= p} /\ B = {x \in S : x <= q}
    OBVIOUS
  <2>2. A \in SUBSET B /\ q \in B /\ q \notin A
    <3>1. \A x \in S : x \in Nat
      BY <1>1
    <3>2. \A x \in S : x <= p => x <= q
      BY <1>3, <3>1
    <3>3. q <= q /\ ~(q <= p)
      BY <1>3, <3>1
    <3> QED
      BY <2>1, <3>2, <3>3
  <2>3. IsFiniteSet(B) /\ Cardinality(B) \in Nat /\ Cardinality(A) \in Nat
    BY <1>2, <2>1
  <2>4. Cardinality(A) <= Cardinality(B) /\ (Cardinality(A) = Cardinality(B) => A = B)
    BY <2>2, <2>3, FS_Subset
  <2>5. Cardinality(A) < Cardinality(B)
    BY <2>2, <2>3, <2>4
  <2> QED
    BY <1>2, <2>1, <2>5
<1> QED
  BY <1>2, <1>3

LEMMA PlacesOrder ==
  ASSUME NEW S \in Sets, NEW P \in SUBSET S
  PROVE  /\ \A p \in P : Place(S, p) \in Nat \X Nat
         /\ Orders({e \in P \X P : Beyond(Place(S, e[2]), Place(S, e[1]))}, P)
<1>1. PICK R : R = {e \in P \X P : Beyond(Place(S, e[2]), Place(S, e[1]))}
  OBVIOUS
<1>2. \A p \in P : p \in Nat /\ Time[p] \in Nat /\ Id(S, p) \in Nat
  BY RebuildAssumption, SheetAssumption, IdsRise DEF Sets
<1>3. \A p, q \in P : p < q => Id(S, p) < Id(S, q)
  BY IdsRise
<1>4. ASSUME NEW p \in P, NEW q \in P
      PROVE  <<p, q>> \in R <=> Time[q] < Time[p] \/ (Time[q] = Time[p] /\ Id(S, q) < Id(S, p))
  BY <1>1 DEF Beyond, Place
<1>5. \A x \in P : <<x, x>> \notin R
  BY <1>2, <1>4
<1>6. \A x, y, z \in P : <<x, y>> \in R /\ <<y, z>> \in R => <<x, z>> \in R
  BY <1>2, <1>4
<1>7. ASSUME NEW x \in P, NEW y \in P, x # y
      PROVE  <<x, y>> \in R \/ <<y, x>> \in R
  <2>1. x < y \/ y < x
    BY <1>2, <1>7
  <2>2. Id(S, x) < Id(S, y) \/ Id(S, y) < Id(S, x)
    BY <1>3, <2>1
  <2>3. PICK a, b, c, d : a = Time[x] /\ b = Time[y] /\ c = Id(S, x) /\ d = Id(S, y)
    OBVIOUS
  <2>4. a \in Nat /\ b \in Nat /\ c \in Nat /\ d \in Nat /\ (c < d \/ d < c)
    BY <1>2, <2>2, <2>3
  <2>5. (b < a \/ (b = a /\ d < c)) \/ (a < b \/ (a = b /\ c < d))
    BY <2>4
  <2> QED
    BY <1>4, <2>3, <2>5
<1>8. Orders(R, P)
  BY <1>5, <1>6, <1>7 DEF Orders
<1>9. \A p \in P : Place(S, p) \in Nat \X Nat
  BY <1>2 DEF Place
<1> QED
  BY <1>1, <1>8, <1>9

\* ORDER BY lists every row at its place.
LEMMA ListingIs ==
  ASSUME NEW S \in Sets, NEW P \in SUBSET S
  PROVE  /\ Cardinality(P) \in Nat /\ Listing(S, P) \in [1 .. Cardinality(P) -> P]
         /\ \A i, j \in 1 .. Cardinality(P) :
              i < j => Beyond(Place(S, Listing(S, P)[j]), Place(S, Listing(S, P)[i]))
<1>1. PICK R : R = {e \in P \X P : Beyond(Place(S, e[2]), Place(S, e[1]))}
  OBVIOUS
<1>2. IsFiniteSet(P) /\ Cardinality(P) \in Nat
  BY RebuildAssumption, FS_Subset, FS_CardinalityType DEF Sets
<1>3. PICK s \in [1 .. Cardinality(P) -> P] : Rises(s, R)
  BY <1>1, <1>2, PlacesOrder, ListExists
<1>4. \A i, j \in 1 .. Cardinality(P) : i < j => Beyond(Place(S, s[j]), Place(S, s[i]))
  <2> TAKE i, j \in 1 .. Cardinality(P)
  <2> HAVE i < j
  <2>1. <<s[i], s[j]>> \in R
    BY <1>3 DEF Rises
  <2> QED
    BY <1>1, <2>1
<1> QED
  BY <1>2, <1>3, <1>4 DEF Listing

LEMMA RowsAre ==
  ASSUME NEW v \in Views, NEW S \in Sets
  PROVE  Descends(Rows[v][S]) /\ (v = "tiles" => Len(Rows[v][S]) = Cardinality(S))
<1>1. PICK rows : rows = Rows[v][S]
  OBVIOUS
<1>2. ASSUME NEW P \in SUBSET S, NEW list, list = Listing(S, P), DOMAIN rows = 1 .. Cardinality(P),
             rows = [i \in 1 .. Cardinality(P) |-> rows[i]],
             \A i \in 1 .. Cardinality(P) : rows[i].place = Place(S, list[i])
      PROVE  Descends(rows) /\ Len(rows) = Cardinality(P)
  <2>1. PICK n, V : n = Cardinality(P) /\ V = {rows[i] : i \in 1 .. n}
    OBVIOUS
  <2>2. n \in Nat /\ list \in [1 .. n -> P] /\ \A i, j \in 1 .. n : i < j => Beyond(Place(S, list[j]), Place(S, list[i]))
    BY <1>2, <2>1, ListingIs
  <2>3. rows \in [1 .. n -> V]
    BY <1>2, <2>1
  <2>4. rows \in Seq(V) /\ Len(rows) = n
    BY <2>2, <2>3
  <2>5. \A i \in 1 .. n : rows[i].place = Place(S, list[i]) /\ Place(S, list[i]) \in Nat \X Nat
    BY <1>2, <2>1, <2>2, PlacesOrder
  <2>6. \A i, j \in 1 .. n : i < j => Beyond(rows[j].place, rows[i].place)
    BY <2>2, <2>5
  <2> QED
    BY <1>2, <2>1, <2>2, <2>4, <2>5, <2>6 DEF Descends
<1>3. CASE v = "tiles"
  <2>1. PICK list : list = Listing(S, S)
    OBVIOUS
  <2>2. rows = [i \in 1 .. Cardinality(S) |-> TileRow(S, list[i])]
    BY <1>1, <1>3, <2>1 DEF Rows
  <2>3. \A i \in 1 .. Cardinality(S) : rows[i].place = Place(S, list[i])
    BY <2>2 DEF TileRow
  <2> QED
    BY <1>1, <1>2, <2>1, <2>2, <2>3
<1>4. CASE v = "stacks"
  <2>1. PICK P, list : P = Firsts(S) /\ list = Listing(S, P)
    OBVIOUS
  <2>2. rows = [i \in 1 .. Cardinality(P) |-> StackRow(S, list[i])] /\ P \in SUBSET S
    BY <1>1, <1>4, <2>1 DEF Rows, Firsts
  <2>3. \A i \in 1 .. Cardinality(P) : rows[i].place = Place(S, list[i])
    BY <2>2 DEF StackRow
  <2> QED
    BY <1>1, <1>2, <1>4, <2>1, <2>2, <2>3
<1> QED
  BY <1>3, <1>4 DEF Views

LEMMA StepKeepsServing ==
  ASSUME JobInv, MemoInv, looking \in Views, [ScrollNext]_scrollVars
  PROVE  JobInv' /\ MemoInv'
<1>1. ASSUME [GridNext]_<<rebuildVars, gridVars>>
      PROVE  JobInv' /\ MemoInv'
  BY <1>1, ServerKeepsTheJob, ServerKeepsTheMemos
<1>2. ASSUME UNCHANGED rebuildVars, NEW r \in Requests, EndRequest(r) \/ \E v \in Views : Ask(r, v)
      PROVE  JobInv' /\ MemoInv'
  BY <1>1, <1>2 DEF GridNext
<1>3. CASE Server \/ ServerRestarts \/ UNCHANGED scrollVars
  BY <1>1, <1>3 DEF Server, ServerRestarts, GridNext, scrollVars
<1>4. ASSUME NEW r \in Requests, Answer(r) \/ Lost(r)
      PROVE  JobInv' /\ MemoInv'
  BY <1>2, <1>4 DEF Answer, Lost
<1>5. ASSUME LoadNext
      PROVE  JobInv' /\ MemoInv'
  <2>1. UNCHANGED rebuildVars /\ Ask(FreeRequest, looking) /\ FreeRequest \in Requests
    BY <1>5 DEF LoadNext, Send, FreeRequest
  <2> QED
    BY <1>2, <2>1
<1>6. ASSUME NEW v \in Views, Reset(v)
      PROVE  JobInv' /\ MemoInv'
  <2>1. UNCHANGED <<excluded, touched, job, tables, processes>> /\ Spend("view")
    BY <1>6 DEF Reset, Anew
  <2>2. FreeRequest \in Requests /\ Ask(FreeRequest, v)
    BY <1>6 DEF Reset, Send, FreeRequest
  <2>3. MemoInv'
    BY <2>1, <2>2, AskingKeeps
  <2> QED
    BY <2>1, <2>3, QuietKeeps
<1> QED
  BY <1>3, <1>4, <1>5, <1>6 DEF ScrollNext

\* A cursor at a row has passed the rows to it.
LEMMA PassedIs ==
  ASSUME NEW rows, Descends(rows), NEW k \in 0 .. Len(rows), NEW c, c = IF k = 0 THEN <<>> ELSE rows[k].place
  PROVE  Passed(rows, c) = k
<1>1. CASE k = 0
  BY <1>1 DEF Passed
<1>2. CASE k # 0
  <2>1. PICK n : n = Len(rows)
    OBVIOUS
  <2>2. n \in Nat /\ k \in 1 .. n /\ c = rows[k].place /\ c \in Nat \X Nat
    BY <1>2, <2>1 DEF Descends
  <2>3. c # <<>>
    BY <2>2
  <2>4. PICK K : K = {j \in 0 .. n : j = n \/ Beyond(rows[j + 1].place, c)}
    OBVIOUS
  <2>5. k \in K
    <3>1. ASSUME k < n
          PROVE  Beyond(rows[k + 1].place, c)
      <4>1. k + 1 \in 1 .. n /\ k < k + 1
        BY <2>2, <3>1
      <4> QED
        BY <2>1, <2>2, <4>1 DEF Descends
    <3> QED
      BY <2>2, <2>4, <3>1
  <2>6. ASSUME NEW j \in K, j < k
        PROVE  FALSE
    <3>1. j \in 0 .. n /\ j # n /\ j + 1 \in 1 .. n
      BY <2>2, <2>4, <2>6
    <3>2. PICK d : d = rows[j + 1].place
      OBVIOUS
    <3>3. Beyond(d, c) /\ d \in Nat \X Nat
      BY <2>1, <2>4, <3>1, <3>2 DEF Descends
    <3>4. d = c \/ Beyond(c, d)
      <4>1. CASE j + 1 = k
        BY <2>2, <3>2, <4>1
      <4>2. CASE j + 1 # k
        <5>1. j + 1 < k
          BY <2>2, <2>6, <3>1, <4>2
        <5> QED
          BY <2>1, <2>2, <3>1, <3>2, <5>1 DEF Descends
      <4> QED
        BY <4>1, <4>2
    <3>5. d[1] \in Nat /\ d[2] \in Nat /\ c[1] \in Nat /\ c[2] \in Nat
      BY <2>2, <3>3
    <3>6. CASE d = c
      BY <3>3, <3>5, <3>6 DEF Beyond
    <3>7. CASE Beyond(c, d)
      BY <3>3, <3>5, <3>7 DEF Beyond
    <3> QED
      BY <3>4, <3>6, <3>7
  <2>7. K \in SUBSET Nat /\ K # {}
    BY <2>4, <2>5
  <2>8. Min(K) \in K /\ Min(K) <= k
    BY <2>5, <2>7, MinIs
  <2>9. Min(K) = k
    <3>1. Min(K) \in Nat /\ ~(Min(K) < k)
      BY <2>6, <2>7, <2>8
    <3> QED
      BY <2>2, <2>8, <3>1
  <2>10. Passed(rows, c) = Min(K)
    BY <2>1, <2>3, <2>4 DEF Passed
  <2> QED
    BY <2>9, <2>10
<1> QED
  BY <1>1, <1>2

\* A page goes on after the rows on screen, and leaves a cursor at its end.
LEMMA PageIs ==
  ASSUME NEW rows, Descends(rows), NEW S, NEW k \in 0 .. Len(rows), NEW c, c = IF k = 0 THEN <<>> ELSE rows[k].place
  PROVE  \E m \in 0 .. Len(rows) :
           /\ SubSeq(Drawn(rows, S), 1, k) \o Drawn(Slice(rows, c), S) = SubSeq(Drawn(rows, S), 1, m)
           /\ ~HasMore(rows, c) => m = Len(rows)
           /\ HasMore(rows, c) => m # 0 /\ NextCursor(rows, c) = rows[m].place
<1>1. PICK n, m : n = Len(rows) /\ m = IF k + Limit < n THEN k + Limit ELSE n
  OBVIOUS
<1>2. /\ n \in Nat /\ Limit \in Nat /\ Limit # 0 /\ k \in 0 .. n /\ m \in k .. n
      /\ DOMAIN rows = 1 .. n /\ rows \in Seq({rows[i] : i \in 1 .. n})
  <2>1. n \in Nat /\ DOMAIN rows = 1 .. n /\ rows \in Seq({rows[i] : i \in 1 .. n})
    BY <1>1 DEF Descends
  <2>2. Limit \in Nat /\ Limit # 0
    BY SheetAssumption
  <2>3. k \in 0 .. n
    BY <1>1
  <2> HIDE DEF Descends
  <2>4. m \in k .. n
    BY <1>1, <2>1, <2>2, <2>3
  <2> QED
    BY <2>1, <2>2, <2>3, <2>4
<1>3. Passed(rows, c) = k
  BY PassedIs
<1>4. HasMore(rows, c) <=> k + Limit < n
  BY <1>1, <1>3 DEF HasMore
<1>5. Min({k + Limit, n}) = m
  <2>1. {k + Limit, n} \in SUBSET Nat /\ {k + Limit, n} # {}
    BY <1>2
  <2>2. Min({k + Limit, n}) \in {k + Limit, n} /\ Min({k + Limit, n}) <= k + Limit /\ Min({k + Limit, n}) <= n
    BY <2>1, MinIs
  <2> QED
    BY <1>1, <1>2, <2>2
<1>6. Slice(rows, c) = SubSeq(rows, k + 1, m)
  BY <1>1, <1>3, <1>5 DEF Slice
<1>7. PICK all, V : all = Drawn(rows, S) /\ V = {all[i] : i \in 1 .. n}
  OBVIOUS
<1>8. all \in Seq(V) /\ Len(all) = n
  <2>1. all \in [1 .. n -> V]
    BY <1>2, <1>7 DEF Drawn
  <2> QED
    BY <1>2, <2>1
<1>9. Drawn(Slice(rows, c), S) = SubSeq(all, k + 1, m)
  <2>1. PICK page, part : page = SubSeq(rows, k + 1, m) /\ part = SubSeq(all, k + 1, m)
    OBVIOUS
  <2>2. DOMAIN page = 1 .. (m - k) /\ \A i \in 1 .. (m - k) : page[i] = rows[k + i]
    BY <1>2, <2>1
  <2>3. part = [i \in 1 .. (m - k) |-> all[k + i]]
    BY <1>2, <1>8, <2>1
  <2>4. \A i \in 1 .. (m - k) : k + i \in 1 .. n
    BY <1>2
  <2>5. ASSUME NEW i \in 1 .. n
        PROVE  all[i] = [name |-> rows[i].name, photos |-> {Photo(S, id) : id \in rows[i].ids}]
    BY <1>2, <1>7 DEF Drawn
  <2>6. Drawn(page, S) = [i \in 1 .. (m - k) |-> [name |-> page[i].name, photos |-> {Photo(S, id) : id \in page[i].ids}]]
    BY <2>2 DEF Drawn
  <2>7. \A i \in 1 .. (m - k) : [name |-> page[i].name, photos |-> {Photo(S, id) : id \in page[i].ids}] = all[k + i]
    BY <2>2, <2>4, <2>5
  <2>8. Drawn(page, S) = [i \in 1 .. (m - k) |-> all[k + i]]
    BY <2>6, <2>7
  <2> QED
    BY <1>6, <2>1, <2>3, <2>8
<1>10. SubSeq(all, 1, k) \o SubSeq(all, k + 1, m) = SubSeq(all, 1, m)
  <2>1. 1 \in 1 .. Len(all) + 1 /\ k \in 1 - 1 .. Len(all) /\ m \in k .. Len(all)
    BY <1>2, <1>8
  <2> QED
    BY <1>8, <2>1, ConcatAdjacentSubSeq
<1>11. HasMore(rows, c) => m # 0 /\ NextCursor(rows, c) = rows[m].place
  <2> HAVE HasMore(rows, c)
  <2>1. m = k + Limit /\ m # 0
    BY <1>1, <1>2, <1>4
  <2>2. NextCursor(rows, c) = rows[k + Limit].place
    BY <1>3 DEF NextCursor
  <2> QED
    BY <2>1, <2>2
<1>12. m \in 0 .. n /\ (~HasMore(rows, c) => m = n)
  BY <1>1, <1>2, <1>4
<1>13. SubSeq(all, 1, k) \o Drawn(Slice(rows, c), S) = SubSeq(all, 1, m)
  BY <1>9, <1>10
<1> HIDE DEF Descends
<1> QED
  BY <1>1, <1>7, <1>11, <1>12, <1>13, Zenon

\* The requests of the sheet's generation: one at most, and for the next page.
OurRequest ==
  /\ looking \in Views /\ inflight \in BOOLEAN /\ mine \in [Requests -> BOOLEAN] /\ DOMAIN from = Requests
  /\ inflight <=> \E r \in Requests : mine[r]
  /\ \A r, q \in Requests : mine[r] /\ mine[q] => r = q
  /\ \A r \in Requests : mine[r] => at[r] # "idle" /\ view[r] = looking /\ from[r] = cursor /\ ~exhausted

\* While the tiles stay, the memos are of them, and so is what our request took.
MemosOfTheTiles == FreshMemos /\ \A r \in Requests : lock = r => at[r] \in Memos /\ got[r][at[r]] = tiles
InHand(r) ==
  /\ at[r] \in {"assignments", "page"} => got[r]["totals"] = tiles
  /\ at[r] = "page" /\ view[r] = "stacks" => got[r]["assignments"] = tiles
Unmixed == calm => MemosOfTheTiles /\ \A r \in Requests : mine[r] => InHand(r)

\* The rows on screen are the first k, and the cursor stands at the last of them.
ShownTo(rows, all, k) ==
  /\ items = SubSeq(all, 1, k)
  /\ exhausted => k = Len(rows)
  /\ ~exhausted => cursor = IF k = 0 THEN <<>> ELSE rows[k].place
  /\ items # <<>> => total = Len(rows)
Scrolled(rows, all) == exhausted \in BOOLEAN /\ \E k \in 0 .. Len(rows) : ShownTo(rows, all, k)
ScrollInv ==
  /\ JobInv /\ MemoInv /\ OurRequest /\ Unmixed
  /\ calm => Scrolled(Rows[looking][tiles], Drawn(Rows[looking][tiles], tiles))

\* What the server does for our request and for others.
LEMMA ServerKeepsTheRequest ==
  ASSUME MemoInv, OurRequest, Unmixed, Server
  PROVE  OurRequest' /\ Unmixed'
<1> USE GridAssumption DEF Server, Aside, OurRequest, Unmixed
<1>1. CASE RebuildStep /\ UNCHANGED gridVars
  BY <1>1 DEF gridVars, MemosOfTheTiles, InHand, FreshMemos
<1>2. CASE (\E w \in Threads : After(w)) /\ Invalidate
  BY <1>2 DEF After, Invalidate, MemosOfTheTiles, InHand, FreshMemos, NoMemos, Memos
<1>3. CASE \E m \in Memos : Evict(m)
  <2> PICK m \in Memos : Evict(m)
    BY <1>3
  <2>1. UNCHANGED <<tiles, lock, at, view, got, looking, cursor, exhausted, inflight, mine, from>> /\ (calm' => calm)
    BY DEF Evict, tables
  <2>2. \A n \in Memos : memo'[n] \in {memo[n], {}}
    BY DEF Evict, MemoInv, GridTypeOK
  <2>3. OurRequest'
    BY <2>1
  <2>4. MemosOfTheTiles => MemosOfTheTiles'
    BY <2>1, <2>2 DEF MemosOfTheTiles, FreshMemos
  <2>5. \A q \in Requests : InHand(q) => InHand(q)'
    BY <2>1 DEF InHand
  <2> QED
    BY <2>1, <2>3, <2>4, <2>5
<1>4. ASSUME NEW r \in Requests, NEW m \in Memos, Take(r, m) \/ Read(r, m) \/ Fill(r, m), UNCHANGED rebuildVars
      PROVE  OurRequest' /\ Unmixed'
  <2>1. UNCHANGED <<tiles, view, looking, cursor, exhausted, inflight, mine, from>> /\ (calm' => calm)
    BY <1>4 DEF Take, Read, Fill, rebuildVars, tables
  <2>2. at' \in {at, [at EXCEPT ![r] = Following(m, view[r])]} /\ at[r] = m
    BY <1>4 DEF Take, Read, Fill, ToRequest
  <2>3. \A q \in Requests : at[q] # "idle" => at'[q] # "idle"
    BY <2>2 DEF Following, MemoInv, GridTypeOK, Memos
  <2>4. OurRequest'
    BY <2>1, <2>3
  <2>5. ASSUME calm, MemosOfTheTiles, \A q \in Requests : mine[q] => InHand(q)
        PROVE  MemosOfTheTiles' /\ \A q \in Requests : mine[q] => InHand(q)'
    <3>1. CASE Take(r, m)
      <4>1. memo[m] = tiles
        BY <2>5, <3>1 DEF Take, MemosOfTheTiles, FreshMemos
      <4>2. MemosOfTheTiles'
        BY <2>1, <2>5, <3>1 DEF Take, MemosOfTheTiles, FreshMemos
      <4>3. \A q \in Requests : mine[q] => InHand(q)'
        BY <2>1, <2>5, <3>1, <4>1 DEF Take, ToRequest, Following, InHand, MemoInv, GridTypeOK, Memos
      <4> QED
        BY <4>2, <4>3
    <3>2. CASE Read(r, m)
      <4>1. MemosOfTheTiles'
        BY <2>1, <2>5, <3>2 DEF Read, MemosOfTheTiles, FreshMemos, MemoInv, GridTypeOK
      <4>2. \A q \in Requests : mine[q] => InHand(q)'
        BY <2>1, <2>5, <3>2 DEF Read, InHand, MemoInv, GridTypeOK, Memos
      <4> QED
        BY <4>1, <4>2
    <3>3. CASE Fill(r, m)
      <4>1. got[r][m] = tiles
        BY <2>5, <3>3 DEF Fill, MemosOfTheTiles
      <4>2. MemosOfTheTiles'
        BY <2>1, <2>5, <3>3, <4>1 DEF Fill, MemosOfTheTiles, FreshMemos, MemoInv, GridTypeOK
      <4>3. \A q \in Requests : mine[q] => InHand(q)'
        BY <2>1, <2>5, <3>3, <4>1 DEF Fill, ToRequest, Following, InHand, MemoInv, GridTypeOK, Memos
      <4> QED
        BY <4>2, <4>3
    <3> QED
      BY <1>4, <3>1, <3>2, <3>3
  <2> QED
    BY <2>1, <2>4, <2>5
<1> QED
  BY <1>1, <1>2, <1>3, <1>4 DEF GridStep

LEMMA RestartKeepsTheRequest ==
  ASSUME OurRequest, Unmixed, ServerRestarts
  PROVE  OurRequest' /\ Unmixed'
<1> USE GridAssumption DEF ServerRestarts, Restart, Forget
<1>1. OurRequest'
  BY DEF OurRequest
<1>2. Unmixed'
  BY DEF Unmixed, MemosOfTheTiles, FreshMemos, NoMemos, Memos
<1> QED
  BY <1>1, <1>2

\* A request that ends is ours, or not.
LEMMA EndKeepsTheRequest ==
  ASSUME MemoInv, OurRequest, Unmixed, UNCHANGED <<rebuildVars, looking, calm>>,
         NEW r \in Requests, EndRequest(r), Forgotten(r), mine[r] \/ UNCHANGED <<cursor, exhausted>>
  PROVE  OurRequest' /\ Unmixed'
<1> USE DEF EndRequest, Forgotten, ToRequest, rebuildVars, tables
<1>1. \A q \in Requests : mine'[q] => mine[q] /\ q # r /\ at'[q] = at[q] /\ view'[q] = view[q] /\ got'[q] = got[q] /\ from'[q] = from[q]
  BY DEF OurRequest, MemoInv, GridTypeOK
<1>2. OurRequest'
  <2>1. inflight' <=> \E q \in Requests : mine'[q]
    <3>1. CASE mine[r]
      BY <1>1, <3>1 DEF OurRequest
    <3>2. CASE ~mine[r]
      BY <3>2 DEF OurRequest
    <3> QED
      BY <3>1, <3>2
  <2>2. looking' \in Views /\ inflight' \in BOOLEAN /\ mine' \in [Requests -> BOOLEAN] /\ DOMAIN from' = Requests
    BY DEF OurRequest
  <2>3. \A q, o \in Requests : mine'[q] /\ mine'[o] => q = o
    BY <1>1 DEF OurRequest
  <2>4. ASSUME NEW q \in Requests, mine'[q]
        PROVE  at'[q] # "idle" /\ view'[q] = looking' /\ from'[q] = cursor' /\ ~exhausted'
    <3>1. ~mine[r]
      BY <1>1, <2>4 DEF OurRequest
    <3> QED
      BY <1>1, <2>4, <3>1 DEF OurRequest
  <2> QED
    BY <2>1, <2>2, <2>3, <2>4 DEF OurRequest
<1>3. Unmixed'
  <2>1. lock # r
    BY DEF MemoInv, HolderFills, Memos
  <2>2. \A q \in Requests : lock = q => at'[q] = at[q] /\ got'[q] = got[q]
    BY <2>1 DEF MemoInv, GridTypeOK
  <2>3. MemosOfTheTiles => MemosOfTheTiles'
    BY <2>2 DEF MemosOfTheTiles, FreshMemos
  <2>4. ASSUME NEW q \in Requests, mine'[q], mine[q] => InHand(q)
        PROVE  InHand(q)'
    BY <1>1, <2>4 DEF InHand
  <2> QED
    BY <1>1, <2>3, <2>4 DEF Unmixed
<1> QED
  BY <1>2, <1>3

\* A request that is sent is the only one of ours.
LEMMA SendKeepsTheRequest ==
  ASSUME MemoInv, OurRequest, UNCHANGED tables, NEW v \in Views, NEW c, Send(v, c),
         looking' = v, cursor' = c, ~exhausted', calm' => MemosOfTheTiles
  PROVE  OurRequest' /\ Unmixed'
<1> PICK r \in Requests : r = FreeRequest /\ at[r] = "idle" /\ Ask(r, v)
  BY DEF Send, FreeRequest
<1> USE DEF Send, Ask, ToRequest, tables
<1>1. OurRequest'
  BY DEF OurRequest, MemoInv, GridTypeOK
<1>2. lock # r
  BY DEF MemoInv, HolderFills, Memos
<1>3. MemosOfTheTiles => MemosOfTheTiles'
  <2>1. \A q \in Requests : lock = q => at'[q] = at[q] /\ got'[q] = got[q]
    BY <1>2 DEF MemoInv, GridTypeOK
  <2> QED
    BY <2>1 DEF MemosOfTheTiles, FreshMemos
<1>4. \A q \in Requests : mine'[q] => InHand(q)'
  BY DEF InHand, MemoInv, GridTypeOK
<1> QED
  BY <1>1, <1>3, <1>4 DEF Unmixed

\* Nothing is shown but what an answer of our generation brings.
LEMMA ShownStays ==
  ASSUME UNCHANGED <<looking, items, cursor, exhausted, total>>, calm' => calm /\ tiles' = tiles,
         calm => Scrolled(Rows[looking][tiles], Drawn(Rows[looking][tiles], tiles))
  PROVE  (calm => Scrolled(Rows[looking][tiles], Drawn(Rows[looking][tiles], tiles)))'
<1> PICK rows, all : rows = Rows[looking][tiles] /\ all = Drawn(Rows[looking][tiles], tiles)
  OBVIOUS
<1>1. ASSUME calm'
      PROVE  Rows[looking'][tiles'] = rows /\ Drawn(Rows[looking'][tiles'], tiles') = all /\ Scrolled(rows, all)
  BY <1>1
<1>2. Scrolled(rows, all) => Scrolled(rows, all)'
  BY DEF Scrolled, ShownTo
<1> QED
  BY <1>1, <1>2

LEMMA PageIsShown ==
  ASSUME JobInv, OurRequest, Unmixed, calm,
         NEW r \in Requests, Answer(r), mine[r], Scrolled(Rows[looking][tiles], Drawn(Rows[looking][tiles], tiles))
  PROVE  Scrolled(Rows[looking][tiles], Drawn(Rows[looking][tiles], tiles))'
<1>1. PICK v, S, rows, all : v = looking /\ S = tiles /\ rows = Rows[v][S] /\ all = Drawn(rows, S)
  OBVIOUS
<1>2. v \in Views /\ S \in Sets /\ view[r] = v /\ at[r] = "page" /\ ~exhausted /\ InHand(r)
  BY <1>1 DEF OurRequest, JobInv, RebuildTypeOK, Sets, Answer, EndRequest, Unmixed
<1>3. got[r]["totals"] = S /\ Source(r) = S
  BY <1>1, <1>2 DEF InHand, Source
<1>4. PICK c, slice : c = cursor /\ c = from[r] /\ slice = Slice(rows, c)
  BY DEF OurRequest
<1>5. /\ items' = items \o Drawn(slice, S)
      /\ cursor' = NextCursor(rows, c)
      /\ exhausted' = ~HasMore(rows, c)
      /\ total' = IF v = "stacks" THEN Len(rows) ELSE Cardinality(S)
      /\ looking' = v /\ tiles' = S
  BY <1>1, <1>2, <1>3, <1>4 DEF Answer, Wanted, rebuildVars, tables
<1>6. Descends(rows) /\ Len(rows) \in Nat /\ total' = Len(rows)
  <2>1. Descends(rows) /\ (v = "tiles" => Len(rows) = Cardinality(S))
    BY <1>1, <1>2, RowsAre
  <2>2. Len(rows) \in Nat
    BY <2>1 DEF Descends
  <2>3. v # "stacks" => v = "tiles"
    BY <1>2 DEF Views
  <2> HIDE DEF Descends
  <2> QED
    BY <1>5, <2>1, <2>2, <2>3
<1>7. PICK k \in 0 .. Len(rows) : items = SubSeq(all, 1, k) /\ c = IF k = 0 THEN <<>> ELSE rows[k].place
  BY <1>1, <1>2, <1>4 DEF Scrolled, ShownTo
<1>8. PICK m \in 0 .. Len(rows) :
        /\ SubSeq(all, 1, k) \o Drawn(slice, S) = SubSeq(all, 1, m)
        /\ ~HasMore(rows, c) => m = Len(rows)
        /\ HasMore(rows, c) => m # 0 /\ NextCursor(rows, c) = rows[m].place
  <2> HIDE DEF Descends
  <2>1. \E m \in 0 .. Len(rows) :
           /\ SubSeq(Drawn(rows, S), 1, k) \o Drawn(Slice(rows, c), S) = SubSeq(Drawn(rows, S), 1, m)
           /\ ~HasMore(rows, c) => m = Len(rows)
           /\ HasMore(rows, c) => m # 0 /\ NextCursor(rows, c) = rows[m].place
    BY <1>6, <1>7, PageIs
  <2> QED
    BY <1>1, <1>4, <2>1
<1>9. ShownTo(rows, all, m)'
  BY <1>5, <1>6, <1>7, <1>8 DEF ShownTo
<1>10. exhausted' \in BOOLEAN
  BY <1>5
<1>11. Scrolled(rows, all)'
  BY <1>9, <1>10 DEF Scrolled
<1>12. Rows[looking'][tiles'] = rows /\ Drawn(Rows[looking'][tiles'], tiles') = all
  BY <1>1, <1>5
<1> QED
  BY <1>11, <1>12

\* A view that is come to shows nothing yet.
LEMMA NothingIsShown ==
  ASSUME looking' \in Views, tiles' \in Sets, items' = <<>>, cursor' = <<>>, exhausted' = FALSE
  PROVE  Scrolled(Rows[looking][tiles], Drawn(Rows[looking][tiles], tiles))'
<1>1. PICK rows, all : rows = Rows[looking'][tiles'] /\ all = Drawn(rows, tiles')
  OBVIOUS
<1>2. Len(rows) \in Nat
  BY <1>1, RowsAre DEF Descends
<1>3. SubSeq(all, 1, 0) = <<>>
  BY SubSeqEmpty
<1>4. 0 \in 0 .. Len(rows) /\ ShownTo(rows, all, 0)'
  BY <1>2, <1>3 DEF ShownTo
<1>5. Scrolled(rows, all)'
  BY <1>4 DEF Scrolled
<1> QED
  BY <1>1, <1>5

LEMMA ScrollStarts == ScrollInit => ScrollInv
<1> SUFFICES ASSUME ScrollInit PROVE ScrollInv
  OBVIOUS
<1> USE DEF ScrollInit
<1>1. JobInv /\ MemoInv
  BY JobStarts, MemosStart
<1>2. OurRequest
  BY DEF OurRequest
<1>3. Unmixed
  BY GridAssumption DEF Unmixed, MemosOfTheTiles, FreshMemos, GridInit, NoMemos, Memos
<1>4. Scrolled(Rows[looking][tiles], Drawn(Rows[looking][tiles], tiles))
  <2>1. PICK rows, all : rows = Rows[looking][tiles] /\ all = Drawn(Rows[looking][tiles], tiles)
    OBVIOUS
  <2>2. tiles \in Sets
    BY <1>1 DEF JobInv, RebuildTypeOK, Sets
  <2>3. Len(rows) \in Nat
    BY <2>1, <2>2, RowsAre DEF Descends
  <2>4. SubSeq(all, 1, 0) = <<>>
    BY SubSeqEmpty
  <2>5. 0 \in 0 .. Len(rows) /\ ShownTo(rows, all, 0)
    BY <2>3, <2>4 DEF ShownTo
  <2>6. Scrolled(rows, all)
    BY <2>5 DEF Scrolled
  <2> QED
    BY <2>1, <2>6
<1> QED
  BY <1>1, <1>2, <1>3, <1>4 DEF ScrollInv

\* The page a view begins with, and each page after it.
LEMMA ResetKeeps == ASSUME ScrollInv, NEW v \in Views, Reset(v) PROVE ScrollInv'
<1> USE DEF Reset, Anew
<1>1. JobInv' /\ MemoInv'
  BY StepKeepsServing DEF ScrollInv, OurRequest, ScrollNext
<1>2. OurRequest' /\ Unmixed'
  <2>1. calm' => MemosOfTheTiles
    BY DEF ScrollInv, MemoInv, HeardMemosAreFresh, MemosOfTheTiles
  <2>2. Send(v, <<>>) /\ looking' = v /\ cursor' = <<>> /\ ~exhausted' /\ UNCHANGED tables
    OBVIOUS
  <2>3. MemoInv /\ OurRequest
    BY DEF ScrollInv
  <2> HIDE DEF Reset, Anew
  <2> QED
    BY <2>1, <2>2, <2>3, SendKeepsTheRequest
<1>3. Scrolled(Rows[looking][tiles], Drawn(Rows[looking][tiles], tiles))'
  <2>1. tiles' \in Sets
    BY DEF ScrollInv, JobInv, RebuildTypeOK, Sets, tables
  <2>2. looking' \in Views /\ items' = <<>> /\ cursor' = <<>> /\ exhausted' = FALSE
    OBVIOUS
  <2> QED
    BY <2>1, <2>2, NothingIsShown
<1> QED
  BY <1>1, <1>2, <1>3 DEF ScrollInv

LEMMA LoadNextKeeps == ASSUME ScrollInv, LoadNext PROVE ScrollInv'
<1> USE DEF LoadNext
<1>1. JobInv' /\ MemoInv'
  BY StepKeepsServing DEF ScrollInv, OurRequest, ScrollNext
<1>2. OurRequest' /\ Unmixed'
  <2>1. calm' => MemosOfTheTiles
    BY DEF ScrollInv, Unmixed
  <2>2. Send(looking, cursor) /\ looking' = looking /\ cursor' = cursor /\ ~exhausted' /\ UNCHANGED tables
    BY DEF rebuildVars, tables
  <2>3. MemoInv /\ OurRequest /\ looking \in Views
    BY DEF ScrollInv, OurRequest
  <2> HIDE DEF LoadNext
  <2> QED
    BY <2>1, <2>2, <2>3, SendKeepsTheRequest
<1>3. (calm => Scrolled(Rows[looking][tiles], Drawn(Rows[looking][tiles], tiles)))'
  BY ShownStays DEF ScrollInv, rebuildVars, tables
<1> QED
  BY <1>1, <1>2, <1>3 DEF ScrollInv

\* An answer of another generation, and one that is an error, show nothing.
LEMMA AnswerKeeps == ASSUME ScrollInv, NEW r \in Requests, Answer(r) \/ Lost(r) PROVE ScrollInv'
<1>1. JobInv' /\ MemoInv'
  BY StepKeepsServing DEF ScrollInv, OurRequest, ScrollNext
<1>2. UNCHANGED <<rebuildVars, looking, calm>> /\ EndRequest(r) /\ Forgotten(r)
  BY DEF Answer, Lost
<1>3. OurRequest' /\ Unmixed'
  <2>1. mine[r] \/ UNCHANGED <<cursor, exhausted>>
    BY DEF Answer, Lost, Wanted
  <2> QED
    BY <1>2, <2>1, EndKeepsTheRequest DEF ScrollInv
<1>4. (calm => Scrolled(Rows[looking][tiles], Drawn(Rows[looking][tiles], tiles)))'
  <2>1. CASE UNCHANGED <<items, cursor, exhausted, total>>
    BY <1>2, <2>1, ShownStays DEF ScrollInv, rebuildVars, tables
  <2>2. CASE Answer(r) /\ mine[r] /\ calm
    BY <2>2, PageIsShown DEF ScrollInv
  <2> QED
    BY <1>2, <2>1, <2>2 DEF Answer, Lost, Wanted
<1> QED
  BY <1>1, <1>3, <1>4 DEF ScrollInv

LEMMA ScrollKeeps == ASSUME ScrollInv, [ScrollNext]_scrollVars PROVE ScrollInv'
<1>1. JobInv' /\ MemoInv'
  BY StepKeepsServing DEF ScrollInv, OurRequest
<1>2. CASE Server
  <2>1. OurRequest' /\ Unmixed'
    BY <1>2, ServerKeepsTheRequest DEF ScrollInv
  <2>2. (calm => Scrolled(Rows[looking][tiles], Drawn(Rows[looking][tiles], tiles)))'
    <3>1. UNCHANGED <<looking, items, cursor, exhausted, total>> /\ (calm' => calm /\ tiles' = tiles)
      BY <1>2 DEF Server, Aside
    <3> QED
      BY <3>1, ShownStays DEF ScrollInv
  <2> QED
    BY <1>1, <2>1, <2>2 DEF ScrollInv
<1>3. CASE ServerRestarts
  <2>1. OurRequest' /\ Unmixed'
    BY <1>3, RestartKeepsTheRequest DEF ScrollInv
  <2>2. (calm => Scrolled(Rows[looking][tiles], Drawn(Rows[looking][tiles], tiles)))'
    <3>1. UNCHANGED <<looking, items, cursor, exhausted, total, calm, tiles>>
      BY <1>3 DEF ServerRestarts, Restart
    <3> QED
      BY <3>1, ShownStays DEF ScrollInv
  <2> QED
    BY <1>1, <2>1, <2>2 DEF ScrollInv
<1>4. CASE UNCHANGED scrollVars
  <2> USE <1>4 DEF scrollVars, rebuildVars, tables, gridVars, sheetVars
  <2>1. OurRequest' /\ Unmixed'
    BY DEF ScrollInv, OurRequest, Unmixed, MemosOfTheTiles, FreshMemos, InHand
  <2>2. (calm => Scrolled(Rows[looking][tiles], Drawn(Rows[looking][tiles], tiles)))'
    BY ShownStays DEF ScrollInv
  <2> QED
    BY <1>1, <2>1, <2>2 DEF ScrollInv
<1> QED
  BY <1>2, <1>3, <1>4, LoadNextKeeps, AnswerKeeps, ResetKeeps DEF ScrollNext

LEMMA ScrollInvShows == ScrollInv => SheetIsTheView
<1> SUFFICES ASSUME ScrollInv, calm PROVE SheetIsTheView
  BY DEF SheetIsTheView
<1>1. PICK rows, all : rows = Rows[looking][tiles] /\ all = Drawn(rows, tiles)
  OBVIOUS
<1>2. PICK n : n = Len(rows) /\ n \in Nat /\ DOMAIN rows = 1 .. n
  <2>1. looking \in Views /\ tiles \in Sets
    BY DEF ScrollInv, OurRequest, JobInv, RebuildTypeOK, Sets
  <2>2. Descends(rows)
    BY <1>1, <2>1, RowsAre
  <2> QED
    BY <2>2 DEF Descends
<1>3. PICK V : V = {all[i] : i \in 1 .. n}
  OBVIOUS
<1>4. all \in Seq(V) /\ Len(all) = n
  <2>1. all \in [1 .. n -> V]
    BY <1>1, <1>2, <1>3 DEF Drawn
  <2> QED
    BY <1>2, <2>1
<1>5. PICK k \in 0 .. n : ShownTo(rows, all, k)
  BY <1>1, <1>2 DEF ScrollInv, Scrolled
<1>6. items = SubSeq(all, 1, k) /\ Len(SubSeq(all, 1, k)) = k
  BY <1>2, <1>4, <1>5 DEF ShownTo
<1>7. exhausted => items = all
  BY <1>2, <1>4, <1>5, <1>6, SubSeqFull DEF ShownTo
<1>8. items # <<>> => total = Len(all)
  BY <1>2, <1>4, <1>5 DEF ShownTo
<1> QED
  BY <1>1, <1>6, <1>7, <1>8 DEF SheetIsTheView

\* How the sheet, the request it waits for and the memos stand to each other,
\* through rebuilds, restarts, changes of the view and late answers.
THEOREM ScrollInvariant == ScrollSpec => []ScrollInv
<1>1. ScrollInit => ScrollInv
  BY ScrollStarts
<1>2. ScrollInv /\ [ScrollNext]_scrollVars => ScrollInv'
  BY ScrollKeeps
<1> QED
  BY <1>1, <1>2, PTL DEF ScrollSpec

\* Whatever answers of another view land late, and however the memos were filled,
\* dropped or thrown out, the sheet shows the first rows of its view in their
\* order until the end, and reserves its length (sheet.js, grid.py).
THEOREM SheetAlwaysIsTheView == ScrollSpec => []SheetIsTheView
<1>1. ScrollInv => SheetIsTheView
  BY ScrollInvShows
<1> QED
  BY <1>1, ScrollInvariant, PTL

\* The job and the memos keep their promises under the sheet's requests too
\* (rebuild.py, grid.py).
THEOREM ServesTheSheet == ScrollSpec => [](OneRunInOrder /\ DoneIsShown)
<1>1. JobInv /\ MemoInv => OneRunInOrder /\ DoneIsShown
  BY JobPromises
<1>2. ScrollInv => JobInv /\ MemoInv
  BY DEF ScrollInv
<1> QED
  BY <1>1, <1>2, ScrollInvariant, PTL

=============================================================================
