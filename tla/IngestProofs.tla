---------------------------- MODULE IngestProofs ----------------------------
(***************************************************************************)
(* Ingest: for every set of files and every bound, the rows go forward and *)
(* agree with the disk.  The invariant follows an answer from the tier it  *)
(* was computed from, through the queue, to the row it becomes.            *)
(*                                                                         *)
(* DecodePool, the pool those answers come from: at most one of them       *)
(* reaches the caller for each task, and none is lost unseen, for any      *)
(* number of tasks, workers, pumps and deaths.  That invariant is about    *)
(* what a queue holds and not about where: Has, Once and InOrder say what  *)
(* the argument needs of a sequence, and its first lemmas how Append and   *)
(* Tail change it.                                                         *)
(***************************************************************************)
EXTENDS Ingest, DecodePool, Integers, SequenceTheorems, TLAPS

Pass == {"idle", "begin", "hash", "repair", "features", "retry", "clear", "stage", "decode", "copy"}

Answer == {"read", "turned", "error", "upright", "sideways", "staged", "made"}

\* What an answer of each pass can say.
Answers(pass) ==
    CASE pass = "hash" -> {"read"}
      [] pass = "repair" -> {"turned"}
      [] pass \in {"features", "retry"} -> {"error", "upright", "sideways", "turned"}
      [] pass = "stage" -> {"staged"}
      [] pass = "decode" -> {"error", "made"}
      [] OTHER -> {}

Jobs == [at : Pass, plan : Seq(Pass), todo : SUBSET File, half : SUBSET (File \X Tier),
         queue : SUBSET (File \X Answer), seen : [File -> Row]]
Runs == [Process -> Jobs]

Types ==
    /\ row \in [File -> Row] /\ blob \subseteq File /\ pasted \subseteq File
    /\ deriv \in [File -> {"none", "turned", "made"}]
    /\ tile \in [File -> {"none", "copy", "turned", "made"}]
    /\ run \in Runs
    /\ world \in Worlds

\* The passes of each program.
PassesOf(p) ==
    CASE p = "2a" -> {"hash", "repair", "features", "retry"}
      [] p = "2b" -> {"clear", "stage", "decode"}
      [] OTHER -> {"copy"}

Places ==
    \A p \in Process :
        /\ run[p].at \in {"idle", "begin"} \union PassesOf(p) /\ run[p].plan \in Seq(PassesOf(p))
        /\ \A q \in run[p].queue : q[2] \in Answers(run[p].at)

\* A tier is as a pass made it, unless thumbnails wrote over it.
Made(f, t, pixels) ==
    IF t = "substrate" THEN deriv[f] = pixels ELSE tile[f] = pixels \/ f \in pasted

\* What a row records of the pixels.
Recorded ==
    \A f \in File :
        /\ row[f].st = "none" => row[f].rot = "null" /\ row[f].quality = "null"
        /\ row[f].rot = "turned" => f \in Sideways
        /\ row[f].quality = "made" => f \in Decodable
        /\ row[f].rot = "null" => row[f].quality \in {"null", "error"}

\* A file being repaired was never measured, and its tiers come out turned.
Repairs ==
    run["2a"].at = "repair" =>
        /\ \A f \in run["2a"].todo : f \in Sideways /\ row[f].rot = "null"
        /\ \A h \in run["2a"].half : Made(h[1], h[2], "turned") /\ h[1] \in run["2a"].todo
        /\ \A q \in run["2a"].queue : /\ q[1] \in Sideways \ run["2a"].todo /\ row[q[1]].rot = "null"
                                      /\ \A t \in Tier : Made(q[1], t, "turned")

\* Whether a file is turned is the same when it is listed, measured and written.
Measures ==
    run["2a"].at \in {"features", "retry"} =>
        /\ \A f \in run["2a"].todo : run["2a"].seen[f].rot = "turned" <=> row[f].rot = "turned"
        /\ \A q \in run["2a"].queue : /\ row[q[1]].rot = "turned" => q[2] \in {"turned", "error"}
                                      /\ q[2] = "turned" => row[q[1]].rot = "turned"

\* What phase2b decoded is on disk when it is queued.
Decodes ==
    run["2b"].at = "decode" =>
        /\ run["2b"].todo \subseteq Decodable
        /\ \A h \in run["2b"].half : Made(h[1], h[2], "made") /\ h[1] \in run["2b"].todo
        /\ \A q \in run["2b"].queue : /\ q[1] \in Decodable
                                      /\ q[2] = "made" => \A t \in Tier : Made(q[1], t, "made")

\* A copy that was verified stays until promotion has moved its row on.
Stages ==
    run["2b"].at = "stage" =>
        \A q \in run["2b"].queue : q[1] \in blob \/ row[q[1]].st \notin {"none", "pending"}

IngestInv ==
    /\ Types /\ Places /\ Recorded /\ Repairs /\ Measures /\ Decodes /\ Stages
    /\ PixelsAreAsRecorded /\ StagedIsThere

-----------------------------------------------------------------------------
(* How the steps change `run`.                                             *)

LEMMA RunChanges ==
  ASSUME run \in Runs, NEW p \in Process, NEW job \in Jobs, run' = [run EXCEPT ![p] = job]
  PROVE  run' \in Runs /\ run'[p] = job /\ \A r \in Process \ {p} : run'[r] = run[r]
  BY DEF Runs

LEMMA JobTypes ==
  ASSUME NEW at \in Pass, NEW plan \in Seq(Pass), NEW todo \in SUBSET File,
         NEW half \in SUBSET (File \X Tier), NEW queue \in SUBSET (File \X Answer),
         NEW seen \in [File -> Row]
  PROVE  Job(at, plan, todo, half, queue, seen) \in Jobs
  BY DEF Job, Jobs

LEMMA IdleTypes == NoRow \in Row /\ Idle \in Jobs /\ \A plan \in Seq(Pass) : Blank("begin", plan) \in Jobs
<1>1. NoRow \in Row
  BY DEF NoRow, Row
<1>2. [f \in File |-> NoRow] \in [File -> Row]
  BY <1>1
<1>3. "idle" \in Pass /\ "begin" \in Pass /\ <<>> \in Seq(Pass)
  BY DEF Pass
<1> QED
  BY <1>1, <1>2, <1>3, JobTypes DEF Idle, Blank

LEMMA WorkTypes ==
  ASSUME run \in Runs
  PROVE  /\ "2a" \in Process /\ "2b" \in Process
         /\ \A p \in Process :
              /\ run[p].at \in Pass /\ run[p].todo \subseteq File /\ run[p].seen \in [File -> Row]
              /\ \A h \in run[p].half : h[1] \in File /\ h[2] \in Tier
              /\ \A q \in run[p].queue : q[1] \in File /\ q[2] \in Answer
  BY DEF Runs, Jobs, Process

\* An answer leaves the pass, what was listed and the other processes alone.
LEMMA AnswerChanges ==
  ASSUME run \in Runs, NEW p \in Process, NEW f \in File, NEW values \in SUBSET Answer,
         Answered(p, f, values)
  PROVE  /\ run' \in Runs
         /\ run'[p].at = run[p].at /\ run'[p].seen = run[p].seen
         /\ run'[p].todo = run[p].todo \ {f}
         /\ run'[p].half = {h \in run[p].half : h[1] # f}
         /\ run'[p].queue = run[p].queue \union {<<f, v>> : v \in values}
         /\ \A r \in Process \ {p} : run'[r] = run[r]
<1> DEFINE todo == run[p].todo \ {f}
           half == {h \in run[p].half : h[1] # f}
           queue == run[p].queue \union {<<f, v>> : v \in values}
           job == Job(run[p].at, run[p].plan, todo, half, queue, run[p].seen)
<1>1. /\ todo \in SUBSET File /\ half \in SUBSET (File \X Tier) /\ queue \in SUBSET (File \X Answer)
      /\ run[p].at \in Pass /\ run[p].plan \in Seq(Pass) /\ run[p].seen \in [File -> Row]
  BY DEF Runs, Jobs
<1>2. run' = [run EXCEPT ![p] = job]
  BY DEF Answered, Runs
<1> HIDE DEF todo, half, queue
<1>3. job \in Jobs
  BY <1>1, JobTypes
<1>4. run' \in Runs /\ run'[p] = job /\ \A r \in Process \ {p} : run'[r] = run[r]
  BY <1>2, <1>3, RunChanges
<1> QED
  BY <1>4 DEF Job, todo, half, queue

\* A tier put down goes into `half`.
LEMMA HalfChanges ==
  ASSUME run \in Runs, NEW p \in Process, NEW f \in File, NEW tier \in Tier, Half(p, f, tier)
  PROVE  /\ run' \in Runs
         /\ run'[p].at = run[p].at /\ run'[p].seen = run[p].seen /\ run'[p].todo = run[p].todo
         /\ run'[p].queue = run[p].queue /\ run'[p].half = run[p].half \union {<<f, tier>>}
         /\ \A r \in Process \ {p} : run'[r] = run[r]
<1> DEFINE half == run[p].half \union {<<f, tier>>}
           job == Job(run[p].at, run[p].plan, run[p].todo, half, run[p].queue, run[p].seen)
<1>1. /\ run[p].todo \in SUBSET File /\ half \in SUBSET (File \X Tier) /\ run[p].queue \in SUBSET (File \X Answer)
      /\ run[p].at \in Pass /\ run[p].plan \in Seq(Pass) /\ run[p].seen \in [File -> Row]
  BY DEF Runs, Jobs
<1>2. run' = [run EXCEPT ![p] = job]
  BY DEF Half, Runs
<1> HIDE DEF half
<1>3. job \in Jobs
  BY <1>1, JobTypes
<1>4. run' \in Runs /\ run'[p] = job /\ \A r \in Process \ {p} : run'[r] = run[r]
  BY <1>2, <1>3, RunChanges
<1> QED
  BY <1>4 DEF Job, half

-----------------------------------------------------------------------------
(* The steps.                                                              *)

LEMMA IngestStarts == Init => IngestInv
<1> SUFFICES ASSUME Init PROVE IngestInv
  OBVIOUS
<1> USE IngestAssumption DEF Init
<1>1. NoRow \in Row /\ run \in Runs
  BY IdleTypes DEF Runs
<1>3. Types
  BY <1>1 DEF Types
<1>4. \A p \in Process : run[p].at = "idle" /\ run[p].plan = <<>> /\ run[p].queue = {}
  BY DEF Idle, Blank, Job
<1>6. \A S : <<>> \in Seq(S)
  OBVIOUS
<1>7. Places /\ Repairs /\ Measures /\ Decodes /\ Stages
  BY <1>4, <1>6 DEF Places, Repairs, Measures, Decodes, Stages, Process
<1>5. Recorded /\ PixelsAreAsRecorded /\ StagedIsThere
  BY DEF Recorded, PixelsAreAsRecorded, StagedIsThere, NoRow
<1> QED
  BY <1>3, <1>5, <1>7 DEF IngestInv

\* Rows that are put are pending or adopted and measured by nobody.
LEMMA PutKeeps == ASSUME IngestInv, Adopt \/ Inventory PROVE IngestInv'
<1> USE DEF IngestInv, disk, bounds
<1>1. \A f \in File : \/ row'[f] = row[f]
                      \/ /\ row[f].st = "none" /\ row'[f] \in Row /\ row'[f].rot = "null"
                         /\ row'[f].quality = "null" /\ row'[f].st \in {"pending", "adopted"}
  BY DEF Adopt, Inventory, NoRow, Row
<1>2. row' \in [File -> Row]
  BY <1>1 DEF Adopt, Inventory, Types
<1>3. UNCHANGED <<run, deriv, tile, blob, pasted, world>>
  BY DEF Adopt, Inventory
<1>4. Types'
  BY <1>2, <1>3 DEF Types
<1>5. Places'
  BY <1>3 DEF Places
<1>6. Recorded' /\ PixelsAreAsRecorded' /\ StagedIsThere'
  BY <1>1, <1>3 DEF Recorded, PixelsAreAsRecorded, StagedIsThere
<1>7. Repairs'
  BY <1>1, <1>3, WorkTypes DEF Types, Repairs, Made, Recorded
<1>8. Measures'
  BY <1>1, <1>3, WorkTypes DEF Types, Measures, Recorded
<1>9. Decodes' /\ Stages'
  BY <1>1, <1>3, WorkTypes DEF Types, Decodes, Stages, Made
<1> QED
  BY <1>4, <1>5, <1>6, <1>7, <1>8, <1>9

\* A process that begins or ends has nothing in hand.
LEMMA ResetKeeps ==
  ASSUME IngestInv, NEW p \in Process, NEW job \in Jobs, run' = [run EXCEPT ![p] = job],
         job.at \in {"idle", "begin"}, job.plan \in Seq(PassesOf(p)), job.queue = {},
         UNCHANGED <<row, deriv, tile, blob, pasted, world>>
  PROVE  IngestInv'
<1> USE DEF IngestInv
<1>1. run' \in Runs /\ run'[p] = job /\ \A r \in Process \ {p} : run'[r] = run[r]
  BY RunChanges DEF Types
<1>2. Types'
  BY <1>1 DEF Types
<1>3. Places'
  BY <1>1 DEF Places
<1>4. Recorded' /\ PixelsAreAsRecorded' /\ StagedIsThere'
  BY DEF Recorded, PixelsAreAsRecorded, StagedIsThere
<1>5. Repairs'
  BY <1>1, WorkTypes DEF Types, Repairs, Made
<1>6. Measures'
  BY <1>1, WorkTypes DEF Types, Measures
<1>7. Decodes' /\ Stages'
  BY <1>1, WorkTypes DEF Types, Decodes, Stages, Made
<1> QED
  BY <1>2, <1>3, <1>4, <1>5, <1>6, <1>7

\* A worklist holds what its pass may touch, as the rows are.
LEMMA NextPassKeeps == ASSUME IngestInv, NEW p \in Process, NextPass(p), world' = world PROVE IngestInv'
<1> USE DEF IngestInv
<1>0. run \in Runs
  BY DEF Types
<1>1. CASE run[p].plan = <<>>
  <2>1. UNCHANGED <<row, deriv, tile, blob, pasted, world>> /\ run' = [run EXCEPT ![p] = Idle]
    BY <1>1 DEF NextPass, disk
  <2>2. Idle.at = "idle" /\ Idle.plan = <<>> /\ Idle.queue = {}
    BY DEF Idle, Blank, Job
  <2>3. Idle.plan \in Seq(PassesOf(p)) /\ Idle \in Jobs
    BY <2>2, IdleTypes
  <2> QED
    BY <2>1, <2>2, <2>3, ResetKeeps
<1>2. CASE run[p].plan # <<>>
  <2> DEFINE coming == Head(run[p].plan)
             todo == Worklist(coming) \cap world.files
             seen == [f \in File |-> IF f \in todo THEN row[f] ELSE NoRow]
             job == Job(coming, Tail(run[p].plan), todo, {}, {}, seen)
  <2>1. run' = [run EXCEPT ![p] = job] /\ UNCHANGED <<deriv, tile, blob, pasted>>
    BY <1>2, <1>0 DEF NextPass, disk, Runs
  <2>2. coming \in PassesOf(p) /\ Tail(run[p].plan) \in Seq(PassesOf(p))
    BY <1>2, HeadTailProperties DEF Places, coming
  <2>3. PassesOf(p) \subseteq Pass /\ Tail(run[p].plan) \in Seq(Pass)
    <3>1. run[p].plan \in Seq(Pass)
      BY <1>0 DEF Runs, Jobs
    <3>2. PassesOf(p) \subseteq Pass
      BY DEF PassesOf, Pass, Process
    <3> QED
      BY <1>2, <3>1, <3>2, HeadTailProperties
  <2>4. todo \subseteq File
    BY IngestAssumption DEF Types
  <2>5. seen \in [File -> Row] /\ \A f \in todo : seen[f] = row[f]
    BY <2>4, IdleTypes DEF Types
  <2> HIDE DEF coming, todo, seen
  <2>6. job \in Jobs
    BY <2>2, <2>3, <2>4, <2>5, JobTypes
  <2>7. run' \in Runs /\ run'[p] = job /\ \A r \in Process \ {p} : run'[r] = run[r]
    BY <1>0, <2>1, <2>6, RunChanges
  <2>8. /\ coming # "clear" => row' = row
        /\ \A f \in File : row'[f].st = row[f].st /\ row'[f].path = row[f].path /\ row'[f].rot = row[f].rot
        /\ \A f \in File : row'[f].quality \in {row[f].quality, "null"}
        /\ row' \in [File -> Row]
    <3>1. CASE coming = "clear"
      <4>1. row' = [f \in File |-> IF /\ row[f].quality = "error" /\ f \in Decodable
                                     /\ row[f].st \in {"read", "staged", "published"}
                                  THEN [row[f] EXCEPT !.quality = "null"] ELSE row[f]]
        BY <1>2, <3>1 DEF NextPass, coming
      <4> QED
        BY <4>1, <3>1 DEF Types, Row
    <3>2. CASE coming # "clear"
      <4>1. row' = row
        BY <1>2, <3>2 DEF NextPass, coming
      <4> QED
        BY <4>1 DEF Types
    <3> QED
      BY <3>1, <3>2
  <2>9. Types'
    BY <2>1, <2>7, <2>8 DEF Types
  <2>10. Places'
    <3>1. job.plan = Tail(run[p].plan) /\ job.queue = {} /\ job.at = coming
      BY DEF Job
    <3> HIDE DEF job
    <3>2. /\ run'[p].at \in PassesOf(p) /\ run'[p].queue = {}
          /\ run'[p].plan \in Seq(PassesOf(p))
      BY <2>2, <2>7, <3>1
    <3>3. ASSUME NEW r \in Process
          PROVE  /\ run'[r].at \in {"idle", "begin"} \union PassesOf(r)
                 /\ run'[r].plan \in Seq(PassesOf(r))
                 /\ \A q \in run'[r].queue : q[2] \in Answers(run'[r].at)
      <4>1. CASE r = p
        BY <3>2, <4>1
      <4>2. CASE r # p
        BY <2>7, <4>2 DEF Places
      <4> QED
        BY <4>1, <4>2
    <3> QED
      BY <3>3 DEF Places
  <2>11. Recorded' /\ PixelsAreAsRecorded' /\ StagedIsThere'
    <3>1. Recorded'
      BY <2>8 DEF Recorded
    <3>2. PixelsAreAsRecorded'
      BY <2>1, <2>8 DEF PixelsAreAsRecorded
    <3>3. StagedIsThere'
      BY <2>1, <2>8, <1>0 DEF StagedIsThere, NextPass, disk
    <3> QED
      BY <3>1, <3>2, <3>3
  <2>12. Repairs'
    <3>1. CASE p = "2a" /\ coming = "repair"
      <4>1. \A f \in todo : f \in Sideways /\ row'[f].rot = "null"
        BY <3>1, <2>4, <2>8 DEF todo, Worklist, RepairList
      <4> QED
        BY <3>1, <2>7, <4>1 DEF Repairs, Job
    <3>2. CASE p = "2a" /\ coming # "repair"
      BY <3>2, <2>7 DEF Repairs, Job
    <3>3. CASE p # "2a"
      <4>1. run'["2a"] = run["2a"]
        BY <3>3, <1>0, <2>7, WorkTypes
      <4> QED
        BY <4>1, <1>0, <2>1, <2>8, WorkTypes DEF Repairs, Made
    <3> QED
      BY <3>1, <3>2, <3>3
  <2>13. Measures'
    <3>1. CASE p = "2a"
      BY <3>1, <2>4, <2>5, <2>7, <2>8 DEF Measures, Job
    <3>2. CASE p # "2a"
      <4>1. run'["2a"] = run["2a"]
        BY <3>2, <1>0, <2>7, WorkTypes
      <4> QED
        BY <4>1, <1>0, <2>8, WorkTypes DEF Measures
    <3> QED
      BY <3>1, <3>2
  <2>14. Decodes'
    <3>1. CASE p = "2b" /\ coming = "decode"
      <4>1. todo \subseteq Decodable
        BY <3>1 DEF todo, Worklist, DecodeList
      <4> QED
        BY <3>1, <2>7, <4>1 DEF Decodes, Job
    <3>2. CASE p = "2b" /\ coming # "decode"
      BY <3>2, <2>7 DEF Decodes, Job
    <3>3. CASE p # "2b"
      BY <3>3, <1>0, <2>1, <2>7, WorkTypes DEF Decodes, Made
    <3> QED
      BY <3>1, <3>2, <3>3
  <2>15. Stages'
    <3>1. CASE p = "2b"
      BY <3>1, <2>7 DEF Stages, Job
    <3>2. CASE p # "2b"
      <4>1. run'["2b"] = run["2b"]
        BY <3>2, <1>0, <2>7, WorkTypes
      <4> QED
        BY <4>1, <1>0, <2>1, <2>8, WorkTypes DEF Stages
    <3> QED
      BY <3>1, <3>2
  <2> QED
    BY <2>9, <2>10, <2>11, <2>12, <2>13, <2>14, <2>15
<1> QED
  BY <1>1, <1>2

\* An answer that makes no tier; a tile may be copied.
LEMMA AnswerKeeps ==
  ASSUME IngestInv, NEW p \in Process, NEW f \in run[p].todo, NEW values \in SUBSET Answers(run[p].at),
         Answered(p, f, values), UNCHANGED <<row, deriv, world>>,
         tile' \in [File -> {"none", "copy", "turned", "made"}], pasted \subseteq pasted', pasted' \subseteq File,
         \A g \in File : tile'[g] = tile[g] \/ tile[g] = "none" \/ g \in pasted',
         blob \subseteq blob', blob' \subseteq File,
         run[p].at = "repair" => values = {},
         run[p].at \in {"features", "retry"} =>
           /\ row[f].rot = "turned" => values \subseteq {"turned", "error"}
           /\ "turned" \in values => row[f].rot = "turned",
         run[p].at = "decode" => "made" \notin values,
         run[p].at = "stage" => f \in blob' \/ values = {}
  PROVE  IngestInv'
<1> USE DEF IngestInv
<1>0. Answers(run[p].at) \subseteq Answer
  BY DEF Answers, Answer
<1>1. run \in Runs /\ f \in File /\ values \in SUBSET Answer
  BY <1>0, WorkTypes DEF Types
<1>2. /\ run' \in Runs
      /\ run'[p].at = run[p].at /\ run'[p].seen = run[p].seen
      /\ run'[p].todo = run[p].todo \ {f}
      /\ run'[p].half = {h \in run[p].half : h[1] # f}
      /\ run'[p].queue = run[p].queue \union {<<f, v>> : v \in values}
      /\ \A r \in Process \ {p} : run'[r] = run[r]
  BY <1>1, AnswerChanges
<1>3. run'[p].plan = run[p].plan
  BY <1>1 DEF Answered, Runs, Job
<1>4. Types'
  BY <1>2 DEF Types
<1>5. Places'
  <2>1. \A q \in run'[p].queue : q[2] \in Answers(run'[p].at)
    BY <1>2 DEF Places
  <2> QED
    BY <2>1, <1>2, <1>3 DEF Places
<1>6. Recorded' /\ PixelsAreAsRecorded' /\ StagedIsThere'
  BY DEF Recorded, PixelsAreAsRecorded, StagedIsThere
<1>7. Repairs'
  <2>1. CASE p = "2a"
    BY <2>1, <1>1, <1>2, WorkTypes DEF Repairs, Made
  <2>2. CASE p # "2a"
    BY <2>2, <1>1, <1>2, WorkTypes DEF Repairs, Made
  <2> QED
    BY <2>1, <2>2
<1>8. Measures'
  <2>1. CASE p = "2a"
    BY <2>1, <1>1, <1>2, WorkTypes DEF Measures
  <2>2. CASE p # "2a"
    BY <2>2, <1>1, <1>2, WorkTypes DEF Measures
  <2> QED
    BY <2>1, <2>2
<1>9. Decodes'
  <2>1. CASE p = "2b"
    BY <2>1, <1>1, <1>2, WorkTypes DEF Decodes, Made
  <2>2. CASE p # "2b"
    BY <2>2, <1>1, <1>2, WorkTypes DEF Decodes, Made
  <2> QED
    BY <2>1, <2>2
<1>10. Stages'
  <2>1. CASE p = "2b"
    BY <2>1, <1>1, <1>2, WorkTypes DEF Stages
  <2>2. CASE p # "2b"
    BY <2>2, <1>1, <1>2, WorkTypes DEF Stages
  <2> QED
    BY <2>1, <2>2
<1> QED
  BY <1>4, <1>5, <1>6, <1>7, <1>8, <1>9, <1>10

\* A repair is written a tier at a time and answered with the second one.
LEMMA TurnKeeps == ASSUME IngestInv, NEW f \in File, NEW t \in Tier, TurnOne(f, t), world' = world PROVE IngestInv'
<1> USE DEF IngestInv
<1>0. run \in Runs /\ "2a" \in Process /\ "2b" \in Process /\ t \in {"substrate", "tile"}
  BY WorkTypes DEF Types, Tier
<1>1. /\ run["2a"].at = "repair" /\ f \in run["2a"].todo /\ <<f, t>> \notin run["2a"].half
      /\ UNCHANGED <<row, blob, pasted, world>>
      /\ deriv' = IF t = "substrate" THEN [deriv EXCEPT ![f] = "turned"] ELSE deriv
      /\ tile' = IF t = "tile" THEN [tile EXCEPT ![f] = "turned"] ELSE tile
  BY DEF TurnOne, Placed, Busy
<1>2. f \in Sideways /\ f \notin Decodable /\ row[f].rot = "null"
  BY <1>1, IngestAssumption DEF Repairs
<1>3. /\ Made(f, t, "turned")'
      /\ \A u \in Tier : Made(f, u, "turned") => Made(f, u, "turned")'
      /\ \A g \in File \ {f} : deriv'[g] = deriv[g] /\ tile'[g] = tile[g]
      /\ deriv' \in [File -> {"none", "turned", "made"}]
      /\ tile' \in [File -> {"none", "copy", "turned", "made"}]
  BY <1>0, <1>1 DEF Made, Types
<1>4. /\ run' \in Runs /\ \A r \in Process \ {"2a"} : run'[r] = run[r]
      /\ run'["2a"].at = "repair" /\ run'["2a"].plan = run["2a"].plan
      /\ \/ /\ run'["2a"].todo = run["2a"].todo /\ run'["2a"].queue = run["2a"].queue
            /\ run'["2a"].half = run["2a"].half \union {<<f, t>>}
         \/ /\ \E h \in run["2a"].half : h[1] = f
            /\ run'["2a"].todo = run["2a"].todo \ {f}
            /\ run'["2a"].half = {h \in run["2a"].half : h[1] # f}
            /\ run'["2a"].queue = run["2a"].queue \union {<<f, "turned">>}
  <2>1. CASE \E h \in run["2a"].half : h[1] = f
    <3>1. Answered("2a", f, {"turned"})
      BY <2>1 DEF TurnOne
    <3>2. run'["2a"].plan = run["2a"].plan
      BY <3>1, <1>0 DEF Answered, Runs, Job
    <3>3. {<<f, v>> : v \in {"turned"}} = {<<f, "turned">>}
      OBVIOUS
    <3>4. {"turned"} \in SUBSET Answer
      BY DEF Answer
    <3>5. /\ run' \in Runs /\ \A r \in Process \ {"2a"} : run'[r] = run[r]
          /\ run'["2a"].at = run["2a"].at /\ run'["2a"].todo = run["2a"].todo \ {f}
          /\ run'["2a"].half = {h \in run["2a"].half : h[1] # f}
          /\ run'["2a"].queue = run["2a"].queue \union {<<f, v>> : v \in {"turned"}}
      BY <3>1, <3>4, <1>0, AnswerChanges
    <3> QED
      BY <2>1, <3>2, <3>3, <3>5, <1>1
  <2>2. CASE ~\E h \in run["2a"].half : h[1] = f
    <3>1. Half("2a", f, t)
      BY <2>2 DEF TurnOne
    <3>2. run'["2a"].plan = run["2a"].plan
      BY <3>1, <1>0 DEF Half, Runs, Job
    <3> QED
      BY <3>1, <3>2, <1>0, <1>1, HalfChanges
  <2> QED
    BY <2>1, <2>2
<1>5. Types' /\ Recorded' /\ StagedIsThere' /\ Stages'
  BY <1>0, <1>1, <1>3, <1>4 DEF Types, Recorded, StagedIsThere, Stages
<1>6. Places'
  BY <1>0, <1>1, <1>4 DEF Places, Answers
<1>7. PixelsAreAsRecorded'
  BY <1>1, <1>2, <1>3 DEF PixelsAreAsRecorded, Recorded
<1>8. Repairs'
  <2>1. \A h \in run'["2a"].half : Made(h[1], h[2], "turned")' /\ h[1] \in run'["2a"].todo
    BY <1>0, <1>1, <1>3, <1>4, WorkTypes DEF Repairs, Made
  <2>2. \A q \in run'["2a"].queue : \A u \in Tier : Made(q[1], u, "turned")'
    <3>1. \A q \in run["2a"].queue : \A u \in Tier : Made(q[1], u, "turned")'
      BY <1>0, <1>1, <1>3, WorkTypes DEF Repairs, Made
    <3>2. ASSUME NEW h \in run["2a"].half, h[1] = f PROVE \A u \in Tier : Made(f, u, "turned")'
      <4>1. h = <<f, h[2]>> /\ h[2] \in Tier
        BY <3>2, <1>0 DEF Runs, Jobs
      <4>2. h[2] # t /\ Made(f, h[2], "turned")
        BY <4>1, <3>2, <1>1 DEF Repairs
      <4> QED
        BY <4>1, <4>2, <1>3 DEF Tier
    <3> QED
      BY <3>1, <3>2, <1>4
  <2>3. \A g \in run'["2a"].todo : g \in Sideways /\ row'[g].rot = "null"
    BY <1>1, <1>4 DEF Repairs
  <2>4. \A q \in run'["2a"].queue : q[1] \in Sideways \ run'["2a"].todo /\ row'[q[1]].rot = "null"
    BY <1>1, <1>2, <1>4 DEF Repairs
  <2> QED
    BY <2>1, <2>2, <2>3, <2>4 DEF Repairs
<1>9. Measures'
  BY <1>4 DEF Measures
<1>10. Decodes'
  <2>1. run'["2b"] = run["2b"]
    BY <1>0, <1>4
  <2> QED
    BY <2>1, <1>0, <1>1, <1>2, <1>3, WorkTypes DEF Decodes, Made
<1> QED
  BY <1>5, <1>6, <1>7, <1>8, <1>9, <1>10

\* A decode writes the substrate, then the tile, and then answers.
LEMMA DecodeKeeps == ASSUME IngestInv, NEW f \in File, NEW t \in Tier, DecodeOne(f, t), world' = world PROVE IngestInv'
<1> USE DEF IngestInv
<1>0. run \in Runs /\ "2a" \in Process /\ "2b" \in Process /\ t \in {"substrate", "tile"}
  BY WorkTypes DEF Types, Tier
<1>1. /\ run["2b"].at = "decode" /\ f \in run["2b"].todo
      /\ UNCHANGED <<row, blob, pasted, world>>
      /\ deriv' = IF t = "substrate" THEN [deriv EXCEPT ![f] = "made"] ELSE deriv
      /\ tile' = IF t = "tile" THEN [tile EXCEPT ![f] = "made"] ELSE tile
  BY DEF DecodeOne, Placed, Busy
<1>2. f \in Decodable /\ f \notin Sideways
  BY <1>1, IngestAssumption DEF Decodes
<1>3. /\ Made(f, t, "made")'
      /\ \A u \in Tier : Made(f, u, "made") => Made(f, u, "made")'
      /\ \A g \in File \ {f} : deriv'[g] = deriv[g] /\ tile'[g] = tile[g]
      /\ deriv' \in [File -> {"none", "turned", "made"}]
      /\ tile' \in [File -> {"none", "copy", "turned", "made"}]
  BY <1>0, <1>1 DEF Made, Types
<1>4. /\ run' \in Runs /\ \A r \in Process \ {"2b"} : run'[r] = run[r]
      /\ run'["2b"].at = "decode" /\ run'["2b"].plan = run["2b"].plan
      /\ \/ /\ run'["2b"].todo = run["2b"].todo /\ run'["2b"].queue = run["2b"].queue
            /\ run'["2b"].half = run["2b"].half \union {<<f, t>>}
         \/ /\ t = "tile" /\ <<f, "substrate">> \in run["2b"].half
            /\ run'["2b"].todo = run["2b"].todo \ {f}
            /\ run'["2b"].half = {h \in run["2b"].half : h[1] # f}
            /\ run'["2b"].queue = run["2b"].queue \union {<<f, "made">>}
  <2>1. CASE t = "tile"
    <3>1. Answered("2b", f, {"made"}) /\ <<f, "substrate">> \in run["2b"].half
      BY <2>1 DEF DecodeOne
    <3>2. run'["2b"].plan = run["2b"].plan
      BY <3>1, <1>0 DEF Answered, Runs, Job
    <3>3. {<<f, v>> : v \in {"made"}} = {<<f, "made">>}
      OBVIOUS
    <3>4. {"made"} \in SUBSET Answer
      BY DEF Answer
    <3>5. /\ run' \in Runs /\ \A r \in Process \ {"2b"} : run'[r] = run[r]
          /\ run'["2b"].at = run["2b"].at /\ run'["2b"].todo = run["2b"].todo \ {f}
          /\ run'["2b"].half = {h \in run["2b"].half : h[1] # f}
          /\ run'["2b"].queue = run["2b"].queue \union {<<f, v>> : v \in {"made"}}
      BY <3>1, <3>4, <1>0, AnswerChanges
    <3> QED
      BY <2>1, <3>1, <3>2, <3>3, <3>5, <1>1
  <2>2. CASE t # "tile"
    <3>1. Half("2b", f, t)
      BY <2>2 DEF DecodeOne
    <3>2. run'["2b"].plan = run["2b"].plan
      BY <3>1, <1>0 DEF Half, Runs, Job
    <3> QED
      BY <3>1, <3>2, <1>0, <1>1, HalfChanges
  <2> QED
    BY <2>1, <2>2
<1>5. Types' /\ Recorded' /\ StagedIsThere' /\ Stages'
  BY <1>0, <1>1, <1>3, <1>4 DEF Types, Recorded, StagedIsThere, Stages
<1>6. Places'
  BY <1>0, <1>1, <1>4 DEF Places, Answers
<1>7. PixelsAreAsRecorded'
  BY <1>1, <1>2, <1>3 DEF PixelsAreAsRecorded, Recorded
<1>8. run'["2a"] = run["2a"]
  BY <1>0, <1>4
<1>9. Repairs' /\ Measures'
  BY <1>0, <1>1, <1>2, <1>3, <1>8, WorkTypes DEF Repairs, Measures, Made
<1>10. Decodes'
  <2>1. run'["2b"].todo \subseteq Decodable
    BY <1>1, <1>4 DEF Decodes
  <2>2. \A h \in run'["2b"].half : Made(h[1], h[2], "made")' /\ h[1] \in run'["2b"].todo
    BY <1>0, <1>1, <1>3, <1>4, WorkTypes DEF Decodes, Made
  <2>3. \A q \in run["2b"].queue : q[1] \in Decodable /\ (q[2] = "made" => \A u \in Tier : Made(q[1], u, "made")')
    BY <1>0, <1>1, <1>3, WorkTypes DEF Decodes, Made
  <2>4. t = "tile" /\ <<f, "substrate">> \in run["2b"].half => \A u \in Tier : Made(f, u, "made")'
    <3>1. <<f, "substrate">> \in run["2b"].half => Made(f, "substrate", "made")
      BY <1>1 DEF Decodes
    <3> QED
      BY <3>1, <1>3 DEF Tier
  <2>5. \A q \in run'["2b"].queue : q[1] \in Decodable /\ (q[2] = "made" => \A u \in Tier : Made(q[1], u, "made")')
    BY <1>2, <1>4, <2>3, <2>4
  <2> QED
    BY <2>1, <2>2, <2>5 DEF Decodes
<1> QED
  BY <1>5, <1>6, <1>7, <1>9, <1>10

\* What the statement of a pass makes of one row, and of one answer.
CommitOf(f, p, q) ==
    /\ q[1] = f /\ row[f].st # "none"
    /\ \/ /\ run[p].at = "hash" /\ row[f].st \in {"adopted", "pending"} /\ row'[f].st = "read"
          /\ row'[f].path = row[f].path /\ row'[f].rot = row[f].rot /\ row'[f].quality = row[f].quality
       \/ /\ run[p].at = "repair" /\ row'[f].rot = "turned"
          /\ row'[f].st = row[f].st /\ row'[f].path = row[f].path /\ row'[f].quality = row[f].quality
       \/ /\ run[p].at \in {"features", "retry"} /\ row'[f].quality = q[2]
          /\ row'[f].rot = IF row[f].rot = "null" /\ q[2] # "error" THEN "zero" ELSE row[f].rot
          /\ row'[f].st = row[f].st /\ row'[f].path = row[f].path
       \/ /\ run[p].at = "stage" /\ row[f].st = "pending" /\ row'[f].st = "staged" /\ row'[f].path = "staging"
          /\ row'[f].rot = row[f].rot /\ row'[f].quality = row[f].quality
       \/ /\ run[p].at = "decode" /\ row'[f].quality = q[2] /\ row'[f].rot = "zero"
          /\ row'[f].st = row[f].st /\ row'[f].path = row[f].path

CommitsAs(f, p) == \E q \in run[p].queue : CommitOf(f, p, q)

LEMMA UpdateFields ==
  ASSUME NEW r \in Row, NEW pass, NEW value \in Answers(pass)
  PROVE  LET u == Updated(r, pass, value) IN
         /\ u \in Row
         /\ pass \in {"hash", "repair", "features", "retry", "stage", "decode"}
         /\ pass = "hash" => u = r \/ (/\ r.st \in {"adopted", "pending"} /\ u.st = "read"
                                      /\ u.path = r.path /\ u.rot = r.rot /\ u.quality = r.quality)
         /\ pass = "repair" => u.rot = "turned" /\ u.st = r.st /\ u.path = r.path /\ u.quality = r.quality
         /\ pass \in {"features", "retry"} =>
              /\ u.quality = value /\ u.st = r.st /\ u.path = r.path
              /\ u.rot = IF r.rot = "null" /\ value # "error" THEN "zero" ELSE r.rot
         /\ pass = "stage" => u = r \/ (/\ r.st = "pending" /\ u.st = "staged" /\ u.path = "staging"
                                       /\ u.rot = r.rot /\ u.quality = r.quality)
         /\ pass = "decode" => u.quality = value /\ u.rot = "zero" /\ u.st = r.st /\ u.path = r.path
<1>1. CASE pass = "hash"
  BY <1>1 DEF Updated, Answers, Row
<1>2. CASE pass = "repair"
  BY <1>2 DEF Updated, Answers, Row
<1>3. CASE pass \in {"features", "retry"}
  BY <1>3 DEF Updated, Answers, Row, Pixels
<1>4. CASE pass = "stage"
  BY <1>4 DEF Updated, Answers, Row
<1>5. CASE pass = "decode"
  BY <1>5 DEF Updated, Answers, Row, Pixels
<1>6. CASE pass \notin {"hash", "repair", "features", "retry", "stage", "decode"}
  BY <1>6 DEF Answers
<1> QED
  BY <1>1, <1>2, <1>3, <1>4, <1>5, <1>6

LEMMA CommitChanges ==
  ASSUME IngestInv, NEW p \in Process, Commit(p)
  PROVE  /\ run' \in Runs /\ run'[p].at = run[p].at /\ run'[p].plan = run[p].plan
         /\ run'[p].todo = run[p].todo /\ run'[p].half = run[p].half /\ run'[p].seen = run[p].seen
         /\ run'[p].queue = {} /\ \A r \in Process \ {p} : run'[r] = run[r]
         /\ UNCHANGED <<deriv, tile, blob, pasted, world>>
         /\ row' \in [File -> Row]
         /\ \A f \in File : row'[f] = row[f] \/ CommitsAs(f, p)
<1> USE DEF IngestInv
<1>0. run \in Runs /\ row \in [File -> Row]
  BY DEF Types
<1>1. UNCHANGED <<deriv, tile, blob, pasted, world>>
  BY DEF Commit, disk, bounds
<1>2. /\ run' \in Runs /\ run'[p].at = run[p].at /\ run'[p].plan = run[p].plan
      /\ run'[p].todo = run[p].todo /\ run'[p].half = run[p].half /\ run'[p].seen = run[p].seen
      /\ run'[p].queue = {} /\ \A r \in Process \ {p} : run'[r] = run[r]
  <2> DEFINE job == Job(run[p].at, run[p].plan, run[p].todo, run[p].half, {}, run[p].seen)
  <2>1. run' = [run EXCEPT ![p] = job]
    BY <1>0 DEF Commit, Runs
  <2>2. job \in Jobs
    <3>1. /\ run[p].at \in Pass /\ run[p].plan \in Seq(Pass) /\ run[p].todo \in SUBSET File
          /\ run[p].half \in SUBSET (File \X Tier) /\ run[p].seen \in [File -> Row]
      BY <1>0 DEF Runs, Jobs
    <3> QED
      BY <3>1, JobTypes
  <2>3. run' \in Runs /\ run'[p] = job /\ \A r \in Process \ {p} : run'[r] = run[r]
    BY <1>0, <2>1, <2>2, RunChanges
  <2> QED
    BY <2>3 DEF Job
<1>3. ASSUME NEW f \in File PROVE row'[f] \in Row /\ (row'[f] = row[f] \/ CommitsAs(f, p))
  <2>1. CASE row[f].st # "none" /\ \E q \in run[p].queue : q[1] = f
    <3> DEFINE q == CHOOSE x \in run[p].queue : x[1] = f
    <3>1. q \in run[p].queue /\ q[1] = f
      BY <2>1
    <3>2. q[2] \in Answers(run[p].at)
      BY <3>1 DEF Places
    <3>3. row'[f] = Updated(row[f], run[p].at, q[2])
      BY <2>1 DEF Commit
    <3> HIDE DEF q
    <3>4. row[f] \in Row
      BY <1>0
    <3> QED
      BY <2>1, <3>1, <3>2, <3>3, <3>4, UpdateFields DEF CommitsAs, CommitOf
  <2>2. CASE ~(row[f].st # "none" /\ \E q \in run[p].queue : q[1] = f)
    BY <2>2, <1>0 DEF Commit
  <2> QED
    BY <2>1, <2>2
<1>4. row' \in [File -> Row]
  BY <1>3 DEF Commit
<1> QED
  BY <1>1, <1>2, <1>3, <1>4

\* Every answer in a queue is one its row can become.
LEMMA CommitIsSound ==
  ASSUME IngestInv, NEW f \in File, NEW p \in Process, CommitsAs(f, p)
  PROVE  /\ row[f].st # "none"
         /\ \/ row'[f].rot = row[f].rot
            \/ /\ row'[f].rot = "turned" /\ row[f].rot = "null" /\ f \in Sideways /\ p = "2a"
               /\ row'[f].quality = row[f].quality /\ \A t \in Tier : Made(f, t, "turned")
            \/ row'[f].rot = "zero" /\ row[f].rot # "turned" /\ (p = "2a" \/ f \in Decodable)
         /\ \/ row'[f].quality = row[f].quality
            \/ row'[f].quality = "turned" /\ row[f].rot = "turned" /\ row'[f].rot = "turned"
            \/ row'[f].quality \in {"upright", "sideways"} /\ row'[f].rot \notin {"null", "turned"}
            \/ row'[f].quality = "error"
            \/ /\ row'[f].quality = "made" /\ row'[f].rot = "zero" /\ f \in Decodable
               /\ \A t \in Tier : Made(f, t, "made")
         /\ \/ row'[f].st = row[f].st /\ row'[f].path = row[f].path
            \/ row[f].st \in {"adopted", "pending"} /\ row'[f].st = "read"
            \/ row[f].st = "pending" /\ row'[f].st = "staged" /\ row'[f].path = "staging" /\ f \in blob
<1> USE DEF IngestInv
<1>0. run \in Runs /\ row[f] \in Row
  BY DEF Types
<1>1. PICK q \in run[p].queue : CommitOf(f, p, q)
  BY DEF CommitsAs
<1>2. q[1] = f /\ row[f].st # "none" /\ q[2] \in Answers(run[p].at)
  BY <1>1 DEF CommitOf, Places
<1> USE DEF CommitOf
<1>3. CASE run[p].at = "hash"
  BY <1>1, <1>2, <1>3
<1>4. CASE run[p].at = "repair"
  <2>1. p = "2a"
    BY <1>4 DEF Places, PassesOf, Process
  <2> QED
    BY <1>1, <1>2, <1>4, <2>1 DEF Repairs
<1>5. CASE run[p].at \in {"features", "retry"}
  <2>1. p = "2a"
    BY <1>5 DEF Places, PassesOf, Process
  <2>2. q[2] \in {"error", "upright", "sideways", "turned"}
    BY <1>2, <1>5 DEF Answers
  <2>3. /\ row[f].rot = "turned" => q[2] \in {"turned", "error"}
        /\ q[2] = "turned" => row[f].rot = "turned"
    BY <1>2, <1>5, <2>1 DEF Measures
  <2> QED
    BY <1>0, <1>1, <1>2, <1>5, <2>1, <2>2, <2>3
<1>6. CASE run[p].at = "stage"
  <2>1. p = "2b"
    BY <1>6 DEF Places, PassesOf, Process
  <2> QED
    BY <1>1, <1>2, <1>6, <2>1 DEF Stages
<1>7. CASE run[p].at = "decode"
  <2>1. p = "2b"
    BY <1>7 DEF Places, PassesOf, Process
  <2>2. q[2] \in {"error", "made"}
    BY <1>2, <1>7 DEF Answers
  <2>3. f \in Decodable /\ (q[2] = "made" => \A t \in Tier : Made(f, t, "made"))
    BY <1>2, <1>7, <2>1 DEF Decodes
  <2>4. row[f].rot # "turned"
    BY <2>3, IngestAssumption DEF Recorded
  <2> QED
    BY <1>1, <1>2, <1>7, <2>2, <2>3, <2>4
<1> QED
  BY <1>1, <1>3, <1>4, <1>5, <1>6, <1>7

LEMMA CommitKeeps == ASSUME IngestInv, NEW p \in Process, Commit(p) PROVE IngestInv'
<1> USE DEF IngestInv
<1>1. /\ run' \in Runs /\ run'[p].at = run[p].at /\ run'[p].plan = run[p].plan
      /\ run'[p].todo = run[p].todo /\ run'[p].half = run[p].half /\ run'[p].seen = run[p].seen
      /\ run'[p].queue = {} /\ \A r \in Process \ {p} : run'[r] = run[r]
  BY CommitChanges
<1>2. UNCHANGED <<deriv, tile, blob, pasted, world>> /\ row' \in [File -> Row]
  BY CommitChanges
<1>3. \A f \in File : row'[f] = row[f] \/ CommitsAs(f, p)
  BY CommitChanges
<1>4. \A f \in File : row[f].st = "none" => row'[f] = row[f]
  BY <1>3, CommitIsSound
<1>5. Types'
  BY <1>1, <1>2 DEF Types
<1>6. Places'
  BY <1>1 DEF Places
<1>7. Recorded'
  BY <1>3, CommitIsSound DEF Recorded
<1>8. PixelsAreAsRecorded'
  <2>1. SUFFICES ASSUME NEW f \in File
                 PROVE  PixelsAreAsRecorded!(f)'
    BY DEF PixelsAreAsRecorded
  <2>2. CASE row'[f] = row[f]
    BY <2>2, <1>2 DEF PixelsAreAsRecorded
  <2>3. CASE CommitsAs(f, p)
    BY <2>3, <1>2, CommitIsSound DEF PixelsAreAsRecorded, Recorded, Made, Tier
  <2> QED
    BY <1>3, <2>2, <2>3
<1>9. StagedIsThere'
  BY <1>2, <1>3, CommitIsSound DEF StagedIsThere
<1>10. Repairs'
  <2>1. CASE p = "2a"
    <3>1. ASSUME run["2a"].at = "repair", NEW f \in run["2a"].todo PROVE row'[f] = row[f]
      <4>1. f \in File /\ \A q \in run["2a"].queue : q[1] # f
        BY <3>1, WorkTypes DEF Repairs, Types
      <4> QED
        BY <4>1, <2>1, <1>3 DEF CommitsAs, CommitOf
    <3> QED
      BY <2>1, <3>1, <1>1, <1>2 DEF Repairs, Made
  <2>2. CASE p # "2a"
    <3>1. \A f \in Sideways : row'[f].rot = row[f].rot
      BY <2>2, <1>3, CommitIsSound, IngestAssumption
    <3>2. run'["2a"] = run["2a"]
      BY <2>2, <1>1, WorkTypes DEF Types
    <3> QED
      BY <3>1, <3>2, <1>2 DEF Repairs, Made
  <2> QED
    BY <2>1, <2>2
<1>11. Measures'
  <2>1. CASE p = "2a"
    <3>1. run["2a"].at \in {"features", "retry"} => \A f \in File : row'[f].rot = "turned" <=> row[f].rot = "turned"
      <4> SUFFICES ASSUME run["2a"].at \in {"features", "retry"}, NEW f \in File, row'[f] # row[f]
                   PROVE  row'[f].rot = "turned" <=> row[f].rot = "turned"
        OBVIOUS
      <4>1. PICK q \in run["2a"].queue : CommitOf(f, "2a", q)
        BY <2>1, <1>3 DEF CommitsAs
      <4> QED
        BY <4>1 DEF CommitOf
    <3> QED
      BY <2>1, <3>1, <1>1, WorkTypes DEF Measures, Types
  <2>2. CASE p # "2a"
    <3>1. \A f \in File : row'[f].rot = "turned" <=> row[f].rot = "turned"
      BY <2>2, <1>3, CommitIsSound
    <3>2. run'["2a"] = run["2a"]
      BY <2>2, <1>1, WorkTypes DEF Types
    <3> QED
      BY <3>1, <3>2, WorkTypes DEF Measures, Types
  <2> QED
    BY <2>1, <2>2
<1>12. Decodes'
  <2>1. CASE p = "2b"
    BY <2>1, <1>1, <1>2 DEF Decodes, Made
  <2>2. CASE p # "2b"
    <3>1. run'["2b"] = run["2b"]
      BY <2>2, <1>1, WorkTypes DEF Types
    <3> QED
      BY <3>1, <1>2 DEF Decodes, Made
  <2> QED
    BY <2>1, <2>2
<1>13. Stages'
  <2>1. CASE p = "2b"
    BY <2>1, <1>1 DEF Stages
  <2>2. CASE p # "2b"
    <3>1. run'["2b"] = run["2b"]
      BY <2>2, <1>1, WorkTypes DEF Types
    <3>2. \A f \in File : row[f].st \notin {"none", "pending"} => row'[f].st \notin {"none", "pending"}
      BY <1>3, CommitIsSound
    <3> QED
      BY <3>1, <3>2, <1>2, WorkTypes DEF Stages, Types
  <2> QED
    BY <2>1, <2>2
<1> QED
  BY <1>5, <1>6, <1>7, <1>8, <1>9, <1>10, <1>11, <1>12, <1>13

\* Promotion takes the copy of a staged row and moves the row on.
LEMMA PromoteKeeps == ASSUME IngestInv, NEW f \in File, Promote(f) PROVE IngestInv'
<1> USE DEF IngestInv
<1>1. /\ row[f].st \in {"read", "staged"} /\ row' \in [File -> Row]
      /\ row'[f].st \in {"published", "excluded"} /\ row'[f].rot = row[f].rot /\ row'[f].quality = row[f].quality
      /\ \A g \in File \ {f} : row'[g] = row[g]
  <2> DEFINE new(r) == IF f \in kept THEN [r EXCEPT !.st = "published", !.path = "vault"]
                       ELSE [r EXCEPT !.st = "excluded", !.path = "null"]
  <2>1. \A r \in Row : /\ new(r) \in Row /\ new(r).st \in {"published", "excluded"}
                        /\ new(r).rot = r.rot /\ new(r).quality = r.quality
    BY DEF Row
  <2>2. row' = [row EXCEPT ![f] = new(row[f])]
    BY DEF Promote, Types
  <2> HIDE DEF new
  <2> QED
    BY <2>1, <2>2 DEF Promote, Types
<1>2. /\ UNCHANGED <<deriv, tile, pasted, run, world>> /\ blob' \subseteq blob
      /\ \A g \in File \ {f} : g \in blob => g \in blob'
  BY DEF Promote, Upset
<1>3. Types' /\ Places'
  BY <1>1, <1>2 DEF Types, Places
<1>4. Recorded' /\ PixelsAreAsRecorded' /\ StagedIsThere'
  BY <1>1, <1>2 DEF Recorded, PixelsAreAsRecorded, StagedIsThere
<1>5. \A g \in File : row'[g].rot = row[g].rot
  BY <1>1
<1>6. Repairs' /\ Measures' /\ Decodes'
  BY <1>2, <1>5, WorkTypes DEF Types, Repairs, Measures, Decodes, Made
<1>7. Stages'
  BY <1>1, <1>2, WorkTypes DEF Types, Stages
<1> QED
  BY <1>3, <1>4, <1>6, <1>7

\* A worker's answer, whichever pass it is of.
LEMMA WorkKeeps ==
  ASSUME IngestInv, NEW p \in Process, NEW f \in File, Work(p, f) \/ Fails(p, f), world' = world
  PROVE  IngestInv'
<1> USE DEF IngestInv
<1>0. run \in Runs /\ "2a" \in Process /\ "2b" \in Process
  BY WorkTypes DEF Types
<1>1. ASSUME HashOne(f) PROVE IngestInv'
  <2>1. run["2a"].at = "hash" /\ f \in run["2a"].todo /\ UNCHANGED <<row, deriv, tile, blob, pasted>>
    BY <1>1 DEF HashOne, Busy, disk
  <2>2. \E values \in SUBSET {"read"} : Answered("2a", f, values)
    BY <1>1 DEF HashOne
  <2>3. Answers("hash") = {"read"}
    BY DEF Answers
  <2> QED
    BY <1>0, <2>1, <2>2, <2>3, AnswerKeeps DEF Types
<1>2. ASSUME HashGone(f) PROVE IngestInv'
  <2>1. Idle.at = "idle" /\ Idle.plan = <<>> /\ Idle.queue = {}
    BY DEF Idle, Blank, Job
  <2>2. Idle.plan \in Seq(PassesOf("2a")) /\ Idle \in Jobs
    BY <2>1, IdleTypes
  <2>3. run' = [run EXCEPT !["2a"] = Idle] /\ UNCHANGED <<row, deriv, tile, blob, pasted>>
    BY <1>2 DEF HashGone, disk
  <2> QED
    BY <1>0, <2>1, <2>2, <2>3, ResetKeeps
<1>3. ASSUME MeasureOne(f) PROVE IngestInv'
  <2> DEFINE pixels == IF run["2a"].seen[f].rot = "turned" THEN deriv[f]
                       ELSE IF f \in Sideways THEN "sideways" ELSE "upright"
             value == IF pixels = "none" THEN "error" ELSE pixels
  <2>1. /\ run["2a"].at \in {"features", "retry"} /\ f \in run["2a"].todo
        /\ UNCHANGED <<row, deriv, tile, blob, pasted>> /\ Answered("2a", f, {value})
    BY <1>3 DEF MeasureOne, Busy, disk
  <2>2. run["2a"].seen[f].rot = "turned" <=> row[f].rot = "turned"
    BY <2>1 DEF Measures
  <2>3. row[f].rot = "turned" => deriv[f] = "turned"
    BY DEF PixelsAreAsRecorded
  <2>4. /\ value \in {"error", "upright", "sideways", "turned"}
        /\ row[f].rot = "turned" => value \in {"turned", "error"}
        /\ value = "turned" => row[f].rot = "turned"
    BY <2>2, <2>3
  <2>5. {value} \in SUBSET Answers(run["2a"].at)
    BY <2>1, <2>4 DEF Answers
  <2> HIDE DEF value
  <2> QED
    BY <1>0, <2>1, <2>4, <2>5, AnswerKeeps DEF Types
<1>4. ASSUME StageOne(f) PROVE IngestInv'
  <2>1. /\ run["2b"].at = "stage" /\ f \in run["2b"].todo /\ UNCHANGED <<row, deriv, tile, pasted>>
        /\ blob' = blob \union {f} /\ Answered("2b", f, {"staged"})
    BY <1>4 DEF StageOne, Busy
  <2>2. {"staged"} \in SUBSET Answers(run["2b"].at)
    BY <2>1 DEF Answers
  <2> QED
    BY <1>0, <2>1, <2>2, AnswerKeeps DEF Types
<1>5. ASSUME DecodeGone(f) PROVE IngestInv'
  <2>1. /\ run["2b"].at = "decode" /\ f \in run["2b"].todo /\ UNCHANGED <<row, deriv, tile, blob, pasted>>
        /\ Answered("2b", f, {"error"})
    BY <1>5 DEF DecodeGone, Busy, disk
  <2>2. {"error"} \in SUBSET Answers(run["2b"].at)
    BY <2>1 DEF Answers
  <2> QED
    BY <1>0, <2>1, <2>2, AnswerKeeps DEF Types
<1>6. ASSUME CopyOne(f) PROVE IngestInv'
  <2>1. /\ run["thumbs"].at = "copy" /\ f \in run["thumbs"].todo /\ UNCHANGED <<row, deriv, blob>>
        /\ pasted' = (IF tile[f] = "none" THEN pasted ELSE pasted \union {f})
        /\ tile' = [tile EXCEPT ![f] = "copy"] /\ Answered("thumbs", f, {})
    BY <1>6 DEF CopyOne, Busy
  <2>2. /\ tile' \in [File -> {"none", "copy", "turned", "made"}] /\ pasted \subseteq pasted' /\ pasted' \subseteq File
        /\ \A g \in File : tile'[g] = tile[g] \/ tile[g] = "none" \/ g \in pasted'
    BY <2>1 DEF Types
  <2>3. "thumbs" \in Process
    BY DEF Process
  <2> QED
    BY <1>0, <2>1, <2>2, <2>3, AnswerKeeps DEF Types
<1>7. ASSUME Fails(p, f) PROVE IngestInv'
  <2>1. /\ f \in run[p].todo /\ UNCHANGED <<row, deriv, tile, blob, pasted>>
        /\ run[p].at \in {"hash", "repair", "features", "retry", "stage", "decode", "copy"}
        /\ Answered(p, f, IF run[p].at \in {"features", "retry", "decode"} THEN {"error"} ELSE {})
    BY <1>7 DEF Fails, Busy, disk
  <2>2. CASE run[p].at \in {"features", "retry", "decode"}
    <3>1. {"error"} \in SUBSET Answers(run[p].at)
      BY <2>2 DEF Answers
    <3>2. Answered(p, f, {"error"})
      BY <2>1, <2>2
    <3> QED
      BY <1>0, <2>1, <2>2, <3>1, <3>2, AnswerKeeps DEF Types
  <2>3. CASE run[p].at \notin {"features", "retry", "decode"}
    <3>1. Answered(p, f, {})
      BY <2>1, <2>3
    <3> QED
      BY <1>0, <2>1, <2>3, <3>1, AnswerKeeps DEF Types
  <2> QED
    BY <2>2, <2>3
<1> QED
  BY <1>1, <1>2, <1>3, <1>4, <1>5, <1>6, <1>7, TurnKeeps, DecodeKeeps DEF Work

LEMMA StepKeeps == IngestInv /\ [Next]_vars => IngestInv'
<1> SUFFICES ASSUME IngestInv, [Next]_vars PROVE IngestInv'
  OBVIOUS
<1>0. world.files \subseteq File
  BY IngestAssumption DEF IngestInv, Types
<1>1. ASSUME NEW p \in Process, NEW plan, Begin(p, plan), plan \in Seq(PassesOf(p)), plan \in Seq(Pass),
             UNCHANGED <<row, deriv, tile, blob, pasted, world>>
      PROVE  IngestInv'
  <2>1. Blank("begin", plan).at = "begin" /\ Blank("begin", plan).plan = plan /\ Blank("begin", plan).queue = {}
    BY DEF Blank, Job
  <2>2. Blank("begin", plan) \in Jobs
    BY <1>1, IdleTypes
  <2> QED
    BY <1>1, <2>1, <2>2, ResetKeeps DEF Begin
<1>2. ASSUME NEW plan \in Seq({"hash", "repair", "features", "retry"}), Begin2a(plan), world' = world PROVE IngestInv'
  <2>1. plan \in Seq(PassesOf("2a")) /\ plan \in Seq(Pass) /\ "2a" \in Process
    BY DEF PassesOf, Pass, Process
  <2> QED
    BY <1>1, <1>2, <2>1 DEF Begin2a, disk
<1>3. ASSUME NEW plan \in Seq({"clear", "stage", "decode"}), Begin2b(plan), world' = world PROVE IngestInv'
  <2>1. plan \in Seq(PassesOf("2b")) /\ plan \in Seq(Pass) /\ "2b" \in Process
    BY DEF PassesOf, Pass, Process
  <2> QED
    BY <1>1, <1>3, <2>1 DEF Begin2b, disk
<1>4. ASSUME BeginThumbs, world' = world PROVE IngestInv'
  <2>1. <<"copy">> \in Seq(PassesOf("thumbs")) /\ <<"copy">> \in Seq(Pass) /\ "thumbs" \in Process
    BY DEF PassesOf, Pass, Process
  <2> QED
    BY <1>1, <1>4, <2>1 DEF BeginThumbs, disk
<1>5. ASSUME NEW p \in Process, Steps(p) PROVE IngestInv'
  BY <1>0, <1>5, CommitKeeps, NextPassKeeps, WorkKeeps DEF Steps, Calm, bounds
<1>6. ASSUME NEW p \in Process, Kill(p) PROVE IngestInv'
  <2>1. Idle.at = "idle" /\ Idle.plan = <<>> /\ Idle.queue = {}
    BY DEF Idle, Blank, Job
  <2>2. Idle.plan \in Seq(PassesOf(p)) /\ Idle \in Jobs
    BY <2>1, IdleTypes
  <2> QED
    BY <1>6, <2>1, <2>2, ResetKeeps DEF Kill, Upset, disk
<1>7. ASSUME NEW f \in world.files, Decide(f) PROVE IngestInv'
  BY <1>7 DEF Decide, Upset, disk, IngestInv, Types, Places, Recorded, Repairs, Measures,
              Decodes, Stages, Made, PixelsAreAsRecorded, StagedIsThere
<1>8. CASE UNCHANGED vars
  BY <1>8 DEF vars, disk, bounds, IngestInv, Types, Places, Recorded, Repairs, Measures,
              Decodes, Stages, Made, PixelsAreAsRecorded, StagedIsThere
<1>9. CASE Next
  <2>1. /\ <<"hash", "repair", "features">> \in Seq({"hash", "repair", "features", "retry"})
        /\ <<"retry">> \in Seq({"hash", "repair", "features", "retry"})
        /\ <<"features">> \in Seq({"hash", "repair", "features", "retry"})
        /\ <<"repair">> \in Seq({"hash", "repair", "features", "retry"})
        /\ <<"stage", "decode">> \in Seq({"clear", "stage", "decode"})
        /\ <<"clear", "stage", "decode">> \in Seq({"clear", "stage", "decode"})
    OBVIOUS
  <2>2. CASE Adopt \/ Inventory
    BY <2>2, PutKeeps
  <2>3. CASE Daily2a \/ Daily2b \/ Calm(BeginThumbs)
    BY <2>1, <2>3, <1>2, <1>3, <1>4 DEF Daily2a, Daily2b, Calm, bounds
  <2>4. CASE Upset("retry") /\ (Begin2a(<<"retry">>) \/ Begin2b(<<"clear", "stage", "decode">>))
    BY <2>1, <2>4, <1>2, <1>3 DEF Upset
  <2>5. CASE Upset("partial") /\ (Begin2a(<<"features">>) \/ Begin2a(<<"repair">>))
    BY <2>1, <2>5, <1>2 DEF Upset
  <2>6. ASSUME NEW p \in Process, Steps(p) \/ Kill(p) \/ \E f \in world.files : Upset("fail") /\ Fails(p, f)
        PROVE  IngestInv'
    BY <1>0, <1>5, <1>6, <2>6, WorkKeeps DEF Upset
  <2>7. ASSUME NEW f \in world.files, Promote(f) \/ Decide(f) PROVE IngestInv'
    BY <1>0, <1>7, <2>7, PromoteKeeps
  <2> QED
    BY <1>9, <2>2, <2>3, <2>4, <2>5, <2>6, <2>7 DEF Next
<1> QED
  BY <1>8, <1>9

-----------------------------------------------------------------------------
(* The theorems.                                                           *)

\* The inductive invariant: what is queued, half done or listed is what the row
\* may become, whatever was killed, retried, promoted or run out of order.
THEOREM IngestInvHolds == Spec => []IngestInv
<1>1. Init => IngestInv
  BY IngestStarts
<1>2. IngestInv /\ [Next]_vars => IngestInv'
  BY StepKeeps
<1> QED
  BY <1>1, <1>2, PTL DEF Spec

\* A row and the disk agree: what phase2a, phase2b and thumbnails record is what
\* is there, for every set of files, every fault and every bound.
THEOREM RowsAlwaysMatchTheDisk == Spec => []RowsMatchTheDisk
<1>1. IngestInv => RowsMatchTheDisk
  BY DEF IngestInv, RowsMatchTheDisk
<1> QED
  BY <1>1, IngestInvHolds, PTL

\* No batch committed late walks a row back (phase2a.py:366, phase2b.py:389).
THEOREM StatesGoForward == Spec => StateGoesForward
<1> DEFINE Forward(f) ==
      LET s == row[f].st  t == row'[f].st
      IN s # t => \/ s = "none"
                  \/ s \in {"pending", "adopted"} /\ t \in {"read", "staged"}
                  \/ s \in {"read", "staged"} /\ t \in {"published", "excluded"}
<1>1. IngestInv /\ [Next]_vars => \A f \in File : Forward(f)
  <2> SUFFICES ASSUME IngestInv, [Next]_vars, NEW f \in File PROVE Forward(f)
    OBVIOUS
  <2>1. CASE UNCHANGED row
    BY <2>1
  <2>2. CASE Adopt \/ Inventory
    BY <2>2 DEF Adopt, Inventory, NoRow
  <2>3. ASSUME NEW p \in Process, Commit(p) PROVE Forward(f)
    BY <2>3, CommitChanges, CommitIsSound
  <2>4. ASSUME NEW p \in Process, NextPass(p) PROVE row'[f].st = row[f].st
    <3>1. row' = row \/ row' = [g \in File |-> IF /\ row[g].quality = "error" /\ g \in Decodable
                                             /\ row[g].st \in {"read", "staged", "published"}
                                          THEN [row[g] EXCEPT !.quality = "null"] ELSE row[g]]
      BY <2>4 DEF NextPass
    <3> QED
      BY <3>1 DEF IngestInv, Types, Row
  <2>5. ASSUME NEW g \in File, Promote(g) PROVE Forward(f)
    <3> DEFINE new(r) == IF g \in kept THEN [r EXCEPT !.st = "published", !.path = "vault"]
                         ELSE [r EXCEPT !.st = "excluded", !.path = "null"]
    <3>1. \A r \in Row : new(r).st \in {"published", "excluded"}
      BY DEF Row
    <3>2. row' = [row EXCEPT ![g] = new(row[g])] /\ row[g].st \in {"read", "staged"}
      BY <2>5 DEF Promote
    <3> HIDE DEF new
    <3> QED
      BY <3>1, <3>2 DEF IngestInv, Types
  <2>6. world.files \subseteq File
    BY IngestAssumption DEF IngestInv, Types
  <2>7. \A p \in Process, g \in File : Work(p, g) \/ Fails(p, g) => row' = row
    BY DEF Work, Fails, HashOne, HashGone, MeasureOne, TurnOne, StageOne, DecodeOne, DecodeGone, CopyOne, Placed
  <2>8. \A p \in Process : \A plan : Begin2a(plan) \/ Begin2b(plan) \/ BeginThumbs \/ Kill(p) => row' = row
    BY DEF Begin2a, Begin2b, BeginThumbs, Kill
  <2>9. \A g \in File : Decide(g) => row' = row
    BY DEF Decide
  <2>10. CASE Next
    <3>1. CASE \/ Daily2a \/ Daily2b \/ Calm(BeginThumbs)
               \/ Upset("retry") /\ (Begin2a(<<"retry">>) \/ Begin2b(<<"clear", "stage", "decode">>))
               \/ Upset("partial") /\ (Begin2a(<<"features">>) \/ Begin2a(<<"repair">>))
      BY <3>1, <2>1, <2>8 DEF Daily2a, Daily2b, Calm, Process
    <3>2. ASSUME NEW p \in Process, Steps(p) \/ Kill(p) \/ \E g \in world.files : Upset("fail") /\ Fails(p, g)
          PROVE  Forward(f)
      BY <3>2, <2>1, <2>3, <2>4, <2>6, <2>7, <2>8 DEF Steps, Calm
    <3>3. ASSUME NEW g \in world.files, Promote(g) \/ Decide(g) PROVE Forward(f)
      BY <3>3, <2>1, <2>5, <2>6, <2>9
    <3> QED
      BY <2>2, <2>10, <3>1, <3>2, <3>3 DEF Next
  <2>11. CASE UNCHANGED vars
    BY <2>1, <2>11 DEF vars
  <2> QED
    BY <2>10, <2>11
<1>2. IngestInv /\ [Next]_vars => [\A f \in File : Forward(f)]_vars
  BY <1>1
<1> QED
  BY <1>2, IngestInvHolds, PTL DEF Spec, StateGoesForward

-----------------------------------------------------------------------------
(* The pool: one answer for each task, and no task forgotten.               *)

Has(s, x) == \E i \in DOMAIN s : s[i] = x
Once(s) == \A i, j \in DOMAIN s : s[i] = s[j] => i = j

Kind == {"start", "answer"}
Say(k, w, t) == [kind |-> k, from |-> w, task |-> t]

\* Of a task a queue holds one start and then one answer, or less.
InOrder(s) == \A i, j \in DOMAIN s : i < j /\ s[i].task = s[j].task
                => s[i].kind = "start" /\ s[j].kind = "answer"

\* What each worker has not sent yet.
Box(w) == worker[w].unsent

\* A task nobody has decoded: not taken by a pump, at one, or in the queue.
Untaken(t) == t >= next \/ (\E p \in Pump : pump[p] = t) \/ Has(inQ, t)

\* A task the books or the messages of a worker speak of.
Speaks(w, t) == \E k \in Kind : Has(Box(w), Say(k, w, t)) \/ Has(outQ, Say(k, w, t))
Touches(w, t) == worker[w].task = t \/ active[w] = t \/ Speaks(w, t)

\* The start of a task has been read.
Begun(t) == \A w \in Worker : ~Has(outQ, Say("start", w, t)) /\ ~Has(Box(w), Say("start", w, t))

Waiting ==
    /\ \A p \in Pump : pump[p] # NoTask => pump[p] < next
    /\ \A p, q \in Pump : pump[p] = pump[q] /\ pump[p] # NoTask => p = q
    /\ \A t \in Task : Has(inQ, t) => t < next /\ \A p \in Pump : pump[p] # t
    /\ Once(inQ)

\* A worker is at a task exactly from taking it to answering it, and its
\* messages carry its own name.
Holds ==
    /\ \A w \in Worker : worker[w].at = "busy" => worker[w].task \in Task
    /\ \A w \in Worker : worker[w].at \in {"idle", "get"} => worker[w].task = NoTask
    /\ \A v, w \in Worker, t \in Task, k \in Kind : Has(Box(w), Say(k, v, t)) => v = w

\* A task goes from the queue to one worker, which alone speaks of it.
Owned ==
    /\ \A w \in Worker, t \in Task : Touches(w, t) => ~Untaken(t)
    /\ \A t \in done : ~Untaken(t)
    /\ \A v, w \in Worker, t \in Task : Touches(v, t) /\ Touches(w, t) => v = w

\* Of a task there is one start and then one answer, whoever holds them.
Sequenced ==
    /\ InOrder(outQ) /\ \A w \in Worker : InOrder(Box(w))
    /\ \A w \in Worker, t \in Task :
         /\ Has(outQ, Say("answer", w, t)) => \A k \in Kind : ~Has(Box(w), Say(k, w, t))
         /\ Has(outQ, Say("start", w, t)) => ~Has(Box(w), Say("start", w, t))
         /\ worker[w].task = t => /\ ~Has(outQ, Say("answer", w, t))
                                  /\ ~Has(Box(w), Say("answer", w, t))

\* The books: a task that is answered for, or about to be, has begun.
Booked ==
    /\ \A w \in Worker : active[w] # NoTask => active[w] \notin done /\ Begun(active[w])
    /\ \A t \in done : Begun(t)

AnswersOK ==
    /\ \A e \in overdue : e[2] \in done /\ ~Has(out, e[2]) /\ ~Has(told, e[2])
    /\ \A e, f \in overdue : e[2] = f[2] => e = f
    /\ \A t \in Task : Has(out, t) \/ Has(told, t) => t \in done
    /\ \A t \in Task : ~(Has(out, t) /\ Has(told, t))
    /\ Once(out) /\ Once(told)

PoolInv == PoolTypeOK /\ Waiting /\ Holds /\ Owned /\ Sequenced /\ Booked /\ AnswersOK

\* What the parent can still read of a worker: the messages in _out_q and
\* then the ones its feeder has not written.
InLine(w, m) == Has(outQ, m) \/ Has(Box(w), m)

\* Every y of a sequence has an x before it, and so has every y a worker said.
Covers(s, x, y) == \A j \in DOMAIN s : s[j] = y => \E i \in DOMAIN s : i < j /\ s[i] = x
Ahead(w, x, y) == Covers(outQ, x, y) /\ (Has(outQ, x) \/ Covers(Box(w), x, y))

Start(w, t) == Say("start", w, t)
AnswerOf(w, t) == Say("answer", w, t)

\* The parent believes a worker has a task, or will once it reads its start;
\* it has begun one whose start is read, and is not through with it.
Opened(w, t) == active[w] = t \/ InLine(w, Start(w, t))
Current(w, t) ==
    /\ active[w] = t \/ worker[w].task = t \/ InLine(w, AnswerOf(w, t))
    /\ ~InLine(w, Start(w, t))

\* The books follow the worker: it starts a task after it has answered for
\* the one before, and the parent reads the two in that order.
Followed(w) ==
    /\ \A t, u \in Task : t # u /\ Current(w, t)
         => active[w] # u /\ Ahead(w, AnswerOf(w, t), Start(w, u))
    /\ \A t, u \in Task : t # u /\ InLine(w, Start(w, t)) /\ InLine(w, Start(w, u))
         => Ahead(w, AnswerOf(w, t), Start(w, u)) \/ Ahead(w, AnswerOf(w, u), Start(w, t))
    /\ \A t \in Task : Opened(w, t) => worker[w].task = t \/ InLine(w, AnswerOf(w, t))
    /\ \A t \in Task : worker[w].task = t => t \in done \/ Opened(w, t)

Known(t) ==
    t \in done \/ Untaken(t) \/ \E w \in Worker : Opened(w, t) \/ InLine(w, AnswerOf(w, t))

\* Until a process ends with something unseen, the books lose no task.
Steady == ~blind /\ Running
BooksInv == Steady => (\A w \in Worker : Followed(w)) /\ \A t \in Task : Known(t)

-----------------------------------------------------------------------------
(* Sequences.                                                              *)

LEMMA HasAppend ==
    ASSUME NEW S, NEW s \in Seq(S), NEW x \in S
    PROVE  /\ Append(s, x) \in Seq(S)
           /\ \A y : Has(Append(s, x), y) <=> Has(s, y) \/ y = x
BY AppendProperties, LenProperties DEF Has

LEMMA HasTail ==
    ASSUME NEW S, NEW s \in Seq(S), s # <<>>
    PROVE  /\ Head(s) \in S /\ Tail(s) \in Seq(S)
           /\ \A y : Has(s, y) <=> Has(Tail(s), y) \/ y = Head(s)
<1> DEFINE T == Tail(s)
<1>1. /\ Head(s) \in S /\ T \in Seq(S) /\ Len(s) \in Nat \ {0} /\ Head(s) = s[1]
      /\ DOMAIN s = 1..Len(s) /\ DOMAIN T = 1..(Len(s) - 1)
      /\ \A i \in 1..(Len(s) - 1) : T[i] = s[i + 1]
    BY HeadTailProperties, LenProperties, EmptySeq
<1> HIDE DEF T
<1>2. ASSUME NEW y, Has(s, y)
      PROVE  Has(T, y) \/ y = Head(s)
  <2>1. PICK i \in 1..Len(s) : s[i] = y
      BY <1>1, <1>2 DEF Has
  <2>2. CASE i = 1
      BY <2>1, <2>2, <1>1
  <2>3. CASE i # 1
    <3>1. i - 1 \in 1..(Len(s) - 1) /\ (i - 1) + 1 = i
        BY <1>1, <2>1, <2>3
    <3> QED
        BY <3>1, <2>1, <1>1 DEF Has
  <2> QED
      BY <2>2, <2>3
<1>3. ASSUME NEW y, Has(T, y) \/ y = Head(s)
      PROVE  Has(s, y)
  <2>1. CASE y = Head(s)
      BY <2>1, <1>1 DEF Has
  <2>2. CASE Has(T, y)
    <3>1. PICK i \in 1..(Len(s) - 1) : T[i] = y
        BY <1>1, <2>2 DEF Has
    <3>2. i + 1 \in 1..Len(s) /\ s[i + 1] = y
        BY <3>1, <1>1
    <3> QED
        BY <3>2, <1>1 DEF Has
  <2> QED
      BY <1>3, <2>1, <2>2
<1> QED
    BY <1>1, <1>2, <1>3 DEF T

LEMMA HasElement ==
    ASSUME NEW S, NEW s \in Seq(S), NEW x, Has(s, x)
    PROVE  x \in S
BY LenProperties, ElementOfSeq DEF Has

LEMMA HasEmpty == \A y : ~Has(<<>>, y)
BY DEF Has

LEMMA OnceAppend ==
    ASSUME NEW S, NEW s \in Seq(S), NEW x \in S, Once(s), ~Has(s, x)
    PROVE  Once(Append(s, x))
BY AppendProperties, LenProperties DEF Has, Once

LEMMA OnceTail ==
    ASSUME NEW S, NEW s \in Seq(S), s # <<>>, Once(s)
    PROVE  Once(Tail(s)) /\ ~Has(Tail(s), Head(s))
BY HeadTailProperties, LenProperties, EmptySeq DEF Has, Once

LEMMA SayIs ==
    /\ \A k, w, t, l, v, u : Say(k, w, t) = Say(l, v, u) <=> k = l /\ w = v /\ t = u
    /\ \A m \in Message : m.kind \in Kind /\ m.from \in Worker /\ m.task \in Task
                          /\ m = Say(m.kind, m.from, m.task)
    /\ \A k \in Kind, w \in Worker, t \in Task : Say(k, w, t) \in Message
    /\ \A k, w, t : /\ Say(k, w, t).kind = k /\ Say(k, w, t).from = w
                    /\ Say(k, w, t).task = t
BY DEF Say, Message, Kind

LEMMA InOrderAppend ==
    ASSUME NEW s \in Seq(Message), NEW m \in Message, InOrder(s),
           \A w \in Worker : ~Has(s, Say("answer", w, m.task)),
           m.kind = "start" => \A w \in Worker : ~Has(s, Say("start", w, m.task))
    PROVE  InOrder(Append(s, m))
BY AppendProperties, LenProperties, ElementOfSeq, SayIs DEF Has, InOrder, Kind

LEMMA InOrderTail ==
    ASSUME NEW s \in Seq(Message), s # <<>>, InOrder(s)
    PROVE  /\ InOrder(Tail(s))
           /\ \A w \in Worker : ~Has(Tail(s), Say("start", w, Head(s).task))
           /\ Head(s).kind = "answer" =>
                \A w \in Worker : ~Has(Tail(s), Say("answer", w, Head(s).task))
BY HeadTailProperties, LenProperties, EmptySeq, SayIs DEF Has, InOrder, Kind

-----------------------------------------------------------------------------
(* The steps that no message, decode or book takes part in.                *)

\* Nothing said or believed changes hands.
LEMMA Quiet ==
    ASSUME PoolInv, Holds', \A t \in Task : Untaken(t)' <=> Untaken(t),
           \A w \in Worker : Box(w)' = Box(w) /\ worker'[w].task = worker[w].task,
           UNCHANGED <<outQ, active, done>>
    PROVE  Owned' /\ Sequenced' /\ Booked'
<1>1. \A w \in Worker, t \in Task : Touches(w, t)' <=> Touches(w, t)
    BY DEF Touches, Speaks
<1>2. \A t : Begun(t)' <=> Begun(t)
    BY DEF Begun
<1>3. done \subseteq Task
    BY DEF PoolInv, PoolTypeOK
<1>4. Owned'
    BY <1>1, <1>3 DEF PoolInv, Owned
<1>5. Sequenced'
    BY DEF PoolInv, Sequenced
<1>6. Booked'
    BY <1>2 DEF PoolInv, Booked
<1> QED
    BY <1>4, <1>5, <1>6

LEMMA PumpTakesKeeps ==
    ASSUME PoolInv, NEW p \in Pump, PumpTakes(p)
    PROVE  PoolInv'
<1> USE PoolAssumption
<1>1. PoolTypeOK /\ Waiting /\ Holds /\ AnswersOK
    BY DEF PoolInv
<1>2. next \in Task /\ next' = next + 1 /\ pump' = [pump EXCEPT ![p] = next]
    BY <1>1 DEF PumpTakes, PoolTypeOK, Task
<1>3. PoolTypeOK'
    BY <1>1, <1>2 DEF PumpTakes, PoolTypeOK, Task, parent
<1>4. UNCHANGED <<inQ, worker, outQ, active, done, overdue, out, told>>
    BY DEF PumpTakes, parent
<1>5. Holds'
    BY <1>1, <1>4 DEF Holds, Box
<1>6. Waiting'
  <2>1. \A q \in Pump : pump'[q] = IF q = p THEN next ELSE pump[q]
      BY <1>1, <1>2 DEF PoolTypeOK
  <2>2. next \in Nat /\ \A q \in Pump : pump[q] \in Nat
      BY <1>1 DEF PoolTypeOK, Task, NoTask
  <2>3. \A q \in Pump : pump'[q] # NoTask => pump'[q] < next'
      BY <1>1, <1>2, <2>1, <2>2 DEF Waiting
  <2>4. \A q, r \in Pump : pump'[q] = pump'[r] /\ pump'[q] # NoTask => q = r
      BY <1>1, <2>1, <2>2 DEF Waiting
  <2>5. \A t \in Task : Has(inQ, t) => t < next' /\ \A q \in Pump : pump'[q] # t
      BY <1>1, <1>2, <2>1, <2>2 DEF Waiting, Task
  <2> QED
      BY <1>1, <1>4, <2>3, <2>4, <2>5 DEF Waiting
<1>7. ASSUME NEW t \in Task
      PROVE  Untaken(t)' <=> Untaken(t)
  <2>1. pump[p] = NoTask /\ t # NoTask
      BY DEF PumpTakes, Task, NoTask
  <2>2. \A q \in Pump : pump'[q] = IF q = p THEN next ELSE pump[q]
      BY <1>1, <1>2 DEF PoolTypeOK
  <2>3. t >= next <=> t >= next' \/ t = next
      BY <1>2 DEF Task
  <2>4. (\E q \in Pump : pump'[q] = t) <=> (t = next \/ \E q \in Pump : pump[q] = t)
      BY <2>1, <2>2
  <2> QED
      BY <2>3, <2>4, <1>4 DEF Untaken
<1>8. Owned' /\ Sequenced' /\ Booked'
    BY <1>4, <1>5, <1>7, Quiet DEF Box
<1>9. AnswersOK'
    BY <1>1, <1>4 DEF AnswersOK
<1> QED
    BY <1>3, <1>5, <1>6, <1>8, <1>9 DEF PoolInv

LEMMA SubmitKeeps ==
    ASSUME PoolInv, NEW p \in Pump, Submit(p)
    PROVE  PoolInv'
<1> DEFINE u == pump[p]
<1>1. PoolTypeOK /\ Waiting /\ Holds /\ AnswersOK
    BY DEF PoolInv
<1>2. u \in Task /\ inQ \in Seq(Task) /\ u # NoTask
    BY <1>1 DEF Submit, PoolTypeOK
<1>3. /\ inQ' = Append(inQ, u) /\ inQ' \in Seq(Task)
      /\ \A y : Has(inQ', y) <=> Has(inQ, y) \/ y = u
    BY <1>2, HasAppend DEF Submit
<1>4. \A q \in Pump : pump'[q] = IF q = p THEN NoTask ELSE pump[q]
    BY <1>1 DEF Submit, PoolTypeOK
<1>5. UNCHANGED <<next, worker, outQ, active, done, overdue, out, told>>
    BY DEF Submit, parent
<1>6. PoolTypeOK'
    BY <1>1, <1>3, <1>5 DEF Submit, PoolTypeOK, parent
<1>7. Holds'
    BY <1>1, <1>5 DEF Holds, Box
<1>8. Waiting'
  <2>1. ~Has(inQ, u) /\ u < next
      BY <1>1, <1>2 DEF Waiting
  <2>2. Once(inQ')
      BY <1>1, <1>2, <1>3, <2>1, OnceAppend DEF Waiting
  <2>3. \A q \in Pump : pump'[q] # NoTask => pump'[q] < next'
      BY <1>1, <1>4, <1>5 DEF Waiting
  <2>4. \A q, r \in Pump : pump'[q] = pump'[r] /\ pump'[q] # NoTask => q = r
      BY <1>1, <1>4 DEF Waiting
  <2>5. \A t \in Task : Has(inQ', t) => t < next' /\ \A q \in Pump : pump'[q] # t
      BY <1>1, <1>2, <1>3, <1>4, <1>5, <2>1 DEF Waiting, Task, NoTask
  <2> QED
      BY <2>2, <2>3, <2>4, <2>5 DEF Waiting
<1>9. ASSUME NEW t \in Task
      PROVE  Untaken(t)' <=> Untaken(t)
  <2>1. t # NoTask
      BY DEF Task, NoTask
  <2>2. (\E q \in Pump : pump'[q] = t) \/ t = u <=> \E q \in Pump : pump[q] = t
      BY <1>4, <2>1
  <2> QED
      BY <1>3, <1>5, <2>2 DEF Untaken
<1>10. Owned' /\ Sequenced' /\ Booked'
    BY <1>5, <1>7, <1>9, Quiet DEF Box
<1>11. AnswersOK'
    BY <1>1, <1>5 DEF AnswersOK
<1> QED
    BY <1>6, <1>7, <1>8, <1>10, <1>11 DEF PoolInv

\* What is left when nothing waiting and no answer moves.
LEMMA Untouched ==
    ASSUME PoolInv, PoolTypeOK', Holds', UNCHANGED <<next, pump, inQ, outQ, active, done>>,
           \A w \in Worker : Box(w)' = Box(w) /\ worker'[w].task = worker[w].task, AnswersOK'
    PROVE  PoolInv'
<1>1. \A t \in Task : Untaken(t)' <=> Untaken(t)
    BY DEF Untaken
<1>2. Owned' /\ Sequenced' /\ Booked'
    BY <1>1, Quiet
<1>3. Waiting'
    BY DEF PoolInv, Waiting
<1> QED
    BY <1>2, <1>3 DEF PoolInv

LEMMA WaitForTaskKeeps ==
    ASSUME PoolInv, NEW w \in Worker, WaitForTask(w)
    PROVE  PoolInv'
<1>1. PoolTypeOK /\ Holds /\ AnswersOK
    BY DEF PoolInv
<1>2. \A v \in Worker : worker'[v] = IF v = w THEN [worker[v] EXCEPT !.at = "get"] ELSE worker[v]
    BY <1>1 DEF WaitForTask, PoolTypeOK
<1>3. UNCHANGED <<next, pump, inQ, outQ, active, done, overdue, out, told, caller, deaths, blind>>
    BY DEF WaitForTask, parent, feeding
<1>4. \A v \in Worker : /\ Box(v)' = Box(v) /\ worker'[v].task = worker[v].task
                        /\ worker'[v].at = IF v = w THEN "get" ELSE worker[v].at
    BY <1>1, <1>2 DEF PoolTypeOK, Box
<1>5. PoolTypeOK'
    BY <1>1, <1>3 DEF WaitForTask, PoolTypeOK
<1>6. worker[w].at = "idle"
    BY DEF WaitForTask
<1>7. Holds'
    BY <1>1, <1>4, <1>6 DEF Holds
<1>8. AnswersOK'
    BY <1>1, <1>3 DEF AnswersOK
<1> QED
    BY <1>3, <1>4, <1>5, <1>7, <1>8, Untouched

LEMMA TakeAnswerKeeps ==
    ASSUME PoolInv, TakeAnswer
    PROVE  PoolInv'
<1> DEFINE t == Head(out)
<1>1. PoolTypeOK /\ Holds /\ AnswersOK
    BY DEF PoolInv
<1>2. out # <<>> /\ out \in Seq(Task) /\ told \in Seq(Task)
    BY <1>1 DEF TakeAnswer, PoolTypeOK
<1>3. /\ out' = Tail(out) /\ t \in Task /\ out' \in Seq(Task)
      /\ \A y : Has(out, y) <=> Has(out', y) \/ y = t
    BY <1>2, HasTail DEF TakeAnswer
<1>4. /\ told' = Append(told, t) /\ told' \in Seq(Task)
      /\ \A y : Has(told', y) <=> Has(told, y) \/ y = t
    BY <1>2, <1>3, HasAppend DEF TakeAnswer
<1>5. UNCHANGED <<next, pump, inQ, readLock, worker, outQ, active, done, overdue, deaths, blind>>
    BY DEF TakeAnswer, parent, feeding
<1>6. caller' \in {"leave", "drain"}
    BY DEF TakeAnswer
<1>7. PoolTypeOK'
    BY <1>1, <1>3, <1>4, <1>5, <1>6 DEF PoolTypeOK
<1>8. Holds'
    BY <1>1, <1>5 DEF Holds, Box
<1>9. AnswersOK'
  <2>1. Once(out') /\ ~Has(out', t)
      BY <1>1, <1>2, <1>3, OnceTail DEF AnswersOK
  <2>2. Has(out, t) /\ ~Has(told, t)
      BY <1>1, <1>3 DEF AnswersOK
  <2>3. Once(told')
      BY <1>1, <1>2, <1>3, <1>4, <2>2, OnceAppend DEF AnswersOK
  <2>4. \A e \in overdue : e[2] \in done /\ ~Has(out', e[2]) /\ ~Has(told', e[2])
      BY <1>1, <1>3, <1>4, <2>2 DEF AnswersOK
  <2>5. \A u \in Task : Has(out', u) \/ Has(told', u) => u \in done
      BY <1>1, <1>3, <1>4, <2>2 DEF AnswersOK
  <2>6. \A u \in Task : ~(Has(out', u) /\ Has(told', u))
      BY <1>1, <1>3, <1>4, <2>1 DEF AnswersOK
  <2> QED
      BY <1>1, <1>5, <2>1, <2>3, <2>4, <2>5, <2>6 DEF AnswersOK
<1> QED
    BY <1>5, <1>7, <1>8, <1>9, Untouched DEF Box

LEMMA CallerKeeps ==
    ASSUME PoolInv, GiveUp \/ JoinPumps \/ Close
    PROVE  PoolInv'
<1>1. PoolTypeOK /\ Holds /\ AnswersOK
    BY DEF PoolInv
<1>2. CASE GiveUp \/ JoinPumps
  <2>1. UNCHANGED <<next, pump, inQ, readLock, worker, outQ, active, done, overdue, out, told, deaths, blind>>
      BY <1>2 DEF GiveUp, JoinPumps, parent, feeding
  <2>2. caller' \in {"leave", "close"}
      BY <1>2 DEF GiveUp, JoinPumps
  <2>3. PoolTypeOK'
      BY <1>1, <2>1, <2>2 DEF PoolTypeOK
  <2>4. Holds' /\ AnswersOK'
      BY <1>1, <2>1 DEF Holds, AnswersOK, Box
  <2> QED
      BY <2>1, <2>3, <2>4, Untouched DEF Box
<1>3. CASE Close
  <2>1. UNCHANGED <<next, pump, inQ, readLock, outQ, active, done, overdue, out, told, deaths, blind>>
      BY <1>3 DEF Close, parent, feeding
  <2>2. \A w \in Worker : worker'[w].at = "dead" /\ worker'[w].task = NoTask /\ Box(w)' = <<>>
      BY <1>3 DEF Close, Fresh, Box
  <2>3. PoolTypeOK'
    <3>1. worker' = [w \in Worker |-> [at |-> "dead", task |-> NoTask, unsent |-> <<>>]]
        BY <1>3 DEF Close, Fresh
    <3>2. <<>> \in Seq(Message) /\ caller' = "closed"
        BY <1>3, EmptySeq DEF Close
    <3> QED
        BY <1>1, <2>1, <3>1, <3>2 DEF PoolTypeOK
  <2>4. \A w \in Worker, t \in Task : Touches(w, t)' => Touches(w, t)
      BY <2>1, <2>2, HasEmpty DEF Touches, Speaks, Task, NoTask
  <2>5. \A t : Untaken(t)' <=> Untaken(t)
      BY <2>1 DEF Untaken
  <2>6. Waiting' /\ AnswersOK'
      BY <2>1 DEF PoolInv, Waiting, AnswersOK
  <2>7. Holds'
      BY <2>2, HasEmpty DEF Holds
  <2>8. Owned'
      BY <1>1, <2>1, <2>4, <2>5 DEF PoolInv, Owned, PoolTypeOK
  <2>9. InOrder(<<>>)
      BY DEF InOrder
  <2>10. Sequenced'
      BY <2>1, <2>2, <2>9, HasEmpty DEF PoolInv, Sequenced, Task, NoTask
  <2>11. Booked'
      BY <2>1, <2>2, HasEmpty DEF PoolInv, Booked, Begun
  <2> QED
      BY <2>3, <2>6, <2>7, <2>8, <2>10, <2>11 DEF PoolInv
<1> QED
    BY <1>2, <1>3

-----------------------------------------------------------------------------
(* The steps that take a task further.                                     *)

LEMMA DeliverKeeps ==
    ASSUME PoolInv, NEW p \in Pump, Deliver(p)
    PROVE  PoolInv'
<1> DEFINE u == pump[p]
<1>1. PoolTypeOK /\ Waiting /\ Holds /\ Owned /\ Sequenced /\ Booked /\ AnswersOK
    BY DEF PoolInv
<1>2. u \in Task /\ u # NoTask /\ Untaken(u)
    BY <1>1 DEF Deliver, PoolTypeOK, Untaken
<1>3. u \notin done
    BY <1>1, <1>2 DEF Owned
<1>4. /\ done' = done \union {u} /\ out' = Append(out, u) /\ out' \in Seq(Task)
      /\ \A y : Has(out', y) <=> Has(out, y) \/ y = u
  <2>1. done' = done \union {u} /\ out' = Append(out, u)
      BY <1>3 DEF Deliver
  <2>2. out \in Seq(Task)
      BY <1>1 DEF PoolTypeOK
  <2> QED
      BY <1>2, <2>1, <2>2, HasAppend
<1>5. \A q \in Pump : pump'[q] = IF q = p THEN NoTask ELSE pump[q]
    BY <1>1 DEF Deliver, PoolTypeOK
<1>6. UNCHANGED <<next, inQ, readLock, worker, outQ, active, overdue, told, caller, deaths, blind>>
    BY DEF Deliver
<1>7. PoolTypeOK'
    BY <1>1, <1>2, <1>4, <1>6 DEF Deliver, PoolTypeOK
<1>8. Holds'
    BY <1>1, <1>6 DEF Holds, Box
<1>9. Waiting'
    BY <1>1, <1>5, <1>6 DEF Waiting, Task, NoTask
<1>10. \A t \in Task : Untaken(t)' => Untaken(t) /\ t # u
  <2>1. u < next /\ ~Has(inQ, u) /\ next \in Nat /\ u \in Nat
      BY <1>1, <1>2 DEF Waiting, PoolTypeOK, Task
  <2>2. \A q \in Pump : pump'[q] # u
      BY <1>1, <1>2, <1>5 DEF Waiting
  <2>3. \A t \in Task : Untaken(t)' => t # u
      BY <2>1, <2>2, <1>6 DEF Untaken
  <2>4. \A t \in Task, q \in Pump : pump'[q] = t => pump[q] = t
      BY <1>5 DEF Task, NoTask
  <2> QED
      BY <2>3, <2>4, <1>6 DEF Untaken
<1>11. \A w \in Worker, t \in Task : Touches(w, t)' <=> Touches(w, t)
    BY <1>6 DEF Touches, Speaks, Box
<1>12. Owned'
  <2>1. \A w \in Worker, t \in Task : Touches(w, t)' => ~Untaken(t)'
      BY <1>1, <1>10, <1>11 DEF Owned
  <2>2. \A t \in done' : ~Untaken(t)'
      BY <1>1, <1>2, <1>4, <1>10 DEF Owned, PoolTypeOK
  <2>3. \A v, w \in Worker, t \in Task : Touches(v, t)' /\ Touches(w, t)' => v = w
      BY <1>1, <1>11 DEF Owned
  <2> QED
      BY <2>1, <2>2, <2>3 DEF Owned
<1>13. Sequenced'
    BY <1>1, <1>6 DEF Sequenced, Box
<1>14. \A w \in Worker : ~Touches(w, u)
    BY <1>1, <1>2 DEF Owned
<1>15. Booked'
  <2>1. \A t : Begun(t)' <=> Begun(t)
      BY <1>6 DEF Begun, Box
  <2>2. Begun(u)
      BY <1>14 DEF Begun, Touches, Speaks, Kind
  <2>3. \A w \in Worker : active[w] # u
      BY <1>14 DEF Touches
  <2> QED
      BY <1>1, <1>4, <1>6, <2>1, <2>2, <2>3 DEF Booked
<1>16. AnswersOK'
  <2>1. ~Has(out, u) /\ ~Has(told, u)
      BY <1>1, <1>2, <1>3 DEF AnswersOK
  <2>2. Once(out')
      BY <1>1, <1>2, <1>4, <2>1, OnceAppend DEF AnswersOK, PoolTypeOK
  <2>3. \A e \in overdue : e[2] # u
      BY <1>1, <1>3 DEF AnswersOK
  <2> QED
      BY <1>1, <1>4, <1>6, <2>1, <2>2, <2>3 DEF AnswersOK
<1> QED
    BY <1>7, <1>8, <1>9, <1>12, <1>13, <1>15, <1>16 DEF PoolInv

LEMMA TakeTaskKeeps ==
    ASSUME PoolInv, NEW w \in Worker, TakeTask(w)
    PROVE  PoolInv'
<1> DEFINE u == Head(inQ)
           m == Say("start", w, u)
<1>1. PoolTypeOK /\ Waiting /\ Holds /\ Owned /\ Sequenced /\ Booked /\ AnswersOK
    BY DEF PoolInv
<1>2. inQ # <<>> /\ inQ \in Seq(Task) /\ worker[w].at = "get"
    BY <1>1 DEF TakeTask, PoolTypeOK
<1>3. /\ inQ' = Tail(inQ) /\ inQ' \in Seq(Task) /\ u \in Task /\ u # NoTask
      /\ \A y : Has(inQ, y) <=> Has(inQ', y) \/ y = u
  <2>1. inQ' = Tail(inQ) /\ \A t \in Task : t # NoTask
      BY DEF TakeTask, Task, NoTask
  <2> QED
      BY <1>2, <2>1, HasTail
<1>4. Once(inQ') /\ ~Has(inQ', u)
    BY <1>1, <1>2, <1>3, OnceTail DEF Waiting
<1>5. m \in Message /\ m.task = u /\ m.kind = "start"
    BY <1>3, SayIs DEF Kind
<1>6. /\ \A v \in Worker : Box(v) \in Seq(Message)
      /\ Append(Box(w), m) \in Seq(Message)
      /\ \A y : Has(Append(Box(w), m), y) <=> Has(Box(w), y) \/ y = m
    BY <1>1, <1>5, HasAppend DEF PoolTypeOK, Box
<1>7. worker' = [worker EXCEPT ![w] = [at |-> "busy", task |-> u, unsent |-> Append(Box(w), m)]]
    BY DEF TakeTask, Box, Say
<1>8. /\ worker'[w].at = "busy" /\ worker'[w].task = u /\ Box(w)' = Append(Box(w), m)
      /\ \A v \in Worker : v # w => worker'[v] = worker[v] /\ Box(v)' = Box(v)
    BY <1>1, <1>7 DEF PoolTypeOK, Box
<1>9. \A v \in Worker : \A y : Has(Box(v)', y) <=> Has(Box(v), y) \/ (v = w /\ y = m)
    BY <1>6, <1>8
<1>10. UNCHANGED <<next, pump, outQ, active, done, overdue, out, told, caller, deaths, blind>>
    BY DEF TakeTask, feeding, parent
<1>11. PoolTypeOK'
  <2>1. readLock' = Nobody
      BY DEF TakeTask
  <2> QED
      BY <1>1, <1>3, <1>6, <1>7, <1>10, <2>1 DEF PoolTypeOK
<1>12. Waiting'
    BY <1>1, <1>3, <1>4, <1>10 DEF Waiting
<1>13. Untaken(u) /\ \A t \in Task : Untaken(t)' => Untaken(t) /\ t # u
  <2>1. Untaken(u)
      BY <1>3 DEF Untaken
  <2>2. u < next /\ (\A p \in Pump : pump[p] # u) /\ next \in Nat /\ u \in Nat
      BY <1>1, <1>3 DEF Waiting, PoolTypeOK, Task
  <2> QED
      BY <1>3, <1>4, <1>10, <2>1, <2>2 DEF Untaken
<1>14. \A v \in Worker : ~Touches(v, u)
    BY <1>1, <1>3, <1>13 DEF Owned
<1>15. \A k \in Kind, v \in Worker : ~Has(Box(v), Say(k, v, u)) /\ ~Has(outQ, Say(k, v, u))
    BY <1>14 DEF Touches, Speaks
<1>16. Holds'
    BY <1>1, <1>3, <1>8, <1>9, SayIs DEF Holds
<1>17. \A k \in Kind, v, x \in Worker : ~Has(Box(v), Say(k, x, u))
    BY <1>1, <1>3, <1>15 DEF Holds
<1>18. worker[w].task = NoTask /\ \A t \in Task : t # NoTask
    BY <1>1, <1>2 DEF Holds, Task, NoTask
<1>19. \A v \in Worker, t \in Task : Touches(v, t)' => Touches(v, t) \/ (v = w /\ t = u)
  <2> SUFFICES ASSUME NEW v \in Worker, NEW t \in Task, Touches(v, t)', ~Touches(v, t)
               PROVE  v = w /\ t = u
      OBVIOUS
  <2>1. CASE worker'[v].task = t
      BY <2>1, <1>8 DEF Touches
  <2>2. CASE active'[v] = t
      BY <2>2, <1>10 DEF Touches
  <2>3. CASE Speaks(v, t)'
    <3>1. PICK k \in Kind : Has(Box(v)', Say(k, v, t)) \/ Has(outQ', Say(k, v, t))
        BY <2>3 DEF Speaks
    <3>2. ~Has(Box(v), Say(k, v, t)) /\ ~Has(outQ, Say(k, v, t))
        BY DEF Touches, Speaks
    <3>3. v = w /\ Say(k, v, t) = m
        BY <3>1, <3>2, <1>9, <1>10
    <3> QED
        BY <3>3, SayIs
  <2> QED
      BY <2>1, <2>2, <2>3 DEF Touches
<1>20. Owned'
  <2>1. \A v \in Worker, t \in Task : Touches(v, t)' => ~Untaken(t)'
      BY <1>1, <1>13, <1>19 DEF Owned
  <2>2. \A t \in done' : ~Untaken(t)'
      BY <1>1, <1>10, <1>13 DEF Owned, PoolTypeOK
  <2>3. \A v, x \in Worker, t \in Task : Touches(v, t)' /\ Touches(x, t)' => v = x
      BY <1>1, <1>14, <1>19 DEF Owned
  <2> QED
      BY <2>1, <2>2, <2>3 DEF Owned
<1>21. Sequenced'
  <2>1. InOrder(Box(w)')
      BY <1>1, <1>5, <1>6, <1>8, <1>17, InOrderAppend DEF Sequenced, Kind
  <2>2. InOrder(outQ') /\ \A v \in Worker : InOrder(Box(v)')
      BY <1>1, <1>8, <1>10, <2>1 DEF Sequenced
  <2> SUFFICES ASSUME NEW v \in Worker, NEW t \in Task
               PROVE  /\ Has(outQ, Say("answer", v, t)) => \A k \in Kind : ~Has(Box(v)', Say(k, v, t))
                      /\ Has(outQ, Say("start", v, t)) => ~Has(Box(v)', Say("start", v, t))
                      /\ worker'[v].task = t => /\ ~Has(outQ, Say("answer", v, t))
                                                /\ ~Has(Box(v)', Say("answer", v, t))
      BY <1>10, <2>2 DEF Sequenced
  <2>3. CASE v = w /\ t = u
      BY <2>3, <1>9, <1>15, SayIs DEF Kind
  <2>4. CASE v = w /\ t # u
    <3>1. \A k \in Kind : Has(Box(v)', Say(k, v, t)) <=> Has(Box(v), Say(k, v, t))
        BY <2>4, <1>9, SayIs
    <3> QED
        BY <2>4, <3>1, <1>1, <1>8 DEF Sequenced, Kind
  <2>5. CASE v # w
      BY <2>5, <1>1, <1>8 DEF Sequenced
  <2> QED
      BY <2>3, <2>4, <2>5
<1>22. Booked'
  <2>1. \A t : t # u => (Begun(t)' <=> Begun(t))
      BY <1>9, <1>10, SayIs DEF Begun
  <2>2. u \notin done /\ \A v \in Worker : active[v] # u
      BY <1>1, <1>13, <1>14 DEF Owned, Touches
  <2> QED
      BY <1>1, <1>10, <2>1, <2>2 DEF Booked
<1>23. AnswersOK'
    BY <1>1, <1>10 DEF AnswersOK
<1> QED
    BY <1>11, <1>12, <1>16, <1>20, <1>21, <1>22, <1>23 DEF PoolInv

LEMMA AnswerTaskKeeps ==
    ASSUME PoolInv, NEW w \in Worker, AnswerTask(w)
    PROVE  PoolInv'
<1> DEFINE u == worker[w].task
           m == Say("answer", w, u)
<1>1. PoolTypeOK /\ Waiting /\ Holds /\ Owned /\ Sequenced /\ Booked /\ AnswersOK
    BY DEF PoolInv
<1>2. u \in Task
    BY <1>1 DEF AnswerTask, Holds
<1>3. m \in Message /\ m.task = u /\ m.kind = "answer"
    BY <1>2, SayIs DEF Kind
<1>4. /\ \A v \in Worker : Box(v) \in Seq(Message)
      /\ Append(Box(w), m) \in Seq(Message)
      /\ \A y : Has(Append(Box(w), m), y) <=> Has(Box(w), y) \/ y = m
    BY <1>1, <1>3, HasAppend DEF PoolTypeOK, Box
<1>5. worker' = [worker EXCEPT ![w] = [at |-> "idle", task |-> NoTask, unsent |-> Append(Box(w), m)]]
    BY DEF AnswerTask, Box, Say
<1>6. /\ worker'[w].at = "idle" /\ worker'[w].task = NoTask /\ Box(w)' = Append(Box(w), m)
      /\ \A v \in Worker : v # w => worker'[v] = worker[v] /\ Box(v)' = Box(v)
    BY <1>1, <1>5 DEF PoolTypeOK, Box
<1>7. \A v \in Worker : \A y : Has(Box(v)', y) <=> Has(Box(v), y) \/ (v = w /\ y = m)
    BY <1>4, <1>6
<1>8. UNCHANGED <<next, pump, inQ, readLock, outQ, active, done, overdue, out, told, caller, deaths, blind>>
    BY DEF AnswerTask, feeding, parent
<1>9. PoolTypeOK'
    BY <1>1, <1>4, <1>5, <1>8 DEF PoolTypeOK
<1>10. Waiting' /\ AnswersOK'
    BY <1>1, <1>8 DEF Waiting, AnswersOK
<1>11. Holds'
    BY <1>1, <1>6, <1>7, SayIs DEF Holds
<1>12. \A v \in Worker, t \in Task : Touches(v, t)' => Touches(v, t)
  <2> SUFFICES ASSUME NEW v \in Worker, NEW t \in Task, Touches(v, t)'
               PROVE  Touches(v, t)
      OBVIOUS
  <2>1. CASE worker'[v].task = t
      BY <2>1, <1>6 DEF Touches, Task, NoTask
  <2>2. CASE active'[v] = t
      BY <2>2, <1>8 DEF Touches
  <2>3. CASE Speaks(v, t)'
    <3>1. PICK k \in Kind : Has(Box(v)', Say(k, v, t)) \/ Has(outQ', Say(k, v, t))
        BY <2>3 DEF Speaks
    <3>2. CASE Has(Box(v), Say(k, v, t)) \/ Has(outQ, Say(k, v, t))
        BY <3>2 DEF Touches, Speaks
    <3>3. CASE v = w /\ Say(k, v, t) = m
        BY <3>3, SayIs DEF Touches
    <3> QED
        BY <3>1, <3>2, <3>3, <1>7, <1>8
  <2> QED
      BY <2>1, <2>2, <2>3 DEF Touches
<1>13. \A t : Untaken(t)' <=> Untaken(t)
    BY <1>8 DEF Untaken
<1>14. Owned'
    BY <1>1, <1>8, <1>12, <1>13 DEF Owned, PoolTypeOK
<1>15. Sequenced'
  <2>1. \A v \in Worker : ~Has(Box(w), Say("answer", v, u))
      BY <1>1, <1>2 DEF Holds, Sequenced, Kind
  <2>2. InOrder(Box(w)')
      BY <1>1, <1>3, <1>4, <1>6, <2>1, InOrderAppend DEF Sequenced
  <2>3. InOrder(outQ') /\ \A v \in Worker : InOrder(Box(v)')
      BY <1>1, <1>6, <1>8, <2>2 DEF Sequenced
  <2> SUFFICES ASSUME NEW v \in Worker, NEW t \in Task
               PROVE  /\ Has(outQ, Say("answer", v, t)) => \A k \in Kind : ~Has(Box(v)', Say(k, v, t))
                      /\ Has(outQ, Say("start", v, t)) => ~Has(Box(v)', Say("start", v, t))
                      /\ worker'[v].task = t => /\ ~Has(outQ, Say("answer", v, t))
                                                /\ ~Has(Box(v)', Say("answer", v, t))
      BY <1>8, <2>3 DEF Sequenced
  <2>4. CASE v = w
    <3>1. worker'[v].task # t
        BY <2>4, <1>6 DEF Task, NoTask
    <3>2. CASE t = u
        BY <2>4, <3>1, <3>2, <1>1, <1>7, SayIs DEF Sequenced
    <3>3. CASE t # u
        BY <2>4, <3>1, <3>3, <1>1, <1>7, SayIs DEF Sequenced
    <3> QED
        BY <3>2, <3>3
  <2>5. CASE v # w
      BY <2>5, <1>1, <1>6 DEF Sequenced
  <2> QED
      BY <2>4, <2>5
<1>16. Booked'
  <2>1. \A t : Begun(t) => Begun(t)'
      BY <1>7, <1>8, SayIs DEF Begun
  <2> QED
      BY <1>1, <1>8, <2>1 DEF Booked
<1> QED
    BY <1>9, <1>10, <1>11, <1>14, <1>15, <1>16 DEF PoolInv

-----------------------------------------------------------------------------
(* The messages, and the processes that end.                               *)

LEMMA FeedKeeps ==
    ASSUME PoolInv, NEW w \in Worker, Feed(w)
    PROVE  PoolInv'
<1> DEFINE m == Head(Box(w))
           u == m.task
<1>1. PoolTypeOK /\ Waiting /\ Holds /\ Owned /\ Sequenced /\ Booked /\ AnswersOK
    BY DEF PoolInv
<1>2. Box(w) # <<>> /\ Box(w) \in Seq(Message) /\ outQ \in Seq(Message)
    BY <1>1 DEF Feed, Box, PoolTypeOK
<1>3. /\ m \in Message /\ Tail(Box(w)) \in Seq(Message)
      /\ \A y : Has(Box(w), y) <=> Has(Tail(Box(w)), y) \/ y = m
    BY <1>2, HasTail
<1>4. m.kind \in Kind /\ u \in Task /\ m.from = w /\ m = Say(m.kind, w, u)
  <2>1. m.kind \in Kind /\ m.from \in Worker /\ u \in Task /\ m = Say(m.kind, m.from, u)
      BY <1>3, SayIs
  <2>2. Has(Box(w), Say(m.kind, m.from, u))
      BY <1>3, <2>1
  <2>3. m.from = w
      BY <1>1, <2>1, <2>2 DEF Holds
  <2> QED
      BY <2>1, <2>3
<1>5. /\ outQ' = Append(outQ, m) /\ outQ' \in Seq(Message)
      /\ \A y : Has(outQ', y) <=> Has(outQ, y) \/ y = m
  <2>1. outQ' = Append(outQ, m)
      BY DEF Feed, Box
  <2> QED
      BY <1>2, <1>3, <2>1, HasAppend
<1>6. worker' = [worker EXCEPT ![w].unsent = Tail(Box(w))]
    BY DEF Feed, Box
<1>7. /\ \A v \in Worker : worker'[v].at = worker[v].at /\ worker'[v].task = worker[v].task
      /\ Box(w)' = Tail(Box(w)) /\ \A v \in Worker : v # w => Box(v)' = Box(v)
    BY <1>1, <1>6 DEF PoolTypeOK, Box
<1>8. /\ \A v \in Worker : \A y : Has(Box(v)', y) => Has(Box(v), y)
      /\ \A y : Has(Box(w), y) <=> Has(Box(w)', y) \/ y = m
    BY <1>3, <1>7
<1>9. UNCHANGED <<next, pump, inQ, readLock, active, done, overdue, out, told, caller, deaths, blind>>
    BY DEF Feed, feeding, parent
<1>10. PoolTypeOK'
    BY <1>1, <1>3, <1>5, <1>6, <1>9 DEF PoolTypeOK
<1>11. Waiting' /\ AnswersOK'
    BY <1>1, <1>9 DEF Waiting, AnswersOK
<1>12. Holds'
    BY <1>1, <1>7, <1>8 DEF Holds
<1>13. \A v \in Worker, t \in Task : Touches(v, t)' => Touches(v, t)
  <2> SUFFICES ASSUME NEW v \in Worker, NEW t \in Task, Touches(v, t)'
               PROVE  Touches(v, t)
      OBVIOUS
  <2>1. CASE worker'[v].task = t
      BY <2>1, <1>7 DEF Touches
  <2>2. CASE active'[v] = t
      BY <2>2, <1>9 DEF Touches
  <2>3. CASE Speaks(v, t)'
    <3>1. PICK k \in Kind : Has(Box(v)', Say(k, v, t)) \/ Has(outQ', Say(k, v, t))
        BY <2>3 DEF Speaks
    <3>2. CASE Has(Box(v), Say(k, v, t)) \/ Has(outQ, Say(k, v, t))
        BY <3>2 DEF Touches, Speaks
    <3>3. CASE Say(k, v, t) = m
      <4>1. v = w /\ Has(Box(v), Say(k, v, t))
          BY <3>3, <1>3, <1>4, SayIs
      <4> QED
          BY <4>1 DEF Touches, Speaks
    <3> QED
        BY <3>1, <3>2, <3>3, <1>5, <1>8
  <2> QED
      BY <2>1, <2>2, <2>3 DEF Touches
<1>14. \A t : Untaken(t)' <=> Untaken(t)
    BY <1>9 DEF Untaken
<1>15. Owned'
    BY <1>1, <1>9, <1>13, <1>14 DEF Owned, PoolTypeOK
<1>16. Touches(w, u)
  <2>1. Has(Box(w), Say(m.kind, w, u))
      BY <1>3, <1>4
  <2> QED
      BY <1>4, <2>1 DEF Touches, Speaks
<1>17. /\ InOrder(Tail(Box(w))) /\ ~Has(Box(w)', Say("start", w, u))
       /\ m.kind = "answer" => ~Has(Box(w)', Say("answer", w, u))
    BY <1>1, <1>2, <1>7, InOrderTail DEF Sequenced
<1>18. \A v \in Worker : v # w => ~Touches(v, u)
    BY <1>1, <1>4, <1>16 DEF Owned
<1>19. /\ \A v \in Worker : ~Has(outQ, Say("answer", v, u))
       /\ m.kind = "start" => \A v \in Worker : ~Has(outQ, Say("start", v, u))
  <2> SUFFICES ASSUME NEW v \in Worker
               PROVE  /\ ~Has(outQ, Say("answer", v, u))
                      /\ m.kind = "start" => ~Has(outQ, Say("start", v, u))
      OBVIOUS
  <2>1. CASE v = w
    <3>1. Has(Box(w), Say(m.kind, w, u))
        BY <1>3, <1>4
    <3> QED
        BY <2>1, <3>1, <1>1, <1>4 DEF Sequenced
  <2>2. CASE v # w
      BY <2>2, <1>18 DEF Touches, Speaks, Kind
  <2> QED
      BY <2>1, <2>2
<1>20. InOrder(outQ') /\ \A v \in Worker : InOrder(Box(v)')
  <2>1. InOrder(Append(outQ, m))
    <3>1. InOrder(outQ)
        BY <1>1 DEF Sequenced
    <3> HIDE DEF m
    <3> QED
        BY <1>2, <1>3, <1>19, <3>1, InOrderAppend
  <2> QED
      BY <1>1, <1>5, <1>7, <1>17, <2>1 DEF Sequenced
<1>21. Sequenced'
  <2> SUFFICES ASSUME NEW v \in Worker, NEW t \in Task
               PROVE  /\ Has(outQ', Say("answer", v, t)) => \A k \in Kind : ~Has(Box(v)', Say(k, v, t))
                      /\ Has(outQ', Say("start", v, t)) => ~Has(Box(v)', Say("start", v, t))
                      /\ worker'[v].task = t => /\ ~Has(outQ', Say("answer", v, t))
                                                /\ ~Has(Box(v)', Say("answer", v, t))
      BY <1>20 DEF Sequenced
  <2>1. CASE v = w /\ t = u
    <3>1. worker[w].task = u => m.kind # "answer"
        BY <1>1, <1>3, <1>4 DEF Sequenced
    <3>2. worker'[v].task = t => ~Has(outQ', Say("answer", v, t)) /\ ~Has(Box(v)', Say("answer", v, t))
        BY <2>1, <3>1, <1>1, <1>4, <1>5, <1>7, <1>8, <1>19, SayIs DEF Sequenced
    <3>3. Has(outQ', Say("answer", v, t)) => \A k \in Kind : ~Has(Box(v)', Say(k, v, t))
      <4>1. SUFFICES ASSUME Has(outQ', Say("answer", v, t))
                     PROVE  \A k \in Kind : ~Has(Box(v)', Say(k, v, t))
          OBVIOUS
      <4>2. m = Say("answer", v, t)
        <5>1. ~Has(outQ, Say("answer", v, t))
            BY <2>1, <1>19, Zenon
        <5> QED
            BY <5>1, <4>1, <1>5
      <4>3. m.kind = "answer"
          BY <4>2, SayIs
      <4> QED
          BY <2>1, <4>3, <1>17 DEF Kind
    <3> QED
        BY <2>1, <3>2, <3>3, <1>17
  <2>2. CASE ~(v = w /\ t = u)
    <3>1. \A k : Has(outQ', Say(k, v, t)) <=> Has(outQ, Say(k, v, t))
      <4>1. \A k : Say(k, v, t) # m
          BY <2>2, <1>4, SayIs
      <4> QED
          BY <4>1, <1>5
    <3> QED
        BY <3>1, <1>1, <1>7, <1>8 DEF Sequenced
  <2> QED
      BY <2>1, <2>2
<1>22. Booked'
  <2>1. ASSUME NEW t, Begun(t)
        PROVE  Begun(t)'
    <3>1. ASSUME NEW v \in Worker, Say("start", v, t) = m
          PROVE  FALSE
      <4>1. v = w /\ Has(Box(w), Say("start", w, t))
          BY <3>1, <1>3, <1>4, SayIs
      <4> QED
          BY <4>1, <2>1 DEF Begun
    <3> QED
        BY <2>1, <3>1, <1>5, <1>8 DEF Begun
  <2> QED
      BY <1>1, <1>9, <2>1 DEF Booked
<1> QED
    BY <1>10, <1>11, <1>12, <1>15, <1>21, <1>22 DEF PoolInv

\* A process that ends takes words away and adds none.
LEMMA SilenceKeeps ==
    ASSUME PoolInv, PoolTypeOK', Holds', AnswersOK',
           UNCHANGED <<next, pump, inQ, outQ, active, done>>, NEW w \in Worker,
           Box(w)' = <<>>, worker'[w].task \in {NoTask, worker[w].task},
           \A v \in Worker : v # w => worker'[v] = worker[v]
    PROVE  PoolInv'
<1>1. Owned /\ Sequenced /\ Booked /\ Waiting /\ PoolTypeOK
    BY DEF PoolInv
<1>2. \A v \in Worker : v # w => Box(v)' = Box(v)
    BY DEF Box
<1>3. \A v \in Worker : \A y : Has(Box(v)', y) => Has(Box(v), y)
    BY <1>2, HasEmpty
<1>4. \A v \in Worker, t \in Task : worker'[v].task = t => worker[v].task = t
    BY DEF Task, NoTask
<1>5. \A v \in Worker, t \in Task : Touches(v, t)' => Touches(v, t)
    BY <1>3, <1>4 DEF Touches, Speaks
<1>6. \A t : Untaken(t)' <=> Untaken(t)
    BY DEF Untaken
<1>7. Owned'
    BY <1>1, <1>5, <1>6 DEF Owned, PoolTypeOK
<1>8. InOrder(<<>>)
    BY DEF InOrder
<1>9. InOrder(outQ') /\ \A v \in Worker : InOrder(Box(v)')
    BY <1>1, <1>2, <1>8 DEF Sequenced
<1>10. Sequenced'
    BY <1>1, <1>3, <1>4, <1>9 DEF Sequenced
<1>11. \A t : Begun(t) => Begun(t)'
    BY <1>3 DEF Begun
<1>12. Booked'
    BY <1>1, <1>11 DEF Booked
<1>13. Waiting'
    BY <1>1 DEF Waiting
<1> QED
    BY <1>7, <1>10, <1>12, <1>13 DEF PoolInv

LEMMA DieKeeps ==
    ASSUME PoolInv, NEW w \in Worker, Die(w)
    PROVE  PoolInv'
<1> USE PoolAssumption
<1>1. PoolTypeOK /\ Holds /\ AnswersOK
    BY DEF PoolInv
<1>2. UNCHANGED <<next, pump, inQ, outQ, active, done, overdue, out, told, caller>>
    BY DEF Die, feeding, parent
<1>3. worker' = [worker EXCEPT ![w].at = "dead", ![w].unsent = <<>>]
    BY DEF Die
<1>4. /\ worker'[w].at = "dead" /\ worker'[w].task = worker[w].task /\ Box(w)' = <<>>
      /\ \A v \in Worker : v # w => worker'[v] = worker[v]
    BY <1>1, <1>3 DEF PoolTypeOK, Box
<1>5. PoolTypeOK'
  <2>1. worker' \in [Worker -> [at : {"idle", "get", "busy", "dead"},
                              task : Task \union {NoTask}, unsent : Seq(Message)]]
    <3>1. <<>> \in Seq(Message)
        BY EmptySeq
    <3> QED
        BY <1>1, <1>3, <3>1 DEF PoolTypeOK
  <2>2. deaths' \in 0..MaxDeaths
      BY <1>1 DEF Die, PoolTypeOK
  <2>3. readLock' \in Worker \union {Nobody, Gone}
      BY <1>1 DEF Die, PoolTypeOK, LockAfter
  <2>4. blind' \in BOOLEAN
      BY <1>1 DEF Die, PoolTypeOK
  <2> QED
      BY <1>1, <1>2, <2>1, <2>2, <2>3, <2>4 DEF PoolTypeOK
<1>6. Holds'
    BY <1>1, <1>4, HasEmpty DEF Holds, Box
<1>7. AnswersOK'
    BY <1>1, <1>2 DEF AnswersOK
<1> QED
    BY <1>2, <1>4, <1>5, <1>6, <1>7, SilenceKeeps

LEMMA ReplaceKeeps ==
    ASSUME PoolInv, Replace
    PROVE  PoolInv'
<1>1. PoolTypeOK /\ Holds /\ AnswersOK
    BY DEF PoolInv
<1>2. PICK e \in overdue : /\ overdue' = overdue \ {e}
                           /\ worker' = [worker EXCEPT ![e[1]] = Fresh]
                           /\ readLock' = LockAfter(e[1])
                           /\ out' = Append(out, e[2])
                           /\ blind' = (blind \/ readLock = e[1] \/ worker[e[1]].task \notin {NoTask, e[2]}
                                               \/ \E t \in Task \ {e[2]} : Unsent(e[1], t))
                           /\ UNCHANGED <<feeding, inQ, outQ, active, done, told, caller, deaths>>
    BY Zenon DEF Replace
<1>3. UNCHANGED <<next, pump, inQ, outQ, active, done, told, caller, deaths>>
    BY <1>2 DEF feeding
<1> DEFINE w == e[1]
           u == e[2]
<1>4. w \in Worker /\ u \in Task
    BY <1>1, <1>2 DEF PoolTypeOK
<1>5. /\ worker'[w].at = "idle" /\ worker'[w].task = NoTask /\ Box(w)' = <<>>
      /\ \A v \in Worker : v # w => worker'[v] = worker[v]
    BY <1>1, <1>2, <1>4 DEF PoolTypeOK, Box, Fresh
<1>6. /\ out' \in Seq(Task) /\ \A y : Has(out', y) <=> Has(out, y) \/ y = u
    BY <1>1, <1>2, <1>4, HasAppend DEF PoolTypeOK
<1>7. PoolTypeOK'
  <2>1. <<>> \in Seq(Message)
      BY EmptySeq
  <2>2. worker' \in [Worker -> [at : {"idle", "get", "busy", "dead"},
                              task : Task \union {NoTask}, unsent : Seq(Message)]]
      BY <1>1, <1>2, <2>1 DEF PoolTypeOK, Fresh
  <2>3. readLock' \in Worker \union {Nobody, Gone}
      BY <1>1, <1>2 DEF PoolTypeOK, LockAfter
  <2>4. blind' \in BOOLEAN /\ overdue' \subseteq Worker \X Task
      BY <1>1, <1>2 DEF PoolTypeOK
  <2> QED
      BY <1>1, <1>3, <1>6, <2>2, <2>3, <2>4 DEF PoolTypeOK
<1>8. Holds'
    BY <1>1, <1>5, HasEmpty DEF Holds, Box
<1>9. AnswersOK'
  <2>1. u \in done /\ ~Has(out, u) /\ ~Has(told, u)
      BY <1>1, <1>2 DEF AnswersOK
  <2>2. Once(out')
      BY <1>1, <1>2, <1>4, <2>1, OnceAppend DEF AnswersOK, PoolTypeOK
  <2>3. \A f \in overdue' : f[2] # u
      BY <1>1, <1>2 DEF AnswersOK
  <2>4. \A f \in overdue' : f[2] \in done /\ ~Has(out', f[2]) /\ ~Has(told, f[2])
      BY <1>1, <1>2, <1>6, <2>3 DEF AnswersOK
  <2>5. \A f, g \in overdue' : f[2] = g[2] => f = g
      BY <1>1, <1>2 DEF AnswersOK
  <2>6. \A t \in Task : Has(out', t) \/ Has(told, t) => t \in done
      BY <1>1, <1>6, <2>1 DEF AnswersOK
  <2>7. \A t \in Task : ~(Has(out', t) /\ Has(told, t))
      BY <1>1, <1>6, <2>1 DEF AnswersOK
  <2> QED
      BY <1>1, <1>3, <2>2, <2>4, <2>5, <2>6, <2>7 DEF AnswersOK
<1> QED
    BY <1>3, <1>4, <1>5, <1>7, <1>8, <1>9, SilenceKeeps

LEMMA FindOverdueKeeps ==
    ASSUME PoolInv, FindOverdue
    PROVE  PoolInv'
<1>1. PoolTypeOK /\ Waiting /\ Holds /\ Owned /\ Sequenced /\ Booked /\ AnswersOK
    BY DEF PoolInv
<1>2. PICK late \in SUBSET {w \in Worker : active[w] # NoTask} \ {{}} :
        /\ overdue' = {<<w, active[w]>> : w \in late}
        /\ active' = [w \in Worker |-> IF w \in late THEN NoTask ELSE active[w]]
        /\ done' = done \union {active[w] : w \in late}
    BY DEF FindOverdue
<1>3. \A w \in late : w \in Worker /\ active[w] \in Task
    BY <1>1, <1>2 DEF PoolTypeOK
<1>4. UNCHANGED <<next, pump, inQ, readLock, worker, outQ, out, told, caller, deaths, blind>>
    BY DEF FindOverdue, feeding
<1>5. \A w \in Worker : active'[w] = IF w \in late THEN NoTask ELSE active[w]
    BY <1>2
<1>6. PoolTypeOK'
  <2>1. active' \in [Worker -> Task \union {NoTask}]
      BY <1>1, <1>2 DEF PoolTypeOK
  <2>2. done' \subseteq Task /\ overdue' \subseteq Worker \X Task
      BY <1>1, <1>2, <1>3 DEF PoolTypeOK
  <2> QED
      BY <1>1, <1>4, <2>1, <2>2 DEF PoolTypeOK
<1>7. Waiting' /\ Holds' /\ Sequenced'
    BY <1>1, <1>4 DEF Waiting, Holds, Sequenced, Box
<1>8. \A w \in Worker, t \in Task : Touches(w, t)' => Touches(w, t)
    BY <1>4, <1>5 DEF Touches, Speaks, Box, Task, NoTask
<1>9. \A t : Untaken(t)' <=> Untaken(t)
    BY <1>4 DEF Untaken
<1>10. \A w \in late : Touches(w, active[w])
    BY DEF Touches
<1>11. Owned'
  <2>1. \A t \in done' : ~Untaken(t)'
      BY <1>1, <1>2, <1>3, <1>9, <1>10 DEF Owned
  <2> QED
      BY <1>1, <1>8, <1>9, <2>1 DEF Owned
<1>12. \A v, w \in Worker : active[v] = active[w] /\ active[v] # NoTask => v = w
    BY <1>1 DEF Owned, PoolTypeOK, Touches
<1>13. Booked'
  <2>1. \A t : Begun(t)' <=> Begun(t)
      BY <1>4 DEF Begun, Box
  <2>2. \A w \in late : active[w] \notin done /\ Begun(active[w])
      BY <1>1, <1>2 DEF Booked
  <2>3. \A t \in done' : Begun(t)'
      BY <1>1, <1>2, <2>1, <2>2 DEF Booked
  <2>4. ASSUME NEW w \in Worker, active'[w] # NoTask
        PROVE  active'[w] \notin done' /\ Begun(active[w])'
    <3>1. w \notin late /\ active'[w] = active[w]
        BY <2>4, <1>5
    <3>2. active[w] \notin done /\ Begun(active[w])
        BY <2>4, <3>1, <1>1 DEF Booked
    <3>3. \A v \in late : active[v] # active[w]
        BY <2>4, <3>1, <1>3, <1>12
    <3> QED
        BY <3>1, <3>2, <3>3, <1>2, <1>4 DEF Begun, Box
  <2> QED
      BY <2>3, <2>4 DEF Booked
<1>14. AnswersOK'
  <2>1. \A w \in late : ~Has(out, active[w]) /\ ~Has(told, active[w])
      BY <1>1, <1>2, <1>3 DEF Booked, AnswersOK
  <2>2. \A e \in overdue' : e[2] \in done' /\ ~Has(out', e[2]) /\ ~Has(told', e[2])
      BY <1>2, <1>4, <2>1
  <2>3. \A e, f \in overdue' : e[2] = f[2] => e = f
      BY <1>2, <1>3, <1>12
  <2>4. \A t \in Task : Has(out', t) \/ Has(told', t) => t \in done'
      BY <1>1, <1>2, <1>4 DEF AnswersOK
  <2> QED
      BY <1>1, <1>4, <2>2, <2>3, <2>4 DEF AnswersOK
<1> QED
    BY <1>6, <1>7, <1>11, <1>13, <1>14 DEF PoolInv

LEMMA CollectKeeps ==
    ASSUME PoolInv, Collect
    PROVE  PoolInv'
<1> DEFINE m == Head(outQ)
           w == m.from
           u == m.task
<1>1. PoolTypeOK /\ Waiting /\ Holds /\ Owned /\ Sequenced /\ Booked /\ AnswersOK
    BY DEF PoolInv
<1>2. outQ # <<>> /\ outQ \in Seq(Message)
    BY <1>1 DEF Collect, PoolTypeOK
<1>3. /\ outQ' = Tail(outQ) /\ m \in Message /\ outQ' \in Seq(Message)
      /\ \A y : Has(outQ, y) <=> Has(outQ', y) \/ y = m
    BY <1>2, HasTail DEF Collect
<1>4. m.kind \in Kind /\ w \in Worker /\ u \in Task /\ m = Say(m.kind, w, u) /\ u # NoTask
    BY <1>3, SayIs DEF Task, NoTask
<1>5. UNCHANGED <<next, pump, inQ, readLock, worker, overdue, told, caller, deaths, blind>>
    BY DEF Collect, feeding
<1>6. \/ /\ m.kind = "start" /\ active' = [active EXCEPT ![w] = u] /\ UNCHANGED <<done, out>>
      \/ /\ m.kind = "answer" /\ active' = [active EXCEPT ![w] = NoTask]
         /\ IF u \in done THEN UNCHANGED <<done, out>>
            ELSE done' = done \union {u} /\ out' = Append(out, u)
    BY DEF Collect
<1>7. /\ InOrder(outQ') /\ \A v \in Worker : ~Has(outQ', Say("start", v, u))
      /\ m.kind = "answer" => \A v \in Worker : ~Has(outQ', Say("answer", v, u))
    BY <1>1, <1>2, <1>3, InOrderTail DEF Sequenced
<1>8. Has(outQ, Say(m.kind, w, u)) /\ Touches(w, u)
    BY <1>3, <1>4 DEF Touches, Speaks
<1>9. ~Untaken(u) /\ \A v \in Worker : Touches(v, u) => v = w
    BY <1>1, <1>4, <1>8 DEF Owned
<1>10. \A v \in Worker : ~Has(Box(v), Say("start", v, u))
  <2>1. ~Has(Box(w), Say("start", w, u))
      BY <1>1, <1>4, <1>8 DEF Sequenced, Kind
  <2> QED
      BY <2>1, <1>9 DEF Touches, Speaks, Kind
<1>11. \A t : Begun(t) => Begun(t)'
    BY <1>3, <1>5 DEF Begun, Box
<1>12. \A v \in Worker : ~Has(outQ', Say("start", v, u)) /\ ~Has(Box(v)', Say("start", v, u))
    BY <1>5, <1>7, <1>10 DEF Box
<1>13. \A v \in Worker : active'[v] = IF v = w THEN IF m.kind = "start" THEN u ELSE NoTask ELSE active[v]
    BY <1>1, <1>4, <1>6 DEF PoolTypeOK
<1>14. \A v \in Worker, t \in Task : Touches(v, t)' => Touches(v, t)
  <2> SUFFICES ASSUME NEW v \in Worker, NEW t \in Task, Touches(v, t)'
               PROVE  Touches(v, t)
      OBVIOUS
  <2>1. CASE worker'[v].task = t
      BY <2>1, <1>5 DEF Touches
  <2>2. CASE active'[v] = t
      BY <2>2, <1>8, <1>13 DEF Touches, Task, NoTask
  <2>3. CASE Speaks(v, t)'
      BY <2>3, <1>3, <1>5 DEF Touches, Speaks, Box
  <2> QED
      BY <2>1, <2>2, <2>3 DEF Touches
<1>15. \A t : Untaken(t)' <=> Untaken(t)
    BY <1>5 DEF Untaken
<1>16. done' \subseteq done \union {u} /\ done \subseteq done'
    BY <1>6
<1>17. PoolTypeOK'
  <2>1. active' \in [Worker -> Task \union {NoTask}]
      BY <1>1, <1>4, <1>6 DEF PoolTypeOK
  <2>2. out' \in Seq(Task)
    <3>1. out' = out \/ out' = Append(out, u)
        BY <1>6
    <3>2. out \in Seq(Task)
        BY <1>1 DEF PoolTypeOK
    <3> QED
        BY <3>1, <3>2, <1>4, AppendProperties
  <2> QED
      BY <1>1, <1>3, <1>4, <1>5, <1>16, <2>1, <2>2 DEF PoolTypeOK
<1>18. Waiting' /\ Holds'
    BY <1>1, <1>5 DEF Waiting, Holds, Box
<1>19. Owned'
  <2>1. \A t \in done' : ~Untaken(t)'
      BY <1>1, <1>9, <1>15, <1>16 DEF Owned
  <2> QED
      BY <1>1, <1>14, <1>15, <2>1 DEF Owned
<1>20. Sequenced'
  <2>1. \A y : Has(outQ', y) => Has(outQ, y)
      BY <1>3
  <2> QED
      BY <1>1, <1>5, <1>7, <2>1 DEF Sequenced, Box
<1>21. m.kind = "start" => u \notin done
  <2>1. ASSUME u \in done, m.kind = "start"
        PROVE  FALSE
    <3>1. Begun(u)
        BY <2>1, <1>1 DEF Booked
    <3> QED
        BY <2>1, <3>1, <1>4, <1>8 DEF Begun
  <2> QED
      BY <2>1
<1>22. Booked'
  <2>1. \A t : t = u => Begun(t)'
      BY <1>12 DEF Begun
  <2>2. \A t \in done' : Begun(t)'
      BY <1>1, <1>11, <1>16, <2>1 DEF Booked
  <2>3. ASSUME NEW v \in Worker, active'[v] # NoTask
        PROVE  active'[v] \notin done' /\ Begun(active[v])'
    <3>1. CASE v = w
      <4>1. m.kind = "start" /\ active'[v] = u
          BY <2>3, <3>1, <1>13
      <4>2. done' = done
          BY <4>1, <1>6
      <4> QED
          BY <4>1, <4>2, <1>12, <1>21 DEF Begun
    <3>2. CASE v # w
      <4>1. active'[v] = active[v]
          BY <3>2, <1>13
      <4>2. active[v] \notin done /\ Begun(active[v])
          BY <2>3, <4>1, <1>1 DEF Booked
      <4>3. active[v] # u
          BY <3>2, <1>9 DEF Touches
      <4>4. \A y : Has(outQ', y) => Has(outQ, y)
          BY <1>3
      <4> QED
          BY <4>1, <4>2, <4>3, <4>4, <1>5, <1>16 DEF Begun, Box
    <3> QED
        BY <3>1, <3>2
  <2> QED
      BY <2>2, <2>3 DEF Booked
<1>23. AnswersOK'
  <2>1. CASE UNCHANGED <<done, out>>
      BY <2>1, <1>1, <1>5 DEF AnswersOK
  <2>2. CASE u \notin done /\ done' = done \union {u} /\ out' = Append(out, u)
    <3>1. out \in Seq(Task) /\ \A y : Has(out', y) <=> Has(out, y) \/ y = u
        BY <2>2, <1>1, <1>4, HasAppend DEF PoolTypeOK
    <3>2. ~Has(out, u) /\ ~Has(told, u)
        BY <2>2, <1>1, <1>4 DEF AnswersOK
    <3>3. Once(out')
        BY <2>2, <3>1, <3>2, <1>1, <1>4, OnceAppend DEF AnswersOK
    <3>4. \A e \in overdue : e[2] # u
        BY <2>2, <1>1 DEF AnswersOK
    <3> QED
        BY <2>2, <3>1, <3>2, <3>3, <3>4, <1>1, <1>5 DEF AnswersOK
  <2> QED
      BY <2>1, <2>2, <1>6
<1> QED
    BY <1>17, <1>18, <1>19, <1>20, <1>22, <1>23 DEF PoolInv

-----------------------------------------------------------------------------
LEMMA PoolInvInit == PoolInit => PoolInv
<1> SUFFICES ASSUME PoolInit
             PROVE  PoolInv
    OBVIOUS
<1> USE PoolAssumption
<1>1. /\ next = 1 /\ pump = [p \in Pump |-> NoTask] /\ inQ = <<>> /\ outQ = <<>>
      /\ worker = [w \in Worker |-> Fresh] /\ active = [w \in Worker |-> NoTask]
      /\ done = {} /\ overdue = {} /\ out = <<>> /\ told = <<>>
    BY DEF PoolInit
<1>2. \A S : <<>> \in Seq(S)
    BY EmptySeq
<1>3. \A w \in Worker : worker[w].at = "idle" /\ worker[w].task = NoTask /\ Box(w) = <<>>
    BY <1>1 DEF Fresh, Box
<1>4. PoolTypeOK
  <2>1. next \in 1..(TaskCount + 1) /\ pump \in [Pump -> Task \union {NoTask}]
      BY <1>1
  <2>2. inQ \in Seq(Task) /\ outQ \in Seq(Message) /\ out \in Seq(Task) /\ told \in Seq(Task)
      BY <1>1, <1>2
  <2>3. worker \in [Worker -> [at : {"idle", "get", "busy", "dead"},
                              task : Task \union {NoTask}, unsent : Seq(Message)]]
      BY <1>1, <1>2 DEF Fresh
  <2>4. active \in [Worker -> Task \union {NoTask}] /\ done \subseteq Task /\ overdue \subseteq Worker \X Task
      BY <1>1
  <2>5. /\ readLock \in Worker \union {Nobody, Gone} /\ caller \in {"drain", "leave", "close", "closed"}
        /\ blind \in BOOLEAN
      BY DEF PoolInit
  <2>6. deaths \in 0..MaxDeaths
      BY DEF PoolInit
  <2> QED
      BY <2>1, <2>2, <2>3, <2>4, <2>5, <2>6 DEF PoolTypeOK
<1>5. Waiting
    BY <1>1, HasEmpty DEF Waiting, Once
<1>6. Holds
    BY <1>3, HasEmpty DEF Holds
<1>7. \A w \in Worker, t \in Task : ~Touches(w, t)
    BY <1>1, <1>3, HasEmpty DEF Touches, Speaks, Task, NoTask
<1>8. Owned
    BY <1>1, <1>7 DEF Owned
<1>9. InOrder(<<>>) /\ Once(<<>>)
    BY DEF InOrder, Once
<1>10. Sequenced
    BY <1>1, <1>3, <1>9, HasEmpty DEF Sequenced, Task, NoTask
<1>11. Booked /\ AnswersOK
    BY <1>1, <1>9, HasEmpty DEF Booked, AnswersOK
<1> QED
    BY <1>4, <1>5, <1>6, <1>8, <1>10, <1>11 DEF PoolInv

LEMMA PoolInvStep == PoolInv /\ [PoolNext]_poolVars => PoolInv'
<1> SUFFICES ASSUME PoolInv, [PoolNext]_poolVars
             PROVE  PoolInv'
    OBVIOUS
<1>1. ASSUME NEW p \in Pump, PumpStep(p)
      PROVE  PoolInv'
    BY <1>1, PumpTakesKeeps, SubmitKeeps, DeliverKeeps DEF PumpStep
<1>2. ASSUME NEW w \in Worker, WorkerStep(w) \/ Feed(w) \/ Die(w)
      PROVE  PoolInv'
    BY <1>2, WaitForTaskKeeps, TakeTaskKeeps, AnswerTaskKeeps, FeedKeeps, DieKeeps DEF WorkerStep
<1>3. CASE Collect \/ FindOverdue \/ Replace
    BY <1>3, CollectKeeps, FindOverdueKeeps, ReplaceKeeps
<1>4. CASE CallerStep
    BY <1>4, TakeAnswerKeeps, CallerKeeps DEF CallerStep
<1>5. CASE UNCHANGED poolVars
  <2>1. UNCHANGED <<next, pump, inQ, readLock, worker, outQ, active, done, overdue,
                    out, told, caller, deaths, blind>>
      BY <1>5 DEF poolVars
  <2>2. PoolTypeOK' /\ Holds' /\ AnswersOK'
      BY <2>1 DEF PoolInv, PoolTypeOK, Holds, AnswersOK, Box
  <2> QED
      BY <2>1, <2>2, Untouched DEF Box
<1> QED
    BY <1>1, <1>2, <1>3, <1>4, <1>5 DEF PoolNext

\* What the invariant says of the answers is what the caller relies on.
LEMMA AnswersAreOneEach == PoolInv => OneAnswerEach
<1> SUFFICES ASSUME PoolInv
             PROVE  OneAnswerEach
    OBVIOUS
<1> DEFINE both == out \o told
<1>1. out \in Seq(Task) /\ told \in Seq(Task)
    BY DEF PoolInv, PoolTypeOK
<1>2. /\ Len(out) \in Nat /\ Len(told) \in Nat
      /\ DOMAIN out = 1..Len(out) /\ DOMAIN told = 1..Len(told)
      /\ DOMAIN both = 1..(Len(out) + Len(told))
      /\ \A i \in 1..(Len(out) + Len(told)) :
           both[i] = IF i <= Len(out) THEN out[i] ELSE told[i - Len(out)]
    BY <1>1, ConcatProperties, LenProperties
<1>3. /\ \A i, j \in 1..Len(out) : out[i] = out[j] => i = j
      /\ \A i, j \in 1..Len(told) : told[i] = told[j] => i = j
      /\ \A i \in 1..Len(out), j \in 1..Len(told) : out[i] # told[j]
  <2>1. \A i \in 1..Len(out) : out[i] \in Task
      BY <1>1, ElementOfSeq
  <2>2. AnswersOK
      BY DEF PoolInv
  <2> QED
      BY <1>2, <2>1, <2>2 DEF AnswersOK, Once, Has
<1>4. ASSUME NEW i \in DOMAIN both, NEW j \in DOMAIN both, both[i] = both[j]
      PROVE  i = j
  <2> HIDE DEF both
  <2>1. CASE i <= Len(out) /\ j <= Len(out)
      BY <2>1, <1>2, <1>3, <1>4
  <2>2. CASE ~(i <= Len(out)) /\ ~(j <= Len(out))
    <3>1. i - Len(out) \in 1..Len(told) /\ j - Len(out) \in 1..Len(told)
        BY <2>2, <1>2
    <3>2. i - Len(out) = j - Len(out)
        BY <2>2, <3>1, <1>2, <1>3, <1>4
    <3> QED
        BY <3>2, <1>2
  <2>3. CASE i <= Len(out) /\ ~(j <= Len(out))
    <3>1. i \in 1..Len(out) /\ j - Len(out) \in 1..Len(told)
        BY <2>3, <1>2
    <3> QED
        BY <2>3, <3>1, <1>2, <1>3, <1>4
  <2>4. CASE ~(i <= Len(out)) /\ j <= Len(out)
    <3>1. j \in 1..Len(out) /\ i - Len(out) \in 1..Len(told)
        BY <2>4, <1>2
    <3> QED
        BY <2>4, <3>1, <1>2, <1>3, <1>4
  <2> QED
      BY <2>1, <2>2, <2>3, <2>4
<1> QED
    BY <1>4 DEF OneAnswerEach

-----------------------------------------------------------------------------
(* The books: how what a worker is known to hold follows its messages.     *)

LEMMA CoversAppend ==
    ASSUME NEW S, NEW s \in Seq(S), NEW m \in S, NEW x, NEW y,
           Covers(s, x, y), m = y => Has(s, x)
    PROVE  Covers(Append(s, m), x, y)
BY AppendProperties, LenProperties DEF Covers, Has

LEMMA CoversTail ==
    ASSUME NEW S, NEW s \in Seq(S), s # <<>>, NEW x, NEW y, Covers(s, x, y)
    PROVE  Head(s) # y /\ (x # Head(s) => Covers(Tail(s), x, y))
<1> DEFINE T == Tail(s)
<1>1. /\ Len(s) \in Nat \ {0} /\ Head(s) = s[1] /\ DOMAIN s = 1..Len(s)
      /\ DOMAIN T = 1..(Len(s) - 1) /\ \A i \in 1..(Len(s) - 1) : T[i] = s[i + 1]
    BY HeadTailProperties, LenProperties, EmptySeq
<1> HIDE DEF T
<1>2. Head(s) # y
    BY <1>1 DEF Covers
<1>3. ASSUME x # Head(s), NEW j \in DOMAIN T, T[j] = y
      PROVE  \E i \in DOMAIN T : i < j /\ T[i] = x
  <2>1. j \in Nat /\ j + 1 \in DOMAIN s /\ s[j + 1] = y
      BY <1>1, <1>3
  <2>2. PICK i \in DOMAIN s : i < j + 1 /\ s[i] = x
      BY <2>1 DEF Covers
  <2>3. i # 1 /\ i \in Nat
      BY <1>1, <1>3, <2>2
  <2>4. i - 1 \in DOMAIN T /\ i - 1 < j /\ T[i - 1] = x
      BY <1>1, <1>3, <2>1, <2>2, <2>3
  <2> QED
      BY <2>4
<1> QED
    BY <1>2, <1>3 DEF Covers, T

LEMMA CoversAbsent ==
    ASSUME NEW s, NEW x, NEW y, ~Has(s, y)
    PROVE  Covers(s, x, y)
BY DEF Covers, Has

\* A worker of which nothing moves that its part of the books reads.
LEMMA Unmoved ==
    ASSUME NEW v \in Worker, Followed(v), done \subseteq done',
           worker'[v].task = worker[v].task, active'[v] = active[v],
           \A t \in Task : /\ InLine(v, Start(v, t))' <=> InLine(v, Start(v, t))
                           /\ InLine(v, AnswerOf(v, t))' <=> InLine(v, AnswerOf(v, t)),
           \A t, u \in Task : Ahead(v, AnswerOf(v, t), Start(v, u))
                                => Ahead(v, AnswerOf(v, t), Start(v, u))'
    PROVE  Followed(v)'
<1>1. \A t \in Task : (Opened(v, t)' <=> Opened(v, t)) /\ (Current(v, t)' <=> Current(v, t))
    BY DEF Opened, Current
<1>2. \A t, u \in Task : t # u /\ Current(v, t)' => active'[v] # u /\ Ahead(v, AnswerOf(v, t), Start(v, u))'
    BY <1>1 DEF Followed
<1>3. \A t, u \in Task : t # u /\ InLine(v, Start(v, t))' /\ InLine(v, Start(v, u))'
         => Ahead(v, AnswerOf(v, t), Start(v, u))' \/ Ahead(v, AnswerOf(v, u), Start(v, t))'
    BY DEF Followed
<1>4. \A t \in Task : Opened(v, t)' => worker'[v].task = t \/ InLine(v, AnswerOf(v, t))'
    BY <1>1 DEF Followed
<1>5. \A t \in Task : worker'[v].task = t => t \in done' \/ Opened(v, t)'
    BY <1>1 DEF Followed
<1> QED
    BY <1>2, <1>3, <1>4, <1>5 DEF Followed

\* A step that leaves every worker's messages and books as they were.
LEMMA SameBooks ==
    ASSUME BooksInv, Steady' => Steady, UNCHANGED <<outQ, active>>, done \subseteq done',
           Steady' => \A w \in Worker : Box(w)' = Box(w) /\ worker'[w].task = worker[w].task,
           \A t \in Task : Untaken(t) => Untaken(t)' \/ t \in done'
    PROVE  BooksInv'
<1> SUFFICES ASSUME Steady'
             PROVE  (\A w \in Worker : Followed(w)') /\ \A t \in Task : Known(t)'
    BY DEF BooksInv
<1>1. \A w \in Worker : \A m : InLine(w, m)' <=> InLine(w, m)
    BY DEF InLine
<1>2. \A w \in Worker : \A x, y : Ahead(w, x, y)' <=> Ahead(w, x, y)
    BY DEF Ahead
<1>3. \A w \in Worker : Followed(w)
    BY DEF BooksInv
<1>4. ASSUME NEW w \in Worker
      PROVE  Followed(w)'
    BY <1>1, <1>2, <1>3, Unmoved
<1>5. \A w \in Worker, t \in Task : Opened(w, t)' <=> Opened(w, t)
    BY <1>1 DEF Opened
<1>6. \A t \in Task : Known(t)'
    BY <1>1, <1>5 DEF Known, BooksInv
<1> QED
    BY <1>4, <1>6

LEMMA WaitingBooks ==
    ASSUME PoolInv, BooksInv,
           \/ \E p \in Pump : PumpStep(p)
           \/ \E w \in Worker : WaitForTask(w) \/ Die(w)
           \/ CallerStep
    PROVE  BooksInv'
<1>1. PoolTypeOK
    BY DEF PoolInv
<1>2. ASSUME NEW p \in Pump, PumpTakes(p)
      PROVE  BooksInv'
  <2>1. next' = next + 1 /\ UNCHANGED <<inQ, worker, outQ, active, done, caller, blind>>
      BY <1>2 DEF PumpTakes, parent
  <2>2. next \in Nat /\ \A q \in Pump : pump'[q] = IF q = p THEN next ELSE pump[q]
      BY <1>1, <1>2, PoolAssumption DEF PumpTakes, PoolTypeOK
  <2>3. pump[p] = NoTask
      BY <1>2 DEF PumpTakes
  <2>4. \A t \in Task : Untaken(t) => Untaken(t)'
    <3> SUFFICES ASSUME NEW t \in Task, Untaken(t)
                 PROVE  Untaken(t)'
        OBVIOUS
    <3>1. t # NoTask /\ t \in Nat
        BY DEF Task, NoTask
    <3>2. t >= next => t >= next' \/ t = next
        BY <2>1, <2>2, <3>1
    <3>3. (\E q \in Pump : pump[q] = t) => \E q \in Pump : pump'[q] = t
        BY <2>2, <2>3, <3>1
    <3> QED
        BY <2>1, <2>2, <3>2, <3>3 DEF Untaken
  <2> QED
      BY <2>1, <2>4, SameBooks DEF Steady, Running, Box
<1>3. ASSUME NEW p \in Pump, Submit(p) \/ Deliver(p)
      PROVE  BooksInv'
  <2>1. pump[p] \in Task /\ \A q \in Pump : pump'[q] = IF q = p THEN NoTask ELSE pump[q]
      BY <1>1, <1>3 DEF Submit, Deliver, PoolTypeOK
  <2>2. /\ UNCHANGED <<next, worker, outQ, active, caller, blind>> /\ done \subseteq done'
        /\ \A y : Has(inQ, y) => Has(inQ', y)
        /\ Has(inQ', pump[p]) \/ pump[p] \in done'
    <3>1. CASE Submit(p)
      <4>1. inQ' = Append(inQ, pump[p]) /\ inQ \in Seq(Task)
          BY <1>1, <3>1 DEF Submit, PoolTypeOK
      <4>2. \A y : Has(inQ', y) <=> Has(inQ, y) \/ y = pump[p]
          BY <2>1, <4>1, HasAppend
      <4> QED
          BY <3>1, <4>2 DEF Submit, parent
    <3>2. CASE Deliver(p)
        BY <3>2 DEF Deliver
    <3> QED
        BY <1>3, <3>1, <3>2
  <2>3. \A t \in Task : Untaken(t) => Untaken(t)' \/ t \in done'
      BY <2>1, <2>2 DEF Untaken
  <2> QED
      BY <2>2, <2>3, SameBooks DEF Steady, Running, Box
<1>4. ASSUME NEW w \in Worker, WaitForTask(w) \/ Die(w)
      PROVE  BooksInv'
  <2>1. UNCHANGED <<next, pump, inQ, outQ, active, done, caller>>
      BY <1>4 DEF WaitForTask, Die, feeding, parent
  <2>2. /\ ~blind' => ~blind
        /\ ~blind' => \A v \in Worker : Box(v)' = Box(v) /\ worker'[v].task = worker[v].task
    <3>1. CASE WaitForTask(w)
        BY <1>1, <3>1 DEF WaitForTask, PoolTypeOK, Box
    <3>2. CASE Die(w)
        BY <1>1, <3>2 DEF Die, PoolTypeOK, Box
    <3> QED
        BY <1>4, <3>1, <3>2
  <2>3. \A t \in Task : Untaken(t) => Untaken(t)'
      BY <2>1 DEF Untaken
  <2> QED
      BY <2>1, <2>2, <2>3, SameBooks DEF Steady, Running
<1>5. CASE TakeAnswer \/ GiveUp \/ JoinPumps
  <2>1. /\ UNCHANGED <<next, pump, inQ, worker, outQ, active, done, blind>>
        /\ caller # "closed"
      BY <1>5 DEF TakeAnswer, GiveUp, JoinPumps, feeding, parent
  <2>2. \A t \in Task : Untaken(t) => Untaken(t)'
      BY <2>1 DEF Untaken
  <2> QED
      BY <2>1, <2>2, SameBooks DEF Steady, Running, Box
<1>6. CASE Close
    BY <1>6 DEF Close, BooksInv, Steady, Running
<1> QED
    BY <1>2, <1>3, <1>4, <1>5, <1>6 DEF PumpStep, CallerStep

LEMMA TakeTaskBooks ==
    ASSUME PoolInv, BooksInv, NEW w \in Worker, TakeTask(w)
    PROVE  BooksInv'
<1> SUFFICES ASSUME Steady'
             PROVE  (\A v \in Worker : Followed(v)') /\ \A t \in Task : Known(t)'
    BY DEF BooksInv
<1>1. PoolTypeOK /\ Holds /\ Owned
    BY DEF PoolInv
<1>0. PICK u \in Task : u = Head(inQ)
  <2>1. inQ # <<>> /\ inQ \in Seq(Task)
      BY <1>1 DEF TakeTask, PoolTypeOK
  <2> QED
      BY <2>1, HasTail
<1> DEFINE m == Start(w, u)
<1>2. UNCHANGED <<next, pump, outQ, active, done, caller, blind>>
    BY DEF TakeTask, feeding, parent
<1>3. (\A v \in Worker : Followed(v)) /\ \A t \in Task : Known(t)
    BY <1>2 DEF BooksInv, Steady, Running
<1>4. inQ' = Tail(inQ) /\ \A y : Has(inQ, y) <=> Has(inQ', y) \/ y = u
  <2>1. inQ # <<>> /\ inQ \in Seq(Task) /\ inQ' = Tail(inQ)
      BY <1>1 DEF TakeTask, PoolTypeOK
  <2> QED
      BY <1>0, <2>1, HasTail
<1>5. m \in Message /\ Box(w) \in Seq(Message)
    BY <1>1, SayIs DEF PoolTypeOK, Box, Start, Kind
<1>6. /\ worker[w].task = NoTask /\ worker'[w].task = u /\ Box(w)' = Append(Box(w), m)
      /\ \A v \in Worker : v # w => worker'[v].task = worker[v].task /\ Box(v)' = Box(v)
    BY <1>0, <1>1 DEF TakeTask, Holds, PoolTypeOK, Box, Start, Say
<1>7. \A y : Has(Box(w)', y) <=> Has(Box(w), y) \/ y = m
    BY <1>5, <1>6, HasAppend
<1>8. \A v \in Worker : ~Touches(v, u)
    BY <1>1, <1>4 DEF Owned, Untaken
<1>9. active[w] # u /\ ~InLine(w, Start(w, u)) /\ ~InLine(w, AnswerOf(w, u))
    BY <1>8 DEF Touches, Speaks, Kind, InLine, Start, AnswerOf
<1>10. ASSUME NEW v \in Worker, v # w
       PROVE  Followed(v)'
    BY <1>2, <1>3, <1>6, <1>10, Unmoved DEF InLine, Ahead
<1>11. \A t \in Task : /\ InLine(w, Start(w, t))' <=> InLine(w, Start(w, t)) \/ t = u
                       /\ InLine(w, AnswerOf(w, t))' <=> InLine(w, AnswerOf(w, t))
    BY <1>2, <1>7, SayIs DEF InLine, Start, AnswerOf
<1>12. ASSUME NEW t \in Task, NEW x \in Task, x # u, Ahead(w, AnswerOf(w, t), Start(w, x))
       PROVE  Ahead(w, AnswerOf(w, t), Start(w, x))'
  <2>1. m # Start(w, x)
      BY <1>12, SayIs DEF Start
  <2>2. Covers(Box(w), AnswerOf(w, t), Start(w, x)) => Covers(Box(w)', AnswerOf(w, t), Start(w, x))
      BY <1>5, <1>6, <2>1, CoversAppend
  <2> QED
      BY <1>2, <1>12, <2>2 DEF Ahead
<1>13. ASSUME NEW t \in Task, InLine(w, AnswerOf(w, t))
       PROVE  Ahead(w, AnswerOf(w, t), Start(w, u))'
  <2>1. ~Has(outQ, Start(w, u)) /\ ~Has(Box(w), Start(w, u))
      BY <1>9 DEF InLine
  <2>2. Covers(outQ, AnswerOf(w, t), Start(w, u)) /\ Covers(Box(w), AnswerOf(w, t), Start(w, u))
      BY <2>1, CoversAbsent
  <2>3. Has(Box(w), AnswerOf(w, t)) => Covers(Box(w)', AnswerOf(w, t), Start(w, u))
      BY <1>5, <1>6, <2>2, CoversAppend
  <2> QED
      BY <1>2, <1>13, <2>2, <2>3 DEF Ahead, InLine
<1>14. \A t \in Task : Opened(w, t) => InLine(w, AnswerOf(w, t))
    BY <1>3, <1>6 DEF Followed, Task, NoTask
<1>15. Followed(w)'
  <2>1. \A t \in Task : Current(w, t)' => Current(w, t) /\ t # u /\ InLine(w, AnswerOf(w, t))
      BY <1>2, <1>6, <1>11, <1>14 DEF Current, Opened
  <2>2. ASSUME NEW t \in Task, NEW x \in Task, t # x, Current(w, t)'
        PROVE  active'[w] # x /\ Ahead(w, AnswerOf(w, t), Start(w, x))'
    <3>1. CASE x = u
        BY <1>2, <1>9, <1>13, <2>1, <2>2, <3>1
    <3>2. CASE x # u
        BY <1>2, <1>3, <1>12, <2>1, <2>2, <3>2 DEF Followed
    <3> QED
        BY <3>1, <3>2
  <2>3. ASSUME NEW t \in Task, NEW x \in Task, t # x, InLine(w, Start(w, t))', InLine(w, Start(w, x))'
        PROVE  Ahead(w, AnswerOf(w, t), Start(w, x))' \/ Ahead(w, AnswerOf(w, x), Start(w, t))'
    <3>1. CASE t = u
        BY <1>11, <1>13, <1>14, <2>3, <3>1 DEF Opened
    <3>2. CASE x = u
        BY <1>11, <1>13, <1>14, <2>3, <3>2 DEF Opened
    <3>3. CASE t # u /\ x # u
        BY <1>3, <1>11, <1>12, <2>3, <3>3 DEF Followed
    <3> QED
        BY <3>1, <3>2, <3>3
  <2>4. \A t \in Task : Opened(w, t)' <=> Opened(w, t) \/ t = u
      BY <1>2, <1>11 DEF Opened
  <2>5. \A t \in Task : Opened(w, t)' => worker'[w].task = t \/ InLine(w, AnswerOf(w, t))'
      BY <1>6, <1>11, <1>14, <2>4
  <2>6. \A t \in Task : worker'[w].task = t => t \in done' \/ Opened(w, t)'
      BY <1>6, <2>4
  <2> QED
      BY <2>2, <2>3, <2>5, <2>6 DEF Followed
<1>16. ASSUME NEW t \in Task
       PROVE  Known(t)'
  <2>1. CASE t = u
      BY <2>1, <1>11 DEF Known, Opened
  <2>2. CASE t # u
    <3>1. Untaken(t) => Untaken(t)'
        BY <2>2, <1>2, <1>4 DEF Untaken
    <3>2. \A v \in Worker : Opened(v, t) => Opened(v, t)'
        BY <1>2, <1>6, <1>11 DEF Opened, InLine
    <3>3. \A v \in Worker : InLine(v, AnswerOf(v, t)) => InLine(v, AnswerOf(v, t))'
        BY <1>2, <1>6, <1>11 DEF InLine
    <3> QED
        BY <1>2, <1>3, <3>1, <3>2, <3>3 DEF Known
  <2> QED
      BY <2>1, <2>2
<1> QED
    BY <1>10, <1>15, <1>16

LEMMA AnswerTaskBooks ==
    ASSUME PoolInv, BooksInv, NEW w \in Worker, AnswerTask(w)
    PROVE  BooksInv'
<1> SUFFICES ASSUME Steady'
             PROVE  (\A v \in Worker : Followed(v)') /\ \A t \in Task : Known(t)'
    BY DEF BooksInv
<1> DEFINE u == worker[w].task
           m == AnswerOf(w, u)
<1>1. PoolTypeOK /\ Holds
    BY DEF PoolInv
<1>2. UNCHANGED <<next, pump, inQ, outQ, active, done, caller, blind>>
    BY DEF AnswerTask, feeding, parent
<1>3. (\A v \in Worker : Followed(v)) /\ \A t \in Task : Known(t)
    BY <1>2 DEF BooksInv, Steady, Running
<1>4. u \in Task
    BY <1>1 DEF AnswerTask, Holds
<1>5. m \in Message /\ Box(w) \in Seq(Message)
    BY <1>1, <1>4, SayIs DEF PoolTypeOK, Box, AnswerOf, Kind
<1>6. /\ worker'[w].task = NoTask /\ Box(w)' = Append(Box(w), m)
      /\ \A v \in Worker : v # w => worker'[v].task = worker[v].task /\ Box(v)' = Box(v)
    BY <1>1 DEF AnswerTask, PoolTypeOK, Box, AnswerOf, Say
<1>7. \A y : Has(Box(w)', y) <=> Has(Box(w), y) \/ y = m
    BY <1>5, <1>6, HasAppend
<1>8. ASSUME NEW v \in Worker, v # w
      PROVE  Followed(v)'
    BY <1>2, <1>3, <1>6, <1>8, Unmoved DEF InLine, Ahead
<1>9. \A t \in Task : /\ InLine(w, Start(w, t))' <=> InLine(w, Start(w, t))
                      /\ InLine(w, AnswerOf(w, t))' <=> InLine(w, AnswerOf(w, t)) \/ t = u
    BY <1>2, <1>7, SayIs DEF InLine, Start, AnswerOf
<1>10. ASSUME NEW t \in Task, NEW x \in Task, Ahead(w, AnswerOf(w, t), Start(w, x))
       PROVE  Ahead(w, AnswerOf(w, t), Start(w, x))'
  <2>1. m # Start(w, x)
      BY SayIs DEF Start, AnswerOf
  <2>2. Covers(Box(w), AnswerOf(w, t), Start(w, x)) => Covers(Box(w)', AnswerOf(w, t), Start(w, x))
      BY <1>5, <1>6, <2>1, CoversAppend
  <2> QED
      BY <1>2, <1>10, <2>2 DEF Ahead
<1>11. \A t \in Task : t # NoTask
    BY DEF Task, NoTask
<1>12. Followed(w)'
  <2>1. \A t \in Task : Current(w, t)' => Current(w, t)
      BY <1>2, <1>6, <1>9, <1>11 DEF Current
  <2>2. \A t \in Task : Opened(w, t)' <=> Opened(w, t)
      BY <1>2, <1>9 DEF Opened
  <2>3. \A t, x \in Task : t # x /\ Current(w, t)' => active'[w] # x /\ Ahead(w, AnswerOf(w, t), Start(w, x))'
      BY <1>2, <1>3, <1>10, <2>1 DEF Followed
  <2>4. \A t, x \in Task : t # x /\ InLine(w, Start(w, t))' /\ InLine(w, Start(w, x))'
          => Ahead(w, AnswerOf(w, t), Start(w, x))' \/ Ahead(w, AnswerOf(w, x), Start(w, t))'
      BY <1>3, <1>9, <1>10 DEF Followed
  <2>5. \A t \in Task : Opened(w, t)' => worker'[w].task = t \/ InLine(w, AnswerOf(w, t))'
      BY <1>3, <1>9, <2>2 DEF Followed
  <2>6. \A t \in Task : worker'[w].task = t => t \in done' \/ Opened(w, t)'
      BY <1>6, <1>11
  <2> QED
      BY <2>3, <2>4, <2>5, <2>6 DEF Followed
<1>13. ASSUME NEW t \in Task
       PROVE  Known(t)'
  <2>1. Untaken(t)' <=> Untaken(t)
      BY <1>2 DEF Untaken
  <2>2. \A v \in Worker : Opened(v, t) => Opened(v, t)'
      BY <1>2, <1>6, <1>9 DEF Opened, InLine
  <2>3. \A v \in Worker : InLine(v, AnswerOf(v, t)) => InLine(v, AnswerOf(v, t))'
      BY <1>2, <1>6, <1>9 DEF InLine
  <2> QED
      BY <1>2, <1>3, <2>1, <2>2, <2>3 DEF Known
<1> QED
    BY <1>8, <1>12, <1>13

LEMMA FeedBooks ==
    ASSUME PoolInv, BooksInv, NEW w \in Worker, Feed(w)
    PROVE  BooksInv'
<1> SUFFICES ASSUME Steady'
             PROVE  (\A v \in Worker : Followed(v)') /\ \A t \in Task : Known(t)'
    BY DEF BooksInv
<1> DEFINE m == Head(Box(w))
<1>1. PoolTypeOK /\ Holds
    BY DEF PoolInv
<1>2. UNCHANGED <<next, pump, inQ, active, done, caller, blind>>
    BY DEF Feed, feeding, parent
<1>3. (\A v \in Worker : Followed(v)) /\ \A t \in Task : Known(t)
    BY <1>2 DEF BooksInv, Steady, Running
<1>4. Box(w) # <<>> /\ Box(w) \in Seq(Message) /\ outQ \in Seq(Message)
    BY <1>1 DEF Feed, Box, PoolTypeOK
<1>5. m \in Message /\ \A y : Has(Box(w), y) <=> Has(Tail(Box(w)), y) \/ y = m
    BY <1>4, HasTail
<1>6. \E k \in Kind, t \in Task : m = Say(k, w, t)
  <2>1. m.kind \in Kind /\ m.from \in Worker /\ m.task \in Task /\ m = Say(m.kind, m.from, m.task)
      BY <1>5, SayIs
  <2>2. Has(Box(w), Say(m.kind, m.from, m.task))
      BY <1>5, <2>1
  <2>3. m.from = w
      BY <1>1, <2>1, <2>2 DEF Holds
  <2> QED
      BY <2>1, <2>3
<1>7. outQ' = Append(outQ, m) /\ \A y : Has(outQ', y) <=> Has(outQ, y) \/ y = m
  <2>1. outQ' = Append(outQ, m)
      BY DEF Feed, Box
  <2> QED
      BY <1>4, <1>5, <2>1, HasAppend
<1>8. /\ Box(w)' = Tail(Box(w))
      /\ \A v \in Worker : worker'[v].task = worker[v].task /\ (v # w => Box(v)' = Box(v))
    BY <1>1 DEF Feed, PoolTypeOK, Box
<1>9. ASSUME NEW v \in Worker, NEW k \in Kind, NEW t \in Task
      PROVE  InLine(v, Say(k, v, t))' <=> InLine(v, Say(k, v, t))
  <2>1. CASE v = w
      BY <1>5, <1>7, <1>8, <2>1 DEF InLine
  <2>2. CASE v # w
    <3>1. m # Say(k, v, t)
        BY <1>6, <2>2, SayIs
    <3> QED
        BY <1>7, <1>8, <2>2, <3>1 DEF InLine
  <2> QED
      BY <2>1, <2>2
<1>10. \A v \in Worker, t \in Task :
          /\ InLine(v, Start(v, t))' <=> InLine(v, Start(v, t))
          /\ InLine(v, AnswerOf(v, t))' <=> InLine(v, AnswerOf(v, t))
    BY <1>9 DEF Start, AnswerOf, Kind
<1>11. ASSUME NEW v \in Worker, NEW t \in Task, NEW u \in Task, Ahead(v, AnswerOf(v, t), Start(v, u))
       PROVE  Ahead(v, AnswerOf(v, t), Start(v, u))'
  <2> DEFINE x == AnswerOf(v, t)
             y == Start(v, u)
  <2> HIDE DEF x, y
  <2>1. CASE v = w
    <3>1. Covers(outQ, x, y) /\ (Has(outQ, x) \/ Covers(Box(w), x, y))
        BY <1>11, <2>1 DEF Ahead, x, y
    <3>2. Covers(Box(w), x, y) => m # y /\ (x # m => Covers(Tail(Box(w)), x, y))
        BY <1>4, CoversTail
    <3>3. Covers(outQ', x, y)
        BY <1>4, <1>5, <1>7, <3>1, <3>2, CoversAppend
    <3>4. Has(outQ', x) \/ Covers(Box(w)', x, y)
        BY <1>7, <1>8, <3>1, <3>2
    <3> QED
        BY <2>1, <3>3, <3>4 DEF Ahead, x, y
  <2>2. CASE v # w
    <3>1. m # y
        BY <1>6, <2>2, SayIs DEF y, Start
    <3>2. Covers(outQ, x, y) /\ (Has(outQ, x) \/ Covers(Box(v), x, y))
        BY <1>11 DEF Ahead, x, y
    <3>3. Covers(outQ', x, y)
        BY <1>4, <1>5, <1>7, <3>1, <3>2, CoversAppend
    <3> QED
        BY <1>7, <1>8, <2>2, <3>2, <3>3 DEF Ahead, x, y
  <2> QED
      BY <2>1, <2>2
<1>12. \A v \in Worker : Followed(v)'
    BY <1>2, <1>3, <1>8, <1>10, <1>11, Unmoved
<1>13. ASSUME NEW t \in Task
       PROVE  Known(t)'
  <2>1. Untaken(t)' <=> Untaken(t)
      BY <1>2 DEF Untaken
  <2>2. \A v \in Worker : Opened(v, t) => Opened(v, t)'
      BY <1>2, <1>10 DEF Opened
  <2> QED
      BY <1>2, <1>3, <1>10, <2>1, <2>2 DEF Known
<1> QED
    BY <1>12, <1>13

LEMMA CollectBooks ==
    ASSUME PoolInv, BooksInv, Collect
    PROVE  BooksInv'
<1> SUFFICES ASSUME Steady'
             PROVE  (\A v \in Worker : Followed(v)') /\ \A t \in Task : Known(t)'
    BY DEF BooksInv
<1>1. PoolTypeOK /\ Holds /\ Sequenced /\ Booked
    BY DEF PoolInv
<1>2. UNCHANGED <<next, pump, inQ, worker, caller, blind>>
    BY DEF Collect, feeding
<1>3. (\A v \in Worker : Followed(v)) /\ \A t \in Task : Known(t)
    BY <1>2 DEF BooksInv, Steady, Running
<1>4. outQ # <<>> /\ outQ \in Seq(Message) /\ outQ' = Tail(outQ)
    BY <1>1 DEF Collect, PoolTypeOK
<1>5. Head(outQ) \in Message /\ \A y : Has(outQ, y) <=> Has(outQ', y) \/ y = Head(outQ)
    BY <1>4, HasTail
<1>6. PICK k \in Kind, w \in Worker, c \in Task : Head(outQ) = Say(k, w, c)
    BY <1>5, SayIs
<1> DEFINE m == Say(k, w, c)
<1>7. /\ InOrder(outQ) /\ ~Has(outQ', Start(w, c))
      /\ k = "answer" => ~Has(outQ', AnswerOf(w, c))
    BY <1>1, <1>4, <1>6, InOrderTail, SayIs DEF Sequenced, Start, AnswerOf
<1>8. \A v \in Worker : v # w => active'[v] = active[v]
  <2>1. Head(outQ).from = w
      BY <1>6, SayIs
  <2> QED
      BY <1>1, <2>1 DEF Collect, PoolTypeOK
<1>9. active'[w] = IF k = "start" THEN c ELSE NoTask
  <2>1. Head(outQ).from = w /\ Head(outQ).kind = k /\ Head(outQ).task = c
      BY <1>6, SayIs
  <2> QED
      BY <1>1, <1>6, <2>1 DEF Collect, PoolTypeOK, Kind
<1>10. done \subseteq done' /\ (k = "answer" => c \in done')
  <2>1. Head(outQ).kind = k /\ Head(outQ).task = c
      BY <1>6, SayIs
  <2> QED
      BY <2>1 DEF Collect
<1>11. \A v \in Worker, t \in Task : v # w \/ t # c =>
          /\ InLine(v, Start(v, t))' <=> InLine(v, Start(v, t))
          /\ InLine(v, AnswerOf(v, t))' <=> InLine(v, AnswerOf(v, t))
  <2>1. \A v \in Worker, t \in Task, j \in Kind : v # w \/ t # c => Say(j, v, t) # m
      BY SayIs
  <2>2. \A v \in Worker : Box(v)' = Box(v)
      BY <1>2 DEF Box
  <2> QED
      BY <1>5, <1>6, <2>1, <2>2 DEF InLine, Start, AnswerOf, Kind
<1>12. \A v \in Worker : \A x, y : Ahead(v, x, y) => y # m /\ (x # m => Ahead(v, x, y)')
  <2> SUFFICES ASSUME NEW v \in Worker, NEW x, NEW y, Ahead(v, x, y)
               PROVE  y # m /\ (x # m => Ahead(v, x, y)')
      OBVIOUS
  <2>1. y # m /\ (x # m => Covers(outQ', x, y))
      BY <1>4, <1>6, CoversTail DEF Ahead
  <2>2. Box(v)' = Box(v)
      BY <1>2 DEF Box
  <2>3. x # m => (Has(outQ, x) <=> Has(outQ', x))
      BY <1>5, <1>6
  <2> QED
      BY <2>1, <2>2, <2>3 DEF Ahead
<1>13. ASSUME NEW v \in Worker, v # w
       PROVE  Followed(v)'
  <2>1. \A t \in Task : AnswerOf(v, t) # m
      BY <1>13, SayIs DEF AnswerOf
  <2>2. worker'[v].task = worker[v].task
      BY <1>2
  <2> QED
      BY <1>3, <1>8, <1>10, <1>11, <1>12, <1>13, <2>1, <2>2, Unmoved
<1>14. Followed(w)
    BY <1>3
<1>15. ~InLine(w, Start(w, c))'
  <2>1. Has(outQ, m)
      BY <1>5, <1>6
  <2>2. ~Has(Box(w), Start(w, c))
    <3>1. k = "start" \/ k = "answer"
        BY DEF Kind
    <3> QED
        BY <1>1, <2>1, <3>1 DEF Sequenced, Start, Kind
  <2>3. Box(w)' = Box(w)
      BY <1>2 DEF Box
  <2> QED
      BY <1>7, <2>2, <2>3 DEF InLine
<1>16. CASE k = "start"
  <2>1. m = Start(w, c) /\ \A t \in Task : AnswerOf(w, t) # m
      BY <1>16, SayIs DEF Start, AnswerOf
  <2>2. InLine(w, Start(w, c)) /\ active'[w] = c
      BY <1>5, <1>6, <1>9, <1>16, <2>1 DEF InLine
  <2>3. \A t \in Task : InLine(w, AnswerOf(w, t))' <=> InLine(w, AnswerOf(w, t))
    <3>1. Box(w)' = Box(w)
        BY <1>2 DEF Box
    <3> QED
        BY <1>5, <1>6, <2>1, <3>1 DEF InLine
  \* The start read now is of a task no other that has begun comes before.
  <2>4. ASSUME NEW t \in Task, t # c, Current(w, t)
        PROVE  FALSE
    <3>1. Ahead(w, AnswerOf(w, t), Start(w, c))
        BY <1>14, <2>4 DEF Followed
    <3> QED
        BY <1>12, <2>1, <3>1
  <2>5. active[w] = NoTask
    <3> SUFFICES ASSUME active[w] # NoTask
                 PROVE  FALSE
        OBVIOUS
    <3>1. active[w] \in Task /\ Begun(active[w])
        BY <1>1 DEF PoolTypeOK, Booked
    <3>2. ~InLine(w, Start(w, active[w]))
        BY <3>1 DEF Begun, InLine, Start
    <3>3. active[w] # c
        BY <2>2, <3>2
    <3>4. Current(w, active[w])
        BY <3>2 DEF Current
    <3> QED
        BY <2>4, <3>1, <3>3, <3>4
  <2>6. \A t \in Task : Opened(w, t)' <=> Opened(w, t)
    <3>1. \A t \in Task : t # NoTask
        BY DEF Task, NoTask
    <3>2. \A t \in Task : t # c => (InLine(w, Start(w, t))' <=> InLine(w, Start(w, t)))
        BY <1>11
    <3> QED
        BY <2>2, <2>5, <3>1, <3>2 DEF Opened
  <2>7. ASSUME NEW t \in Task, NEW u \in Task, t # u, Current(w, t)'
        PROVE  active'[w] # u /\ Ahead(w, AnswerOf(w, t), Start(w, u))'
    <3>1. t = c
      <4> SUFFICES ASSUME t # c
                   PROVE  FALSE
          OBVIOUS
      <4>1. worker[w].task = t \/ InLine(w, AnswerOf(w, t))
          BY <1>2, <2>2, <2>3, <2>7 DEF Current
      <4>2. ~InLine(w, Start(w, t))
          BY <1>11, <2>7 DEF Current
      <4> QED
          BY <2>4, <4>1, <4>2 DEF Current
    <3>2. active'[w] # u
        BY <2>2, <2>7, <3>1
    <3>3. CASE InLine(w, Start(w, u))
      <4>1. Ahead(w, AnswerOf(w, c), Start(w, u)) \/ Ahead(w, AnswerOf(w, u), Start(w, c))
          BY <1>14, <2>2, <2>7, <3>1, <3>3 DEF Followed
      <4>2. Ahead(w, AnswerOf(w, c), Start(w, u))
          BY <1>12, <2>1, <4>1
      <4> QED
          BY <1>12, <2>1, <3>1, <3>2, <4>2
    <3>4. CASE ~InLine(w, Start(w, u))
      <4>1. ~InLine(w, Start(w, u))'
          BY <1>11, <2>7, <3>1, <3>4
      <4>2. Ahead(w, AnswerOf(w, t), Start(w, u))'
          BY <4>1, CoversAbsent DEF InLine, Ahead
      <4> QED
          BY <3>2, <4>2
    <3> QED
        BY <3>3, <3>4
  <2>8. ASSUME NEW t \in Task, NEW u \in Task, t # u, InLine(w, Start(w, t))', InLine(w, Start(w, u))'
        PROVE  Ahead(w, AnswerOf(w, t), Start(w, u))' \/ Ahead(w, AnswerOf(w, u), Start(w, t))'
    <3>1. t # c /\ u # c
        BY <1>15, <2>8
    <3> QED
        BY <1>11, <1>12, <1>14, <2>1, <2>8, <3>1 DEF Followed
  <2>9. \A t \in Task : Opened(w, t)' => worker'[w].task = t \/ InLine(w, AnswerOf(w, t))'
      BY <1>2, <1>14, <2>3, <2>6 DEF Followed
  <2>10. \A t \in Task : worker'[w].task = t => t \in done' \/ Opened(w, t)'
      BY <1>2, <1>10, <1>14, <2>6 DEF Followed
  <2>11. Followed(w)'
      BY <2>7, <2>8, <2>9, <2>10 DEF Followed
  <2>12. ASSUME NEW t \in Task
         PROVE  Known(t)'
    <3>1. Untaken(t)' <=> Untaken(t)
        BY <1>2 DEF Untaken
    <3>2. \A v \in Worker : Opened(v, t) => Opened(v, t)'
        BY <1>8, <1>11, <2>6 DEF Opened
    <3>3. \A v \in Worker : InLine(v, AnswerOf(v, t)) => InLine(v, AnswerOf(v, t))'
        BY <1>11, <2>3
    <3> QED
        BY <1>3, <1>10, <3>1, <3>2, <3>3 DEF Known
  <2> QED
      BY <1>13, <2>11, <2>12
<1>17. CASE k = "answer"
  <2>1. m = AnswerOf(w, c) /\ \A t \in Task : Start(w, t) # m /\ (t # c => AnswerOf(w, t) # m)
      BY <1>17, SayIs DEF Start, AnswerOf
  <2>2. InLine(w, AnswerOf(w, c)) /\ active'[w] = NoTask /\ c \in done'
      BY <1>5, <1>6, <1>9, <1>10, <1>17, <2>1 DEF InLine
  <2>3. ~InLine(w, AnswerOf(w, c))' /\ worker[w].task # c
    <3>1. Has(outQ, Say("answer", w, c))
        BY <1>5, <1>6, <1>17
    <3>2. ~Has(Box(w), AnswerOf(w, c)) /\ worker[w].task # c
        BY <1>1, <3>1 DEF Sequenced, AnswerOf, Kind
    <3>3. Box(w)' = Box(w)
        BY <1>2 DEF Box
    <3> QED
        BY <1>7, <1>17, <3>2, <3>3 DEF InLine
  <2>4. ~InLine(w, Start(w, c))
    <3>1. Box(w)' = Box(w)
        BY <1>2 DEF Box
    <3> QED
        BY <1>5, <1>6, <1>15, <2>1, <3>1 DEF InLine
  <2>5. \A u \in Task : u # c => active[w] # u
    <3>1. Current(w, c)
        BY <2>2, <2>4 DEF Current
    <3> QED
        BY <1>14, <3>1 DEF Followed
  <2>6. \A t \in Task : t # NoTask
      BY DEF Task, NoTask
  <2>7. \A t \in Task : Opened(w, t)' <=> t # c /\ Opened(w, t)
      BY <1>11, <1>15, <2>2, <2>5, <2>6 DEF Opened
  <2>8. \A t \in Task : Current(w, t)' => t # c /\ Current(w, t)
      BY <1>2, <1>11, <2>2, <2>3, <2>6 DEF Current
  <2>9. \A t, u \in Task : t # c /\ Ahead(w, AnswerOf(w, t), Start(w, u)) => Ahead(w, AnswerOf(w, t), Start(w, u))'
      BY <1>12, <2>1
  <2>10. \A t, u \in Task : t # u /\ Current(w, t)' => active'[w] # u /\ Ahead(w, AnswerOf(w, t), Start(w, u))'
      BY <1>14, <2>2, <2>6, <2>8, <2>9 DEF Followed
  <2>11. ASSUME NEW t \in Task, NEW u \in Task, t # u, InLine(w, Start(w, t))', InLine(w, Start(w, u))'
         PROVE  Ahead(w, AnswerOf(w, t), Start(w, u))' \/ Ahead(w, AnswerOf(w, u), Start(w, t))'
    <3>1. t # c /\ u # c
        BY <1>15, <2>11
    <3> QED
        BY <1>11, <1>14, <2>9, <2>11, <3>1 DEF Followed
  <2>12. \A t \in Task : Opened(w, t)' => worker'[w].task = t \/ InLine(w, AnswerOf(w, t))'
      BY <1>2, <1>11, <1>14, <2>7 DEF Followed
  <2>13. \A t \in Task : worker'[w].task = t => t \in done' \/ Opened(w, t)'
      BY <1>2, <1>10, <1>14, <2>3, <2>7 DEF Followed
  <2>14. Followed(w)'
      BY <2>10, <2>11, <2>12, <2>13 DEF Followed
  <2>15. ASSUME NEW t \in Task
         PROVE  Known(t)'
    <3>1. CASE t = c
        BY <2>2, <3>1 DEF Known
    <3>2. CASE t # c
      <4>1. Untaken(t)' <=> Untaken(t)
          BY <1>2 DEF Untaken
      <4>2. \A v \in Worker : Opened(v, t) => Opened(v, t)'
          BY <1>8, <1>11, <2>7, <3>2 DEF Opened
      <4>3. \A v \in Worker : InLine(v, AnswerOf(v, t)) => InLine(v, AnswerOf(v, t))'
          BY <1>11, <3>2
      <4> QED
          BY <1>3, <1>10, <4>1, <4>2, <4>3 DEF Known
    <3> QED
        BY <3>1, <3>2
  <2> QED
      BY <1>13, <2>14, <2>15
<1> QED
    BY <1>16, <1>17 DEF Kind

LEMMA FindOverdueBooks ==
    ASSUME PoolInv, BooksInv, FindOverdue
    PROVE  BooksInv'
<1> SUFFICES ASSUME Steady'
             PROVE  (\A v \in Worker : Followed(v)') /\ \A t \in Task : Known(t)'
    BY DEF BooksInv
<1>1. UNCHANGED <<next, pump, inQ, worker, outQ, caller, blind>>
    BY DEF FindOverdue, feeding
<1>2. (\A v \in Worker : Followed(v)) /\ \A t \in Task : Known(t)
    BY <1>1 DEF BooksInv, Steady, Running
<1>3. PICK late \in SUBSET Worker :
         /\ \A v \in Worker : active'[v] = IF v \in late THEN NoTask ELSE active[v]
         /\ done' = done \union {active[v] : v \in late}
    BY DEF FindOverdue
<1>4. \A t \in Task : t # NoTask
    BY DEF Task, NoTask
<1>5. \A v \in Worker : \A m : InLine(v, m)' <=> InLine(v, m)
    BY <1>1 DEF InLine, Box
<1>6. \A v \in Worker : \A x, y : Ahead(v, x, y)' <=> Ahead(v, x, y)
    BY <1>1 DEF Ahead, Box
<1>7. \A v \in Worker, t \in Task : active'[v] = t => active[v] = t
    BY <1>3, <1>4
<1>8. \A v \in Worker, t \in Task : active[v] = t => active'[v] = t \/ t \in done'
    BY <1>3
<1>9. ASSUME NEW v \in Worker
      PROVE  Followed(v)'
  <2>1. \A t \in Task : (Opened(v, t)' => Opened(v, t)) /\ (Current(v, t)' => Current(v, t))
      BY <1>1, <1>5, <1>7 DEF Opened, Current
  <2>2. \A t, u \in Task : t # u /\ Current(v, t)' => active'[v] # u /\ Ahead(v, AnswerOf(v, t), Start(v, u))'
      BY <1>2, <1>6, <1>7, <2>1 DEF Followed
  <2>3. \A t, u \in Task : t # u /\ InLine(v, Start(v, t))' /\ InLine(v, Start(v, u))'
          => Ahead(v, AnswerOf(v, t), Start(v, u))' \/ Ahead(v, AnswerOf(v, u), Start(v, t))'
      BY <1>2, <1>5, <1>6 DEF Followed
  <2>4. \A t \in Task : Opened(v, t)' => worker'[v].task = t \/ InLine(v, AnswerOf(v, t))'
      BY <1>1, <1>2, <1>5, <2>1 DEF Followed
  <2>5. \A t \in Task : worker'[v].task = t => t \in done' \/ Opened(v, t)'
      BY <1>1, <1>2, <1>3, <1>5, <1>8 DEF Followed, Opened
  <2> QED
      BY <2>2, <2>3, <2>4, <2>5 DEF Followed
<1>10. ASSUME NEW t \in Task
       PROVE  Known(t)'
  <2>1. Untaken(t)' <=> Untaken(t)
      BY <1>1 DEF Untaken
  <2>2. \A v \in Worker : Opened(v, t) => Opened(v, t)' \/ t \in done'
      BY <1>5, <1>8 DEF Opened
  <2> QED
      BY <1>2, <1>3, <1>5, <2>1, <2>2 DEF Known
<1> QED
    BY <1>9, <1>10

\* The reaper's kill: what the process held was its overdue task's alone, or
\* blind says otherwise.
LEMMA ReplaceBooks ==
    ASSUME PoolInv, BooksInv, Replace
    PROVE  BooksInv'
<1> SUFFICES ASSUME Steady'
             PROVE  (\A v \in Worker : Followed(v)') /\ \A t \in Task : Known(t)'
    BY DEF BooksInv
<1>1. PoolTypeOK /\ Booked /\ AnswersOK
    BY DEF PoolInv
<1>2. UNCHANGED <<next, pump, inQ, outQ, active, done, caller>> /\ ~blind'
    BY DEF Replace, feeding, Steady
<1>3. PICK w \in Worker, c \in Task :
         /\ <<w, c>> \in overdue /\ worker' = [worker EXCEPT ![w] = Fresh] /\ ~blind
         /\ worker[w].task \in {NoTask, c} /\ \A t \in Task \ {c} : ~Unsent(w, t)
  <2>1. PICK e \in overdue :
           /\ worker' = [worker EXCEPT ![e[1]] = Fresh] /\ ~blind
           /\ worker[e[1]].task \in {NoTask, e[2]} /\ \A t \in Task \ {e[2]} : ~Unsent(e[1], t)
      BY <1>2 DEF Replace
  <2>2. e = <<e[1], e[2]>> /\ e[1] \in Worker /\ e[2] \in Task
      BY <1>1, <2>1 DEF PoolTypeOK
  <2> QED
      BY <2>1, <2>2
<1>4. (\A v \in Worker : Followed(v)) /\ \A t \in Task : Known(t)
    BY <1>2, <1>3 DEF BooksInv, Steady, Running
<1>5. /\ worker'[w].task = NoTask /\ Box(w)' = <<>>
      /\ \A v \in Worker : v # w => worker'[v].task = worker[v].task /\ Box(v)' = Box(v)
    BY <1>1, <1>3 DEF PoolTypeOK, Fresh, Box
<1>6. \A t \in Task, k \in Kind : t # c => ~Has(Box(w), Say(k, w, t))
    BY <1>3, SayIs DEF Unsent, Has, Box
<1>7. c \in done /\ Begun(c) /\ active[w] # c
  <2>1. <<w, c>>[2] \in done
      BY <1>1, <1>3 DEF AnswersOK
  <2>2. \A t \in Task : t # NoTask
      BY DEF Task, NoTask
  <2> QED
      BY <1>1, <2>1, <2>2 DEF Booked
<1>8. ~InLine(w, Start(w, c)) /\ ~Opened(w, c)
    BY <1>7 DEF Begun, InLine, Opened, Start
<1>9. \A t \in Task : /\ InLine(w, Start(w, t))' <=> InLine(w, Start(w, t))
                      /\ InLine(w, AnswerOf(w, t))' => InLine(w, AnswerOf(w, t))
                      /\ t # c => (InLine(w, AnswerOf(w, t))' <=> InLine(w, AnswerOf(w, t)))
  <2>1. \A y : InLine(w, y)' <=> Has(outQ, y)
      BY <1>2, <1>5, HasEmpty DEF InLine
  <2> QED
      BY <1>6, <1>8, <2>1 DEF InLine, Start, AnswerOf, Kind
<1>10. \A t, u \in Task : Ahead(w, AnswerOf(w, t), Start(w, u)) => Ahead(w, AnswerOf(w, t), Start(w, u))'
    BY <1>2, <1>5, CoversAbsent, HasEmpty DEF Ahead
<1>11. ASSUME NEW v \in Worker, v # w
       PROVE  Followed(v)'
    BY <1>2, <1>4, <1>5, <1>11, Unmoved DEF InLine, Ahead
<1>12. \A t \in Task : t # NoTask
    BY DEF Task, NoTask
<1>13. \A t \in Task : Opened(w, t)' <=> Opened(w, t)
    BY <1>2, <1>9 DEF Opened
<1>14. Followed(w)'
  <2>1. \A t \in Task : Current(w, t)' => Current(w, t)
      BY <1>2, <1>5, <1>9, <1>12 DEF Current
  <2>2. \A t, u \in Task : t # u /\ Current(w, t)' => active'[w] # u /\ Ahead(w, AnswerOf(w, t), Start(w, u))'
      BY <1>2, <1>4, <1>10, <2>1 DEF Followed
  <2>3. \A t, u \in Task : t # u /\ InLine(w, Start(w, t))' /\ InLine(w, Start(w, u))'
          => Ahead(w, AnswerOf(w, t), Start(w, u))' \/ Ahead(w, AnswerOf(w, u), Start(w, t))'
      BY <1>4, <1>9, <1>10 DEF Followed
  <2>4. ASSUME NEW t \in Task, Opened(w, t)'
        PROVE  InLine(w, AnswerOf(w, t))'
    <3>1. Opened(w, t) /\ t # c
        BY <1>8, <1>13, <2>4
    <3>2. worker[w].task # t
        BY <1>3, <1>12, <3>1
    <3> QED
        BY <1>4, <1>9, <3>1, <3>2 DEF Followed
  <2>5. \A t \in Task : worker'[w].task # t
      BY <1>5, <1>12
  <2> QED
      BY <2>2, <2>3, <2>4, <2>5 DEF Followed
<1>15. ASSUME NEW t \in Task
       PROVE  Known(t)'
  <2>1. Untaken(t)' <=> Untaken(t)
      BY <1>2 DEF Untaken
  <2>2. \A v \in Worker : Opened(v, t) => Opened(v, t)'
      BY <1>2, <1>5, <1>13 DEF Opened, InLine
  <2>3. t # c => \A v \in Worker : InLine(v, AnswerOf(v, t)) => InLine(v, AnswerOf(v, t))'
      BY <1>2, <1>5, <1>9 DEF InLine
  <2> QED
      BY <1>2, <1>4, <1>7, <2>1, <2>2, <2>3 DEF Known
<1> QED
    BY <1>11, <1>14, <1>15

LEMMA BooksInvInit == PoolInit => BooksInv
<1> SUFFICES ASSUME PoolInit
             PROVE  BooksInv
    OBVIOUS
<1>1. /\ next = 1 /\ outQ = <<>> /\ \A w \in Worker : Box(w) = <<>>
      /\ \A w \in Worker : worker[w].task = NoTask /\ active[w] = NoTask
    BY DEF PoolInit, Fresh, Box
<1>2. \A t \in Task : t # NoTask /\ t >= next
    BY <1>1 DEF Task, NoTask
<1>3. \A w \in Worker : \A m : ~InLine(w, m)
    BY <1>1, HasEmpty DEF InLine
<1>4. \A w \in Worker, t \in Task : ~Opened(w, t) /\ ~Current(w, t)
    BY <1>1, <1>2, <1>3 DEF Opened, Current
<1>5. \A w \in Worker : Followed(w)
    BY <1>1, <1>2, <1>3, <1>4 DEF Followed
<1>6. \A t \in Task : Known(t)
    BY <1>2 DEF Known, Untaken
<1> QED
    BY <1>5, <1>6 DEF BooksInv

LEMMA BooksInvStep == PoolInv /\ BooksInv /\ [PoolNext]_poolVars => BooksInv'
<1> SUFFICES ASSUME PoolInv, BooksInv, [PoolNext]_poolVars
             PROVE  BooksInv'
    OBVIOUS
<1>1. CASE \/ \E p \in Pump : PumpStep(p)
           \/ \E w \in Worker : WaitForTask(w) \/ Die(w)
           \/ CallerStep
    BY <1>1, WaitingBooks
<1>2. ASSUME NEW w \in Worker, TakeTask(w) \/ AnswerTask(w) \/ Feed(w)
      PROVE  BooksInv'
    BY <1>2, TakeTaskBooks, AnswerTaskBooks, FeedBooks
<1>3. CASE Collect \/ FindOverdue \/ Replace
    BY <1>3, CollectBooks, FindOverdueBooks, ReplaceBooks
<1>4. CASE UNCHANGED poolVars
    BY <1>4, SameBooks DEF poolVars, parent, feeding, Steady, Running, Box, Untaken
<1> QED
    BY <1>1, <1>2, <1>3, <1>4 DEF PoolNext, WorkerStep

LEMMA BooksForgetNothing == BooksInv => NothingIsForgotten
<1> SUFFICES ASSUME BooksInv, Steady, NEW t \in Task, t \notin done
             PROVE  Somewhere(t)
    BY DEF NothingIsForgotten, Steady
<1>1. Untaken(t) \/ \E w \in Worker : Opened(w, t) \/ InLine(w, AnswerOf(w, t))
    BY DEF BooksInv, Known
<1>2. CASE Untaken(t)
    BY <1>2 DEF Untaken, Somewhere, Has
<1>3. ASSUME NEW w \in Worker, Opened(w, t) \/ InLine(w, AnswerOf(w, t))
      PROVE  Somewhere(t)
  <2>1. active[w] = t \/ \E k \in Kind : InLine(w, Say(k, w, t))
      BY <1>3 DEF Opened, Start, AnswerOf, Kind
  <2>2. \A k \in Kind : Has(outQ, Say(k, w, t)) => \E i \in DOMAIN outQ : outQ[i].task = t
      BY SayIs DEF Has
  <2>3. \A k \in Kind : Has(Box(w), Say(k, w, t)) => Unsent(w, t)
      BY SayIs DEF Has, Box, Unsent
  <2> QED
      BY <2>1, <2>2, <2>3 DEF InLine, Somewhere
<1> QED
    BY <1>1, <1>2, <1>3

\* Every reachable state of the pool satisfies the invariant.
THEOREM PoolInvHolds == PoolSpec => []PoolInv
<1> QED
    BY PoolInvInit, PoolInvStep, PTL DEF PoolSpec

\* Whichever of the worker, the reaper and the pump is late says nothing: no
\* task is answered twice, so results(count) never stops a task short.
THEOREM OneAnswerEachAlways == PoolSpec => []OneAnswerEach
<1> QED
    BY PoolInvHolds, AnswersAreOneEach, PTL

\* A task is lost only with a process that ended holding what the parent had
\* not been told: until then each one is answered, waiting, on the books, or
\* on its way to the collector, the reaper's kills included.
THEOREM NothingIsForgottenAlways == PoolSpec => []NothingIsForgotten
<1>1. PoolInit => PoolInv /\ BooksInv
    BY PoolInvInit, BooksInvInit
<1>2. PoolInv /\ BooksInv /\ [PoolNext]_poolVars => PoolInv' /\ BooksInv'
    BY PoolInvStep, BooksInvStep
<1> QED
    BY <1>1, <1>2, BooksForgetNothing, PTL DEF PoolSpec
=============================================================================
