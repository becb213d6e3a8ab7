------------------------------- MODULE Ingest -------------------------------
(***************************************************************************)
(* How a row of `file` comes to carry features: the rows put by            *)
(* adopt_mediavault and inventory, the three passes of phase2a (re-hash,   *)
(* ARW repair, features), the passes of phase2b (clear errors, stage,      *)
(* decode) and the tile copy of thumbnails, each a process that loads a    *)
(* worklist, works through it in any order (pool results arrive in any     *)
(* order) and commits what it has queued in batches, so a kill loses the   *)
(* queue and keeps the files.  Promotion moves the bytes meanwhile.        *)
(*                                                                         *)
(* A file's bytes, its hashes and its scalars are reduced to which pixels  *)
(* they were measured on.  The run lock is RunLock's; what is kept of it   *)
(* here is that one phase2a and one phase2b run at a time, and that        *)
(* phase2b only looks for phase2a's lock file before it starts.            *)
(***************************************************************************)
EXTENDS Naturals, Sequences, FiniteSets

CONSTANTS
    File,           \* distinct contents (sha256)
    InVault,        \* those MediaVault holds an object of
    Tiered,         \* those with ready derivatives of v1 at 1536px and 384px
    Sideways,       \* .arw whose container asks for a turn v1 did not make
    Decodable,      \* an extension of phase2b's DECODABLE
    InPhotos,       \* those with a path under the photos root
    Worlds          \* bounds: the files, the faults and how many upsets of a behaviour

ASSUME IngestAssumption ==
    /\ Tiered \subseteq InVault /\ InVault \subseteq File
    /\ Sideways \subseteq Tiered /\ Sideways \cap Decodable = {}
    /\ Decodable \subseteq File /\ InPhotos \subseteq File
    /\ \A w \in Worlds : w.files \subseteq File /\ w.upsets \in Nat

Pixels == {"upright", "sideways", "turned", "made"}
Row == [st : {"none", "pending", "adopted", "read", "staged", "published", "excluded"},
        path : {"null", "object", "staging", "vault"},
        quality : {"null", "error"} \union Pixels,
        rot : {"null", "zero", "turned"}]
NoRow == [st |-> "none", path |-> "null", quality |-> "null", rot |-> "null"]
Process == {"2a", "2b", "thumbs"}
\* A process: its pass and those to come, the files to do, the tiers put down of
\* a file under way, the answers not committed and the rows as they were listed.
Job(at, plan, todo, half, queue, seen) ==
    [at |-> at, plan |-> plan, todo |-> todo, half |-> half, queue |-> queue, seen |-> seen]
Blank(at, plan) == Job(at, plan, {}, {}, {}, [f \in File |-> NoRow])
Idle == Blank("idle", <<>>)

VARIABLES
    row,        \* the rows of `file`
    kept,       \* the contents the rule set keeps
    object,     \* objects under MediaVault
    deriv,      \* the substrate under deriv_root
    tile,       \* the tile under thumb_root
    blob,       \* verified copies under the staging root
    run,        \* each process: its pass, worklist and what it has not committed
    locked,     \* phase2a.lock exists
    world, upsets,
    pasted      \* history: tiles thumbnails wrote over one that was there

disk == <<object, deriv, tile, blob, pasted>>
bounds == <<world, upsets>>
vars == <<row, kept, disk, run, locked, bounds>>

Init ==
    /\ world \in Worlds /\ upsets = world.upsets
    /\ row = [f \in File |-> NoRow]
    /\ kept = InPhotos /\ object = InVault /\ blob = {} /\ pasted = {}
    /\ deriv = [f \in File |-> "none"] /\ tile = [f \in File |-> "none"]
    /\ run = [p \in Process |-> Idle] /\ locked = FALSE

Upset(fault) == fault \in world.faults /\ upsets > 0 /\ upsets' = upsets - 1 /\ UNCHANGED world

-----------------------------------------------------------------------------
(* The rows: adoption keeps a row that is there, and so does the inventory. *)

Adopt ==
    /\ \E f \in InVault \cap world.files : row[f].st = "none"
    /\ row' = [f \in File |-> IF f \in object \cap world.files /\ row[f].st = "none"
                              THEN [NoRow EXCEPT !.st = "adopted", !.path = "object"] ELSE row[f]]
    /\ UNCHANGED <<kept, disk, run, locked, bounds>>

Inventory ==
    /\ \E f \in InPhotos \cap world.files : row[f].st = "none"
    /\ row' = [f \in File |-> IF f \in InPhotos \cap world.files /\ row[f].st = "none"
                              THEN [NoRow EXCEPT !.st = "pending"] ELSE row[f]]
    /\ UNCHANGED <<kept, disk, run, locked, bounds>>

-----------------------------------------------------------------------------
(* What each pass has to do, read when the pass begins. *)

ObjectList == {f \in object : row[f].st # "read"}
\* A mistake: a row no pass has turned is looked at again, whatever has measured it.
BugRepairsTheMeasured == {f \in Sideways : row[f].rot # "turned"}
RepairList == {f \in Sideways : row[f].rot = "null"}
FeatureList(retry) == {f \in Tiered : row[f].quality \in {"null"} \union IF retry THEN {"error"} ELSE {}}
GapList == {f \in InPhotos \cap kept : row[f].st = "pending"}
\* A mistake: the worklist forgets the rows promotion has moved.
BugForgetsPublished == {f \in Decodable : /\ row[f].quality = "null" /\ row[f].path # "null"
                                          /\ row[f].st \in {"read", "staged"}}
DecodeList == {f \in Decodable : /\ row[f].quality = "null" /\ row[f].path # "null"
                                 /\ row[f].st \in {"read", "staged", "published"}}
TileList == {f \in Tiered : tile[f] = "none"}

Worklist(pass) ==
    CASE pass = "hash" -> ObjectList
      [] pass = "repair" -> RepairList
      [] pass = "features" -> FeatureList(FALSE)
      [] pass = "retry" -> FeatureList(TRUE)
      [] pass = "stage" -> GapList
      [] pass = "decode" -> DecodeList
      [] pass = "copy" -> TileList
      [] OTHER -> {}

Begin(p, plan) == run' = [run EXCEPT ![p] = Blank("begin", plan)]

Begin2a(plan) ==
    /\ run["2a"].at = "idle" /\ Begin("2a", plan)
    /\ locked' = TRUE
    /\ UNCHANGED <<row, kept, disk>>

Begin2b(plan) ==
    /\ run["2b"].at = "idle" /\ ~locked /\ Begin("2b", plan)
    /\ UNCHANGED <<row, kept, disk, locked>>

BeginThumbs ==
    /\ run["thumbs"].at = "idle" /\ TileList \cap world.files # {} /\ Begin("thumbs", <<"copy">>)
    /\ UNCHANGED <<row, kept, disk, locked>>

\* Everything of the pass answered and committed; the next loads its worklist.
NextPass(p) ==
    LET coming == Head(run[p].plan)
        todo == Worklist(coming) \cap world.files
    IN /\ run[p].at # "idle" /\ run[p].todo = {} /\ run[p].queue = {}
       /\ IF run[p].plan = <<>>
          THEN run' = [run EXCEPT ![p] = Idle] /\ locked' = (locked /\ p # "2a")
          ELSE /\ run' = [run EXCEPT ![p] = Job(coming, Tail(@.plan), todo, {}, {},
                            [f \in File |-> IF f \in todo THEN row[f] ELSE NoRow])]
               /\ UNCHANGED locked
       /\ row' = IF run[p].plan # <<>> /\ coming = "clear"
                 THEN [f \in File |-> IF /\ row[f].quality = "error" /\ f \in Decodable
                                         /\ row[f].st \in {"read", "staged", "published"}
                                      THEN [row[f] EXCEPT !.quality = "null"] ELSE row[f]]
                 ELSE row
       /\ UNCHANGED <<kept, disk>>

-----------------------------------------------------------------------------
(* One file of a worklist, and what its answer puts in the queue. *)

Busy(p, pass, f) == run[p].at \in pass /\ f \in run[p].todo

Answered(p, f, values) ==
    run' = [run EXCEPT ![p] = Job(@.at, @.plan, @.todo \ {f}, {h \in @.half : h[1] # f},
                                  @.queue \union {<<f, v>> : v \in values}, @.seen)]

Half(p, f, tier) ==
    run' = [run EXCEPT ![p] = Job(@.at, @.plan, @.todo, @.half \union {<<f, tier>>}, @.queue, @.seen)]

HashOne(f) ==
    /\ Busy("2a", {"hash"}, f) /\ f \in object
    /\ Answered("2a", f, IF run["2a"].seen[f].st = "none" THEN {} ELSE {"read"})
    /\ UNCHANGED <<row, kept, disk, locked>>

\* The object was promoted after it was listed: the open fails and ends the run.
HashGone(f) ==
    /\ Busy("2a", {"hash"}, f) /\ f \notin object
    /\ run' = [run EXCEPT !["2a"] = Idle] /\ locked' = FALSE
    /\ UNCHANGED <<row, kept, disk>>

Placed(p, pass, f, tier, pixels) ==
    /\ Busy(p, pass, f) /\ <<f, tier>> \notin run[p].half
    /\ deriv' = IF tier = "substrate" THEN [deriv EXCEPT ![f] = pixels] ELSE deriv
    /\ tile' = IF tier = "tile" THEN [tile EXCEPT ![f] = pixels] ELSE tile
    /\ UNCHANGED <<row, kept, object, blob, pasted, locked>>

\* The tiers of a repair come back in any order; the second one queues the row.
TurnOne(f, tier) ==
    /\ Placed("2a", {"repair"}, f, tier, "turned")
    /\ IF \E h \in run["2a"].half : h[1] = f THEN Answered("2a", f, {"turned"})
       ELSE Half("2a", f, tier)

MeasureOne(f) ==
    LET pixels == IF run["2a"].seen[f].rot = "turned" THEN deriv[f]
                   ELSE IF f \in Sideways THEN "sideways" ELSE "upright"
    IN /\ Busy("2a", {"features", "retry"}, f)
       /\ Answered("2a", f, {IF pixels = "none" THEN "error" ELSE pixels})
       /\ UNCHANGED <<row, kept, disk, locked>>

StageOne(f) ==
    /\ Busy("2b", {"stage"}, f)
    /\ blob' = blob \union {f} /\ Answered("2b", f, {"staged"})
    /\ UNCHANGED <<row, kept, object, deriv, tile, pasted, locked>>

\* _source_path, as the row was when the worklist was loaded.
SourceThere(f) ==
    LET path == run["2b"].seen[f].path
    IN (path = "object" /\ f \in object) \/ (path = "staging" /\ f \in blob) \/ path = "vault"

DecodeOne(f, tier) ==
    /\ Placed("2b", {"decode"}, f, tier, "made")
    /\ IF tier = "tile" THEN <<f, "substrate">> \in run["2b"].half /\ Answered("2b", f, {"made"})
       ELSE SourceThere(f) /\ Half("2b", f, tier)

DecodeGone(f) ==
    /\ Busy("2b", {"decode"}, f) /\ ~SourceThere(f)
    /\ Answered("2b", f, {"error"})
    /\ UNCHANGED <<row, kept, disk, locked>>

CopyOne(f) ==
    /\ Busy("thumbs", {"copy"}, f)
    /\ pasted' = IF tile[f] = "none" THEN pasted ELSE pasted \union {f}
    /\ tile' = [tile EXCEPT ![f] = "copy"]
    /\ Answered("thumbs", f, {})
    /\ UNCHANGED <<row, kept, object, deriv, blob, locked>>

\* A worker times out, a checksum disagrees or a read fails.
Fails(p, f) ==
    /\ Busy(p, {"hash", "repair", "features", "retry", "stage", "decode", "copy"}, f)
    /\ \A h \in run[p].half : p = "2b" => h[1] # f
    /\ Answered(p, f, IF run[p].at \in {"features", "retry", "decode"} THEN {"error"} ELSE {})
    /\ UNCHANGED <<row, kept, disk, locked>>

-----------------------------------------------------------------------------
(* The statements that commit a batch. *)

\* A mistake: the batches of the re-hash and of staging overwrite any state.
BugWalksBack(r, pass, value) ==
    CASE pass = "hash" -> [r EXCEPT !.st = "read"]
      [] pass = "stage" -> [r EXCEPT !.st = "staged", !.path = "staging"]
      [] pass = "repair" -> [r EXCEPT !.rot = "turned"]
      [] pass = "decode" -> [r EXCEPT !.quality = value, !.rot = "zero"]
      [] OTHER -> [r EXCEPT !.quality = value]

Updated(r, pass, value) ==
    CASE pass = "hash" -> IF r.st \in {"adopted", "pending"} THEN [r EXCEPT !.st = "read"] ELSE r
      [] pass = "repair" -> [r EXCEPT !.rot = "turned"]
      [] pass = "stage" -> IF r.st = "pending" THEN [r EXCEPT !.st = "staged", !.path = "staging"] ELSE r
      [] pass = "decode" -> [r EXCEPT !.quality = value, !.rot = "zero"]
      [] OTHER -> [r EXCEPT !.quality = value,
                            !.rot = IF @ = "null" /\ value # "error" THEN "zero" ELSE @]

Commit(p) ==
    /\ run[p].queue # {}
    /\ row' = [f \in File |->
                 IF row[f].st # "none" /\ \E q \in run[p].queue : q[1] = f
                 THEN Updated(row[f], run[p].at, (CHOOSE q \in run[p].queue : q[1] = f)[2]) ELSE row[f]]
    /\ run' = [run EXCEPT ![p] = Job(@.at, @.plan, @.todo, @.half, {}, @.seen)]
    /\ UNCHANGED <<kept, disk, locked, bounds>>

-----------------------------------------------------------------------------
(* Kills, the operator and promotion (one object at a time: see Promote). *)

Kill(p) ==
    /\ run[p].at # "idle" /\ Upset("kill")
    /\ run' = [run EXCEPT ![p] = Idle]
    /\ UNCHANGED <<row, kept, disk, locked>>

Decide(f) ==
    /\ f \in InPhotos \cap world.files /\ Upset("decide")
    /\ kept' = (kept \ {f}) \union ({f} \ kept)
    /\ UNCHANGED <<row, disk, run, locked>>

Promote(f) ==
    /\ row[f].st \in {"read", "staged"} /\ row[f].path # "null"
    /\ \A g \in File : row[g].path # "null" => row[g].st # "adopted"
    /\ f \in kept \/ row[f].st = "read"
    /\ Upset("promote")
    /\ object' = object \ {f} /\ blob' = IF row[f].st = "staged" THEN blob \ {f} ELSE blob
    /\ row' = [row EXCEPT ![f] = IF f \in kept THEN [@ EXCEPT !.st = "published", !.path = "vault"]
                                 ELSE [@ EXCEPT !.st = "excluded", !.path = "null"]]
    /\ UNCHANGED <<kept, deriv, tile, pasted, run, locked>>

-----------------------------------------------------------------------------
Calm(A) == A /\ UNCHANGED bounds
Tier == {"substrate", "tile"}

Work(p, f) ==
    \/ p = "2a" /\ (HashOne(f) \/ HashGone(f) \/ MeasureOne(f) \/ \E t \in Tier : TurnOne(f, t))
    \/ p = "2b" /\ (StageOne(f) \/ DecodeGone(f) \/ \E t \in Tier : DecodeOne(f, t))
    \/ p = "thumbs" /\ CopyOne(f)

Steps(p) == Commit(p) \/ Calm(NextPass(p)) \/ \E f \in world.files : Calm(Work(p, f))

Daily2a == Calm(Begin2a(<<"hash", "repair", "features">>))
Daily2b == Calm(Begin2b(<<"stage", "decode">>))

Next ==
    \/ Adopt \/ Inventory \/ Daily2a \/ Daily2b \/ Calm(BeginThumbs)
    \/ Upset("retry") /\ (Begin2a(<<"retry">>) \/ Begin2b(<<"clear", "stage", "decode">>))
    \/ Upset("partial") /\ (Begin2a(<<"features">>) \/ Begin2a(<<"repair">>))
    \/ \E p \in Process : Steps(p) \/ Kill(p) \/ \E f \in world.files : Upset("fail") /\ Fails(p, f)
    \/ \E f \in world.files : Promote(f) \/ Decide(f)

Spec == Init /\ [][Next]_vars

\* Running processes go on, and the operator runs every step again until
\* nothing is left; phase2b may find phase2a's lock file many times before it starts.
Fairness ==
    /\ WF_vars(Adopt) /\ WF_vars(Inventory)
    /\ \A p \in Process : WF_vars(Steps(p))
    /\ WF_vars(Daily2a) /\ SF_vars(Daily2b)

FairSpec == Spec /\ Fairness

-----------------------------------------------------------------------------
TypeOK ==
    /\ row \in [File -> Row] /\ kept \subseteq InPhotos /\ object \subseteq InVault
    /\ deriv \in [File -> {"none", "turned", "made"}]
    /\ tile \in [File -> {"none", "copy", "turned", "made"}]
    /\ blob \subseteq InPhotos /\ pasted \subseteq File
    /\ locked \in BOOLEAN /\ upsets \in Nat /\ world \in Worlds
    /\ \A p \in Process : /\ run[p].todo \subseteq File /\ run[p].seen \in [File -> Row]
                          /\ run[p].half \subseteq File \X Tier

\* No batch committed late walks a row back: what was read stays read, staged
\* and read do not change into one another, and promotion's verdict is final
\* (phase2a.py:366, phase2b.py:389).
StateGoesForward ==
    [][\A f \in File : LET s == row[f].st  t == row'[f].st
                       IN s # t => \/ s = "none"
                                   \/ s \in {"pending", "adopted"} /\ t \in {"read", "staged"}
                                   \/ s \in {"read", "staged"} /\ t \in {"published", "excluded"}]_vars

\* deriv_rot and quality tell which pixels are on disk and which were measured:
\* a row marked turned has both tiers turned, unless thumbnails copied over the
\* tile, and no scalars but those of the turned substrate; a row phase2b
\* measured has both tiers it made (phase2a.py:520, phase2b.py:797).
PixelsAreAsRecorded ==
    \A f \in File :
        /\ row[f].rot = "turned" => /\ deriv[f] = "turned" /\ (tile[f] = "turned" \/ f \in pasted)
                                    /\ row[f].quality \in {"null", "error", "turned"}
        /\ row[f].quality = "turned" => row[f].rot = "turned"
        /\ row[f].quality = "made" => deriv[f] = "made" /\ (tile[f] = "made" \/ f \in pasted)

\* And a staged row names a verified copy that is there, through kills of the copy
\* and a promotion of the same bytes (phase2b.py:333).
StagedIsThere ==
    \A f \in File : row[f].st = "staged" => f \in blob /\ row[f].path = "staging"

\* A row and the disk agree, in both of these ways.
RowsMatchTheDisk == PixelsAreAsRecorded /\ StagedIsThere

\* What the passes can measure is measured: a file with ready derivatives, or
\* one phase2b can decode and reach, has its features or a recorded error in
\* the end, whatever was killed, retried, staged or promoted meanwhile, unless
\* promotion excluded it (phase2b.py:244, 1176).
Reachable(f) ==
    \/ f \in Tiered
    \/ f \in Decodable /\ (row[f].path # "null" \/ (f \in kept /\ row[f].st = "pending"))
FeaturesLand ==
    \A f \in File : <>[](row[f].st # "none" /\ Reachable(f)
                            => row[f].quality # "null" \/ row[f].st = "excluded")
=============================================================================
