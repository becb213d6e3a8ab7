----------------------------- MODULE Inventory -----------------------------
(***************************************************************************)
(* archive/pipeline/inventory.py: the five phases that compare the photos  *)
(* root with its backup before anything may be destroyed.  a walks the     *)
(* disk and lists the snapshot, b compares a sample, c hashes every file   *)
(* and writes `origin`, d compares every file, e backs up what the         *)
(* repository lacks.  Each is a run of its own over one work database,     *)
(* started in any order, killed anywhere and started again, while files    *)
(* are edited, found and lost and adopt_mediavault writes `origin` too.    *)
(*                                                                         *)
(* Bytes and hashes are numbers, and the backed up ones are 0.  Reparse    *)
(* points, hard links, the reports and the two tar and path notations are  *)
(* left out.  restic is external: a dump yields what the snapshot holds, a *)
(* path it does not hold is an error, a backup reads every listed file.    *)
(* One run at a time is the operator's: the code has no lock here.         *)
(***************************************************************************)
EXTENDS Integers, FiniteSets

CONSTANTS
    Path,       \* every path there may be under the photos root
    DirOf,      \* its top-level directory, or "" for a loose file
    InBackup,   \* the paths of the snapshot
    Worlds      \* bounds: what happens in a behaviour, how often, and to which files

ASSUME InventoryAssumption ==
    /\ DirOf \in [Path -> STRING] /\ InBackup \subseteq Path
    /\ \A w \in Worlds : /\ w.mishaps \in Nat /\ w.files \subseteq Path /\ w.damaged \subseteq InBackup
                         /\ DOMAIN w.adopted \subseteq Path
    /\ \A p, q \in InBackup : DirOf[q] # p     \* a file is not a directory

NoSha == -1         \* NULL
Damaged == -2       \* bytes nobody backed up
BACKUP_ENDED == 1   \* mtimes: 1 is before the end of the backup, 2 after it

VARIABLES
    file,       \* the disk: path -> its bytes, size and mtime
    stored,     \* the repository: <<path, bytes>>, of the snapshot and of top-ups
    diskRow,    \* disk: path -> size, mtime, sha256 and error, as walked and hashed
    snap,       \* snap: the paths listed
    repoHash,   \* repo_hash: path -> the hash of its bytes in the snapshot
    subtree,    \* subtree: name -> its state and its hard stops
    origin,     \* origin: path -> sha256 and mtime
    rows,       \* the hashes with a row of `file`
    run,        \* the process: where it is and what it has left to do
    topped,     \* history: the paths hashed when phase e reported success
    drift,      \* history: paths edited or lost since the walk
    since,      \* history: paths edited or lost since they were hashed
    excused,    \* history: paths with a reason to differ on equal size and mtime
    unseen,     \* history: paths hashed after their directory was verified
    late,       \* history: paths adopted while phase c was writing
    world, mishaps

work == <<diskRow, snap, repoHash, subtree>>
catalog == <<origin, rows>>
history == <<topped, drift, since, excused, unseen, late>>
bounds == <<world, mishaps>>
inventoryVars == <<file, stored, work, catalog, run, history, bounds>>

Idle == [at |-> "idle", todo |-> {}, dirs |-> {}, loose |-> {}]
Snapshot(p) == IF p \in world.damaged THEN Damaged ELSE 0
SnapSize == 0

InventoryInit ==
    /\ world \in Worlds /\ mishaps = world.mishaps
    /\ file = [p \in world.files |-> [bytes |-> 0, size |-> SnapSize, mtime |-> 1]]
    /\ stored = {<<p, Snapshot(p)>> : p \in InBackup}
    /\ diskRow = << >> /\ snap = {} /\ repoHash = << >> /\ subtree = << >>
    /\ origin = << >> /\ rows = {}
    /\ run = Idle
    /\ topped = {} /\ drift = {} /\ since = {} /\ excused = world.damaged
    /\ unseen = {} /\ late = {}

Mishap(kind) == kind \in world.does /\ mishaps > 0 /\ mishaps' = mishaps - 1 /\ UNCHANGED world

-----------------------------------------------------------------------------
(* What the work database says. *)

Listed == DOMAIN diskRow
Hashed == {p \in Listed : diskRow[p].sha # NoSha}
Subtrees == {DirOf[p] : p \in Listed} \ {""}
In(dir) == {p \in Path : DirOf[p] = dir}
Loose == In("") \cap Listed
Verified == {n \in DOMAIN subtree : subtree[n].state = "verified"}

\* classify_disagreement
ClassOf(p, sha) ==
    IF diskRow[p].sha = sha THEN "agree"
    ELSE IF p \in snap /\ diskRow[p].size # SnapSize THEN "changed_size"
    ELSE IF diskRow[p].mtime > BACKUP_ENDED THEN "changed_mtime"
    ELSE "hard_stop"

\* compare: a path that is not on disk, or not hashed, has nothing to compare.
Stops(paths) == {p \in paths \cap Hashed : ClassOf(p, Snapshot(p)) = "hard_stop"}

Recorded(name, state, stops) ==
    subtree' = [n \in DOMAIN subtree \union {name} |->
                  IF n = name THEN [state |-> state, stops |-> stops] ELSE subtree[n]]
Dumped(paths) ==
    repoHash' = [p \in DOMAIN repoHash \union paths |-> IF p \in paths THEN Snapshot(p) ELSE repoHash[p]]

Ends == run' = Idle

-----------------------------------------------------------------------------
(* a: the walk replaces the rows, the listing of the snapshot adds to its own. *)

\* Metadata only: no file is opened.
WalkDisk(listed) ==
    [p \in listed |-> [size |-> file[p].size, mtime |-> file[p].mtime, sha |-> NoSha, error |-> FALSE]]
PhaseA(listed) ==
    /\ run = Idle /\ run' = [Idle EXCEPT !.at = "a"]
    /\ diskRow' = WalkDisk(listed)
    /\ drift' = {} /\ since' = {} /\ topped' = {}
    /\ UNCHANGED <<file, stored, snap, repoHash, subtree, catalog, excused, unseen, late>>

LoadSnapshot ==
    /\ run.at = "a" /\ Ends /\ snap' = InBackup
    /\ UNCHANGED <<file, stored, diskRow, repoHash, subtree, catalog, history, bounds>>

-----------------------------------------------------------------------------
(* Hashing, for b and c.  A batch lost to a kill is files not hashed yet. *)

HashOne(p) ==
    /\ run.at \in {"b", "c"} /\ p \in run.todo
    /\ run' = [run EXCEPT !.todo = @ \ {p}]
    /\ \/ /\ p \in DOMAIN file /\ diskRow' = [diskRow EXCEPT ![p] = [@ EXCEPT !.sha = file[p].bytes, !.error = FALSE]]
          /\ excused' = IF p \in drift \/ (p \notin snap /\ diskRow[p].size # SnapSize)
                        THEN excused \union {p} ELSE excused
          /\ unseen' = IF DirOf[p] \in Verified THEN unseen \union {p} ELSE unseen
          /\ since' = since \ {p} /\ UNCHANGED bounds
       \/ /\ diskRow' = [diskRow EXCEPT ![p].error = TRUE]
          /\ (p \notin DOMAIN file /\ UNCHANGED bounds) \/ Mishap("locked")
          /\ UNCHANGED <<excused, since, unseen>>
    /\ UNCHANGED <<file, stored, snap, repoHash, subtree, catalog, topped, drift, late>>

-----------------------------------------------------------------------------
(* b: the files that drifted one by one, then a sample of whole directories. *)

Drifted == {p \in Listed \cap snap : diskRow[p].mtime > BACKUP_ENDED}

\* Files that could not be read are tried again here, and nowhere else.
PhaseB(sample) ==
    /\ run = Idle
    /\ run' = [Idle EXCEPT !.at = "b", !.dirs = sample,
                 !.todo = ({p \in Listed : DirOf[p] \in sample} \union Drifted) \ Hashed]
    /\ UNCHANGED <<file, stored, work, catalog, history, bounds>>

\* A directory sampled before is not dumped again.  A file that drifted has its
\* answer already, and it is never a hard stop.
SampleSubtree(dir) ==
    /\ run.at = "b" /\ run.todo = {} /\ dir \in run.dirs
    /\ IF dir \in DOMAIN subtree /\ subtree[dir].state = "sampled"
       THEN UNCHANGED subtree /\ run' = [run EXCEPT !.dirs = @ \ {dir}]
       ELSE IF In(dir) \cap InBackup = {}
       THEN UNCHANGED subtree /\ Ends
       ELSE /\ Recorded(dir, "sampled", Stops((In(dir) \cap InBackup) \ Drifted))
            /\ run' = [run EXCEPT !.dirs = @ \ {dir}]
    /\ UNCHANGED <<file, stored, diskRow, snap, repoHash, catalog, history, bounds>>

EndB ==
    /\ run.at = "b" /\ run.todo = {} /\ run.dirs = {} /\ Ends
    /\ UNCHANGED <<file, stored, work, catalog, history, bounds>>

-----------------------------------------------------------------------------
(* c: hash what is left, compare with what the catalog says, write.         *)

PhaseC ==
    /\ run = Idle
    /\ run' = [Idle EXCEPT !.at = "c", !.todo = {p \in Listed \ Hashed : ~diskRow[p].error}]
    /\ UNCHANGED <<file, stored, work, catalog, history, bounds>>

\* One hash that disagrees with one on record and nothing is written.
CompareOrigins ==
    /\ run.at = "c" /\ run.todo = {}
    /\ IF \E p \in Hashed \cap DOMAIN origin : origin[p].sha # diskRow[p].sha
       THEN Ends
       ELSE run' = [run EXCEPT !.at = "write", !.todo = Hashed]
    /\ UNCHANGED <<file, stored, work, catalog, history, bounds>>

\* The upsert: the hash on record stays, the earlier mtime wins.
Upserted(p) ==
    IF p \notin DOMAIN origin THEN [sha |-> diskRow[p].sha, mtime |-> diskRow[p].mtime]
    ELSE [origin[p] EXCEPT !.mtime = IF diskRow[p].mtime < @ THEN diskRow[p].mtime ELSE @]

WriteOrigins(batch) ==
    /\ run.at = "write" /\ batch \subseteq run.todo /\ batch # {}
    /\ run' = [run EXCEPT !.todo = @ \ batch]
    /\ origin' = [p \in DOMAIN origin \union batch |-> IF p \in batch THEN Upserted(p) ELSE origin[p]]
    /\ UNCHANGED <<file, stored, work, rows, history, bounds>>

WriteFiles ==
    /\ run.at = "write" /\ run.todo = {} /\ Ends
    /\ rows' = rows \union {origin[p].sha : p \in DOMAIN origin}
    /\ UNCHANGED <<file, stored, work, origin, history, bounds>>

-----------------------------------------------------------------------------
(* d: every file the repository holds, directory by directory.              *)

\* Refused while a file waits to be hashed, or when restic check fails.
PhaseD ==
    /\ run = Idle /\ \A p \in Listed \ Hashed : diskRow[p].error
    /\ run' = [Idle EXCEPT !.at = "d", !.dirs = Subtrees \ Verified, !.loose = Loose]
    /\ UNCHANGED <<file, stored, work, catalog, history, bounds>>

\* A directory the snapshot does not hold ends the run; so does a hard stop.
VerifySubtree(dir) ==
    LET paths == In(dir) \cap InBackup
        stops == Stops(paths)
    IN  /\ run.at = "d" /\ dir \in run.dirs
        /\ IF paths = {}
           THEN Ends /\ UNCHANGED <<repoHash, subtree, unseen>>
           ELSE /\ Dumped(paths) /\ unseen' = unseen \ paths
                /\ Recorded(dir, IF stops = {} THEN "verified" ELSE "hard_stop", stops)
                /\ IF stops = {} THEN run' = [run EXCEPT !.dirs = @ \ {dir}] ELSE Ends
        /\ UNCHANGED <<file, stored, diskRow, snap, catalog, topped, drift, since, excused, late, bounds>>

\* A loose file that is a hard stop ends nothing.
VerifyLoose(p) ==
    /\ run.at = "d" /\ run.dirs = {} /\ p \in run.loose
    /\ IF p \notin InBackup
       THEN Ends /\ UNCHANGED <<repoHash, subtree>>
       ELSE /\ Dumped({p})
            /\ Recorded(p, IF Stops({p}) = {} THEN "verified" ELSE "hard_stop", Stops({p}))
            /\ run' = [run EXCEPT !.loose = @ \ {p}]
    /\ UNCHANGED <<file, stored, diskRow, snap, catalog, history, bounds>>

EndD ==
    /\ run.at = "d" /\ run.dirs = {} /\ run.loose = {} /\ Ends
    /\ UNCHANGED <<file, stored, work, catalog, history, bounds>>

-----------------------------------------------------------------------------
(* e: back up what the repository does not hold.                            *)

Complete == Subtrees \subseteq Verified /\ Listed \cap snap \subseteq DOMAIN repoHash

\* A mistake: what differs in path or size, as phase a saw it.
BugPathAndSize == (Listed \ snap) \union {p \in Listed \cap snap : diskRow[p].size # SnapSize}
TopUpSet ==
    (Listed \ DOMAIN repoHash)
        \union {p \in Hashed \cap DOMAIN repoHash : repoHash[p] # diskRow[p].sha}

\* A mistake: the directories still to be verified are not asked for.
BugToppedUpUnverified ==
    /\ run = Idle /\ Listed \cap snap \subseteq DOMAIN repoHash
    /\ stored' = stored \union {<<p, file[p].bytes>> : p \in TopUpSet \cap DOMAIN file}
    /\ topped' = IF TopUpSet \subseteq DOMAIN file THEN Hashed ELSE {}
    /\ UNCHANGED <<file, work, catalog, run, drift, since, excused, unseen, late, bounds>>
\* restic reports a listed file that is gone, and backs up the others.
PhaseE ==
    /\ run = Idle /\ Complete
    /\ stored' = stored \union {<<p, file[p].bytes>> : p \in TopUpSet \cap DOMAIN file}
    /\ topped' = IF TopUpSet \subseteq DOMAIN file THEN Hashed ELSE {}
    /\ UNCHANGED <<file, work, catalog, run, drift, since, excused, unseen, late, bounds>>

-----------------------------------------------------------------------------
(* The world: kills, what happens to files, adoption.                       *)

\* A kill in a dump keeps the batches of repo_hash that were written.
KillPhase ==
    /\ run # Idle /\ Mishap("kill") /\ Ends
    /\ \/ UNCHANGED repoHash
       \/ /\ run.at = "d"
          /\ \E dir \in run.dirs : \E part \in SUBSET (In(dir) \cap InBackup) : Dumped(part)
    /\ UNCHANGED <<file, stored, diskRow, snap, subtree, catalog, history>>

Gone(p) == drift' = drift \union {p} /\ since' = since \union {p}

\* Grown or rewritten after the backup, replaced by an older file of another
\* size, or changed in place with its mtime kept.
Edit(p, kind) ==
    /\ p \in DOMAIN file /\ Mishap(kind)
    /\ file' = [file EXCEPT ![p] =
                  [bytes |-> mishaps,
                   size |-> IF kind \in {"grow", "replace"} THEN @.size + 1 ELSE @.size,
                   mtime |-> IF kind \in {"grow", "rewrite"} THEN 2 ELSE @.mtime]]
    /\ Gone(p)
    /\ excused' = IF kind = "sly" THEN excused \union {p} ELSE excused
    /\ UNCHANGED <<stored, work, catalog, run, topped, unseen, late>>

Create(p, mtime) ==
    /\ p \notin DOMAIN file /\ Mishap("create")
    /\ file' = [q \in DOMAIN file \union {p} |->
                  IF q = p THEN [bytes |-> mishaps, size |-> SnapSize, mtime |-> mtime] ELSE file[q]]
    /\ Gone(p)
    /\ excused' = IF p \in InBackup THEN excused \union {p} ELSE excused
    /\ UNCHANGED <<stored, work, catalog, run, topped, unseen, late>>

Delete(p) ==
    /\ p \in DOMAIN file /\ Mishap("delete")
    /\ file' = [q \in DOMAIN file \ {p} |-> file[q]] /\ Gone(p)
    /\ UNCHANGED <<stored, work, catalog, run, topped, excused, unseen, late>>

\* adopt_mediavault: the hashes v1 gave first, then the paths of its sidecars.
\* The hash on record stays here too, and the earlier mtime wins.
AdoptAssets ==
    /\ "adopt" \in world.does
    /\ rows' = rows \union {world.adopted[p] : p \in DOMAIN world.adopted}
    /\ UNCHANGED <<file, stored, work, origin, run, history, bounds>>

Adopt(p) ==
    /\ p \in DOMAIN world.adopted /\ world.adopted[p] \in rows /\ Mishap("adopt")
    /\ origin' = [q \in DOMAIN origin \union {p} |->
                    IF q # p THEN origin[q]
                    ELSE [sha |-> IF p \in DOMAIN origin THEN origin[p].sha ELSE world.adopted[p],
                          mtime |-> 1]]
    /\ late' = IF run.at = "write" /\ p \notin DOMAIN origin THEN late \union {p} ELSE late
    /\ UNCHANGED <<file, stored, work, rows, run, topped, drift, since, excused, unseen>>

-----------------------------------------------------------------------------
Calm(A) == A /\ UNCHANGED bounds
Dirs == {DirOf[p] : p \in Path} \ {""}

InventoryNext ==
    \/ Calm(PhaseA(DOMAIN file)) \/ LoadSnapshot
    \/ \E sample \in SUBSET Subtrees : PhaseB(sample)
    \/ \E dir \in Dirs : SampleSubtree(dir) \/ VerifySubtree(dir)
    \/ EndB \/ PhaseC \/ CompareOrigins \/ WriteFiles \/ PhaseD \/ EndD \/ PhaseE
    \/ \E p \in Path : HashOne(p) \/ VerifyLoose(p) \/ Delete(p) \/ Adopt(p)
    \/ \E batch \in SUBSET Path : WriteOrigins(batch)
    \/ \E p \in Path : \/ \E kind \in {"grow", "rewrite", "replace", "sly"} : Edit(p, kind)
                       \/ \E mtime \in 1..2 : Create(p, mtime)
    \/ AdoptAssets \/ KillPhase
    \/ \E missed \in SUBSET DOMAIN file : missed # {} /\ Mishap("unlisted") /\ PhaseA(DOMAIN file \ missed)

InventorySpec == InventoryInit /\ [][InventoryNext]_inventoryVars

-----------------------------------------------------------------------------
\* A hard stop is never drift: the file was changed in place with its mtime
\* kept, or the repository holds other bytes than were backed up, or it was
\* changed between the walk and the hash (inventory.py:102).
HardStopsAreReal ==
    \A n \in DOMAIN subtree : subtree[n].stops \subseteq excused

\* When phase e has succeeded the repository holds the bytes of every file that
\* was hashed, whatever was killed, walked again or changed in between, but for
\* files changed after they were hashed (inventory.py:1397).
TopUpIsComplete ==
    \A p \in topped \ since : <<p, file[p].bytes>> \in stored

\* Nothing is added to a repository in which a file hashed before its directory
\* was verified is a hard stop, however the two kinds of rows of `subtree` were
\* written over one another (inventory.py:1368).
TopUpIsVerified ==
    [][stored' # stored \/ topped' \ topped # {} =>
         \A dir \in Subtrees : Stops((In(dir) \cap InBackup) \ unseen) = {}]_inventoryVars

\* The hash on record is the first, and a phase c that has written all its rows
\* has found it, for each file, to be its own, unless the path was adopted while
\* it was writing (inventory.py:886).
OriginsAgree ==
    [][/\ \A p \in DOMAIN origin : origin'[p].sha = origin[p].sha /\ origin'[p].mtime <= origin[p].mtime
       /\ run.at = "write" /\ run.todo = {} =>
            \A p \in Hashed \ late : origin[p].sha = diskRow[p].sha]_inventoryVars

\* What a phase reports is so: a stop is a real one and a success leaves nothing
\* behind (inventory.py:102, 1397).
PhasesReportTruly == HardStopsAreReal /\ TopUpIsComplete

\* What a phase may write rests on what an earlier one has established: the
\* repository on the directories verified, the origins on the first hash.
PhasesBuildOnEarlierOnes == TopUpIsVerified /\ OriginsAgree
=============================================================================
