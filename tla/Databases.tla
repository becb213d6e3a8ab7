------------------------------ MODULE Databases ------------------------------
(***************************************************************************)
(* The two database files and everything that moves them as files:         *)
(* photolib/migrate.py (apply), photolib/restore_state.py (restore),       *)
(* archive/pipeline/backup_state.py (snapshot) and photolib/db.py          *)
(* (connect), with the grid server as the writer of state.sqlite3 and the  *)
(* pipeline as the writer of catalog.sqlite3.                              *)
(*                                                                         *)
(* A file is its schema_version rows and the decisions it holds.  SQLite   *)
(* is external: a transaction that wrote both files commits them one after *)
(* the other (WAL mode has no super-journal), a transaction that read a    *)
(* file somebody has committed to since cannot write it, and a -wal left   *)
(* beside a database is replayed by the next connection that opens it.     *)
(* The file system is Windows': a file somebody has open cannot be         *)
(* replaced or removed.                                                    *)
(***************************************************************************)
EXTENDS Naturals, FiniteSets

CONSTANTS
    Migrator,       \* processes running photolib.migrate
    Knows,          \* the number of migration files each one's checkout holds
    Decision,       \* decisions a human makes, each once
    InitialVersion, \* the version both files start at
    Budgets         \* bounds: how many restores, backups, kills and commits

Latest == CHOOSE n \in {Knows[m] : m \in Migrator} : \A m \in Migrator : Knows[m] <= n

Nobody == "nobody"
Server == "server"
Pipeline == "pipeline"

ASSUME DatabasesAssumption ==
    /\ Knows \in [Migrator -> Nat] /\ Migrator # {} /\ IsFiniteSet(Migrator)
    /\ Migrator \cap {Nobody, Server, Pipeline} = {}
    /\ InitialVersion \in Nat

Blank == [rows |-> {}, holds |-> {}]

\* version: max(schema_version), 0 if unmigrated.
Version(rows) == IF rows = {} THEN 0 ELSE CHOOSE n \in rows : \A k \in rows : k <= n

VARIABLES
    catalog,    \* the schema_version rows of catalog.sqlite3
    base,       \* state.sqlite3: its rows and decisions, without the -wal
    wal,        \* the -wal, if any: the content it leads to, the file it is of
    gen,        \* which file stands under the name state.sqlite3
    open,       \* the processes that have state.sqlite3 open
    lock,       \* who holds the write lock of each file
    mig,        \* each migrator: where it is, `current` and the pending number
    stale,      \* migrators whose snapshot of a file a commit has overtaken
    up,         \* whether the grid answers on its port
    restore,    \* the restore: where it is, the snapshot it was given, its own
    backups,    \* the snapshots under backup_root
    left,       \* what is left of the budget
    made,       \* history: the decisions ever committed
    raced,      \* history: a writer came in behind a restore's safety snapshot
    cut         \* history: a migrator killed between its commits, or a restore
                \* of a snapshot from before a migration

vars == <<catalog, base, wal, gen, open, lock, mig, stale, up, restore, backups,
          left, made, raced, cut>>
stateFile == <<base, wal, gen>>
history == <<made, raced, cut>>

\* What a connection to state.sqlite3 reads.
Live == IF wal = {} THEN base ELSE (CHOOSE w \in wal : TRUE).to
Torn == \E w \in wal : w.of # gen

Idle == [at |-> "off", of |-> Blank, safety |-> Blank]

Init ==
    /\ catalog = 1..InitialVersion
    /\ base = [rows |-> 1..InitialVersion, holds |-> {}] /\ wal = {} /\ gen = 0
    /\ open = {} /\ lock = [f \in {"catalog", "state"} |-> Nobody]
    /\ mig = [m \in Migrator |-> [at |-> "off", current |-> 0, number |-> 0]]
    /\ stale = {} /\ up = FALSE
    /\ restore = Idle /\ backups = {}
    /\ left \in Budgets
    /\ made = {} /\ raced = FALSE /\ cut = FALSE

Spend(what) == left[what] > 0 /\ left' = [left EXCEPT ![what] = @ - 1]

\* The last connection to close folds the -wal into the file and removes it.
Closes(p) ==
    /\ open' = open \ {p}
    /\ IF p \in open /\ open' = {} /\ wal # {}
       THEN base' = Live /\ wal' = {}
       ELSE UNCHANGED <<base, wal>>
    /\ gen' = gen

\* A process that is killed leaves the -wal where it is.
Drops(p) == open' = open \ {p} /\ UNCHANGED stateFile

\* A commit to the state file: the -wal grows and other readers fall behind.
Behind == restore.at \in {"fold", "copy", "replace", "unlink"}
CommitState(to, by) ==
    /\ wal' = {[to |-> to, of |-> gen]}
    /\ stale' = stale \union {<<m, "state">> : m \in Migrator \ {by}}
    /\ raced' = (raced \/ Behind)
    /\ UNCHANGED <<base, gen>>

Unlock(p) == [f \in DOMAIN lock |-> IF lock[f] = p THEN Nobody ELSE lock[f]]

-----------------------------------------------------------------------------
(* migrate.apply                                                           *)

Ends(m) ==
    /\ mig' = [mig EXCEPT ![m].at = "off"] /\ lock' = Unlock(m) /\ Closes(m)

\* A mistake: the two versions are not compared.
BugTrustsTheCatalog(m) ==
    /\ mig[m].at = "off" /\ m \notin open /\ ~Torn
    /\ Spend("migrate")
    /\ LET current == Version(catalog)
       IN  IF current > Knows[m]
           THEN UNCHANGED <<open, mig, stale>>
           ELSE /\ open' = open \union {m}
                /\ mig' = [mig EXCEPT ![m] =
                             [at |-> "script", current |-> current, number |-> current + 1]]
                /\ stale' = stale \ {<<m, f>> : f \in {"catalog", "state"}}
    /\ UNCHANGED <<catalog, stateFile, lock, up, restore, backups, history>>

\* Connects, makes sure of the version tables, reads both versions and
\* refuses a split schema and a database from newer code.
ReadVersions(m) ==
    /\ mig[m].at = "off" /\ m \notin open /\ ~Torn
    /\ Spend("migrate")
    /\ LET current == Version(catalog)
       IN  IF current # Version(Live.rows) \/ current > Knows[m]
           THEN UNCHANGED <<open, mig, stale>>
           ELSE /\ open' = open \union {m}
                /\ mig' = [mig EXCEPT ![m] =
                             [at |-> "script", current |-> current, number |-> current + 1]]
                /\ stale' = stale \ {<<m, f>> : f \in {"catalog", "state"}}
    /\ UNCHANGED <<catalog, stateFile, lock, up, restore, backups, history>>

\* One pending migration: the script and both INSERTs, uncommitted.  A lock
\* that is held, or a snapshot a commit has overtaken, refuses at once
\* (busy_timeout 0); a version already recorded breaks the primary key.
RunScript(m) ==
    /\ mig[m].at = "script" /\ mig[m].number <= Knows[m]
    /\ LET n == mig[m].number
           fails == \/ \E f \in {"catalog", "state"} : lock[f] # Nobody \/ <<m, f>> \in stale
                    \/ n \in catalog \/ n \in Live.rows
       IN  IF fails
           THEN Ends(m)
           ELSE /\ mig' = [mig EXCEPT ![m].at = "commit"]
                /\ lock' = [f \in DOMAIN lock |-> m]
                /\ UNCHANGED <<open, stateFile>>
    /\ UNCHANGED <<catalog, stale, up, restore, backups, left, history>>

\* conn.commit(): main's part of it, then the attached file's.
CommitMain(m) ==
    /\ mig[m].at = "commit"
    /\ catalog' = catalog \union {mig[m].number}
    /\ lock' = [lock EXCEPT !["catalog"] = Nobody]
    /\ stale' = stale \union {<<k, "catalog">> : k \in Migrator \ {m}}
    /\ mig' = [mig EXCEPT ![m].at = "attached"]
    /\ UNCHANGED <<stateFile, open, up, restore, backups, left, history>>

CommitAttached(m) ==
    /\ mig[m].at = "attached"
    /\ CommitState([Live EXCEPT !.rows = @ \union {mig[m].number}], m)
    /\ lock' = [lock EXCEPT !["state"] = Nobody]
    /\ mig' = [mig EXCEPT ![m].at = "next", ![m].number = @ + 1]
    /\ UNCHANGED <<catalog, open, up, restore, backups, left, made, cut>>

\* The loop's next migration opens a transaction of its own, and `current` is
\* not read again.
NextMigration(m) ==
    /\ mig[m].at = "next" /\ mig[m].number <= Knows[m]
    /\ mig' = [mig EXCEPT ![m].at = "script"]
    /\ stale' = stale \ {<<m, f>> : f \in {"catalog", "state"}}
    /\ UNCHANGED <<catalog, stateFile, open, lock, up, restore, backups, left, history>>

FinishMigrations(m) ==
    /\ mig[m].at \in {"script", "next"} /\ mig[m].number > Knows[m]
    /\ Ends(m)
    /\ UNCHANGED <<catalog, stale, up, restore, backups, left, history>>

KillMigrator(m) ==
    /\ mig[m].at # "off" /\ Spend("kill")
    /\ cut' = (cut \/ mig[m].at = "attached")
    /\ mig' = [mig EXCEPT ![m].at = "off"] /\ lock' = Unlock(m) /\ Drops(m)
    /\ UNCHANGED <<catalog, stale, up, restore, backups, made, raced>>

-----------------------------------------------------------------------------
(* The two ordinary writers.                                               *)

\* A pipeline step holds the catalog's write lock, commits and lets go.
PipelineBegins ==
    /\ lock["catalog"] = Nobody /\ Spend("commit")
    /\ lock' = [lock EXCEPT !["catalog"] = Pipeline]
    /\ UNCHANGED <<catalog, stateFile, open, mig, stale, up, restore, backups, history>>

PipelineCommits ==
    /\ lock["catalog"] = Pipeline
    /\ lock' = [lock EXCEPT !["catalog"] = Nobody]
    /\ stale' = stale \union {<<m, "catalog">> : m \in Migrator}
    /\ UNCHANGED <<catalog, stateFile, open, mig, up, restore, backups, left, history>>

ServerStarts ==
    /\ ~up /\ Spend("start") /\ up' = TRUE
    /\ UNCHANGED <<catalog, stateFile, open, lock, mig, stale, restore, backups, history>>

\* A triage request: a thread opens its write connection and commits.
Decide(d) ==
    /\ up /\ d \notin made /\ lock["state"] = Nobody /\ ~Torn
    /\ CommitState([Live EXCEPT !.holds = @ \union {d}], Server)
    /\ open' = open \union {Server} /\ made' = made \union {d}
    /\ UNCHANGED <<catalog, lock, mig, up, restore, backups, left, cut>>

\* The thread ends and its connection with it.
ThreadEnds ==
    /\ Server \in open /\ Closes(Server)
    /\ UNCHANGED <<catalog, lock, mig, stale, up, restore, backups, left, history>>

ServerStops ==
    /\ up /\ up' = FALSE
    /\ \/ Closes(Server) /\ left' = left
       \/ Drops(Server) /\ Spend("kill")
    /\ UNCHANGED <<catalog, lock, mig, stale, restore, backups, history>>

-----------------------------------------------------------------------------
(* backup_state.snapshot, as a rebuild runs it: VACUUM INTO from inside a  *)
(* read transaction; a run that is killed leaves part of a file.           *)

Whole(c) == [of |-> c, whole |-> TRUE]
Part(c) == [of |-> c, whole |-> FALSE]

Backup ==
    /\ ~Torn /\ Spend("backup")
    /\ backups' \in {backups \union {Whole(Live)}, backups \union {Part(Live)}}
    /\ UNCHANGED <<catalog, stateFile, open, lock, mig, stale, up, restore, history>>

-----------------------------------------------------------------------------
(* restore_state.restore                                                   *)

Goes(at) == restore' = [restore EXCEPT !.at = at]
Refused == restore' = Idle

\* The port is silent and the snapshot opens and holds its tables.
BeginRestore ==
    /\ restore.at = "off" /\ ~up
    /\ \E s \in backups : s.whole /\ restore' = [Idle EXCEPT !.at = "probe", !.of = s.of]
    /\ Spend("restore")
    /\ UNCHANGED <<catalog, stateFile, open, lock, mig, stale, up, backups, history>>

\* _refuse_if_locked: BEGIN EXCLUSIVE, ROLLBACK, close.  Opening and closing
\* alone folds in a -wal a killed process left.
ProbeLock ==
    /\ restore.at = "probe"
    /\ IF lock["state"] # Nobody THEN Refused ELSE Goes("before")
    /\ IF open = {} /\ wal # {} /\ ~Torn
       THEN base' = Live /\ wal' = {}
       ELSE UNCHANGED <<base, wal>>
    /\ UNCHANGED <<catalog, gen, open, lock, mig, stale, up, backups, left, history>>

\* _safety_snapshot: backup_state in a process of its own.  It refuses when a
\* snapshot of this second is there.
VacuumBefore ==
    /\ restore.at = "before" /\ ~Torn
    /\ \/ restore' = [restore EXCEPT !.at = "verify", !.safety = Live]
       \/ backups # {} /\ Refused
    /\ UNCHANGED <<catalog, stateFile, open, lock, mig, stale, up, backups, left, history>>

\* Counts that differ remove the snapshot again.
SameCounts(a, b) ==
    Cardinality(a.rows) = Cardinality(b.rows) /\ Cardinality(a.holds) = Cardinality(b.holds)

VerifyBefore ==
    /\ restore.at = "verify" /\ ~Torn
    /\ IF SameCounts(Live, restore.safety)
       THEN /\ backups' = backups \union {Whole(restore.safety)}
            /\ restore' = [restore EXCEPT !.at = "fold", !.safety = Blank]
       ELSE Refused /\ backups' = backups
    /\ UNCHANGED <<catalog, stateFile, open, lock, mig, stale, up, left, history>>

\* A mistake: the log is left to the unlinks at the end.
BugFoldsNothing ==
    /\ restore.at = "fold" /\ Goes("copy")
    /\ UNCHANGED <<catalog, stateFile, open, lock, mig, stale, up, backups, left, history>>

\* PRAGMA wal_checkpoint(TRUNCATE): a writer inside makes it copy what it can
\* and answer busy, in a row nobody reads.
FoldWal ==
    /\ restore.at = "fold" /\ Goes("copy")
    /\ raced' = (raced \/ lock["state"] # Nobody)
    /\ IF Torn
       THEN UNCHANGED <<base, wal>>
       ELSE base' = Live /\ wal' = IF lock["state"] = Nobody THEN {} ELSE wal
    /\ UNCHANGED <<catalog, gen, open, lock, mig, stale, up, backups, left, made, cut>>

\* Beside the target: nothing reads state.sqlite3.incoming.
CopyIncoming ==
    /\ restore.at = "copy" /\ Goes("replace")
    /\ UNCHANGED <<catalog, stateFile, open, lock, mig, stale, up, backups, left, history>>

ReplaceState ==
    /\ restore.at = "replace"
    /\ IF open = {}
       THEN base' = restore.of /\ gen' = gen + 1 /\ Goes("unlink")
       ELSE Refused /\ UNCHANGED <<base, gen>>
    /\ cut' = (cut \/ (open = {} /\ restore.of.rows # catalog))
    /\ UNCHANGED <<catalog, wal, open, lock, mig, stale, up, backups, left, made, raced>>

UnlinkWal ==
    /\ restore.at = "unlink" /\ Refused
    /\ wal' = IF open = {} THEN {} ELSE wal
    /\ UNCHANGED <<catalog, base, gen, open, lock, mig, stale, up, backups, left, history>>

\* Killed: a snapshot being written may be left in part, or whole and unread.
KillRestore ==
    /\ restore.at # "off" /\ Spend("kill") /\ Refused
    /\ backups' \in {backups} \union
         IF restore.at = "verify"
         THEN {backups \union {Whole(restore.safety)}, backups \union {Part(restore.safety)}}
         ELSE {}
    /\ UNCHANGED <<catalog, stateFile, open, lock, mig, stale, up, history>>

-----------------------------------------------------------------------------
MigratorStep(m) ==
    \/ ReadVersions(m) \/ RunScript(m) \/ CommitMain(m) \/ CommitAttached(m)
    \/ NextMigration(m) \/ FinishMigrations(m) \/ KillMigrator(m)

RestoreStep ==
    \/ BeginRestore \/ ProbeLock \/ VacuumBefore \/ VerifyBefore \/ FoldWal
    \/ CopyIncoming \/ ReplaceState \/ UnlinkWal \/ KillRestore

Next ==
    \/ \E m \in Migrator : MigratorStep(m)
    \/ PipelineBegins \/ PipelineCommits
    \/ ServerStarts \/ ServerStops \/ ThreadEnds \/ \E d \in Decision : Decide(d)
    \/ Backup
    \/ RestoreStep

Spec == Init /\ [][Next]_vars

-----------------------------------------------------------------------------
\* A split schema comes from a cut, from a writer the restore overran or is on
\* its way: no other interleaving of migrators, writers, restores and kills
\* leaves the versions apart.
SplitIsExplained ==
    \/ cut \/ raced \/ Version(catalog) = Version(Live.rows)
    \/ \E m \in Migrator : mig[m].at = "attached"

\* A migration is applied in order, once and only to a pair that agrees, however
\* many migrators run and whatever was killed or restored between their reading
\* the versions and the commit.
NeverOntoASplit ==
    [][catalog' # catalog =>
         /\ \E n \in 1..Latest : catalog = 1..(n - 1) /\ catalog' = 1..n
         /\ Live.rows = catalog]_vars

\* restore_state.py: "so a restore is itself undoable".
Undoable ==
    (~raced /\ ~Torn) =>
        made \subseteq Live.holds \union UNION {s.of.holds : s \in {b \in backups : b.whole}}

\* state.sqlite3 is never read through the -wal of the file it replaced, and
\* never holds a decision nobody made.
LiveIsWhole == ~raced => ~Torn /\ Live.holds \subseteq made

\* A restore that nobody wrote behind loses no decision and tears no file, in
\* whatever step it is killed (restore_state.py:190).
RestoreIsSafe == Undoable /\ LiveIsWhole

\* The two files part in the ways named only, and nothing is built on them while
\* they are apart (migrate.py:85).
SplitsAreContained == []SplitIsExplained /\ NeverOntoASplit
=============================================================================
