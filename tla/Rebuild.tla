------------------------------ MODULE Rebuild ------------------------------
(***************************************************************************)
(* Applying triage to the grid: the decisions in state.sqlite3             *)
(* (triage_api.py), the job of the website (rebuild.py) and the programs   *)
(* it spawns, the snapshot and group.py, which can also be run from a      *)
(* console.  The kept set is read before the transaction that replaces the *)
(* tiles begins, and decisions land at any moment.                         *)
(* A photo stands for its sha256, and its number for its place among them. *)
(***************************************************************************)
EXTENDS Naturals, FiniteSets

CONSTANTS
  Photos, \* the published photographs
  Budgets \* bounds: how many decisions, runs, faults and views one behaviour has

ASSUME RebuildAssumption ==
  /\ Photos # {} /\ Photos \subseteq Nat /\ IsFiniteSet(Photos)
  /\ Budgets \subseteq [{"decision", "run", "fault", "view"} -> Nat]

VARIABLES
  excluded, \* triage_override: the photographs excluded by hand
  tiles,    \* photo: the photographs the grid shows
  restore,  \* the newest snapshot of the decisions
  state,    \* the job's state, as status() reports it
  thread,   \* where each thread of _work is
  group,    \* where each group process is
  kept,     \* the kept set each group process read
  budget,   \* what is left of the behaviour's budget
  touched,  \* history: the photographs decided since the last start
  overtaken,\* history: a console run had read its kept set by the last start
  unheard   \* history: whose tiles came after the memos were last dropped

Threads == {"first", "second"}
Groups == Threads \cup {"console"}
outside == <<excluded, budget, touched>>
job == <<state, thread, restore, overtaken>>
tables == <<tiles, unheard>>
processes == <<group, kept>>
rebuildVars == <<outside, job, tables, processes>>

RebuildTypeOK ==
  /\ excluded \in SUBSET Photos /\ restore \in SUBSET Photos /\ touched \in SUBSET Photos
  /\ tiles \in (SUBSET Photos) \ {{}}
  /\ state \in {"idle", "running", "done", "failed"}
  /\ thread \in [Threads -> {"none", "snapshot", "tiles", "after", "landing"}]
  /\ group \in [Groups -> {"none", "reading", "writing", "reporting", "ended", "died"}]
  /\ kept \in [Groups -> SUBSET Photos]
  /\ budget \in [{"decision", "run", "fault", "view"} -> Nat]
  /\ overtaken \in BOOLEAN
  /\ unheard \in SUBSET {"job", "console"}

RebuildInit ==
  /\ excluded = {} /\ restore = {} /\ touched = {}
  /\ tiles = Photos
  /\ state = "idle"
  /\ thread = [w \in Threads |-> "none"]
  /\ group = [g \in Groups |-> "none"]
  /\ kept = [g \in Groups |-> {}]
  /\ budget \in Budgets
  /\ overtaken = FALSE
  /\ unheard = {}

Spend(k) == budget[k] > 0 /\ budget' = [budget EXCEPT ![k] = @ - 1]
ToThread(w, at) == thread' = [thread EXCEPT ![w] = at]
ToGroup(g, at) == group' = [group EXCEPT ![g] = at]

-----------------------------------------------------------------------------
(* triage_api.py: set_override, one statement that commits itself.         *)

Decide(f) ==
  /\ Spend("decision")
  /\ \/ f \notin excluded /\ excluded' = excluded \cup {f}
     \/ f \in excluded /\ excluded' = excluded \ {f}
  /\ touched' = touched \cup {f}
  /\ UNCHANGED <<job, tables, processes>>

-----------------------------------------------------------------------------
(* group.py: rebuild and the exit of its process.                          *)

\* load_kept.  An empty kept set is refused, before anything is written.
Load(g) ==
  /\ group[g] = "reading"
  /\ LET found == Photos \ excluded IN
     IF found = {}
     THEN ToGroup(g, "died") /\ UNCHANGED kept
     ELSE ToGroup(g, "writing") /\ kept' = [kept EXCEPT ![g] = found]
  /\ UNCHANGED <<outside, job, tables>>

\* BEGIN, the tables replaced, COMMIT.
Owner(g) == IF g = "console" THEN "console" ELSE "job"
Commit(g) ==
  /\ group[g] = "writing"
  /\ tiles' = kept[g]
  /\ unheard' = unheard \cup {Owner(g)}
  /\ kept' = [kept EXCEPT ![g] = {}]
  /\ ToGroup(g, "reporting")
  /\ UNCHANGED <<outside, job>>

\* The report is printed and the process exits with 0.
Exit(g) ==
  /\ group[g] = "reporting"
  /\ ToGroup(g, "ended")
  /\ UNCHANGED <<outside, job, tables, kept>>

\* It ends otherwise: killed, a catalog that stays locked, a full disk.
Die(g) ==
  /\ Spend("fault")
  /\ group[g] \in {"reading", "writing", "reporting"}
  /\ kept' = [kept EXCEPT ![g] = {}]
  /\ ToGroup(g, "died")
  /\ UNCHANGED <<excluded, touched, job, tables>>

\* A run from a console, or one a killed server left behind.
OpenConsole ==
  /\ Spend("run")
  /\ group["console"] = "none"
  /\ ToGroup("console", "reading")
  /\ UNCHANGED <<excluded, touched, job, tables, kept>>
CloseConsole ==
  /\ group["console"] \in {"ended", "died"}
  /\ ToGroup("console", "none")
  /\ UNCHANGED <<outside, job, tables, kept>>

-----------------------------------------------------------------------------
(* rebuild.py: Rebuild.                                                    *)

\* start, accepted: the state is tested and set under the lock.
Startable == state # "running"
Start(w) ==
  /\ Spend("run")
  /\ Startable
  /\ thread[w] = "none" /\ (w = "second" => thread["first"] # "none")
  /\ state' = "running"
  /\ ToThread(w, "snapshot")
  /\ touched' = {}
  /\ overtaken' = (group["console"] = "writing")
  /\ UNCHANGED <<excluded, restore, tables, processes>>

\* start, refused: this server does not serve the configured databases.
StartRefused ==
  /\ Spend("fault")
  /\ Startable
  /\ state' = "failed"
  /\ UNCHANGED <<excluded, touched, thread, restore, overtaken, tables, processes>>

\* _work, the first step: backup_state writes a copy, and the next one starts.
BugTilesFirst(w) ==
  /\ thread[w] = "snapshot"
  /\ ToThread(w, "tiles")
  /\ ToGroup(w, "reading")
  /\ UNCHANGED <<outside, state, restore, overtaken, tables, kept>>
Snapshot(w) ==
  /\ thread[w] = "snapshot"
  /\ restore' = excluded
  /\ ToThread(w, "tiles")
  /\ ToGroup(w, "reading")
  /\ UNCHANGED <<outside, state, overtaken, tables, kept>>

\* _finish: a step that cannot be started or does not exit with 0.
SnapshotFails(w) ==
  /\ Spend("fault")
  /\ thread[w] = "snapshot"
  /\ state' = "failed"
  /\ ToThread(w, "none")
  /\ UNCHANGED <<excluded, touched, restore, overtaken, tables, processes>>
TilesFail(w) ==
  /\ thread[w] = "tiles" /\ group[w] = "died"
  /\ state' = "failed"
  /\ ToThread(w, "none")
  /\ ToGroup(w, "none")
  /\ UNCHANGED <<outside, restore, overtaken, tables, kept>>

TilesDone(w) ==
  /\ thread[w] = "tiles" /\ group[w] = "ended"
  /\ ToThread(w, "after")
  /\ ToGroup(w, "none")
  /\ UNCHANGED <<outside, state, restore, overtaken, tables, kept>>

\* after, the server's invalidate, and only then the state.
After(w) ==
  /\ thread[w] = "after"
  /\ unheard' = {}
  /\ ToThread(w, "landing")
  /\ UNCHANGED <<outside, state, restore, overtaken, tiles, processes>>
Land(w) ==
  /\ thread[w] = "landing"
  /\ state' = "done"
  /\ ToThread(w, "none")
  /\ UNCHANGED <<outside, restore, overtaken, tables, processes>>

\* The server ends, and what it spawned with it, and is started again.
Restart ==
  /\ Spend("fault")
  /\ state' = "idle"
  /\ thread' = [w \in Threads |-> "none"]
  /\ group' = [g \in Groups |-> IF g \in Threads THEN "none" ELSE group[g]]
  /\ kept' = [g \in Groups |-> IF g \in Threads THEN {} ELSE kept[g]]
  /\ unheard' = {}
  /\ UNCHANGED <<excluded, touched, restore, overtaken, tiles>>

\* What leaves the memos of the server alone.
RebuildStep ==
  \/ \E f \in Photos : Decide(f)
  \/ \E g \in Groups : Load(g) \/ Commit(g) \/ Exit(g) \/ Die(g)
  \/ OpenConsole \/ CloseConsole
  \/ StartRefused
  \/ \E w \in Threads : \/ Start(w) \/ Snapshot(w) \/ SnapshotFails(w)
                        \/ TilesFail(w) \/ TilesDone(w) \/ Land(w)

RebuildNext == RebuildStep \/ Restart \/ \E w \in Threads : After(w)

-----------------------------------------------------------------------------
(* Properties.                                                             *)

Working(w) == thread[w] # "none"

\* Rebuild: "single-flight by construction".  One thread works at most, the
\* state says running exactly while it does, and no group process of the job
\* outlives its step, through refusals, failures and restarts.
SingleFlight ==
  /\ state = "running" <=> \E w \in Threads : Working(w)
  /\ \A v, w \in Threads : Working(v) /\ Working(w) => v = w
  /\ \A w \in Threads : group[w] # "none" => thread[w] = "tiles"

\* The button says that the grid shows what the decisions describe: every
\* decision made before the start of a run that is done is in the tiles, and
\* one made later is in them or not.  A console run that had read its kept set
\* before that start may still overwrite them.
DecisionsAreShown ==
  state = "done" /\ ~overtaken =>
    \A f \in Photos \ touched : f \in tiles <=> f \notin excluded

\* The snapshot goes first: once a run has come to the tiles, whatever becomes
\* of it, the restore point holds every decision made before its start.
RestorePointIsOurs ==
  (\E w \in Threads : thread[w] \in {"tiles", "after", "landing"}) \/ state = "done" =>
    \A f \in Photos \ touched : f \in restore <=> f \in excluded

\* Whatever is clicked, dies or is restarted, there is one run, and it took its
\* restore point before it came to the tiles (rebuild.py:198).
OneRunInOrder == SingleFlight /\ RestorePointIsOurs
=============================================================================
