------------------------------ MODULE RunLock ------------------------------
(***************************************************************************)
(* archive/pipeline/promote.py and phase2a.py: the lock file that keeps    *)
(* two runs apart.  It is created with O_EXCL, the pid is written after    *)
(* it, and a file that is already there is judged by asking whether the    *)
(* pid in it is alive.  Each system call of __enter__ and __exit__ is an   *)
(* action, on Windows terms: a file cannot be unlinked while its creator's *)
(* handle is open.  The two programs' locks differ in the probe alone.     *)
(***************************************************************************)
EXTENDS Naturals, FiniteSets

CONSTANTS
  Procs,     \* the processes, each named by its pid
  NoPid,     \* no pid
  MaxKills   \* bounds how many processes are killed

ASSUME LockAssumption ==
  /\ NoPid \notin Procs
  /\ MaxKills \in Nat

VARIABLES
  overlap, \* whether two runs may be started at the same moment
  signals, \* whether _alive is promote's os.kill(pid, 0) or phase2a's handle
  exists,  \* whether the lock file exists
  owner,   \* the process that created it
  pid,     \* the pid written in it, NoPid while it is empty
  handle,  \* whether the creator's handle is open
  seen,    \* the pid each contender read
  pc,      \* where each process is
  kills    \* how many were killed

world == <<overlap, signals>>
file == <<exists, owner, pid, handle>>
lockVars == <<world, file, seen, pc, kills>>

Entering == {"writing", "reading", "probing", "clearing", "recreating"}
States == Entering \cup {"idle", "holding", "leaving", "dead"}

TypeOK ==
  /\ overlap \in BOOLEAN
  /\ signals \in BOOLEAN
  /\ exists \in BOOLEAN
  /\ owner \in Procs \cup {NoPid}
  /\ pid \in Procs \cup {NoPid}
  /\ handle \in BOOLEAN
  /\ seen \in [Procs -> Procs \cup {NoPid}]
  /\ pc \in [Procs -> States]
  /\ kills \in 0 .. MaxKills

LockInit ==
  /\ overlap \in BOOLEAN
  /\ signals \in BOOLEAN
  /\ exists = FALSE /\ owner = NoPid /\ pid = NoPid /\ handle = FALSE
  /\ seen = [p \in Procs |-> NoPid]
  /\ pc = [p \in Procs |-> "idle"]
  /\ kills = 0

At(p, s) == pc[p] = s
Goto(p, s) == pc' = [pc EXCEPT ![p] = s]

Created(p) ==
  /\ exists' = TRUE /\ owner' = p /\ pid' = NoPid /\ handle' = TRUE
Removed ==
  /\ exists' = FALSE /\ owner' = NoPid /\ pid' = NoPid /\ handle' = FALSE

\* A run begins; unless they overlap, only when no other is inside __enter__.
Begins(p) ==
  /\ At(p, "idle")
  /\ overlap \/ \A q \in Procs : pc[q] \notin Entering

Create(p) ==
  /\ Begins(p)
  /\ ~exists
  /\ Created(p)
  /\ Goto(p, "writing")
  /\ UNCHANGED <<seen, kills>>

FileExists(p) ==
  /\ Begins(p)
  /\ exists
  /\ Goto(p, "reading")
  /\ UNCHANGED <<file, seen, kills>>

\* read_text: an empty file reads as no pid, a missing one kills the run.
Read(p) ==
  /\ At(p, "reading")
  /\ seen' = [seen EXCEPT ![p] = pid]
  /\ Goto(p, IF exists THEN "probing" ELSE "idle")
  /\ UNCHANGED <<file, kills>>

Alive(q) == q # NoPid /\ pc[q] \notin {"idle", "dead"}

\* Bug: any file that exists is trusted, as a lock without a pid would be.
BugNeverStale(p) == FALSE

\* Bug: the probe only looks for the file and takes it over.
BugAlwaysStale(p) ==
  /\ At(p, "probing")
  /\ Goto(p, "clearing")
  /\ UNCHANGED <<file, seen, kills>>

\* The pid answers: this run is refused.
Answers(p) ==
  /\ At(p, "probing")
  /\ Alive(seen[p])
  /\ Goto(p, "idle")
  /\ UNCHANGED <<file, seen, kills>>

NotAlive(p) ==
  /\ At(p, "probing")
  /\ ~Alive(seen[p]) \/ signals
  /\ Goto(p, "clearing")
  /\ UNCHANGED <<file, seen, kills>>

\* os.kill(pid, 0) is a Ctrl-C on Windows: the run it asks about is stopped.
Interrupts(p) ==
  /\ signals
  /\ At(p, "probing")
  /\ seen[p] # NoPid
  /\ At(seen[p], "holding")
  /\ pc' = [pc EXCEPT ![p] = "idle", ![seen[p]] = "leaving"]
  /\ UNCHANGED <<file, seen, kills>>

\* unlink(missing_ok): Windows refuses it while the creator's handle is open.
Clear(p) ==
  /\ At(p, "clearing")
  /\ IF handle THEN Goto(p, "idle") /\ UNCHANGED file
             ELSE Goto(p, "recreating") /\ Removed
  /\ UNCHANGED <<seen, kills>>

Recreate(p) ==
  /\ At(p, "recreating")
  /\ IF exists THEN Goto(p, "idle") /\ UNCHANGED file
               ELSE Goto(p, "writing") /\ Created(p)
  /\ UNCHANGED <<seen, kills>>

WritePid(p) ==
  /\ At(p, "writing")
  /\ pid' = p
  /\ handle' = FALSE
  /\ Goto(p, "holding")
  /\ UNCHANGED <<exists, owner, seen, kills>>

\* __exit__ unlinks whatever is there.
Exit(p) ==
  /\ pc[p] \in {"holding", "leaving"}
  /\ IF handle THEN UNCHANGED file ELSE Removed
  /\ Goto(p, "idle")
  /\ UNCHANGED <<seen, kills>>

\* A killed process leaves the file, empty if it died before the write.
Kill(p) ==
  /\ pc[p] \notin {"idle", "dead"}
  /\ kills < MaxKills
  /\ kills' = kills + 1
  /\ Goto(p, "dead")
  /\ handle' = (handle /\ ~At(p, "writing"))
  /\ UNCHANGED <<world, exists, owner, pid, seen>>

Starts(p) ==
  /\ Create(p) \/ FileExists(p)
  /\ UNCHANGED world

Steps(p) ==
  /\ \/ Read(p) \/ Answers(p) \/ NotAlive(p) \/ Interrupts(p)
     \/ Clear(p) \/ Recreate(p) \/ WritePid(p) \/ Exit(p)
  /\ UNCHANGED world

LockNext == \E p \in Procs : Starts(p) \/ Steps(p) \/ Kill(p)

LockSpec == LockInit /\ [][LockNext]_lockVars

(***************************************************************************)
(* A started run takes its next step and ends, and somebody runs it again  *)
(* while the lock is free or abandoned.                                    *)
(***************************************************************************)
Fairness ==
  /\ \A p \in Procs : WF_lockVars(Steps(p))
  /\ WF_lockVars(\E p \in Procs : Starts(p))

FairSpec == LockSpec /\ Fairness

-----------------------------------------------------------------------------
Holders == {p \in Procs : pc[p] \in {"holding", "leaving"}}

\* The lock is only asked to keep apart runs that are started one by one,
\* and only a probe that sends no signal can do it on Windows.
Orderly == ~overlap /\ ~signals

(***************************************************************************)
(* Runs of phase2a that are not started at the same moment never hold the  *)
(* lock together, whatever was killed before (phase2a.py, "One process,    *)
(* one lock file").                                                        *)
(***************************************************************************)
MutualExclusion == Orderly => \A p, q \in Holders : p = q

(***************************************************************************)
(* The holder's own pid is in the file for as long as it holds it, so that *)
(* every later contender is refused and __exit__ removes its own lock.     *)
(***************************************************************************)
HolderIsNamed == Orderly => \A p \in Holders : exists /\ owner = p /\ pid = p

(***************************************************************************)
(* A lock whose creator was killed, before or after it wrote its pid, is   *)
(* cleared by a later run and never wedges the pipeline, whichever program *)
(* it is and however the runs are started.                                 *)
(***************************************************************************)
Abandoned == exists /\ \E p \in Procs : owner = p /\ At(p, "dead")
AbandonedLockIsCleared == Abandoned ~> ~Abandoned

(***************************************************************************)
(* The inductive invariant: one contender at a time, which learnt the pid  *)
(* of whoever holds the lock and found nobody once it clears the file.     *)
(***************************************************************************)
Apart ==
  /\ \A p, q \in Procs : pc[p] \in Entering /\ pc[q] \in Entering => p = q
  /\ \A p \in Procs :
       /\ p \in Holders => exists /\ owner = p /\ pid = p
       /\ At(p, "writing") => exists /\ owner = p
       /\ At(p, "probing") => \A h \in Holders : seen[p] = h
       /\ pc[p] \in {"clearing", "recreating", "writing"} => Holders = {}
       /\ At(p, "recreating") => ~exists

LockInv == TypeOK /\ (Orderly => Apart)
=============================================================================
