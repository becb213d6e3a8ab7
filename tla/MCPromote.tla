----------------------------- MODULE MCPromote -----------------------------
EXTENDS PromoteInv

\* Histories: the objects that lost their source name to a run which then set no
\* vault name read-only, the objects at which a run was killed between the log line
\* of a destruction and its finish, and whether nothing but kills and blocked deletes
\* ever stood in an object's way.
VARIABLES bare, relogged, calm

LeftBare(o) ==
  \/ PromoteUnsealed(o) \/ StageDrop(o)
  \/ Kill /\ cur = o /\ pc \in {"seal", "logdestroyed", "finishdestroyed"}
KilledAfterLogging(o) == Kill /\ At(o, "finishdestroyed")

\* A kill between a staged copy's rename or drop and its finish is no such kill.
\* Nor is a name that os.stat could not identify.
Misread(o) ==
  \/ PromoteCollides(o) /\ Classify(o) = "S1"
  \/ PromotePrecondition(o) /\ Baseline(o)
  \/ PromoteUnproven(o) /\ Linked(o)
  \/ PromoteUnsealed(o)
AfterStaging == pc \in {"droplog", "dropfinish", "sealname", "finishname"}
Disturbed ==
  \/ \E o \in Objects : Arrive(o) \/ Decide(o) \/ PromoteLinkFails(o) \/ Misread(o)
  \/ Kill /\ AfterStaging

HistoryInit ==
  /\ Init
  /\ bare = {} /\ relogged = {}
  /\ calm = (shared = {} /\ \A o \in Objects : ro[o] = {})
HistoryNext ==
  /\ Next
  /\ bare' = bare \cup {o \in Objects : LeftBare(o)}
  /\ relogged' = relogged \cup {o \in Objects : KilledAfterLogging(o)}
  /\ calm' = (calm /\ ~Disturbed)
historyVars == <<vars, bare, relogged, calm>>
HistorySpec == HistoryInit /\ [][HistoryNext]_historyVars /\ Fairness

\* What promote_verify finds wrong about an object that no run is working on is what
\* an interrupted step left, no more and no less, whatever was killed, resumed, repaired
\* and decided anew since.  Of a finished object the bytes, the link count and the empty
\* source are always right; its vault name is writable exactly when some run had taken
\* the source and sealed nothing (promote_verify.py:16); and the log disagrees
\* with the excluded set exactly for an object killed between its log line and its
\* finish, which a resume logs again (promote_verify.py:189, promote.py:895).
VerifyFindsTheInterrupted ==
  \A o \in Objects \ {cur} :
    /\ Reconciled(o) <=> o \notin relogged
    /\ ~Unfinished(o) => NoLeftover(o) /\ row[o].status = "done"
    /\ fstate[o] = "published" => Rehashed(o) /\ (ReadOnly(o) <=> o \notin bare)

\* Kills and blocked deletes alone keep no object from being published or
\* excluded in the end, staged or not, but for a kill that left a staged name
\* renamed or dropped and not finished (promote.py:1219, promote.py:813).
CalmObjectsSettle == []calm => EveryObjectSettles
=============================================================================
