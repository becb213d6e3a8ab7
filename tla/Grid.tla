-------------------------------- MODULE Grid --------------------------------
(***************************************************************************)
(* grid.py: the memos of GridServer and the threads that fill and read     *)
(* them while Rebuild replaces the tiles they were computed from.  A memo  *)
(* is known by the tiles it was computed from; no kept set is empty, so    *)
(* {} is no memo.                                                          *)
(***************************************************************************)
EXTENDS Rebuild

CONSTANT Requests \* the threads of the server that answer the sheet

ASSUME GridAssumption == "free" \notin Requests

VARIABLES
  memo,   \* _totals and _assignments, for one view
  lock,   \* _totals_lock: free, or the request that fills a memo
  at,     \* where each request is: idle, at a memo, or at its page
  view,   \* whether it asked for tiles or for stacks
  got     \* what each request has in hand of each memo

Memos == {"totals", "assignments"}
Views == {"tiles", "stacks"}
gridVars == <<memo, lock, at, view, got>>

GridTypeOK ==
  /\ memo \in [Memos -> SUBSET Photos]
  /\ lock \in Requests \cup {"free"}
  /\ at \in [Requests -> {"idle", "page"} \cup Memos]
  /\ view \in [Requests -> Views]
  /\ got \in [Requests -> [Memos -> SUBSET Photos]]

NoMemos == [m \in Memos |-> {}]
GridInit ==
  /\ memo = NoMemos
  /\ lock = "free"
  /\ at = [r \in Requests |-> "idle"]
  /\ view = [r \in Requests |-> "tiles"]
  /\ got = [r \in Requests |-> NoMemos]

\* _photos asks for the total and, when it stacks, the assignment.
Following(m, v) ==
  IF m = "totals" /\ v = "stacks" THEN "assignments" ELSE "page"
ToRequest(r, where) == at' = [at EXCEPT ![r] = where]

Ask(r, v) ==
  /\ at[r] = "idle"
  /\ ToRequest(r, "totals")
  /\ view' = [view EXCEPT ![r] = v]
  /\ UNCHANGED <<memo, lock, got>>

\* total, assignment: a memo that is there is handed out, and one that
\* is not is read from the tiles while the lock is held.
Take(r, m) ==
  /\ at[r] = m /\ lock = "free"
  /\ memo[m] # {}
  /\ got' = [got EXCEPT ![r][m] = memo[m]]
  /\ ToRequest(r, Following(m, view[r]))
  /\ UNCHANGED <<memo, lock, view>>
Read(r, m) ==
  /\ at[r] = m /\ lock = "free"
  /\ memo[m] = {}
  /\ got' = [got EXCEPT ![r][m] = tiles]
  /\ lock' = r
  /\ UNCHANGED <<memo, at, view>>
Fill(r, m) ==
  /\ at[r] = m /\ lock = r
  /\ memo' = [memo EXCEPT ![m] = got[r][m]]
  /\ lock' = "free"
  /\ ToRequest(r, Following(m, view[r]))
  /\ UNCHANGED <<view, got>>

\* A count or an assignment of another view takes the place of this one's.
Evict(m) ==
  /\ Spend("fault")
  /\ lock = "free" /\ memo[m] # {}
  /\ memo' = [memo EXCEPT ![m] = {}]
  /\ UNCHANGED <<excluded, touched, job, tables, processes, lock, at, view, got>>

\* The page is read, or its reading fails, and the thread is free again.
EndRequest(r) ==
  /\ at[r] = "page"
  /\ ToRequest(r, "idle")
  /\ got' = [got EXCEPT ![r] = NoMemos]
  /\ view' = [view EXCEPT ![r] = "tiles"]
  /\ UNCHANGED <<memo, lock>>

\* invalidate, which the job calls between the new tiles and done.
BugKeepsAssignments ==
  /\ lock = "free"
  /\ memo' = [NoMemos EXCEPT !["assignments"] = memo["assignments"]]
  /\ UNCHANGED <<lock, at, view, got>>
Invalidate ==
  /\ lock = "free"
  /\ memo' = NoMemos
  /\ UNCHANGED <<lock, at, view, got>>

\* A server that starts again has no memo and no request.
Forget ==
  /\ memo' = NoMemos
  /\ lock' = "free"
  /\ at' = [r \in Requests |-> "idle"]
  /\ got' = [r \in Requests |-> NoMemos]
  /\ view' = [r \in Requests |-> "tiles"]

\* What the sheet's questions leave to the server.
GridStep ==
  \/ RebuildStep /\ UNCHANGED gridVars
  \/ (\E w \in Threads : After(w)) /\ Invalidate
  \/ (\E r \in Requests, m \in Memos : Take(r, m) \/ Read(r, m) \/ Fill(r, m)) /\ UNCHANGED rebuildVars
  \/ \E m \in Memos : Evict(m)
GridNext ==
  \/ GridStep
  \/ Restart /\ Forget
  \/ (\E r \in Requests : EndRequest(r) \/ \E v \in Views : Ask(r, v)) /\ UNCHANGED rebuildVars
GridSpec == RebuildInit /\ GridInit /\ [][GridNext]_<<rebuildVars, gridVars>>

-----------------------------------------------------------------------------
(* Properties.                                                             *)

FreshMemos == \A m \in Memos : memo[m] \in {{}, tiles}

\* The callback runs before the state says done: a client that refetches when
\* it sees done gets no number of the tiles before, although a request may have
\* been filling a memo from them at any moment, unless a console run, which
\* tells the server nothing, came after.
DoneMeansFresh == state = "done" /\ "console" \notin unheard => FreshMemos

\* While nobody's tiles came since the memos were dropped, each memo and the one
\* being filled are of the tiles there are.
HeardMemosAreFresh ==
  unheard = {} =>
    /\ FreshMemos
    /\ \A r \in Requests : lock = r => at[r] \in Memos /\ got[r][at[r]] = tiles

\* A run that says done shows what it was asked to show: every decision of its
\* own snapshot in the groups it committed (rebuild.py:242), and no number of the
\* tiles before it in the memos.
DoneIsShown == DecisionsAreShown /\ DoneMeansFresh
=============================================================================
