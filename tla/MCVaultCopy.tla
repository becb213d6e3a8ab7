---------------------------- MODULE MCVaultCopy ----------------------------
(***************************************************************************)
(* An inbox of two photographs, which may be the same, and a sidecar of    *)
(* the first: one world per way the intake of a batch may go.              *)
(***************************************************************************)
EXTENDS VaultCopy, TLC

CONSTANTS w1, w2

MCSidecarOf == <<0, 0, 1>>

NoBudget == [all |-> 0, reuse |-> 0, decide |-> 0, preflight |-> 0, approve |-> 0, execute |-> 0, pause |-> 0,
             resume |-> 0, cancel |-> 0, edit |-> 0, unread |-> 0, fail |-> 0, slip |-> 0, kill |-> 0, wake |-> 0,
             patient |-> FALSE]
Once == [NoBudget EXCEPT !.all = 1, !.preflight = 1, !.approve = 1, !.execute = 1]
\* Two rounds, each request after the work before it is done.
Twice == [NoBudget EXCEPT !.all = 2, !.preflight = 2, !.approve = 2, !.execute = 2, !.patient = TRUE]

World(files, up, left) == [files |-> files, foreign |-> <<>>, up |-> up, budget |-> left]
One == <<"a", None, None>>
Two == <<"a", "b", None>>
Twins == <<"a", "a", None>>
WithSidecar == <<"a", None, "b">>

\* Files are edited, and copying them slips, wherever it may.
Edited == World(Twins, {w1}, [Once EXCEPT !.edit = 2, !.slip = 1])
\* Decisions are made while it is scanned, approved and copied.
Sidecar == World(WithSidecar, {w1}, [Once EXCEPT !.decide = 2, !.preflight = 2, !.edit = 1])
\* It is paused, resumed and cancelled.
Paused == World(Two, {w1}, [Once EXCEPT !.pause = 2, !.resume = 2, !.cancel = 1, !.decide = 1])
\* It is scanned again while it is paused, and edited.
Rescanned == World(Two, {w1}, [Once EXCEPT !.all = 2, !.pause = 1, !.resume = 1, !.edit = 1])
Reused == World(Twins, {w1}, [Once EXCEPT !.reuse = 1, !.pause = 1, !.resume = 1, !.unread = 1])
\* A newer approval comes before, while and after the copy is claimed.
Newer == World(Two, {w1, w2}, [Once EXCEPT !.approve = 2, !.execute = 2, !.cancel = 1])
\* A second round after an edit; over a foreign object; and over failures.
Again == World(Twins, {w1}, [Twice EXCEPT !.edit = 1])
Foreign == [World(Twins, {w1}, [Once EXCEPT !.approve = 2, !.execute = 2]) EXCEPT !.foreign = <<"a", None>> :> "b"]
Failing == World(Two, {w1}, [Twice EXCEPT !.fail = 1, !.cancel = 1])
\* The file compared with an object is gone, and the copy is interrupted and taken up again.
Gone == World(Twins, {w1}, [Once EXCEPT !.reuse = 1, !.pause = 1, !.resume = 1, !.edit = 1, !.fail = 1, !.patient = TRUE])
\* Two rescans fail before they match, one before the approval and one before its copy.
Unmatched == World(One, {w1}, [Once EXCEPT !.all = 3, !.pause = 1, !.resume = 1, !.edit = 1, !.fail = 2, !.patient = TRUE])
\* A worker dies, and another is there or is started.
Killed == World(One, {w1, w2}, [Twice EXCEPT !.kill = 1])
Restarted == World(Twins, {w1}, [Twice EXCEPT !.kill = 1, !.wake = 1, !.pause = 1])
MCWorlds == {Edited, Sidecar, Paused, Rescanned, Reused, Newer, Again, Foreign, Failing, Gone, Unmatched, Killed,
             Restarted}
=============================================================================
