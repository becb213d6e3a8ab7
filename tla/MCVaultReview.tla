--------------------------- MODULE MCVaultReview ---------------------------
(***************************************************************************)
(* The review desk over three assets, one the raw image another turns out  *)
(* to be the companion of, with batches of one: one world per part of it.  *)
(***************************************************************************)
EXTENDS VaultDesk

CONSTANTS ann, bob, w1, w2

MCRawOf == <<1, 3, 3>>
MCScene == [default |-> {{1, 2, 3}}, fine |-> {{1}, {2, 3}}]
MCQuality == <<1, 2, 2>>
MCDoubt == <<2, 1, 0>>
MCQuery == {"kept", "favourites"}

\* Nothing runs, nobody asks, nothing fails.
Quiet == [up |-> {}, made |-> {"catalog", "stacks", "junk"}, verified |-> {1, 2}, at |-> {ann},
          ask |-> 0, menu |-> {}, lost |-> 0, get |-> 0, gets |-> {}, kill |-> 0, fail |-> 0, import |-> 0]

\* Two clients decide, with an answer lost, while no worker is up; and one changes its mind.
Desk == [Quiet EXCEPT !.at = {ann, bob}, !.ask = 2, !.lost = 1,
                      !.menu = {"favour", "bulk", "rest", "cover", "undo"}]
Undo == [Quiet EXCEPT !.ask = 3, !.lost = 1, !.menu = {"favour", "bulk", "rest", "undo"}]
\* Favourites are set while a junk profile is made, killed and tried again, or calibrated.
Junk == [Quiet EXCEPT !.up = {w1}, !.made = {"catalog", "stacks"}, !.ask = 2, !.get = 1, !.gets = {"junk"},
                      !.menu = {"favour", "unfavour"}, !.kill = 1]
Calibrate == [Quiet EXCEPT !.up = {w1}, !.ask = 3, !.menu = {"favour", "feedback", "junk"}, !.fail = 1]
\* A view is asked for, read and overtaken.
Views == [Quiet EXCEPT !.up = {w1}, !.ask = 1, !.get = 1, !.gets = {"view"}, !.menu = {"favour", "reject", "catalog"},
                       !.fail = 1]
\* The catalog moves on under the stacks.
Moves == [Quiet EXCEPT !.up = {w1, w2}, !.made = {"catalog", "stacks"}, !.ask = 2, !.get = 1, !.gets = {"stacks"},
                       !.menu = {"catalog", "stacks"}, !.kill = 1]
Covers == [Quiet EXCEPT !.up = {w1}, !.at = {ann, bob}, !.made = {"catalog", "stacks"}, !.ask = 2,
                        !.menu = {"catalog", "cover", "rest"}, !.import = 1]
\* A new vault is filled in the background: asked for twice, paused and resumed,
\* with a worker killed beside another and an import, and over failures.
Filling == [Quiet EXCEPT !.up = {w1}, !.made = {"backfill"}]
Asked2 == [Filling EXCEPT !.made = {}, !.ask = 2, !.menu = {"start", "restart", "pause"}]
Paused2 == [Filling EXCEPT !.ask = 2, !.menu = {"pause", "resume"}]
Killed == [Filling EXCEPT !.up = {w1, w2}, !.kill = 1, !.import = 1]
Failed == [Filling EXCEPT !.fail = 2]
Asking == [Filling EXCEPT !.made = {}, !.get = 2, !.gets = {"catalog", "organization"}, !.ask = 1,
                          !.menu = {"organization", "catalog"}, !.fail = 1]
MCWorlds == {Desk, Undo, Junk, Calibrate, Views, Moves, Covers, Asked2, Paused2, Killed, Failed, Asking}
=============================================================================
