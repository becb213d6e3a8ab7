---------------------------- MODULE MCDatabases ----------------------------
EXTENDS Databases, TLC
CONSTANTS m1, m2
\* Both checkouts hold two migrations.
Checkouts == (m1 :> 2) @@ (m2 :> 2)
None == [migrate |-> 0, restore |-> 0, backup |-> 0, kill |-> 0, commit |-> 0, start |-> 0]
Worlds ==
  { [None EXCEPT !.migrate = 3, !.kill = 1, !.commit = 1, !.start = 1],
    [None EXCEPT !.migrate = 1, !.kill = 1, !.backup = 1, !.restore = 1, !.start = 2] }
=============================================================================
