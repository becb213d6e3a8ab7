---------------------------- MODULE MCInventory ----------------------------
EXTENDS Origins, TLC

\* Two files of one directory, one of another, one in none, and a directory and a
\* loose file that came after the backup.
Directory ==
    ("x/1" :> "x") @@ ("x/2" :> "x") @@ ("y/3" :> "y") @@ ("4" :> "") @@ ("new/5" :> "new") @@ ("6" :> "")
World(does, n, files, damaged, adopted) ==
    [does |-> does, mishaps |-> n, files |-> files, damaged |-> damaged, adopted |-> adopted]
SmallWorlds ==
    {World({"kill", "locked", "sly"}, 3, {"x/1", "x/2"}, {}, << >>),
     World({"kill", "grow", "rewrite", "replace"}, 2, {"x/1", "y/3"}, {}, << >>),
     World({"kill", "locked", "unlisted"}, 3, {"x/1", "x/2", "4"}, {"x/1", "4"}, << >>),
     World({"create", "delete", "kill"}, 2, {"x/1"}, {}, << >>),
     World({"adopt", "kill", "rewrite"}, 3, {"x/1", "x/2"}, {}, ("x/1" :> 0) @@ ("x/2" :> 7)),
     World({"adopt", "kill", "export"}, 3, {"x/1", "x/2"}, {}, "x/1" :> 0)}
=============================================================================
