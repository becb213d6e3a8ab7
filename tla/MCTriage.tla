------------------------------ MODULE MCTriage ------------------------------
EXTENDS Triage

\* Four paths of three contents: the second and the third are one file under
\* two names, in two directories and with two extensions.
Contents == <<"photo", "icon", "icon", "other">>
Dirs == <<"camera", "camera", "cache", "cache">>
Exts == <<"jpg", "svg", "jpg", "jpg">>

All == {"unknown", "small"}
Predicates ==
    {[kind |-> "dir", dirs |-> {"cache"}, exts |-> {}, sizes |-> {}],
     [kind |-> "bucket", dirs |-> {}, exts |-> {"jpg"}, sizes |-> All],
     [kind |-> "bucket", dirs |-> {}, exts |-> {"jpg", "svg"}, sizes |-> {"small"}]}

World(writes, n, measured, surveyed) ==
    [writes |-> writes, edits |-> n, measured |-> measured, surveyed |-> surveyed]
SmallWorlds ==
    {World({"add", "move", "delete"}, 3, {"icon"}, TRUE),
     World({"add", "override"}, 3, {"icon"}, TRUE),
     World({"add", "override", "probe", "survey"}, 3, {}, FALSE),
     World({"add", "move", "delete", "sheet"}, 2, {"icon"}, TRUE),
     World({"add", "probe", "survey", "sheet"}, 3, {}, TRUE)}
=============================================================================
