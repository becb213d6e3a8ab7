------------------------------ MODULE Origins ------------------------------
(***************************************************************************)
(* archive/pipeline/origins.py: origins.jsonl, the file behind which the   *)
(* photos root is deleted.  It maps every hash on record to all its paths, *)
(* a line for each hash, in order, and is only ever appended to.  Exports  *)
(* run beside phase c and adoption and are killed at any byte.             *)
(*                                                                         *)
(* A line is its pairs of hash and path; dates and sizes are left out, as  *)
(* is the first export's temporary name, which nothing reads.  The catalog *)
(* is read in one transaction, and one export runs at a time.              *)
(***************************************************************************)
EXTENDS Inventory

VARIABLES
    map,        \* origins.jsonl: its whole lines, a last one with no newline, its end
    exported    \* history: what was on record at the last export that ended well

NoLine == {}
originsVars == <<inventoryVars, map, exported>>

OriginsInit ==
    /\ InventoryInit
    /\ map = [there |-> FALSE, lines |-> {}, tail |-> NoLine, end |-> "line"]
    /\ exported = {}

-----------------------------------------------------------------------------
Line(sha) == {<<sha, p>> : p \in {q \in DOMAIN origin : origin[q].sha = sha}}
OnRecord == UNION {Line(origin[p].sha) : p \in DOMAIN origin}

\* existing_digests: nothing when a line does not parse.
Readable == IF map.end = "cut" THEN {} ELSE (UNION map.lines) \union map.tail
Found(sha) == {pair \in Readable : pair[1] = sha}

\* records: hashes of `file` and of `origin` in one order, up to the first that
\* is in one table only, at which the export dies.
Shas == {origin[p].sha : p \in DOMAIN origin}
Unmatched == (rows \ Shas) \union (Shas \ rows)
Ready == {h \in rows \intersect Shas : \A m \in Unmatched : h < m}

\* A mistake: a hash that has a line is not looked at again.
BugKnownHash == {h \in Ready : Found(h) = NoLine}
Owing == {h \in Ready : Found(h) # Line(h)}

First(S) == CHOOSE h \in S : \A g \in S : h <= g
Last(S) == CHOOSE h \in S : \A g \in S : h >= g

\* The first export is renamed into place when it is whole.
ExportFirst ==
    /\ ~map.there /\ Unmatched = {}
    /\ map' = [map EXCEPT !.there = TRUE, !.lines = {Line(h) : h \in Owing}]
    /\ exported' = OnRecord
    /\ UNCHANGED inventoryVars

\* A later one appends lines as they are found to be owed.  What follows a last
\* line without a newline is read as part of it, and then neither parses.
Append(written, end) ==
    LET joined == map.end = "open" /\ written # {}
        open == IF end = "open" THEN {Last(written)} ELSE {}
        bad == IF joined THEN {First(written)} ELSE {}
    IN  map' = [map EXCEPT
                  !.lines = @ \union {Line(h) : h \in written \ (open \union bad)},
                  !.tail = IF written = {} THEN @ ELSE UNION {Line(h) : h \in open \ bad},
                  !.end = IF joined THEN "cut" ELSE IF written = {} /\ end = "line" THEN @ ELSE end]

ExportMore ==
    /\ map.there /\ map.end # "cut"
    /\ Append(Owing, "line")
    /\ exported' = IF Unmatched = {} THEN OnRecord ELSE exported
    /\ UNCHANGED inventoryVars

\* Killed after some lines, before the newline of the last one, or within one.
ExportKilled ==
    /\ map.there /\ map.end # "cut" /\ Mishap("kill")
    /\ \E h \in Owing :
         \/ \E end \in {"line", "open"} : Append({g \in Owing : g <= h}, end)
         \/ Append({g \in Owing : g < h}, "cut")
    /\ UNCHANGED <<file, stored, work, catalog, run, history, exported>>

Exports == ExportFirst \/ ExportMore \/ ExportKilled
OriginsNext ==
    \/ InventoryNext /\ UNCHANGED <<map, exported>>
    \/ "export" \in world.does /\ Exports
OriginsSpec == OriginsInit /\ [][OriginsNext]_originsVars

-----------------------------------------------------------------------------
\* While every line parses, --verify finds no path under another hash and none
\* that is not on record, and misses none that was on record when an export last
\* ended, whatever phase c, adoption and kills did in between (origins.py:168).
MapMatches ==
    map.end # "cut" => Readable \subseteq OnRecord /\ exported \subseteq Readable
=============================================================================
