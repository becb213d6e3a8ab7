------------------------------- MODULE Triage -------------------------------
(***************************************************************************)
(* photolib/triage.py, triage_api.py, triage_screens.py and               *)
(* archive/pipeline/triage_survey.py: the ordered rules and their edits,   *)
(* the survey that folds paths into buckets, the verdict as the SQL        *)
(* computes it (the lower of two positions), the counts printed while a    *)
(* rule is typed, the overrides, and the contact sheet read a page at a    *)
(* time while the rules move.                                              *)
(*                                                                         *)
(* A predicate is the set of directories or of buckets it covers; what its *)
(* text says, and its SQL, are left out.  Every write is one immediate     *)
(* transaction, so a handler is one step; every read is one statement over *)
(* the rules it has loaded.                                                *)
(***************************************************************************)
EXTENDS Naturals, Sequences, FiniteSets, SequencesExt, FiniteSetsExt

CONSTANTS
    Path,           \* origin rows in path order, 1..n
    ContentOf,      \* the sha256 of each
    DirOf, ExtOf,   \* the directory and the extension of each
    Predicate,      \* what rules are made of: [kind, dirs, exts, sizes]
    PageLimit,      \* rows of a page
    MaxRules,       \* bound: rules in the table
    Worlds          \* bounds: the writes a behaviour has, how many, and its first sizes

Content == {ContentOf[p] : p \in Path}
Bucket == [dir : {DirOf[p] : p \in Path}, ext : {ExtOf[p] : p \in Path}, size : {"unknown", "small"}]
Decision == {"include", "exclude"}
Candidate == [pred : Predicate, dec : Decision]

\* Larger than any position.
NO_MATCH == 1073741824

ASSUME TriageAssumption ==
    /\ Path \subseteq Nat \ {0} /\ IsFiniteSet(Path)
    /\ DOMAIN ContentOf = Path /\ DOMAIN DirOf = Path /\ DOMAIN ExtOf = Path
    /\ \A q \in Predicate : q.kind \in {"dir", "bucket"}
    /\ PageLimit \in Nat \ {0} /\ MaxRules \in Nat /\ MaxRules < NO_MATCH
    /\ \A w \in Worlds : w.edits \in Nat

VARIABLES
    table,      \* triage_rule: id -> its seq, predicate and decision
    override,   \* triage_override
    size,       \* file: what is known of each content's dimensions
    survey,     \* triage_path: the bucket of each path when the survey was built
    sheet,      \* a contact sheet some client scrolls through
    world, edits

vars == <<table, override, size, survey, sheet, world, edits>>

Surveyed == [p \in Path |-> [dir |-> DirOf[p], ext |-> ExtOf[p], size |-> size[ContentOf[p]]]]
Closed == [at |-> "closed", cand |-> {}, cursor |-> 0, shown |-> <<>>, steady |-> {}]
Init ==
    /\ world \in Worlds /\ edits = world.edits
    /\ table = << >> /\ override = [c \in Content |-> "none"]
    /\ size = [c \in Content |-> IF c \in world.measured THEN "small" ELSE "unknown"]
    /\ survey = (IF world.surveyed THEN Surveyed ELSE << >>)
    /\ sheet = Closed

-----------------------------------------------------------------------------
(* The verdict of a rule list, as the generated SQL computes it. *)

LeastOf(S) == IF S = {} THEN NO_MATCH ELSE CHOOSE x \in S : \A y \in S : x <= y

Takes(pred, b) == IF pred.kind = "dir" THEN b.dir \in pred.dirs
                  ELSE b.ext \in pred.exts /\ b.size \in pred.sizes

DirPosition(rules, b) == LeastOf({i \in DOMAIN rules : rules[i].pred.kind = "dir" /\ Takes(rules[i].pred, b)})
CasePosition(rules, b) == LeastOf({i \in DOMAIN rules : rules[i].pred.kind = "bucket" /\ Takes(rules[i].pred, b)})

\* A mistake: a directory rule decides whenever there is one.
BugDirectoryFirst(rules, b) ==
    IF DirPosition(rules, b) # NO_MATCH THEN DirPosition(rules, b) ELSE CasePosition(rules, b)
Winner(rules, b) ==
    IF DirPosition(rules, b) <= CasePosition(rules, b) THEN DirPosition(rules, b) ELSE CasePosition(rules, b)

Kept(rules, b) == Winner(rules, b) \notin {i \in DOMAIN rules : rules[i].dec = "exclude"}

-----------------------------------------------------------------------------
(* The rule table: evaluation order is (seq, id), and every write renumbers. *)

Ordered(S, Before(_, _)) ==
    [n \in 1..Cardinality(S) |-> CHOOSE x \in S : Cardinality({y \in S : Before(y, x)}) = n - 1]
Precedes(i, j) == table[i].seq < table[j].seq \/ (table[i].seq = table[j].seq /\ i < j)
RuleIds == Ordered(DOMAIN table, Precedes)
IdsWithout(id) == Ordered(DOMAIN table \ {id}, Precedes)
RulesOf(ids, tbl) == [i \in DOMAIN ids |-> [pred |-> tbl[ids[i]].pred, dec |-> tbl[ids[i]].dec]]
Rules == RulesOf(RuleIds, table)

Renumbered(ids, tbl) == [id \in DOMAIN tbl |-> [tbl[id] EXCEPT !.seq = CHOOSE i \in DOMAIN ids : ids[i] = id]]

\* SQLite gives the next rowid after the largest one there is.
NextId == IF DOMAIN table = {} THEN 1 ELSE Max(DOMAIN table) + 1

PageOf(tbl_rules, buckets, cand) ==
    {p \in DOMAIN buckets : Kept(tbl_rules, buckets[p]) /\ \A c \in cand : Takes(c.pred, buckets[p])}

\* History: the paths the open sheet has covered ever since it was opened.
Covered == sheet' = [sheet EXCEPT !.steady = @ \cap PageOf(Rules', survey', sheet.cand)]
Edit(write) == write \in world.writes /\ edits > 0 /\ edits' = edits - 1 /\ UNCHANGED world

\* The table with one row more.
WithRow(c, at) == [id \in DOMAIN table \union {NextId} |->
                      IF id = NextId THEN [seq |-> at, pred |-> c.pred, dec |-> c.dec] ELSE table[id]]

\* A mistake: a rule is stored at its position and the others keep their numbers.
BugAddsWithoutRenumber(c, at) ==
    /\ Cardinality(DOMAIN table) < MaxRules /\ at \in 1..(Len(RuleIds) + 1)
    /\ table' = WithRow(c, at)
    /\ Edit("add") /\ UNCHANGED <<override, size, survey>> /\ Covered
AddRule(c, at) ==
    /\ Cardinality(DOMAIN table) < MaxRules /\ at \in 1..(Len(RuleIds) + 1)
    /\ table' = Renumbered(InsertAt(RuleIds, at, NextId), WithRow(c, at))
    /\ Edit("add") /\ UNCHANGED <<override, size, survey>> /\ Covered

DeleteRule(id) ==
    /\ id \in DOMAIN table
    /\ table' = Renumbered(IdsWithout(id), [i \in DOMAIN table \ {id} |-> table[i]])
    /\ Edit("delete") /\ UNCHANGED <<override, size, survey>> /\ Covered

MoveRule(id, at) ==
    /\ id \in DOMAIN table /\ at \in DOMAIN RuleIds
    /\ table' = Renumbered(InsertAt(IdsWithout(id), at, id), table)
    /\ Edit("move") /\ UNCHANGED <<override, size, survey>> /\ Covered

SetOverride(c, decision) ==
    /\ override[c] # decision /\ override' = [override EXCEPT ![c] = decision]
    /\ Edit("override") /\ UNCHANGED <<table, size, survey, sheet>>

-----------------------------------------------------------------------------
(* The survey, and the probe that measures what a later survey sees. *)

BuildSurvey ==
    /\ survey' = Surveyed /\ survey' # survey
    /\ Edit("survey") /\ UNCHANGED <<table, override, size>> /\ Covered

Probe(c) ==
    /\ size[c] = "unknown" /\ size' = [size EXCEPT ![c] = "small"]
    /\ Edit("probe")
    /\ UNCHANGED <<table, override, survey, sheet>>

-----------------------------------------------------------------------------
(* The counts, of the rules and of a candidate among them. *)

\* triage_bucket: how many paths each bucket folds.
Fold(b) == Cardinality({p \in DOMAIN survey : survey[p] = b})
Folded == {survey[p] : p \in DOMAIN survey}

\* The overrides as a correction of the rules' verdict, a path at a time.
Correction(rules) ==
    LET moved(decision, kept) == {p \in DOMAIN survey : /\ override[ContentOf[p]] = decision
                                                        /\ Kept(rules, survey[p]) = kept}
    IN [plus |-> Cardinality(moved("include", FALSE)), minus |-> Cardinality(moved("exclude", TRUE))]

KeptPaths(rules) ==
    MapThenSumSet(Fold, {b \in Folded : Kept(rules, b)})
        + Correction(rules).plus - Correction(rules).minus

CandidateKeeps(rules, c, at, b) ==
    IF Takes(c.pred, b) /\ Winner(rules, b) >= at THEN c.dec = "include" ELSE Kept(rules, b)

CandidateKept(rules, c, at) ==
    MapThenSumSet(Fold, {b \in Folded : CandidateKeeps(rules, c, at, b)})
        + Correction(rules).plus - Correction(rules).minus

-----------------------------------------------------------------------------
(* The contact sheet, a keyset page at a time. *)

OpenSheet(cand) ==
    /\ sheet.at = "closed" /\ "sheet" \in world.writes
    /\ sheet' = [Closed EXCEPT !.at = "open", !.cand = cand, !.steady = PageOf(Rules, survey, cand)]
    /\ UNCHANGED <<table, override, size, survey, world, edits>>

Sorted(S) == Ordered(S, <)

\* A mistake: the cursor is taken from the row that only tells there is more.
BugCursorBeyondThePage(rows) == rows[Len(rows)]
CursorOf(rows) == rows[PageLimit]

ReadPage ==
    LET left == {p \in PageOf(Rules, survey, sheet.cand) : p > sheet.cursor}
        sorted == Sorted(left)
        rows == SubSeq(sorted, 1, PageLimit + 1)
        more == Len(sorted) > PageLimit
    IN /\ sheet.at = "open"
       /\ sheet' = [sheet EXCEPT !.shown = @ \o (IF more THEN SubSeq(sorted, 1, PageLimit) ELSE sorted),
                                 !.cursor = IF more THEN CursorOf(rows) ELSE @,
                                 !.at = IF more THEN "open" ELSE "read"]
       /\ UNCHANGED <<table, override, size, survey, world, edits>>

CloseSheet ==
    /\ sheet.at = "read" /\ sheet' = Closed
    /\ UNCHANGED <<table, override, size, survey, world, edits>>

-----------------------------------------------------------------------------
Next ==
    \/ \E c \in Candidate, at \in 1..(MaxRules + 1) : AddRule(c, at)
    \/ \E id \in DOMAIN table : DeleteRule(id) \/ \E at \in 1..MaxRules : MoveRule(id, at)
    \/ \E c \in Content : Probe(c) \/ \E d \in Decision \union {"none"} : SetOverride(c, d)
    \/ BuildSurvey \/ ReadPage \/ CloseSheet
    \/ \E cand \in {{}} \union {{c} : c \in {x \in Candidate : x.dec = "exclude"}} : OpenSheet(cand)

Spec == Init /\ [][Next]_vars

-----------------------------------------------------------------------------
\* The reference: read the rules from the top and stop at the first that takes it.
FirstMatchKeeps(rules, b) ==
    LET from[i \in 1..(Len(rules) + 1)] ==
            IF i > Len(rules) THEN TRUE
            ELSE IF Takes(rules[i].pred, b) THEN rules[i].dec = "include" ELSE from[i + 1]
    IN from[1]

\* What is printed is what the rules say of each path: the two positions, the
\* fold into buckets and the overrides as a correction give the number of paths
\* the first matching rule or the override keeps (triage.py:367, 388, 463).
CountsAreOfThePaths ==
    KeptPaths(Rules) =
        Cardinality({p \in DOMAIN survey :
            IF override[ContentOf[p]] # "none" THEN override[ContentOf[p]] = "include"
            ELSE FirstMatchKeeps(Rules, survey[p])})

\* A rule added where it was previewed moves exactly what the preview said it
\* would, when no override speaks of a path it covers (triage.py:592).
PreviewIsWhatAddingDoes ==
    [][LET rule == table'[NextId]
       IN (/\ NextId \in DOMAIN table'
           /\ \A p \in DOMAIN survey : Takes(rule.pred, survey[p]) => override[ContentOf[p]] = "none")
             => KeptPaths(Rules)' = CandidateKept(Rules, [pred |-> rule.pred, dec |-> rule.dec], rule.seq)]_vars

\* A sheet scrolled to its end has shown, once and in order, every path it
\* covered all the while, whatever was edited between its pages
\* (triage_screens.py:20, 410).
SheetShowsTheSteady ==
    /\ \A i, j \in DOMAIN sheet.shown : i < j => sheet.shown[i] < sheet.shown[j]
    /\ sheet.at = "read" => sheet.steady \subseteq {sheet.shown[i] : i \in DOMAIN sheet.shown}

TypeOK ==
    /\ DOMAIN table \subseteq Nat \ {0} /\ Cardinality(DOMAIN table) <= MaxRules
    /\ \A id \in DOMAIN table : /\ table[id].pred \in Predicate /\ table[id].dec \in Decision
                                /\ table[id].seq \in 1..Cardinality(DOMAIN table)
    /\ DOMAIN survey \subseteq Path /\ \A p \in DOMAIN survey : survey[p] \in Bucket
    /\ sheet.at \in {"closed", "open", "read"} /\ sheet.cursor \in Nat /\ edits \in Nat
=============================================================================
