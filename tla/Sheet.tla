------------------------------- MODULE Sheet -------------------------------
(***************************************************************************)
(* The contact sheet of the website, sheet.js, reading page after page of  *)
(* one view from grid.py (page) and browse.py (its order and its cursor)   *)
(* while decisions land, the tiles are rebuilt and the memos dropped.  The *)
(* view is left for another one with answers still to come.                *)
(***************************************************************************)
EXTENDS Grid, Sequences, FiniteSetsExt

CONSTANTS
  Time,    \* sort_key: when each photograph was taken
  StackOf, \* stack_member: the name of each photograph's stack
  Limit    \* the length of a page

ASSUME SheetAssumption ==
  /\ Time \in [Photos -> Nat]
  /\ StackOf \in [Photos -> Photos]
  /\ Limit \in Nat \ {0}

VARIABLES
  looking,   \* the view on screen
  items,     \* the rows it holds, each with its name and its photographs
  cursor,    \* the envelope's next, or <<>> for none
  exhausted, \* whether next was null
  total,     \* how many rows the whole view has, or 0 while unknown
  inflight,  \* whether a page is being read
  mine,      \* whether each request is of the sheet's generation
  from,      \* the cursor each request was given
  calm       \* history: the tiles are those of the last reset, and were heard

sheetVars == <<looking, items, cursor, exhausted, total, inflight, mine, from, calm>>
scrollVars == <<rebuildVars, gridVars, sheetVars>>

\* The rebuild numbers the tiles in the order of their sha256.
Id(S, p) == Cardinality({q \in S : q <= p})
Photo(S, id) == CHOOSE p \in S : Id(S, p) = id

\* A place in the order: ORDER BY sort_key DESC, id DESC.
Place(S, p) == <<Time[p], Id(S, p)>>
Beyond(c, d) == c[1] < d[1] \/ (c[1] = d[1] /\ c[2] < d[2])
Sets == SUBSET Photos
Listing(S, P) ==
  CHOOSE s \in [1 .. Cardinality(P) -> P] :
    \A i, j \in 1 .. Cardinality(P) : i < j => Beyond(Place(S, s[j]), Place(S, s[i]))

\* build_assignment: every stack of S where its first member is, as the ids of
\* its members.
Members(S, p) == {q \in S : StackOf[q] = StackOf[p]}
Firsts(S) == {p \in S : \A q \in Members(S, p) : ~Beyond(Place(S, p), Place(S, q))}
StackRow(S, p) == [name |-> StackOf[p], place |-> Place(S, p), ids |-> {Id(S, q) : q \in Members(S, p)}]
TileRow(S, p) == [name |-> p, place |-> Place(S, p), ids |-> {Id(S, p)}]
Rows == [tiles |-> [S \in Sets |-> LET list == Listing(S, S)
                                   IN  [i \in 1 .. Cardinality(S) |-> TileRow(S, list[i])]],
         stacks |-> [S \in Sets |-> LET list == Listing(S, Firsts(S))
                                    IN  [i \in 1 .. Cardinality(Firsts(S)) |-> StackRow(S, list[i])]]]

\* A page: from the first row that lies beyond the cursor, and the next cursor.
Passed(rows, c) ==
  IF c = <<>> THEN 0
  ELSE Min({k \in 0 .. Len(rows) : k = Len(rows) \/ Beyond(rows[k + 1].place, c)})
HasMore(rows, c) == Passed(rows, c) + Limit < Len(rows)
Slice(rows, c) == SubSeq(rows, Passed(rows, c) + 1, Min({Passed(rows, c) + Limit, Len(rows)}))
NextCursor(rows, c) == IF HasMore(rows, c) THEN rows[Passed(rows, c) + Limit].place ELSE <<>>

\* _plain_page reads its rows from the tiles; _assigned slices the assignment
\* and looks the ids up in the tiles.
Drawable(slice, S) == \A i \in DOMAIN slice : slice[i].ids \subseteq 1 .. Cardinality(S)
Drawn(slice, S) ==
  [i \in DOMAIN slice |-> [name |-> slice[i].name, photos |-> {Photo(S, id) : id \in slice[i].ids}]]

-----------------------------------------------------------------------------
(* The sheet.                                                              *)

FreeRequest == CHOOSE r \in Requests : at[r] = "idle"

\* loadNext, readPages: one page at a time, until the explicit end.
Send(v, c) ==
  /\ \E r \in Requests : at[r] = "idle"
  /\ Ask(FreeRequest, v)
  /\ inflight' = TRUE
  /\ mine' = [r \in Requests |-> r = FreeRequest]
  /\ from' = [from EXCEPT ![FreeRequest] = c]
LoadNext ==
  /\ ~inflight /\ ~exhausted
  /\ Send(looking, cursor)
  /\ UNCHANGED <<rebuildVars, looking, items, cursor, exhausted, total, calm>>

\* finally: a read of an earlier generation leaves the flag alone.
Forgotten(r) ==
  /\ inflight' = (inflight /\ ~mine[r])
  /\ mine' = [mine EXCEPT ![r] = FALSE]
  /\ from' = [from EXCEPT ![r] = <<>>]

\* The page is read and answered.  The sheet takes the answer when it is of its
\* generation, and drops it otherwise.
Source(r) == IF view[r] = "stacks" THEN got[r]["assignments"] ELSE tiles
BugAnyAnswer(r) == TRUE
Wanted(r) == mine[r]
Answer(r) ==
  LET rows == Rows[view[r]][Source(r)]
      slice == Slice(rows, from[r])
  IN  /\ EndRequest(r)
      /\ Drawable(slice, tiles)
      /\ Forgotten(r)
      /\ IF Wanted(r)
         THEN /\ items' = items \o Drawn(slice, tiles)
              /\ cursor' = NextCursor(rows, from[r])
              /\ exhausted' = ~HasMore(rows, from[r])
              /\ total' = IF view[r] = "stacks" THEN Len(rows) ELSE Cardinality(got[r]["totals"])
         ELSE UNCHANGED <<items, cursor, exhausted, total>>
      /\ UNCHANGED <<rebuildVars, looking, calm>>

\* An id the tiles no longer have: _by_id lacks it, the request dies and the
\* sheet is told of an error.
Lost(r) ==
  /\ EndRequest(r)
  /\ ~Drawable(Slice(Rows[view[r]][Source(r)], from[r]), tiles)
  /\ Forgotten(r)
  /\ UNCHANGED <<rebuildVars, looking, items, cursor, exhausted, total, calm>>

\* reset: another view, or the same one come back to, and its first page.
Anew(v) ==
  /\ Spend("view")
  /\ looking' = v
  /\ items' = <<>> /\ cursor' = <<>> /\ exhausted' = FALSE /\ total' = 0
  /\ calm' = (unheard = {})
  /\ UNCHANGED <<excluded, touched, job, tables, processes>>
BugKeepsInflight(v) ==
  /\ Anew(v)
  /\ IF inflight
     THEN mine' = [r \in Requests |-> FALSE] /\ UNCHANGED <<gridVars, inflight, from>>
     ELSE Send(v, <<>>)
Reset(v) == Anew(v) /\ Send(v, <<>>)

ScrollInit ==
  /\ RebuildInit /\ GridInit
  /\ looking \in Views
  /\ items = <<>> /\ cursor = <<>> /\ exhausted = FALSE /\ total = 0 /\ inflight = FALSE
  /\ mine = [r \in Requests |-> FALSE]
  /\ from = [r \in Requests |-> <<>>]
  /\ calm = TRUE

Aside ==
  /\ calm' = (calm /\ tiles' = tiles)
  /\ UNCHANGED <<looking, items, cursor, exhausted, total, inflight, mine, from>>
Server == GridStep /\ Aside
ServerRestarts ==
  /\ Restart /\ Forget
  /\ inflight' = FALSE
  /\ mine' = [r \in Requests |-> FALSE]
  /\ from' = [r \in Requests |-> <<>>]
  /\ UNCHANGED <<looking, items, cursor, exhausted, total, calm>>

ScrollNext ==
  \/ Server
  \/ ServerRestarts
  \/ LoadNext
  \/ \E r \in Requests : Answer(r) \/ Lost(r)
  \/ \E v \in Views : Reset(v)
ScrollSpec == ScrollInit /\ [][ScrollNext]_scrollVars

\* The thread of the job and the programs it spawned go on, no request waits
\* for anything but the lock, and the reader scrolls on.
Job(w) ==
  \/ (Snapshot(w) \/ TilesFail(w) \/ TilesDone(w) \/ Land(w) \/ Load(w) \/ Commit(w) \/ Exit(w)) /\ UNCHANGED gridVars
  \/ After(w) /\ Invalidate
Memoing(r) == (\E m \in Memos : Take(r, m) \/ Read(r, m) \/ Fill(r, m)) /\ UNCHANGED rebuildVars
Ends(r) == at[r] = "page" /\ ToRequest(r, "idle") \* what Answer and Lost have in common
Fairness ==
  /\ \A w \in Threads : WF_scrollVars(Job(w) /\ Aside)
  /\ \A r \in Requests : WF_scrollVars(Memoing(r) /\ Aside) /\ WF_at(Ends(r))
  /\ WF_scrollVars(LoadNext)
FairSpec == ScrollSpec /\ Fairness

-----------------------------------------------------------------------------
(* Properties.                                                             *)

\* While the tiles stay, the rows on screen are the first rows of the view, in
\* its order, each once and with its own photographs, until the end, and their
\* number is the one the scroll bar was reserved for: whatever answers of
\* another view land late, and however the memos were filled or dropped.
SheetIsTheView ==
  calm =>
    LET all == Drawn(Rows[looking][tiles], tiles) IN
    /\ items = SubSeq(all, 1, Len(items))
    /\ exhausted => items = all
    /\ items # <<>> => total = Len(all)

\* A run that was started is done or has failed in the end.
RunsEnd == state = "running" ~> state # "running"

\* A sheet whose tiles stay comes to its end when the reader scrolls on.
SheetEnds == <>[]calm => <>[]exhausted

\* A reader who stays sees the end of both: of the run it waits for and of the
\* sheet it scrolls (rebuild.py:251, sheet.ts:85).
WaitingEnds == RunsEnd /\ SheetEnds
=============================================================================
