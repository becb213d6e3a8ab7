------------------------------ MODULE Stacking ------------------------------
(***************************************************************************)
(* photolib: the four passes that decide which tiles are one stack.        *)
(*   embed   fingerprints.py   a vector for every photograph               *)
(*   screen  candidates.py     a verdict for every pair the fence admits   *)
(*   check   matches.py        a Match for every pair the screen let by    *)
(*   place   membership.py     a stack for every tile                      *)
(* Each reads its worklist once, commits it in batches and can be killed   *)
(* between two of them; the four may run at the same time, and the group   *)
(* rebuild replaces the tiles whenever it likes.  A frame is its place in  *)
(* the population's order (camera, time, sha256).                          *)
(***************************************************************************)
EXTENDS Naturals, FiniteSets

CONSTANTS
  N,         \* how many frames there are
  Camera,    \* the body that took each frame
  Secs,      \* when, in seconds
  Ceiling,   \* the longest gap inside a run
  Videos,    \* the frames that are videos
  Cosine,    \* for each pair, how alike the fingerprints are
  Screens,   \* the values the SCREEN constant is given
  Agree,     \* the pairs whose Match reaches the strictness
  Opening,   \* the tiles there may be at first
  MaxHoles,  \* bounds the photographs without a good derivative at first
  MaxUpsets  \* bounds the changes from outside

Frames == 1 .. N
Photos == Frames \ Videos
Pairs == {p \in Frames \X Frames : p[1] < p[2]}

ASSUME StackingAssumption ==
  /\ N \in Nat \ {0}
  /\ Ceiling \in Nat
  /\ Secs \in [Frames -> Nat]
  /\ Videos \subseteq Frames
  /\ Cosine \in [Pairs -> Nat]
  /\ Screens # {} /\ Screens \subseteq Nat
  /\ Agree \subseteq Pairs
  /\ Opening \subseteq SUBSET Frames
  /\ MaxHoles \in Nat /\ MaxUpsets \in Nat
  \* ORDER BY camera, time
  /\ \A p \in Pairs : Camera[p[1]] = Camera[p[2]] =>
       \A k \in p[1] .. p[2] : Camera[k] = Camera[p[1]] /\ Secs[k] \in Secs[p[1]] .. Secs[p[2]]

VARIABLES
  tiles,     \* the frames that are EXIF-dated tiles now
  substrate, \* the derivative each frame has: none, corrupt or good
  screen,    \* the SCREEN constant in the source
  vector,    \* fingerprint: the frames with a row
  pair,      \* candidate_pair: each pair's verdict, or none
  matched,   \* pair_match: the pairs with a row
  stack,     \* stack_member: each frame's stack, or 0
  todo,      \* what is left of each pass's worklist; empty, it is not running
  at,        \* the SCREEN constant the screening process was started with
  seen,      \* the Matches the placing process read
  upsets,    \* how often something changed from outside
  lapsed,    \* history: the tables that may hold rows of an earlier world
  late       \* history: the Matches no placing of their frames has read

Passes == {"embed", "screen", "check", "place"}
world == <<tiles, substrate, screen>>
rows == <<vector, pair, matched, stack>>
job == <<todo, at, seen>>
history == <<lapsed, late>>
vars == <<world, rows, job, upsets, history>>

Verdicts == {"survivor", "screened_out"}

TypeOK ==
  /\ tiles \in SUBSET Frames
  /\ substrate \in [Frames -> {"none", "corrupt", "good"}]
  /\ screen \in Screens /\ at \in Screens
  /\ vector \in SUBSET Photos
  /\ pair \in [Pairs -> Verdicts \cup {"none"}]
  /\ matched \in SUBSET Pairs /\ seen \in SUBSET Pairs
  /\ stack \in [Frames -> 0 .. N]
  /\ todo \in [Passes -> [Frames -> SUBSET Frames]]
  /\ upsets \in 0 .. MaxUpsets
  /\ lapsed \in SUBSET {"pairs", "matches", "stacks"}
  /\ late \in SUBSET Pairs

-----------------------------------------------------------------------------
(* The fence.                                                              *)

Near(x, y) == Camera[x] = Camera[y] /\ Secs[y] <= Secs[x] + Ceiling

\* Whether e and a later l are in one run of S: every cut between them is
\* bridged by two frames of S no further apart than the ceiling.
SameRun(S, e, l) ==
  \A c \in e .. (l - 1) : \E x, y \in S : x <= c /\ c < y /\ Near(x, y)

Run(S, f) == {g \in S : (f <= g /\ SameRun(S, f, g)) \/ (g < f /\ SameRun(S, g, f))}

\* The pairs a frame heads that the screen owes a verdict, and the pairs with
\* one; the survivors the check could match, and the pairs it did.
Owed(e) == {l \in tiles \cap vector : e \in tiles \cap vector /\ e < l /\ SameRun(tiles, e, l)}
Screened(e) == {l \in Frames : <<e, l>> \in Pairs /\ pair[<<e, l>>] # "none"}
OnDisk == {f \in Frames : substrate[f] # "none"}
Checkable(e) == {l \in OnDisk : e \in OnDisk /\ <<e, l>> \in Pairs /\ pair[<<e, l>>] = "survivor"}
Matched(e) == {l \in Frames : <<e, l>> \in matched}

\* The stored tally against what is owed: the resume test of both passes.
BugAnyRowIsDone(done, owed) == done = {} /\ owed # {}
Short(done, owed) == Cardinality(done) < Cardinality(owed)

-----------------------------------------------------------------------------
(* The linkage.                                                            *)

Majority(holding, f, points) ==
  LET agreed == {m \in holding : <<m, f>> \in points \cap Agree}
  IN  Cardinality(agreed) * 2 > Cardinality(holding)

Before(S, f) == CHOOSE m \in {x \in S : x < f} : \A x \in S : x < f => x <= m

\* s names the stack of each frame of run: a video its own, the first
\* photograph its own, and each later one the stack of the photograph before
\* it when it agrees with most of those the stack holds by then.
IsCut(run, points, s) ==
  \A f \in run :
    LET photos == run \cap Photos
        h == s[Before(photos, f)]
        holding == {m \in photos : m < f /\ s[m] = h}
    IN  s[f] = IF f \in photos /\ (\E m \in photos : m < f) /\ Majority(holding, f, points)
               THEN h ELSE f

-----------------------------------------------------------------------------
(* A pass: it is started with a worklist, its first frames under --limit,  *)
(* and works through it in order.  A unit is the frame that heads it.      *)

Nothing == [f \in Frames |-> {}]
Idle(p) == todo[p] = Nothing
Start(p, work, k) ==
  LET limited == [f \in Frames |-> IF f <= k THEN work[f] ELSE {}]
  IN  /\ Idle(p)
      /\ limited # Nothing
      /\ todo' = [todo EXCEPT ![p] = limited]
Done(p, k) == todo' = [todo EXCEPT ![p] = [f \in Frames |-> IF f <= k THEN {} ELSE todo[p][f]]]
Batch(p, k) == {f \in 1 .. k : todo[p][f] # {}}

\* fingerprints.py: every tile that is a photograph, has no vector and has a
\* derivative on disk.  One that does not decode gets no row.
StartEmbed(k) ==
  /\ Start("embed", [f \in Frames |-> IF f \in (tiles \cap Photos \cap OnDisk) \ vector THEN {f} ELSE {}], k)
  /\ UNCHANGED <<world, rows, at, seen, upsets, history>>
EmbedBatch(k) ==
  /\ Batch("embed", k) # {}
  /\ vector' = vector \cup {f \in Batch("embed", k) : substrate[f] = "good"}
  /\ Done("embed", k)
  /\ UNCHANGED <<world, pair, matched, stack, at, seen, upsets, history>>

\* candidates.py.  It refuses without a fingerprint, and over verdicts that
\* another SCREEN decided.
Verdict(p, t) == IF Cosine[p] >= t THEN "survivor" ELSE "screened_out"
Rethresholded == \E p \in Pairs : pair[p] # "none" /\ pair[p] # Verdict(p, screen)
ScreenWork(e) == IF Short(Screened(e), Owed(e)) THEN Owed(e) ELSE {}
StartScreen(k) ==
  /\ vector # {}
  /\ ~Rethresholded
  /\ Start("screen", [e \in Frames |-> ScreenWork(e)], k)
  /\ at' = screen
  /\ UNCHANGED <<world, rows, seen, upsets, history>>
ScreenBatch(k) ==
  /\ Batch("screen", k) # {}
  /\ pair' = [p \in Pairs |-> IF p[1] <= k /\ p[2] \in todo["screen"][p[1]] THEN Verdict(p, at) ELSE pair[p]]
  /\ Done("screen", k)
  /\ UNCHANGED <<world, vector, matched, stack, at, seen, upsets, history>>

\* matches.py.  It refuses without a candidate; a pair with a derivative that
\* does not decode gets no row.
CheckWork(e) == IF Short(Matched(e), Checkable(e)) THEN Checkable(e) ELSE {}
StartCheck(k) ==
  /\ \E p \in Pairs : pair[p] # "none"
  /\ Start("check", [e \in Frames |-> CheckWork(e)], k)
  /\ UNCHANGED <<world, rows, at, seen, upsets, history>>
CheckChunk(k) ==
  LET agreed == {p \in Pairs : /\ p[1] <= k /\ p[2] \in todo["check"][p[1]]
                               /\ substrate[p[1]] = "good" /\ substrate[p[2]] = "good"}
  IN  /\ Batch("check", k) # {}
      /\ matched' = matched \cup agreed
      /\ late' = late \cup (agreed \ matched)
      /\ Done("check", k)
      /\ UNCHANGED <<world, vector, pair, stack, at, seen, upsets, lapsed>>

\* membership.py.  It refuses without a Match; a run is placed whole, in a
\* transaction of its own, when any frame of it has no stack.
BugPlacesTheRest(f) ==
  IF f \in tiles /\ (\A g \in Run(tiles, f) : f <= g) THEN {g \in Run(tiles, f) : stack[g] = 0} ELSE {}
PlaceWork(f) ==
  IF f \in tiles /\ (\A g \in Run(tiles, f) : f <= g) /\ (\E g \in Run(tiles, f) : stack[g] = 0)
  THEN Run(tiles, f) ELSE {}
StartPlace(k) ==
  /\ matched # {}
  /\ Start("place", [f \in Frames |-> PlaceWork(f)], k)
  /\ seen' = matched
  /\ UNCHANGED <<world, rows, at, upsets, history>>
PlaceRun(k) ==
  LET run == todo["place"][k]
  IN  /\ Batch("place", k) = {k}
      /\ \E s \in [run -> run] :
           /\ IsCut(run, seen, s)
           /\ stack' = [f \in Frames |-> IF f \in run THEN s[f] ELSE stack[f]]
      /\ late' = late \ {p \in seen : {p[1], p[2]} \cap run # {}}
      /\ Done("place", k)
      /\ UNCHANGED <<world, vector, pair, matched, at, seen, upsets, lapsed>>

-----------------------------------------------------------------------------
(* The world outside.                                                      *)

Upset == upsets < MaxUpsets /\ upsets' = upsets + 1

\* A group rebuild, after an override, a rule or an adoption: other tiles.
Regroup(S) ==
  /\ Upset
  /\ S # {} /\ S # tiles
  /\ tiles' = S
  /\ lapsed' = IF tiles \subseteq S THEN lapsed ELSE lapsed \cup {"pairs", "stacks"}
  /\ UNCHANGED <<substrate, screen, rows, job, late>>

\* substrates.py fills a hole; one that does not decode it takes for present,
\* and somebody replaces it.
Derive(f, d) ==
  /\ Upset
  /\ \/ substrate[f] = "none"
     \/ substrate[f] = "corrupt" /\ d = "good"
  /\ substrate' = [substrate EXCEPT ![f] = d]
  /\ UNCHANGED <<tiles, screen, rows, job, history>>

\* SCREEN is edited in the source.
Rethreshold(t) ==
  /\ Upset
  /\ t # screen
  /\ screen' = t
  /\ UNCHANGED <<tiles, substrate, rows, job, history>>

Kill(p) ==
  /\ Upset
  /\ ~Idle(p)
  /\ todo' = [todo EXCEPT ![p] = Nothing]
  /\ UNCHANGED <<world, rows, at, seen, history>>

\* The DELETE that candidates.py asks for when it refuses.
DeletePairs ==
  /\ Rethresholded /\ Idle("screen")
  /\ pair' = [p \in Pairs |-> "none"]
  /\ lapsed' = (lapsed \ {"pairs"}) \cup {"matches"}
  /\ UNCHANGED <<world, vector, matched, stack, job, upsets, late>>

\* The DELETE that membership.py asks for when it finds unchecked survivors.
DeleteStacks ==
  /\ Upset
  /\ \E p \in Pairs \ matched : pair[p] = "survivor"
  /\ Idle("place") /\ stack # [f \in Frames |-> 0]
  /\ stack' = [f \in Frames |-> 0]
  /\ lapsed' = lapsed \ {"stacks"}
  /\ UNCHANGED <<world, vector, pair, matched, job, late>>

Init ==
  /\ tiles \in Opening
  /\ substrate \in [Frames -> {"none", "corrupt", "good"}]
  /\ Cardinality({f \in Photos : substrate[f] # "good"}) <= MaxHoles
  /\ \A f \in Videos : substrate[f] = "none"
  /\ screen \in Screens /\ at = screen
  /\ vector = {}
  /\ pair = [p \in Pairs |-> "none"]
  /\ matched = {} /\ seen = {}
  /\ stack = [f \in Frames |-> 0]
  /\ todo = [p \in Passes |-> Nothing]
  /\ upsets = 0
  /\ lapsed = {} /\ late = {}

Pass(k) ==
  \/ StartEmbed(k) \/ EmbedBatch(k)
  \/ StartScreen(k) \/ ScreenBatch(k)
  \/ StartCheck(k) \/ CheckChunk(k)
  \/ StartPlace(k) \/ PlaceRun(k)

Outside ==
  \/ \E S \in SUBSET Frames : Regroup(S)
  \/ \E f \in Photos, d \in {"corrupt", "good"} : Derive(f, d)
  \/ \E t \in Screens : Rethreshold(t)
  \/ \E p \in Passes : Kill(p)
  \/ DeletePairs
  \/ DeleteStacks

Next == (\E k \in Frames : Pass(k)) \/ Outside
Spec == Init /\ [][Next]_vars
\* A pass goes on, whoever started it; the operator runs each pass again until
\* it says there is nothing to do, and runs the DELETE a refusal prints.  The
\* two passes that meet corrupt derivatives never say so: those are run again
\* without --limit, which would otherwise stop at the same frames every time.
Fairness ==
  /\ SF_vars(StartEmbed(N)) /\ WF_vars(StartScreen(N)) /\ SF_vars(StartCheck(N)) /\ WF_vars(StartPlace(N))
  /\ WF_vars(EmbedBatch(N)) /\ WF_vars(ScreenBatch(N)) /\ WF_vars(CheckChunk(N))
  /\ WF_vars(\E k \in Frames : PlaceRun(k))
  /\ WF_vars(DeletePairs)
FairSpec == Spec /\ Fairness

-----------------------------------------------------------------------------
(* Properties.                                                             *)

\* candidates.py: "a frame is done when it carries every pair it is owed
\* rather than merely some."  True only while TallyIsHonest's guard holds: a
\* partner that left the tiles still counts, and hides one that came.
DoneMeansOwed == \A e \in Frames : ScreenWork(e) = {} => Owed(e) \subseteq Screened(e)

\* While no tile left since the pairs were last deleted, and no pair was
\* deleted since the first Match, the tallies of both worklists tell a frame
\* that has every pair it is owed from one that lacks some, whatever was
\* killed, filled in or added between and during the passes.
TallyIsHonest ==
  /\ "pairs" \notin lapsed => DoneMeansOwed
  /\ "matches" \notin lapsed => \A e \in Frames : CheckWork(e) = {} => Checkable(e) \subseteq Matched(e)

\* While no tile left, every stored pair is one the fence admits now: tiles
\* that arrive during a pass or after it only ever join runs together.
PairsAreFenced ==
  "pairs" \notin lapsed =>
    \A p \in Pairs : pair[p] # "none" =>
      {p[1], p[2]} \subseteq tiles \cap vector /\ SameRun(tiles, p[1], p[2])

\* A frame on a worklist has something to be done: a resume never rewrites a
\* fan-out that is complete.
ResumeMeansWork ==
  \A e \in Frames :
    /\ ScreenWork(e) # {} => ~(Owed(e) \subseteq Screened(e))
    /\ CheckWork(e) # {} => ~(Checkable(e) \subseteq Matched(e))

\* refuse_if_rethresholded: the table never mixes the verdicts of two screens,
\* although the constant may move while a pass runs and between two runs.
OneScreen ==
  \E t \in Screens : \A p \in Pairs : pair[p] # "none" => pair[p] = Verdict(p, t)

\* The table of pairs is what one pass over one fence with one screen would have
\* written, however many runs it took (candidates.py:439).
PairsAreOnePass == PairsAreFenced /\ OneScreen

\* membership.py: a stack is never invented out of a pair nobody looked at.
\* What joined another frame's stack agreed with an earlier frame on record.
StacksHaveEvidence ==
  \A f \in Frames : stack[f] \notin {0, f} => \E m \in Frames : m < f /\ <<m, f>> \in matched \cap Agree

\* A run with every frame placed shows the stacks the walk draws from all the
\* Matches there are, unless a tile left since the stacks were last deleted or
\* a Match between two of its frames came after both were placed.
StacksAreDrawn ==
  "stacks" \notin lapsed =>
    \A f \in tiles :
      LET run == Run(tiles, f) IN
      (\A g \in run : stack[g] # 0) /\ late \cap (run \X run) = {} => IsCut(run, matched, stack)

\* In the end every photograph that decodes has its vector, every pair owed
\* its verdict, every survivor that decodes its Match and, once there is any
\* Match, every tile its stack.
EverythingIsStacked ==
  <>[](/\ \A f \in tiles \cap Photos : substrate[f] = "good" => f \in vector
       /\ "pairs" \notin lapsed => \A e \in Frames : Owed(e) \subseteq Screened(e)
       /\ "matches" \notin lapsed =>
            \A p \in Pairs : pair[p] = "survivor" /\ substrate[p[1]] = "good" /\ substrate[p[2]] = "good"
                             => p \in matched
       /\ matched # {} => \A f \in tiles : stack[f] # 0)
-----------------------------------------------------------------------------
(* The inductive invariant.                                                *)

\* What a worklist holds: photographs to embed, pairs to screen and to check.
WorkOK ==
  /\ \A f \in Frames : todo["embed"][f] # {} => f \in Photos
  /\ \A p \in {"screen", "check"}, e \in Frames : \A l \in todo[p][e] : e < l

\* Every verdict is one the running or the last screening process would give.
VerdictsOK == \A p \in Pairs : pair[p] # "none" => pair[p] = Verdict(p, at)

\* A pair stored or planned is fenced, and a Match stored or planned is of a
\* survivor with both derivatives.
Planned(pass, p) == p[2] \in todo[pass][p[1]]
FenceOK ==
  "pairs" \notin lapsed =>
    \A p \in Pairs : pair[p] # "none" \/ Planned("screen", p) =>
      {p[1], p[2]} \subseteq tiles \cap vector /\ SameRun(tiles, p[1], p[2])
MatchesOK ==
  "matches" \notin lapsed =>
    \A p \in Pairs : p \in matched \/ Planned("check", p) =>
      pair[p] = "survivor" /\ {p[1], p[2]} \subseteq OnDisk

\* The inductive invariant of the four passes: the worklists in flight keep
\* the promises of the rows they will become.
Inductive ==
  /\ TypeOK
  /\ WorkOK
  /\ VerdictsOK
  /\ FenceOK
  /\ MatchesOK
  /\ seen \subseteq matched
  /\ StacksHaveEvidence

\* A pass that resumes never takes a frame for done that is not, nor leaves in the
\* table what another fence or another screen put there (candidates.py:504).
PassesResume == TallyIsHonest /\ PairsAreOnePass
=============================================================================
