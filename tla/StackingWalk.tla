---------------------------- MODULE StackingWalk ----------------------------
(***************************************************************************)
(* The two walks of the stacking passes as the code writes them: the cut   *)
(* of the population into runs (candidates.py) and of a run into stacks    *)
(* (membership.py).  Stacking states both without a walk; here they are    *)
(* compared on every population and every set of Matches a run reaches.    *)
(***************************************************************************)
EXTENDS Stacking, Sequences, SequencesExt

InOrder(S) ==
  CHOOSE s \in [1 .. Cardinality(S) -> S] : \A i, j \in 1 .. Cardinality(S) : i < j => s[i] < s[j]

\* A frame that goes on is put into the sequence in hand, any other starts one.
Taken(cut, f, goesOn) ==
  IF cut # <<>> /\ goesOn THEN [cut EXCEPT ![Len(cut)] = Append(@, f)] ELSE Append(cut, <<f>>)

\* runs(frames, alone=True): a frame at most the ceiling after the one before.
GoesOn(before, f) == Camera[f] = Camera[before] /\ Secs[f] - Secs[before] <= Ceiling
Runs(S) ==
  LET step(cut, f) == Taken(cut, f, GoesOn(Last(Last(cut)), f))
  IN  FoldLeft(step, <<>>, InOrder(S))

\* majority(holding, f, points)
Joins(holding, f, points) ==
  LET agreed == {i \in DOMAIN holding : <<holding[i], f>> \in points \cap Agree}
  IN  Cardinality(agreed) * 2 > Len(holding)

\* link(run, points) and, after the photographs, place's videos each alone.
Link(run, points) ==
  LET step(cut, f) == Taken(cut, f, Joins(Last(cut), f, points))
  IN  FoldLeft(step, <<>>, InOrder(run))
Place(run, points) == Link(run \cap Photos, points) \o [i \in 1 .. Cardinality(run \cap Videos) |-> <<InOrder(run \cap Videos)[i]>>]

\* The cut of the population by gaps between neighbours is the fence: the runs
\* are exactly the classes of frames with no unbridged cut between them.
RunsAreTheFence ==
  LET runs == Runs(tiles) IN
  /\ \A i \in DOMAIN runs : \A f \in ToSet(runs[i]) : ToSet(runs[i]) = Run(tiles, f)
  /\ UNION {ToSet(runs[i]) : i \in DOMAIN runs} = tiles

\* The greedy walk draws the one cut in which every photograph is where most
\* of the stack in hand before it puts it.
DrawsTheCut(run, points) ==
  LET drawn == Place(run, points)
      name == [g \in run |-> (CHOOSE i \in DOMAIN drawn : g \in ToSet(drawn[i]))]
  IN  {s \in [run -> run] : IsCut(run, points, s)} = {[g \in run |-> Head(drawn[name[g]])]}
WalkDrawsTheCut == \A f \in tiles : DrawsTheCut(Run(tiles, f), matched)

\* Both walks of the code, over every population and every set of Matches a
\* behaviour reaches (candidates.py:185, membership.py:136).
WalksDrawTheSpec == RunsAreTheFence /\ WalkDrawsTheCut

\* What is on show is what membership.py's walk draws, and the walk draws the one
\* cut its documentation describes (membership.py:136).
StacksAreTheWalks == StacksAreDrawn /\ WalksDrawTheSpec
=============================================================================
