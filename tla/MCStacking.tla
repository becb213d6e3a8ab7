----------------------------- MODULE MCStacking -----------------------------
EXTENDS StackingWalk

\* Three photographs of one body and a video between the first two, which
\* alone bridges their gap.
BodyOf == [f \in 1 .. 4 |-> "body"]
SecsOf == <<0, 2, 3, 4>>
VideoAt == {2}
Alike == [p \in Pairs |-> IF p \in {<<1, 4>>, <<3, 4>>} THEN 1 ELSE 2]
FirstTiles == {{1, 2, 3, 4}, {3, 4}, {1, 3, 4}}
AgreeOn == {<<1, 3>>, <<3, 4>>}
=============================================================================
