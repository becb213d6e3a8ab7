------------------------------ MODULE MCSheet ------------------------------
EXTENDS Sheet

\* Three photographs, the first and the last of one second and of one stack.
Taken == <<2, 1, 2>>
Stacked == <<1, 2, 1>>
B(d, r, f, v) == [decision |-> d, run |-> r, fault |-> f, view |-> v]
MCBudgets == {B(3, 1, 0, 0), B(1, 2, 0, 0), B(1, 1, 1, 0), B(0, 2, 1, 0), B(1, 1, 0, 1), B(0, 1, 1, 1)}
=============================================================================
