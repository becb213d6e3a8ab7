----------------------------- MODULE MCRunLock -----------------------------
EXTENDS RunLock

CONSTANTS p1, p2, p3
MCProcs == {p1, p2, p3}
=============================================================================
