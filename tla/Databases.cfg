SPECIFICATION Spec
CONSTANTS
    m1 = m1
    m2 = m2
    Migrator = {m1, m2}
    Decision = {d1, d2}
    InitialVersion = 0
    Knows <- Checkouts
    Budgets <- Worlds
INVARIANT RestoreIsSafe
PROPERTY SplitsAreContained
CHECK_DEADLOCK FALSE
