SPECIFICATION Spec
CONSTANTS
    w1 = w1
    w2 = w2
    Worker = {w1, w2}
    None = None
    Item = {1, 2, 3}
    Content = {"a", "b"}
    SidecarOf <- MCSidecarOf
    MaxAttempts = 2
    Worlds <- MCWorlds
INVARIANT CompleteMeansKept
PROPERTY PublishedAsApproved
PROPERTY JobsEnd
CHECK_DEADLOCK FALSE
