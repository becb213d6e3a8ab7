SPECIFICATION Spec
CONSTANTS
    ann = ann
    bob = bob
    w1 = w1
    w2 = w2
    Worker = {w1, w2}
    Client = {ann, bob}
    NoOne = NoOne
    MaxAttempts = 2
    Asset = {1, 2, 3}
    RawOf <- MCRawOf
    Scene <- MCScene
    Quality <- MCQuality
    Doubt <- MCDoubt
    Query <- MCQuery
    DefaultBar = 2
    ViewBatch = 1
    AssetBatch = 2
    Feedback = 2
    Worlds <- MCWorlds
INVARIANT DecisionsAreKept
INVARIANT PagesAreRight
PROPERTY NothingIsOverwrittenUnseen
PROPERTY StacksStay
PROPERTY BackfillEndsWell
CHECK_DEADLOCK FALSE
