SPECIFICATION GroupingSpec
CONSTANTS
    File = {1, 2, 3, 4}
    Path <- Paths
    Worlds <- SmallWorlds
INVARIANT GroupsAreTheEvidence
PROPERTY ExtendOnlyMerges
PROPERTY DatesOnlyImprove
CHECK_DEADLOCK FALSE
