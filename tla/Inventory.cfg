SPECIFICATION OriginsSpec
CONSTANTS
    Path = {"x/1", "x/2", "y/3", "4", "new/5", "6"}
    DirOf <- Directory
    InBackup = {"x/1", "x/2", "y/3", "4"}
    Worlds <- SmallWorlds
INVARIANT PhasesReportTruly
INVARIANT MapMatches
PROPERTY PhasesBuildOnEarlierOnes
CHECK_DEADLOCK FALSE
