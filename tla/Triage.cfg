SPECIFICATION Spec
CONSTANTS
    Path = {1, 2, 3, 4}
    ContentOf <- Contents
    DirOf <- Dirs
    ExtOf <- Exts
    Predicate <- Predicates
    PageLimit = 1
    MaxRules = 3
    Worlds <- SmallWorlds
INVARIANT CountsAreOfThePaths
INVARIANT SheetShowsTheSteady
PROPERTY PreviewIsWhatAddingDoes
CHECK_DEADLOCK FALSE
