SPECIFICATION FairSpec
CONSTANTS
  N = 4
  Camera <- BodyOf
  Secs <- SecsOf
  Ceiling = 2
  Videos <- VideoAt
  Cosine <- Alike
  Screens = {1, 2}
  Agree <- AgreeOn
  Opening <- FirstTiles
  MaxHoles = 1
  MaxUpsets = 2
INVARIANTS
  PassesResume
  StacksAreTheWalks
CHECK_DEADLOCK FALSE
PROPERTIES
  EverythingIsStacked
