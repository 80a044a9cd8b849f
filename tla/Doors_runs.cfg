CONSTANTS
  Nodes = {1}
  Door <- MCDoor
  MayEnter = {"bucc"}
  CleanupOnExit = TRUE
  KeepFailed = TRUE
  RuntimeAbsolute = TRUE
  StaleAge = 1
  MaxScore = 2
  ChainMax = 1
  Switched = {"dos"}
  Names = {1}
SPECIFICATION Spec
INVARIANT DoorsInv
PROPERTY ScoreEarned
PROPERTY ImplementsDoorRuns
 
