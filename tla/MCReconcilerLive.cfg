SPECIFICATION FairSpec
CONSTANTS
  Operators = {o1}
  NoPath = NoPath
  p1 = p1
  p2 = p2
  Build <- MCBuild
  Paths <- MCPaths
  Specs <- LiveSpecs
  MaxEdits = 1
  MaxFaults = 1
  MaxCrashes = 0
  MaxUnready = 1
  MaxOthers = 0
PROPERTIES DeletionReleased ReachesRunning
CHECK_DEADLOCK FALSE
