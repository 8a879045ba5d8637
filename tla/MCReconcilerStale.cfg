SPECIFICATION Spec
CONSTANTS
  Operators = {o1}
  NoPath = NoPath
  p1 = p1
  p2 = p2
  Build <- MCBuild
  Paths <- MCPaths
  Specs <- SafetySpecs
  MaxEdits = 1
  MaxFaults = 0
  MaxCrashes = 0
  MaxUnready = 0
  MaxOthers = 0
INVARIANT RunningDeploysItsSpec
CHECK_DEADLOCK FALSE
