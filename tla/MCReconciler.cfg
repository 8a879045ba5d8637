SPECIFICATION Spec
CONSTANTS
  Operators = {o1}
  NoPath = NoPath
  p1 = p1
  p2 = p2
  Build <- MCBuild
  Paths <- MCPaths
  Specs <- SafetySpecs
  MaxEdits = 1
  MaxFaults = 1
  MaxCrashes = 1
  MaxUnready = 0
  MaxOthers = 1
INVARIANTS FreshUnlessFailed RunningMatchesChildren
PROPERTIES ObservedMonotone AppliesUnderFinalizer SeenFinalizersKept
CHECK_DEADLOCK FALSE
