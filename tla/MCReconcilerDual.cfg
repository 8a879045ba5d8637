SPECIFICATION Spec
CONSTANTS
  Operators = {o1, o2}
  NoPath = NoPath
  p1 = p1
  p2 = p2
  Build <- MCBuild
  Paths <- MCPaths
  Specs <- DualSpecs
  MaxEdits = 1
  MaxFaults = 0
  MaxCrashes = 1
  MaxUnready = 0
  MaxOthers = 0
INVARIANT QuietMeansConsistent
SYMMETRY OperatorSymmetry
CHECK_DEADLOCK FALSE
