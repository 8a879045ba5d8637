SPECIFICATION FairSpec
CONSTANTS
  Workloads = {w1, w2}
  Profiles <- MCProfiles
  EvalTimeout = 4
  ClosureTimeout = 2
  MaxLag = 1
  MaxFaults = 1
  MaxRestarts = 1
  MaxOperatorRestarts = 1
INVARIANT ProcessesBounded
INVARIANT DoneOnlyIfBothFit
PROPERTY EventuallyEvaluated
