SPECIFICATION FairSpec
CONSTANTS
  a = a
  b = b
  c = c
  Paths <- MCPaths
  Root = a
  MaxConcurrency = 3
INVARIANTS ResultIsClosure FetchedOnce BoundedFetches
PROPERTIES ImplementsService Terminates
CHECK_DEADLOCK FALSE
