SPECIFICATION FairSpec
CONSTANTS
  c1 = c1
  c2 = c2
  vol1 = vol1
  vol2 = vol2
  hello = hello
  glibc = glibc
  Calls = {c1, c2}
  Targets = {vol1, vol2}
  Paths = {hello, glibc}
  NoCall = NoCall
  Context <- MCContext
  MaxFaults = 2
  MaxCrashes = 1
  MaxLate = 1
CHECK_DEADLOCK FALSE
INVARIANTS PublishedIsUsable PublishedIsReadOnly MountsBounded CleanedIsGone
PROPERTIES EventuallyCleaned CompleteGetPublished
