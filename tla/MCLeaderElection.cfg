SPECIFICATION FairSpec
CONSTANTS
  Processes = {a, b}
  NoProcess = NoProcess
  TTL = 6
  Interval = 2
  MaxRenewFailures = 3
  MaxCall = 1
  MaxFaults = 3
  MaxCrashes = 1
INVARIANTS LeaderRenewed OneLeader
PROPERTY StandbyTakesOver
