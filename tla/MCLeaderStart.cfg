SPECIFICATION Spec
CONSTANTS
  Replicas = {r1, r2}
  NoOne = noOne
  Ttl = 2
  Interval = 1
  MaxCrashes = 1
  MaxPauses = 0
  MaxFaults = 0
PROPERTIES
  OnlyLeaderRuns
