SPECIFICATION Spec
CONSTANTS
  Replicas = {r1, r2}
  NoOne = noOne
  Ttl = 2
  Interval = 1
  MaxCrashes = 2
  MaxPauses = 1
  MaxFaults = 2
INVARIANTS
  TypeOK
  Exclusive
PROPERTIES
  Converges
  Served
