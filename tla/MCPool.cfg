SPECIFICATION Spec
CONSTANTS
  Tasks = {t1, t2}
  Keys = {k1, k2}
  Conns = {c1, c2, c3}
  MaxPool = 2
  MaxPerKey = 2
  IdleTimeout = 1
  CallTimeout = 1
  MaxCrashes = 1
  MaxCancels = 0
  NoKey = noKey
  NoConn = noConn
  Nobody = nobody
  Gone = gone
INVARIANTS
  TypeOK
  OwnAnswer
  PoolBound
SYMMETRY Symmetry
