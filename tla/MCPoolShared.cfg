SPECIFICATION Spec
CONSTANTS
  Tasks = {t1, t2, t3}
  Keys = {k1}
  Conns = {c1, c2, c3}
  MaxPool = 3
  MaxPerKey = 2
  IdleTimeout = 1
  CallTimeout = 1
  MaxCrashes = 0
  MaxCancels = 1
  NoKey = noKey
  NoConn = noConn
  Nobody = nobody
  Gone = gone
INVARIANTS
  OneCaller
  SweepSparesBusy
SYMMETRY Symmetry
