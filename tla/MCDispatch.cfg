SPECIFICATION Spec
CONSTANTS
  Workers = {w1, w2}
  Calls = {c1}
  Triggered = {g1}
  Chats = {h1, h2}
  Tools = {t1}
  Session <- MCSession
  Limit = 1
  None = none
  MaxArrivals = 3
  MaxRounds = 2
  MaxFaults = 2
SYMMETRY Symmetry
INVARIANTS
  TypeOK
  QueuesWaited
  VerdictHolds
  QuotaBound
CHECK_DEADLOCK FALSE
