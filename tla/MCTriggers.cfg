SPECIFICATION Spec
CONSTANTS
  Workers = {w1}
  Triggers = {t1, t2}
  Configs <- MCConfigs
  Requests = {q1, q2}
  None = none
  MaxRequests = 4
  MaxBeats = 2
  MaxRestarts = 1
  MaxFaults = 1
SYMMETRY Symmetry
INVARIANTS
  TypeOK
  OnlyWanted
  AllWanted
  JobsAgree
  OrphansOverlaid
CHECK_DEADLOCK FALSE
