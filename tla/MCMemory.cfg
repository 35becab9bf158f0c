SPECIFICATION Spec
CONSTANTS
  Handlers = {h1, h2}
  MaxMemories = 3
  SessionOf <- MCSessionOf
  MaxSize = 1
  MaxSessions = 1
  MaxJobs = 2
  MaxFaults = 1
  MaxRestarts = 1
SYMMETRY Symmetry
CONSTRAINT
  Budget
INVARIANTS
  TypeOK
  CachedDurable
  Complete
  ForgottenStays
PROPERTIES
  RestartKeeps
CHECK_DEADLOCK FALSE
