SPECIFICATION Spec
CONSTANTS
  Names <- MCNames
  Plans <- MCPlans
  Followups <- MCFollowups
  Edited <- MCEdited
  Queries = {"q1", "q2"}
  Limited = {"x"}
  Approval = FALSE
  SharedSaver = FALSE
  MaxReplan = 2
  MaxLoop = 1
  MaxSteps = 2
  MaxDebate = 2
  MaxMessages = 1
INVARIANTS
  StopStops
CHECK_DEADLOCK FALSE
