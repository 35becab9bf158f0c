SPECIFICATION Spec
CONSTANTS
  Names <- MCNames
  Plans <- MCPlans
  Followups <- MCFollowups
  Edited <- MCEdited
  Queries = {"q1", "q2"}
  Limited = {"x"}
  Approval = TRUE
  SharedSaver = FALSE
  MaxReplan = 2
  MaxLoop = 1
  MaxSteps = 2
  MaxDebate = 2
  MaxMessages = 1
INVARIANTS
  TypeOK
  AfterDeps
  AllRan
  ContextAgrees
PROPERTIES
  OncePerThread
  SkipsOwn
  Ends
CHECK_DEADLOCK FALSE
