CONSTANTS
  Researcher = r
  Planner = p
  Coders = {c1, c2}
  MaxIterations = 2
  MaxRejections = 2
  MaxRev = 8
  FaultyDb = FALSE
  Responses <- CoderAnswers
  PlanOrder <- OneFirst
SPECIFICATION Spec
INVARIANTS
  PlanOrderKept
CHECK_DEADLOCK FALSE
