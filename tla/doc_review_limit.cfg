CONSTANTS
  Researcher = r
  Planner = p
  Coders = {c1}
  MaxIterations = 2
  MaxRejections = 2
  MaxRev = 16
  FaultyDb = FALSE
  Responses <- CoderAnswers
  PlanOrder <- NoOrder
SPECIFICATION Spec
INVARIANTS
  FailedByReviews
CHECK_DEADLOCK FALSE
