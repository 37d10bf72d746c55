CONSTANTS
  Researcher = r
  Planner = p
  Coders = {c1}
  MaxIterations = 2
  MaxRejections = 2
  MaxRev = 12
  FaultyDb = FALSE
  Responses <- RefusedAnswers
  PlanOrder <- NoOrder
SPECIFICATION FairSpec
PROPERTIES
  ProcessingEnds
CHECK_DEADLOCK FALSE
