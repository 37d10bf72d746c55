CONSTANTS
  Researcher = r
  Planner = p
  Coders = {c1}
  MaxIterations = 2
  MaxRejections = 2
  MaxRev = 24
  FaultyDb = FALSE
  Responses <- ProtocolAnswers
  PlanOrder <- NoOrder
SPECIFICATION FairSpec
INVARIANTS
  RejectionsBounded
  OpenWithinBudget
PROPERTIES
  RunEnds
CHECK_DEADLOCK FALSE
