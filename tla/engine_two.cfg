CONSTANTS
  Researcher = r
  Planner = p
  Coders = {c1, c2}
  MaxIterations = 2
  MaxRejections = 2
  MaxRev = 8
  FaultyDb = TRUE
  Responses <- CoderAnswers
  PlanOrder <- NoOrder
SPECIFICATION Spec
INVARIANTS
  OneCoderClaimed
  VerdictStands
SYMMETRY CoderSymmetry
CHECK_DEADLOCK FALSE
