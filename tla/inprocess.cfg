CONSTANTS
  Researcher = r
  Planner = p
  Coders = {c1, c2}
  MaxIterations = 2
  MaxRejections = 2
  MaxRev = 18
  FaultyDb = TRUE
  Responses <- SimulatedAnswers
  PlanOrder <- NoOrder
  MaxFaults = 1
SPECIFICATION FairSimulatedSpec
INVARIANTS ClaimAnswered NoSecondCopy OnlyStoreSticks
PROPERTIES EngineSpec VerdictReached
CHECK_DEADLOCK FALSE
