CONSTANTS
  Researcher = r
  Planner = p
  Coders = {c1}
  MaxIterations = 2
  MaxRejections = 2
  MaxRev = 8
  FaultyDb = TRUE
  Responses <- AnyAnswers
  PlanOrder <- NoOrder
SPECIFICATION Spec
INVARIANTS
  TypeOK
  StagesCoherent
  Fenced
  AssignmentsAccounted
  StagesInOrder
  VerdictStands
PROPERTIES
  TerminalIsFinal
  LeaseSpec
CHECK_DEADLOCK FALSE
