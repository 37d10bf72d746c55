CONSTANTS
  Researcher = Researcher
  Coders = {c1, c2}
  Files = {f1, f2}
  Ingested <- OneIngested
  Plans <- SomePlans
  Shapes <- SomeShapes
  MaxWork = 5
SPECIFICATION Spec
INVARIANTS TypeOK SubmissionOnDisk ScopesAgree
PROPERTIES PassedKeptScope
CHECK_DEADLOCK FALSE
