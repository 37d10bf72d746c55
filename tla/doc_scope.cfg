CONSTANTS
  Researcher = Researcher
  Coders = {c1, c2}
  Files = {f1, f2}
  Ingested <- OneIngested
  Plans <- SomePlans
  Shapes <- SomeShapes
  MaxWork = 4
SPECIFICATION Spec
PROPERTIES OutOfScopeSkipped
CHECK_DEADLOCK FALSE
