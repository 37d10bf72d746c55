SPECIFICATION Spec
CONSTANTS
  c = c
  Task = {c}
  Researchers = {}
  Dummies = {}
  Leftover = {}
  OldBrief = FALSE
  MaxSpawns = 1
  Rollbacks = FALSE
  Written = {"unfit"}
  MaxLost = 0
  MaxRev = 1
PROPERTY BreachMapped
CHECK_DEADLOCK FALSE
