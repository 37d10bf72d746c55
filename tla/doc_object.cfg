SPECIFICATION FairSpec
CONSTANTS
  c = c
  Task = {c}
  Researchers = {}
  Dummies = {}
  Leftover = {}
  OldBrief = FALSE
  MaxSpawns = 1
  Rollbacks = FALSE
  Written = {"shapeless"}
  MaxLost = 0
  MaxRev = 1
PROPERTY BreachReported
CHECK_DEADLOCK FALSE
