SPECIFICATION Spec
CONSTANTS
  r = r
  Task = {r}
  Researchers = {r}
  Dummies = {}
  Leftover = {}
  OldBrief = TRUE
  MaxSpawns = 1
  Rollbacks = FALSE
  Written = {"good"}
  MaxLost = 0
  MaxRev = 1
INVARIANT BriefIsOwn
CHECK_DEADLOCK FALSE
