SPECIFICATION FairSpec
CONSTANTS
  c = c
  Task = {c}
  Researchers = {}
  Dummies = {}
  Leftover = {}
  OldBrief = FALSE
  MaxSpawns = 1
  Rollbacks = FALSE
  Written = {"good"}
  MaxLost = 0
  MaxRev = 1
PROPERTY SlotUntilAnswer
CHECK_DEADLOCK FALSE
