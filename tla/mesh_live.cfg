SPECIFICATION EndingSpec
CONSTANTS
  d = d
  r = r
  Task = {r, d}
  Researchers = {r}
  Dummies = {d}
  Leftover = {}
  OldBrief = TRUE
  MaxSpawns = 1
  Rollbacks = FALSE
  Written = {"unfit", "odd"}
  MaxLost = 1
  MaxRev = 3
PROPERTY AnswersHeard
PROPERTY QueueServed
INVARIANT TypeOK
CHECK_DEADLOCK FALSE
