SPECIFICATION HearingSpec
CONSTANTS
  c = c
  Task = {c}
  Researchers = {}
  Dummies = {}
  Leftover = {c}
  OldBrief = FALSE
  MaxSpawns = 2
  Rollbacks = TRUE
  Written = {"good"}
  MaxLost = 0
  MaxRev = 5
INVARIANT StartedOnce
INVARIANT LiveBounded
INVARIANT ReadsNoOlder
PROPERTY LeaseSpec
PROPERTY AnswersHeard
CHECK_DEADLOCK FALSE
