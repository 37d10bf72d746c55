CONSTANTS
  Tasks = {a, b}
  MaxAnswers = 2
  Twice = {1}
  MaxFaults = 1
SPECIFICATION FairSpec
INVARIANTS TypeOK CurrentNotRefused
PROPERTIES LeaseKept NobodyWaitsForever
CHECK_DEADLOCK FALSE
