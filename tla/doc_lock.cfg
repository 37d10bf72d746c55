CONSTANTS
  Tasks = {a, b}
  MaxAnswers = 2
  Twice = {}
  MaxFaults = 1
SPECIFICATION Spec
INVARIANTS Serialized
CHECK_DEADLOCK FALSE
