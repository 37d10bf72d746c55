CONSTANTS
  KeepLast = 1
  KeepCompressed = 2
  MaxRuns = 4
  MaxFaults = 1
SPECIFICATION Spec
INVARIANTS TypeOK VerdictJustified ArchiveAgrees NoLoopLeft RecordKept
PROPERTIES EveryProcessEnds
CHECK_DEADLOCK FALSE
