SPECIFICATION HistorySpec
CONSTANTS
  EventLimit = 2
  EventFloor = 1
  PurgeBatchSize = 2
  ForwardBatchSize = 2
  AlertKeys = {k}
  MaxUpdates = 4
  MaxFaults = 2
INVARIANTS
  CountersSound
  NothingSkipped
  AlertsKept
PROPERTIES
  SerialsIncrease
  AllForwarded
CHECK_DEADLOCK FALSE
