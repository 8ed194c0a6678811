SPECIFICATION DistinctSpec
CONSTANTS
  Node = {a, b, c}
  Values = {1, 2, 3}
  Timestamps = {1}
  MaxWrites = 3
  Strategy = "default"
INVARIANTS SiblingsSound HistoryKept
PROPERTIES ImplementsRegister Converges
CHECK_DEADLOCK FALSE
