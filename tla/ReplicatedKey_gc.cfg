SPECIFICATION SpecGC
CONSTANTS
  Node = {a, b}
  Values = {1}
  Timestamps = {0, 1}
  MaxWrites = 3
  Strategy = "default"
PROPERTY OwnUpdateSurvives
CHECK_DEADLOCK FALSE
