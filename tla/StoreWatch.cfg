SPECIFICATION FairSpec
CONSTANTS
  Key = {k1, k2}
  Writer = {w1, w2}
  NoKey = NoKey
  MaxRows = 3
  MaxFaults = 2
  Preloaded = TRUE
INVARIANTS PassedOnInOrder StableSerial
PROPERTY CatchesUp
CHECK_DEADLOCK FALSE
