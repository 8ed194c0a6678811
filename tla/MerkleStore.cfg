SPECIFICATION StoreFairSpec
CONSTANTS
  HashBits = 3
  MaxKey = 3
  KeyHash <- ThreeKeys
  Value = {x}
  Depths = {2, 3}
  Writer = {w1, w2}
  MaxBatches = 2
  MaxErrors = 1
  MaxForgetErrors = 1
  MaxCrashes = 2
  MayRevert = FALSE
INVARIANTS TreeSound DiskMatchesRows
PROPERTY WritersFinish
CHECK_DEADLOCK FALSE
