SPECIFICATION Spec
CONSTANTS
  Other = Other
  Junk = Junk
  Commands = {c1, c2}
  Once = {c2}
  LogCompactionSize = 2
  MaxOthers = 2
  MaxFaults = 2
INVARIANTS DiskSound StateFollowsLog
PROPERTIES NodeCatchesUp
CHECK_DEADLOCK FALSE
