SPECIFICATION Spec
CONSTANTS
  Node = {1, 2, 3}
  Local = 2
  Capacities = {0, 1}
  PartitionCounts = {2, 8}
  ReplicationFactors = {2}
  Wanted = {0}
  MaxTakes = 3
  MaxSnapshots = 0
INVARIANTS BooksAgree SharesAssigned CachesFresh LocalNodeTold
CHECK_DEADLOCK FALSE
