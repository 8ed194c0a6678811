CONSTANTS
  Nodes = {1, 2, 3}
  Local = 1
  Ops = {1, 2}
  Plans <- MCPlans
  ReplicaSets <- MCReplicaSets
  Leftovers = {{3}}
  NoSites = {{}, {2}}
CHECK_DEADLOCK FALSE
SPECIFICATION Spec
INVARIANTS SettledAtQuorum ReadsSeeSettled CountsSound
PROPERTIES OperationsEnd
