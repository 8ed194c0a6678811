SPECIFICATION Spec
CONSTANTS
  n1 = n1
  n2 = n2
  n3 = n3
  None = None
  Nodes <- MCNodes
  Replica <- MCReplica
  FirstOwner <- MCFirstOwner
  Chunks = 1
  MaxEvents = 2
  MaxFresh = 0
  MaxSites = 1
INVARIANTS HoldersComplete TransfersFollowLog
CHECK_DEADLOCK FALSE
PROPERTIES OwnersHold 
