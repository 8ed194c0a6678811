SPECIFICATION Spec
CONSTANTS
  Peers = {a, b}
  Outgoing = {a}
  Initiators = {i}
  Responders = {r}
  PushLimit = 1
  MaxConns = 3
  MaxEvents = 3
  None = None
INVARIANTS
  ChannelsSound
  NothingLeftBehind
  OneTurnEach
PROPERTIES
  AllReleased
