SPECIFICATION Spec
CONSTANTS
  l1 = l1
  l2 = l2
  Listener = {l1, l2}
  MaxVersion = 4
  ChannelCap = 2
  FaultyStore = TRUE
CHECK_DEADLOCK FALSE
INVARIANTS
  NobodyLeftBehind
  LastWordDelivered
PROPERTIES
  EventsInOrder
  StreamEnds
