SPECIFICATION Spec
CONSTANTS
  Clients = {c1, c2, c3}
  Chatty = {}
  MaxData = 1
  lfd = 4
  FdLimit = 8
  Listener = Listener
  NoFile = NoFile
  MAX_EVENTS = 2
  SCAN = 1
  IDLE = 1
SYMMETRY Symmetry
INVARIANTS
  SlotsMatchEpoll
  
  BatchIsFresh
CHECK_DEADLOCK FALSE
