SPECIFICATION Spec
CONSTANTS
  Clients = {c1, c2}
  Chatty = {}
  MaxData = 1
  lfd = 4
  FdLimit = 8
  Listener = Listener
  NoFile = NoFile
  MAX_EVENTS = 2
  SCAN = 1
  IDLE = 1
INVARIANT SendsWhatWasReceived
CHECK_DEADLOCK FALSE
