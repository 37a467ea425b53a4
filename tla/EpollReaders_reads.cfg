SPECIFICATION FairSpec
CONSTANTS
  Clients = {c1, c2, c3}
  Child = c1
  Chatty = {c1, c2, c3}
  MaxData = 2
  lfd = 4
  FdLimit = 7
  Listener = Listener
  NoFile = NoFile
INVARIANTS
  ReadNeverBlocks
PROPERTY EverythingIsRead
CHECK_DEADLOCK FALSE
