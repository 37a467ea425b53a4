SPECIFICATION FairSpec
CONSTANTS
  Clients = {c1, c2, c3}
  Chatty = {c1}
  MaxData = 2
  lfd = 4
  FdLimit = 7
  Listener = Listener
  NoFile = NoFile
  CLIENTSIZE = 4
INVARIANTS
  TableIsExact
  ReportsStayTrue
  TextIsTheConnections
PROPERTIES
  
  
  EndedConnectionsClosed
CHECK_DEADLOCK FALSE
