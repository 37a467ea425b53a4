SPECIFICATION ThreadsSpec
CONSTANTS
  Father = Father
  Writers = {Child, Father}
  Readers = {r1, r2}
  Rounds = 3
  None = None
  Nodes = {n1, n2, n3}
  NULL = NULL
  MaxLen = 7
  BUF = 2
  Old = Old
  Zero = Zero
  Absent = Absent
INVARIANTS
  SectionsExclude
  NoUpdateIsLost
  EveryMessageInOnePlace
  NoSleepOverMessages
  
PROPERTY MessagesAreTaken
CHECK_DEADLOCK FALSE
