SPECIFICATION ProcessesSpec
CONSTANTS
  N = 4
  MaxLines = 3
  Capacity = 2
  Entries = {"top", "f1", "d1", "f2", "d2", "f3"}
  Dirs = {"top", "d1", "d2"}
  Top = "top"
  Parent <- MCParent
  Level <- MCLevel
INVARIANTS
  ZombiesAreAnnounced
  EndMeansAll
  
PROPERTIES
  EveryChildReaped
  ReaderSeesTheEnd
CHECK_DEADLOCK FALSE
