SPECIFICATION FairSpec
CONSTANTS
  t1 = t1
  t2 = t2
  t3 = t3
  t4 = t4
  Workers = {w1, w2, w3}
  Tasks = {t1, t2, t3, t4}
  Owner = Owner
  NoTask = NoTask
  Caller <- MCCaller
INVARIANTS
  NoSleepOverWork
  DestructorDrains
PROPERTIES
  ImplementsTaskPool
  FuturesBecomeReady
  DestructorReturns
CHECK_DEADLOCK FALSE
