SPECIFICATION FairSpec
CONSTANTS
  min_thr_num = 2
  max_thr_num = 2
  queue_max_size = 1
  MIN_WAIT_TASK_NUM = 1
  DEFAULT_THREAD_VARY = 1
  Tasks = {t1, t2}
  NoTask = NoTask
  Free = Free
  KillSeesExited = TRUE
INVARIANTS
  NoStrandedTask
  FreeIsQuiet
PROPERTIES
  AddedTasksRun
  BlockedAddersReturn
CHECK_DEADLOCK FALSE
