SPECIFICATION FairSpec
CONSTANTS
  min_thr_num = 1
  max_thr_num = 1
  queue_max_size = 1
  MIN_WAIT_TASK_NUM = 1
  DEFAULT_THREAD_VARY = 1
  Tasks = {t1}
  NoTask = NoTask
  Free = Free
  KillSeesExited = TRUE
PROPERTY DestroyReturns
CHECK_DEADLOCK FALSE
