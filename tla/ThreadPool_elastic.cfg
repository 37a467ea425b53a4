SPECIFICATION ThreadFairSpec
CONSTANTS
  min_thr_num = 1
  max_thr_num = 2
  queue_max_size = 2
  MIN_WAIT_TASK_NUM = 1
  DEFAULT_THREAD_VARY = 1
  Tasks = {t1, t2, t3}
  NoTask = NoTask
  Free = Free
  KillSeesExited = TRUE
INVARIANTS
  TypeOK
  RingConsistent
  NoTaskLostOrDuplicated
  LiveThreadsCounted
  ThreadBounds
PROPERTIES
  ImplementsTaskPool
  PoolShrinksWhenIdle
CHECK_DEADLOCK FALSE
