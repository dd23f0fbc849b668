CONSTANTS
  Thread = {t1, t2, t3}
  Waker = {t1, t2, t3}
  Queue = {mq, cq}
  mtx_sleepq = mq
  cv_sleepq = cq
  None = None
  MaxItems = 2
CHECK_DEADLOCK FALSE
SPECIFICATION CvFairSpec
INVARIANTS
  SuspendedWhileWaiting
  MutualExclusion
  NoLostWakeup
  NoItemWhileAsleep
PROPERTIES
  SleeperIsWoken
  ItemsAreTaken
