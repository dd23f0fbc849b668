SPECIFICATION FairSpec
CONSTANTS
  NumCPUs = 2
  idle0 = idle0
  idle1 = idle1
  Worker = {w1, w2}
  Thread <- MCThread
  IdleThread <- MCIdleThread
  Priority <- MCPriority
  MaxTicks = 2
  None = None
INVARIANTS
  QueueMembership
  OneProcessorPerThread
  NoFreedContext
  AlwaysEligible
  SleepQueueSorted
  
PROPERTIES
  ZombieStaysDead
  MostUrgentFirst
  ImplementsAbstractScheduler
  SleeperWakesUp
  RunnableThreadRuns
