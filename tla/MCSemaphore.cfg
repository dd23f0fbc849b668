CONSTANTS
  Thread = {t1}
  Waker = {w1, w2}
  Drainer = {t1}
  Queue = {q}
  sem_sleepq = q
  None = None
  Initial = 0
  MaxSignals = 4
CHECK_DEADLOCK FALSE
SPECIFICATION SemFairSpec
INVARIANTS
  UnitsConserved
  NoUnitWhileAsleep
PROPERTIES
  WorkIsDone
