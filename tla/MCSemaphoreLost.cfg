CONSTANTS
  Thread = {t1, t2}
  Waker = {w1, w2}
  Drainer = {}
  Queue = {q}
  sem_sleepq = q
  None = None
  Initial = 0
  MaxSignals = 2
CHECK_DEADLOCK FALSE
SPECIFICATION SemSpec
SYMMETRY Symmetry
INVARIANTS
  NoUnitWhileAsleep
