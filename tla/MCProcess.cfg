SPECIFICATION LiveSpec
CONSTANTS
  MaxPid = 4
  Status = {s1, s2}
  Orphans = FALSE
  None = None
INVARIANTS
  NoUseAfterFree
  ZombieHasZombieThread
  ReapDestroys
PROPERTIES
  WaitReturns
  ImplementsAbstractProcess
CHECK_DEADLOCK FALSE
