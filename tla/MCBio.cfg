CONSTANTS
  NumberOfBuffers = 2
  Thread = {t1, t2, t3}
  Block = {k1, k2, k3}
  Value = {0, 1}
  Zero = 0
  None = None
CHECK_DEADLOCK FALSE
SPECIFICATION Spec
SYMMETRY Symmetry
INVARIANTS
  FreeUnlessBusy
  OneOwner
  UniqueBlock
  Coherent
  NoBusyWaiterForgotten
