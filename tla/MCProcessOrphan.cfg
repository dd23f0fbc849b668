SPECIFICATION Spec
CONSTANTS
  MaxPid = 3
  Status = {s1}
  Orphans = TRUE
  None = None
INVARIANT ParentExists
CHECK_DEADLOCK FALSE
