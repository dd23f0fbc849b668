CONSTANTS
  Process = {p1}
  init = p1
  VMPage = {v1, v2, v3}
  MaxVirt = 3
  Value = {0, 1}
  File <- MCFile
  Mapping <- MCSplitMapping
  Splits = TRUE
  None = None
SPECIFICATION Spec
PROPERTIES
  ImplementsAbstractMemory
