CONSTANTS
  Process = {p1, p2, p3}
  init = p1
  VMPage = {v1, v2, v3}
  MaxVirt = 1
  Value = {0, 1}
  File <- MCFile
  Mapping <- MCMapping
  Splits = FALSE
  None = None
SPECIFICATION Spec
SYMMETRY Symmetry
INVARIANTS
  RefcountsExact
  WritersAreAlone
  TranslationsCurrent
PROPERTIES
  ImplementsAbstractMemory
