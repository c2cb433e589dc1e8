SPECIFICATION Spec
CONSTANTS
  Backends = {b1, b2}
  MaxRecords = 3
  MayTerminate = TRUE
  MayFail = TRUE
SYMMETRY Symmetry
CHECK_DEADLOCK FALSE
INVARIANTS
  AckedDurable
  InOrder
PROPERTY ImplementsDurableLog
