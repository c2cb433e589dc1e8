SPECIFICATION Spec
CONSTANTS
  Txns = {t1, t2}
  MaxOid = 2
  Capacity = 1
  MaxOperations = 2
  MaxCrashes = 2
  MaxRecords = 10
  MaxUnlogged = 1
SYMMETRY Symmetry
INVARIANTS
  NothingUncommitted
  DeletedStaysDeleted
  RecoveredExactly
