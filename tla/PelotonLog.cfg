SPECIFICATION Spec
CONSTANTS
  Txns = {t1, t2}
  MaxOps = 2
  MaxOid = 3
  INVALID_OID = 7
  MaxCrashes = 1
SYMMETRY Symmetry
\* Every transaction ends, and after the last crash nothing goes on once
\* recovery is over.
CHECK_DEADLOCK FALSE
INVARIANTS
  
  LoggedRecoverable
  
  
  ListsDropped
