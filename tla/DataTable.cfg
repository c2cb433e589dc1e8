SPECIFICATION FairSpec
CONSTANTS
  Txns = {t1, t2}
  Tuples <- MCTuples
  Loaded <- MCLoaded
  index_count = 2
  Unique <- MCUnique
  tuples_per_tilegroup = 1
  Overlap = FALSE
  INVALID_TXN_ID = INVALID_TXN_ID
  INITIAL_TXN_ID = INITIAL_TXN_ID
  MAX_CID = 9
  MaxOps = 2
  MaxTransforms = 1
  MaxOid = 12
INVARIANTS TypeOK GroupsFull  Indexed UniqueUnlessConcurrent
PROPERTY InsertEnds
CHECK_DEADLOCK FALSE
