SPECIFICATION Spec
CONSTANTS
  Txns = {loader, t1, t2, t3}
  Loader = loader
  num_tuple_slots = 2
  loaded = 1
  INVALID_TXN_ID = invalid
  INITIAL_TXN_ID = initial
  MAX_CID = 9
SYMMETRY Symmetry
INVARIANTS
  ReadsSnapshot
  PublishedInPlace
  ReleaseAssertion
  NoLatchLeft
