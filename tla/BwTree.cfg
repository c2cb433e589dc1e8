SPECIFICATION Spec
CONSTANTS
  Threads = {t1, t2}
  Keys = {1, 2, 3}
  Values = {1}
  unique = TRUE
  leafslotmax = 2
  innerslotmax = 2
  MAX_DELTA_CHAIN_LEN = 1
  Load <- Unloaded
  MaxCalls = 4
CHECK_DEADLOCK FALSE
INVARIANTS
  LeavesOrdered
  ReadsWhatWasThere
  ScanComplete
PROPERTY
  ImplementsMultimap
