SPECIFICATION FairSpec
CONSTANTS
  Threads = {t1}
  Keys = {1, 2, 3, 4, 5}
  Values = {1, 2}
  unique = FALSE
  leafslotmax = 2
  innerslotmax = 2
  MAX_DELTA_CHAIN_LEN = 1
  Load <- LoadFour
  MaxCalls = 3
INVARIANTS
  Routed
  LookupComplete

  
