SPECIFICATION FairSpec
CONSTANTS
  Backends = {b1, b2}
  MaxRecords = 3
  MayTerminate = FALSE
  MayFail = FALSE
PROPERTY WaitEnds
