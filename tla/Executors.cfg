SPECIFICATION Spec
CONSTANTS
  Keys <- MCKeys
  SortedKeys <- MCSortedKeys
  MaxTiles = 2
  MaxRows = 2
  Excluded <- MCExcluded
\* An executor that has said that it has no more tiles is not called again.
CHECK_DEADLOCK FALSE
INVARIANTS
  
  
  SetOpCorrect
PROPERTY Ends
