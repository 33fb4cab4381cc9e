SPECIFICATION Spec
CONSTANTS
  a = a
  b = b
  w1 = w1
  w2 = w2
  x1 = x1
  x2 = x2
  NoItem = none
  Item <- MCItems
  Lang <- MCLangs
  Worker <- MCWorkers
  Indexer <- MCIndexers
  MaxQueue = 1
  MaxChange = 3
  MaxCrash = 1
  MaxCommand = 2
  MaxRebuild = 1
  MaxThrow = 1
SYMMETRY MCSymmetry
INVARIANTS IndexIsCurrent FoundIsStored 
\* All the changes may have been made.
CHECK_DEADLOCK FALSE
