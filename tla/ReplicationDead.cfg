SPECIFICATION FairSpec
CONSTANTS
  m = m
  s1 = s1
  s2 = s2
  NoNode = NoNode
  Master = m
  Node <- MCTwoNodes
  Pointed <- MCPointedTwo
  Limit = 0
  Crashable <- MCNone
  Lossy <- MCNone
  MaxTxn = 2
  MaxDrop = 1
  MaxCrash = 0
PROPERTY EverySlaveReplicates
\* A failed comparison ends the sync thread of a slave for good.
CHECK_DEADLOCK FALSE
