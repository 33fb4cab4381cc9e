SPECIFICATION FairSpec
CONSTANTS
  m = m
  s1 = s1
  s2 = s2
  NoNode = NoNode
  Master = m
  Node <- MCNode
  Pointed <- MCPointed
  Limit = 0
  Crashable <- MCNode
  Lossy <- MCSlaves
  MaxTxn = 2
  MaxDrop = 1
  MaxCrash = 1
INVARIANTS SlaveLogIsPrefix FollowsMaster ReadyHasCaughtUp
PROPERTIES ReplicatesTheLog EveryCommitReplicates
\* A failed comparison ends the sync thread of a slave for good.
CHECK_DEADLOCK FALSE
