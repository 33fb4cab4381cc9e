SPECIFICATION FairSpec
CONSTANTS
  Node <- MCThreeNodes
  FirstMaster = 2
  FailOne = 2
  FailTwo = 3
  MaxRetries = 2
  Skew = 1
  Offset <- MCAhead
  Calm = FALSE
  MaxCommit = 1
  MaxCrash = 1
  MaxCut = 1
  MaxReturn = 1
  MaxTime = 1
PROPERTY MasterComesBack
\* Every process may die, and new slaves need the first master.
CHECK_DEADLOCK FALSE
