SPECIFICATION Spec
CONSTANTS
  Node <- MCThreeNodes
  FirstMaster = 2
  FailOne = 3
  FailTwo = 5
  MaxRetries = 2
  Skew = 1
  Offset <- MCAhead
  Calm = TRUE
  MaxCommit = 3
  MaxCrash = 1
  MaxCut = 0
  MaxReturn = 0
  MaxTime = 3
INVARIANTS OneMaster LogsAgree
PROPERTY WinnerHasMost
\* Every process may die, and new slaves need the first master.
CHECK_DEADLOCK FALSE
