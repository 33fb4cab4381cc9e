SPECIFICATION Spec
CONSTANTS
  w1 = w1
  w2 = w2
  a = a
  b = b
  Worker <- MCTwoWorkers
  Name <- MCTwoNames
  Services <- MCServices
  Replicated <- MCNone
  MaxRequest = 3
  MaxPayload = 2
SYMMETRY MCSymmetry
PROPERTY ImplementsRecordStore
INVARIANTS ReservedIsHeld IndexIsSound RefusedChangesNothing NewIdIsFree OneRecordPerName
\* All the requests may have been answered.
CHECK_DEADLOCK FALSE
