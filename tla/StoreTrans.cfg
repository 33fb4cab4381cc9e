SPECIFICATION FairSpec
CONSTANTS
  w1 = w1
  w2 = w2
  p1 = p1
  k1 = k1
  k2 = k2
  va = va
  vb = vb
  Absent = Absent
  Workers <- MCWorkers
  Pollers <- MCPollers
  Keys <- MCKeys
  Values <- MCValues
  Items <- MCDisjointItems
  Exclusive = TRUE
  Limit = 0
  MaxLog = 3
  MaxCrash = 1
  MaxFail = 1
INVARIANTS CopyIsPrefix CaughtUpHasAcked GapsAreInFlight DataFollowsLog
PROPERTIES LogAppendOnly AckedIsReplicated
