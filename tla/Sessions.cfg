SPECIFICATION Spec
CONSTANTS
  m = m
  s1 = s1
  old = old
  new = new
  Node <- MCNodes
  Master = m
  Pass <- MCPasswords
  Lifetime = 2
  MaxSkew = 1
  MaxTime = 4
  MaxChange = 2
  MaxSession = 1
  MaxBusy = 1
SYMMETRY MCSymmetry
INVARIANTS SessionIsEarned KeyEndsSessions LivesItsLifetime
