SPECIFICATION FairSpec
CONSTANTS
  s1 = s1
  s2 = s2
  Master = master
  None = none
  Slave <- MCSlaves
  Threads <- MCThreads
  MaxWrite = 3
  MaxDeath = 1
  MaxThrow = 1
INVARIANTS StuckIsAJam AnswersAreTrue
PROPERTY EveryHandlerEnds
\* All the writes may have been answered.
CHECK_DEADLOCK FALSE
