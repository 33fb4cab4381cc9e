SPECIFICATION ShutdownFairSpec
CONSTANTS
  w1 = w1
  w2 = w2
  w3 = w3
  Worker <- MCWorkers
  MaxChunk = 2
INVARIANTS WritesHaveEnded CommitsWhole
PROPERTY Exits
\* The process stops in the end.
CHECK_DEADLOCK FALSE
