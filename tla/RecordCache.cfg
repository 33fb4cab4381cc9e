SPECIFICATION CacheSpec
CONSTANTS
  r1 = r1
  r2 = r2
  gold = gold
  silver = silver
  Reader <- MCReaders
  Category <- MCCategories
  SameMs = FALSE
  MaxUpdate = 2
INVARIANTS StampIsTrue AnswerAloneIsCurrent CacheAloneIsFresh
