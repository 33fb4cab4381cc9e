SPECIFICATION Spec
CONSTANTS
  colour = colour
  size = size
  red = red
  blue = blue
  bar = bar
  inn = inn
  Unknown = unknown
  Blank = blank
  Refused = refused
  Name <- MCNames
  Value <- MCValues
  Category <- MCCategories
  Kind <- MCKinds
  Id <- MCIds
  Score <- MCScores
  Grain = 2
  Wide = 16
  MaxKey = 3
  MaxRules = 2
  MaxWeight = 1
  Stem <- MCStem
  MergeLimit = 1
  MaxShin = 2
  MinStem = 4
  Letter <- MCLetters
  MaxList = 2
  MaxItems = 2
  Text <- MCTexts
INVARIANTS TagsAreMerged CategoriesAreMerged BestFirst TextIsFound
\* A function is applied once.
CHECK_DEADLOCK FALSE
