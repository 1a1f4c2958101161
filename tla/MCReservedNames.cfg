CONSTANTS
  Letter = {"a", "b", "c", "x"}
  Digit = {"1", "2"}
  Name <- MCNameAndReserved
  Category <- MCCategory
  Looked <- MCLooked
  NumCategories = 5
  MaxUserCategories = 3
  ReservedName <- MCReservedName

SPECIFICATION Spec
INVARIANT DistinctNames
CHECK_DEADLOCK FALSE
