CONSTANTS
  Letter = {"a", "b", "c", "x"}
  Digit = {"1", "2"}
  Name <- MCName
  Category <- MCCategory
  Looked <- MCLooked
  NumCategories = 5
  MaxUserCategories = 3
  ReservedName <- MCReservedName

SPECIFICATION Spec
INVARIANTS TypeOK UniqueNames NamesCurrent
PROPERTIES OnlyRenamedOnRequest RefusalChangesNothing FreeFlagFound
CHECK_DEADLOCK FALSE
