CONSTANTS
  Null = Null
  t1 = t1
  t2 = t2
  Thread = {t1, t2}
  Pointer <- MCPointer
  Text <- MCText
  Time = {107, 2150}
  CategoryName <- MCCategoryName
  BlockSizeEnv <- MCBlockSizeEnv
  INT_MAX = 127
  LONG_MAX = 32767
  Request <- MCRequest
  Flag = {1}
  MetadataType = {"process_labels", "thread_sort_index"}
  MaxMarks = 2

SPECIFICATION Spec
CONSTRAINT TextsOrBlocks
SYMMETRY Symmetry
INVARIANTS RoundTrip ScopesNest EventsLandInBlocks
CHECK_DEADLOCK FALSE
