CONSTANTS
  NoFile = NoFile
  cnt_for_all_percentiles = 3
  Benchmark <- MCBenchmark
  NumIters = {0, 1, 2}
  NumThreads = {1, 2, 3}

SPECIFICATION Spec
INVARIANTS ResultsComplete OneEntryPerThread
CHECK_DEADLOCK FALSE
