CONSTANTS
  t1 = t1
  t2 = t2
  c1 = c1
  d1 = d1
  c2 = c2
  s = s
  n1 = n1
  n2 = n2
  n3 = n3
  Null = Null
  Thread <- MCThread
  Collector <- MCCollector
  Sink <- MCSink
  ThreadOf <- MCThreadOf
  Node <- MCNode
  Request <- MCRequest
  DefaultCapacity = 1
  MaxEvents <- MCMaxEvents

SPECIFICATION Spec
SYMMETRY NodeSymmetry
INVARIANTS TypeOK OwnedOnce Attribution IterationComplete
PROPERTY ImplementsSeqs
