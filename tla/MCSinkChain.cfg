CONSTANTS
  t1 = t1
  t2 = t2
  g = g
  f = f
  c = c
  d = d
  Null = Null
  Thread = {t1, t2}
  FileSink = {g, f}
  Cascade = {c, d}
  Global = g
  ThreadSafe = {g, c, d}
  Careful = {t1, t2}
  MaxEvents = 1
  MaxSwitches = 2

SPECIFICATION Spec
SYMMETRY Symmetry
INVARIANT ChosenFile
