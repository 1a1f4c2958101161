CONSTANTS
  t1 = t1
  t2 = t2
  g = g
  c = c
  Null = Null
  Thread = {t1, t2}
  FileSink = {g}
  Cascade = {c}
  Global = g
  ThreadSafe = {g, c}
  Careful = {t1}
  MaxEvents = 2
  MaxSwitches = 1

SPECIFICATION FairSpec
PROPERTIES ImplementsDelivery CallsReturn EventuallyWritten
INVARIANTS TypeOK NoRace NoUseAfterDestroy NoWaitCycle RouteOrder
