SPECIFICATION CondSpec
CONSTANTS
  Threads = {1, 2, 3, 4}
  NULL = NULL
  One = One
  PrioOf <- PairFirst
  Mutexes = {mutex}
  Conds = {cond}
  Mutex = mutex
  Cond = cond
INVARIANTS WaitersOK SyncAsserts InsideOwns
CHECK_DEADLOCK FALSE
