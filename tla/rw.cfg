SPECIFICATION Spec
CONSTANTS
  Threads = {1, 2, 3, 4}
  NULL = NULL
  One = One
  PrioOf <- Mixed
  Mutexes = {self}
  Conds = {rlock, wlock}
  Self = self
  ReadersLock = rlock
  WritersLock = wlock
  Readers = {1, 2}
  Writers = {3, 4}
INVARIANTS Exclusive CountersOK
CHECK_DEADLOCK FALSE
