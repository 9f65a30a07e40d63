SPECIFICATION Spec
CONSTANTS
  Threads = {t1, t2}
  None = None
  NHeaps = 2
  MaxNum = 3
  Sizes = {1, 3}
  Areas = {a1}
SYMMETRY Alike
INVARIANTS HeapsCounted BlocksCounted SearchEnds
PROPERTY IsBlockPool
CHECK_DEADLOCK FALSE
