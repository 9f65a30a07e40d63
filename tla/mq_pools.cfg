SPECIFICATION Spec
CONSTANTS
  Threads = {t1, t2}
  None = None
  Names = {a, b}
  NumberOfQueues = 3
  NumberOfFiles = 2
INVARIANTS NamesUnique SlotsSpent ReachesOwn SectionKept
CHECK_DEADLOCK FALSE
