SPECIFICATION Spec
CONSTANTS
  MaxThreads = 5
  MaxPrio = 2
  MaxAtPrio = 5
  AfterTable = 0
  MaxChilds = 3
  SerialCreates = FALSE
  Cancelled = {2, 3, 4}
  ReCancel = FALSE
  EventYields = FALSE
  Moved = {}
INVARIANT
DispatchAssert
CHECK_DEADLOCK FALSE
