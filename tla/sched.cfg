SPECIFICATION FairSpec
CONSTANTS
  MaxThreads = 4
  MaxPrio = 3
  MaxAtPrio = 3
  AfterTable = 0
  MaxChilds = 3
  SerialCreates = TRUE
  Cancelled = {3}
  ReCancel = FALSE
  EventYields = TRUE
  Moved = {2}
INVARIANTS
  TypeOK
  ScheduleIntegrity
  CountOK
  FamilyOK
  JoinOK
PROPERTIES
  DispatchIsHighest
  BuryAssert
  JoinReturns
  CleanReuse
  ZombiesAreBuried
  JoinersWake
CHECK_DEADLOCK FALSE
