SPECIFICATION DSpec
CONSTANTS
  Threads = {1, 2, 3, 4}
  None = None
  PrioOf <- ThreePrios
  MaxBlocked = 4
  Priors = {TRUE, FALSE}
  Count = 0
  Kind = "SEM"
  Lockers = {1, 2, 3, 4}
  Sleepers = {1}
  Timed = {1}
  Handlers = FALSE
  MaxPreempt = 1
  MaxToken = 1
INVARIANTS WaitersOK NeverStale
PROPERTY IsRenewable
CHECK_DEADLOCK FALSE
