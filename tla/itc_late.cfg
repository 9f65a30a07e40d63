SPECIFICATION FairSpec
CONSTANTS
  Threads = {1, 2, 3}
  None = None
  PrioOf <- TwoPrios
  MaxBlocked = 4
  Priors = {FALSE}
  Count = 0
  Kind = "SEM"
  Lockers = {1, 2, 3}
  Sleepers = {}
  Timed = {1}
  Handlers = TRUE
  MaxPreempt = 1
  MaxToken = 1
PROPERTIES NoStarvation
CHECK_DEADLOCK FALSE
