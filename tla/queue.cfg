SPECIFICATION QSpec
CONSTANTS
  Threads = {1, 2, 3, 4}
  None = None
  PrioOf <- ReceiversFirst
  MaxBlocked = 4
  Priors = {FALSE}
  Count = 0
  Kind = "S_QUEUE"
  Lockers = {1, 2}
  Sleepers = {1, 2}
  Timed = {}
  Handlers = FALSE
  MaxPreempt = 1
  MaxToken = 4
  Size = 2
  Senders = {3, 4}
  Paced = FALSE
  Msgs = {m1, m2}
PROPERTY IsFifo ConsistencyAssert
CHECK_DEADLOCK FALSE
