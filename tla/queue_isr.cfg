SPECIFICATION QSpec
CONSTANTS
  r1 = r1
  r2 = r2
  r3 = r3
  m1 = m1
  m2 = m2
  Threads = {r1, r2, r3}
  None = None
  PrioOf <- ReceiversFirst
  MaxBlocked = 3
  Priors = {TRUE, FALSE}
  Count = 0
  Kind = "S_QUEUE"
  Lockers = {r1, r2, r3}
  Sleepers = {}
  Timed = {r1}
  Handlers = TRUE
  MaxPreempt = 1
  MaxToken = 4
  Size = 2
  Senders = {}
  Paced = TRUE
  Msgs = {m1, m2}
SYMMETRY Symmetry
INVARIANTS TypeOK WaitersOK
PROPERTIES IsFifo IsSemaphore
CHECK_DEADLOCK FALSE
