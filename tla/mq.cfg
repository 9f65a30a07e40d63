SPECIFICATION Spec
CONSTANTS
  Threads = {1, 2, 3}
  None = None
  PrioOf <- Spread
  MaxMsg = 3
  Msgs = {m1, m2}
  MsgPrios = {1, 2}
  Senders = {1}
  Receivers = {2, 3}
  Nonblocking = {2}
  Openers = {3}
  MaxOrder = 4
INVARIANTS Announced PoolExclusive
PROPERTY IsPrioQueue
CHECK_DEADLOCK FALSE
