SPECIFICATION Spec
CONSTANTS
  Names = {a, b}
  Nil = Nil
  Modes = {"dir", "reg", "blk"}
  MaxNodes = 5
  MaxDepth = 3
INVARIANTS Findable LookupExact
PROPERTY NothingBelowMounts
CHECK_DEADLOCK FALSE
