CONSTANTS
  MaxItems = 2
  Result = {"pass", "block"}
  Bails = {"block"}
SPECIFICATION Spec
INVARIANT LaterBailed
CHECK_DEADLOCK FALSE
