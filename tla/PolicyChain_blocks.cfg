CONSTANTS
  Policies = {"welcome", "replace"}
  MaxChain = 2
  MaxBlocks = 2
  MaxDeltas = 2
SPECIFICATION Spec
INVARIANT TextStaysInBlock
CHECK_DEADLOCK FALSE
