SPECIFICATION CredentialSpec
CONSTANTS
  Req = {r1, r2}
  Key = {k1}
  ValidTTL = 2
  InvalidTTL = 1
  AskTimeout = 1
  MaxClock = 6
SYMMETRY Symmetry
PROPERTY RejectedKeyLeavesCache
CHECK_DEADLOCK FALSE
