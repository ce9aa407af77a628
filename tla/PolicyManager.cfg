SPECIFICATION MCSpec
CONSTANTS
  r1 = r1
  r2 = r2
  c1 = c1
  c2 = c2
  Replica = {r1, r2}
  Change = {c1, c2}
  Chain <- MCChain
  Files <- MCFiles
  MaxCrashes = 1
INVARIANTS
  ServesStored
PROPERTIES
  AckedIsStored
  LockComesBack
CHECK_DEADLOCK FALSE
