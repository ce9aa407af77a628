SPECIFICATION StoresSpec
CONSTANTS
  Req = {r1, r2}
  Key = {k1}
  ValidTTL = 2
  InvalidTTL = 1
  AskTimeout = 1
  MaxClock = 6
  Call = {1, 2}
  Session = {"s"}
  About <- MCAbout
  MaxEvents = 3
  CallSpan = 1
  MaxTime = 3
  Replica = {g1, g2}
  Days = 1
  BatchSize = 1
  MaxFailures = 1
SYMMETRY Symmetry
INVARIANTS
  OnlyProvenKeysForwarded
  VerdictWasTrue
  SummariesTell
PROPERTIES
  TrustBounded
  RetentionKept
  SweepComplete
CHECK_DEADLOCK FALSE
