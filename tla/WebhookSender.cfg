SPECIFICATION FairSpec
CONSTANTS
  Tx = {t1, t2, t3}
  MaxRetries = 1
  MaxPending = 2
INVARIANTS
  QuietAfterStop
  CountersTellLosses
PROPERTIES
  KeepsPromise
  SenderSettles
CHECK_DEADLOCK FALSE
