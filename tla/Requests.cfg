CONSTANTS
  Call = {c1, c2}
  MaxEvents = 2
  MaxItems = 2
  Result = {"pass", "block"}
  Bails = {"block"}
  MaxAttempts = 2
  OnError = "block"
  Creds = {a, b}
  CacheSize = 1
SPECIFICATION RequestsSpec
INVARIANTS
  WebhookExactlyOnce
  SuccessMeansDelivered
  NoSilentEnd
  SinksAgree
  ResultsFaithful
  NothingLeaks
PROPERTIES
  EveryCallEnds
  CollectReturns
  Orchestrates
CHECK_DEADLOCK FALSE
