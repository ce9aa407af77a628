CONSTANTS
  Active = {"registry", "limiter", "cache", "telemetry", "feed", "recorder",
            "railway", "config", "migrating", "process", "reader", "gate", "door"}
  Calls = {c1, c2}
  Ttl = 1
  MaxTime = 2
  Shapes = {"claude_code", "absent"}
  MaxWrites = 1
  StartShapes = {"claude_code", "unknown_backend"}
  Keys = {k1, k2, k3}
  Rpm = 40
  Burst = 2
  MaxKeys = 2
  Writers = {w1, w2}
  CacheKeys = {1, 2, 3}
  MaxEntries = 1
  MaxClock = 2
  MaxLeaks = 2
  Requests = {r1, r2}
  MaxSends = 3
  Streams = {s1, s2}
  QueueSize = 2
  MaxEvents = 4
  Callers = {p1, p2}
  Names = {n1}
  MaxProjects = 2
  Admins = {a1, a2}
  Values = {"d", "v"}
  Default = "d"
  Local = "local"
  Gateways = {g1, g2}
  Files <- MCFiles
  Marker = 2
  Seeded = 2
  Editable = {2}
  MaxRequests = 2
  Events <- MCEvents
  Queries <- MCQueries
  Limit = 1
  MaxTrail = 4
  MaxMoves = 1
  Guests = {u1}
  Operators = {o1, o2}
  MaxAge = 1
  MaxHours = 4
  MaxChanges = 2
SPECIFICATION FairSpec
INVARIANTS
  BoundedStaleness
  LimitsHold
  CountedOnce
  NoGaps
  LogConsistent
  CreateTells
  RestartAgrees
  ServesOnlyWhole
  LetInRightly
  ListTells
PROPERTY LookupGoesOn
CHECK_DEADLOCK FALSE
