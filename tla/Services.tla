-------------------------------- MODULE Services --------------------------------
(***************************************************************************)
(* The services beside the request path, and what surrounds the running     *)
(* gateway, model-checked in one run: each behaviour picks one of them and  *)
(* takes its steps. They share no state: their interleavings add nothing. *)
(***************************************************************************)
EXTENDS InferenceRegistry, Admission, Integers, Sequences, FiniteSets

CONSTANTS
  Active,        \* those that are checked
  StartShapes,   \* what InferenceRegistry's row may be at the start
  \* RateLimiter
  Keys, Rpm, Burst, MaxKeys,
  \* PolicyCache
  Writers, CacheKeys, MaxEntries, MaxClock, MaxLeaks,
  \* UsageTelemetry, ActivityStream
  Requests, MaxSends, Streams, QueueSize, MaxEvents,
  \* Provisioning
  Callers, Names, MaxProjects,
  \* Configuration
  Admins, Values, Default, Local,
  \* Migrations, Lifespan
  Gateways, Files, Marker, Seeded, Editable, MaxRequests,
  \* Reading, where MaxTrail is its MaxEvents
  Events, Queries, Limit, MaxTrail, MaxMoves

VARIABLES
  active,
  clock, buckets, promise, order,
  serial, rows, put, left, leaks,
  accepted, completed, counters, posts, loop, stopping, due,
  redis, published, queue, subscribed, state, from, got, lost,
  sides, task, stored, dropped, failures,
  project, run,
  field, dotenv, shell, configured, status, flag, local, environ, settings, snapshot, override,
  resolved, used, admin, changed,
  sqlite, schema, recorded, hashes, release, doubtful, gateway,
  enabled, stage, next, live, failed, requests, writes, late,
  postgres, trail, query, listing, moved

Limiter    == INSTANCE RateLimiter
Cache      == INSTANCE PolicyCache
Telemetry  == INSTANCE UsageTelemetry
Feed       == INSTANCE ActivityStream
Recorder   == INSTANCE RequestRecorder
Railway    == INSTANCE Provisioning
Settings   == INSTANCE Configuration WITH row <- configured, stored <- override
Migrating  == INSTANCE Migrations
Process    == INSTANCE Lifespan
Reader     == INSTANCE Reading WITH MaxEvents <- MaxTrail

ASSUME RegistryAssumption ==
  /\ Ttl \in Nat \ {0} /\ MaxTime \in Nat /\ MaxWrites \in Nat
  /\ Shapes \subseteq RowShapes \cup {"absent"}
ASSUME LimiterAssumption  == Rpm \in Nat \ {0} /\ Burst \in Nat \ {0} /\ MaxKeys \in Nat \ {0}
ASSUME CacheAssumption    == IsFiniteSet(Writers) /\ CacheKeys \subseteq Int /\ MaxEntries \in Nat \ {0}
ASSUME RecorderAssumption == IsFiniteSet(Calls)
ASSUME RailwayAssumption  == MaxProjects \in Nat /\ Names # {}
ASSUME ConfigAssumption   == Default \in Values /\ Settings!Unset \notin Values /\ Local # Settings!Unset
ASSUME MigrationAssumption ==
  /\ Files # <<>> /\ Files \in Seq(Seq({"create", "alter"}) \ {<<>>})
  /\ Marker \in 2..Len(Files) /\ Seeded \in 1..Len(Files) /\ Editable \subseteq 1..Len(Files)
ASSUME DoorAssumption     == MaxAge \in Nat
ASSUME ReaderAssumption   ==
  /\ \A e \in Events : e.call = <<e.call[1], e.call[2]>>
  /\ Limit \in Nat \ {0} /\ Queries # {} /\ \A q \in Queries : q.offset \in Nat

limiterVars   == <<buckets, promise, order>>
cacheVars     == <<serial, rows, put, left, leaks>>
telemetryVars == <<accepted, completed, counters, posts, loop, stopping, due>>
feedVars      == <<redis, published, queue, subscribed, state, from, got, lost>>
recorderVars  == <<sides, task, stored, dropped, failures>>
railwayVars   == <<project, run>>
configVars    == <<field, dotenv, shell, configured, status, flag, local, environ, settings, snapshot,
                   override, resolved, used, admin, changed>>
migratingVars == <<sqlite, schema, recorded, hashes, release, doubtful, gateway>>
processVars   == <<enabled, stage, next, live, failed, requests, writes, late>>
readerVars    == <<postgres, trail, query, listing, moved>>
gateVars      == <<keyed, server, editVars, guest, doorVars>>
besideVars    == <<registryVars, clock, limiterVars, cacheVars, telemetryVars, feedVars, recorderVars>>
aroundVars    == <<railwayVars, configVars, migratingVars, processVars, readerVars, gateVars>>
vars == <<active, besideVars, aroundVars>>

\* The services that are not picked stay in one initial state.
Init ==
  /\ active \in Active
  /\ RgInit /\ row.shape \in (IF active = "registry" THEN StartShapes ELSE {"absent"})
            /\ key.shape \in (IF active = "registry" THEN {"auth_token", "unreadable"} ELSE {"absent"})
  /\ Limiter!RlInit
  /\ Cache!PcInit    /\ (active # "cache" => serial)
  /\ Telemetry!UtInit /\ (active # "telemetry" => loop = "sleeping")
  /\ Feed!AsInit     /\ (active # "feed" => redis)
  /\ Recorder!RrInit /\ (active # "recorder" => \A c \in Calls : task[c] = "noop")
  /\ Railway!PrInit
  /\ Settings!CfInit /\ (active # "config" => field = "log_level" /\ {dotenv, shell, configured} = {Default})
  /\ Migrating!MgInit /\ (active # "migrating" => sqlite /\ schema = {} /\ \A g \in Gateways : release[g].files = 0)
  /\ Process!LsInit  /\ (active # "process" => enabled = {})
  /\ Reader!RdInit   /\ (active # "reader" => postgres)
  /\ AdInit /\ (active # "door" => adminKey = "k1" /\ ~bypass)
            /\ (active # "gate" => keyed /\ server)

Picked(service) == active = service /\ UNCHANGED active
Next ==
  \/ /\ Picked("registry") /\ RgNext
     /\ UNCHANGED <<clock, limiterVars, cacheVars, telemetryVars, feedVars, recorderVars, aroundVars>>
  \/ /\ Picked("limiter") /\ Limiter!RlNext
     /\ UNCHANGED <<registryVars, cacheVars, telemetryVars, feedVars, recorderVars, aroundVars>>
  \/ /\ Picked("cache") /\ Cache!PcNext
     /\ UNCHANGED <<registryVars, limiterVars, telemetryVars, feedVars, recorderVars, aroundVars>>
  \/ /\ Picked("telemetry") /\ Telemetry!UtNext
     /\ UNCHANGED <<registryVars, clock, limiterVars, cacheVars, feedVars, recorderVars, aroundVars>>
  \/ /\ Picked("feed") /\ Feed!AsNext
     /\ UNCHANGED <<registryVars, clock, limiterVars, cacheVars, telemetryVars, recorderVars, aroundVars>>
  \/ /\ Picked("recorder") /\ Recorder!RrNext
     /\ UNCHANGED <<registryVars, clock, limiterVars, cacheVars, telemetryVars, feedVars, aroundVars>>
  \/ /\ Picked("railway") /\ Railway!PrNext
     /\ UNCHANGED <<besideVars, configVars, migratingVars, processVars, readerVars, gateVars>>
  \/ /\ Picked("config") /\ Settings!CfNext
     /\ UNCHANGED <<besideVars, railwayVars, migratingVars, processVars, readerVars, gateVars>>
  \/ /\ Picked("migrating") /\ Migrating!MgNext
     /\ UNCHANGED <<besideVars, railwayVars, configVars, processVars, readerVars, gateVars>>
  \/ /\ Picked("process") /\ Process!LsNext
     /\ UNCHANGED <<besideVars, railwayVars, configVars, migratingVars, readerVars, gateVars>>
  \/ /\ Picked("reader") /\ Reader!RdNext
     /\ UNCHANGED <<besideVars, railwayVars, configVars, migratingVars, processVars, gateVars>>
  \/ /\ \/ Picked("gate") /\ GateNext
        \/ Picked("door") /\ DoorNext
     /\ UNCHANGED <<besideVars, railwayVars, configVars, migratingVars, processVars, readerVars>>

Spec == Init /\ [][Next]_vars
(* A coroutine that can run is run; asyncio.Lock wakes its waiters in turn. *)
FairSpec == Spec /\ \A c \in Calls : SF_registryVars(active = "registry" /\ Step(c))

-----------------------------------------------------------------------------
(* The properties of the services, stated in their modules. Those of        *)
(* InferenceRegistry and Admission, whose theorems cite them, are checked as *)
(* they stand there.                                                        *)

(* The rate limit holds, and what a denial promises; the policy cache's cap *)
(* is soft and convergent, on SQLite exceeded by cancelled puts alone.      *)
LimitsHold       == Limiter!LimitHonored /\ Cache!CapHolds
(* Usage is reported once, and lost only with a failed POST.                *)
CountedOnce      == Telemetry!CountedOnce
(* The activity feed has no gaps.                                           *)
NoGaps           == Feed!NoGaps
(* The rows of a request are consistent.                                    *)
LogConsistent    == Recorder!LogConsistent
(* An instance whose creation is reported works, nobody tidies it away, and *)
(* no other has its name.                                                   *)
CreateTells      == Railway!CreateTells /\ Railway!OneProjectPerName
(* What is in force, of the configuration and of the auth mode, is what a   *)
(* restart would bring, and what the dashboard reports.                     *)
RestartAgrees    == Settings!RestartAgrees /\ Settings!ReportedIsUsed /\ ModeAgrees
(* A gateway serves only on a migrated database, and uses nothing before it *)
(* is up or after it is down.                                               *)
ServesOnlyWhole  == Migrating!UpMeansMigrated /\ Process!LifespanOrder
(* The list of sessions tells what their details tell, ...                  *)
ListTells        == Reader!ListTells
(* ... and its time filter goes by the last activity.                       *)
TimeFilterTrue   == Reader!TimeFilterTrue
=============================================================================
