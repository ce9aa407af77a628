-------------------------------- MODULE Lifespan --------------------------------
(***************************************************************************)
(* The life of the gateway's process: main() opens the database and Redis,  *)
(* the app's lifespan brings up the services on top of them, uvicorn serves *)
(* requests, and the way back takes them down. Requests leave background    *)
(* writes behind (events, request logs) that nobody waits for, and the      *)
(* database pool opens itself again when somebody asks for it.              *)
(***************************************************************************)
EXTENDS Naturals, Sequences

CONSTANTS MaxRequests

VARIABLES
  enabled,   \* the optional parts the configuration asks for
  stage,     \* "starting", "serving", "draining", "stopping", "closing" or "ended"
  next,      \* how many parts have been brought up, or stopped
  live,      \* the parts that are up
  failed,    \* some part could not be brought up, or stopped
  requests,  \* in flight
  writes,    \* background writes of requests that ended
  late       \* one of them, or the purger, opened the pool again

Optional == {"redis", "telemetry", "purger", "webhook"}
(* main() brings up the first two, the lifespan the rest.                   *)
Parts == <<"db", "redis", "migrations", "registry", "headers", "policy", "credentials", "providers",
           "telemetry", "purger", "webhook">>
(* What shutdown stops, in its order, at last the upstream clients that     *)
(* requests left in their cache; then main()'s finally.                     *)
Stops == <<"webhook", "purger", "telemetry", "providers", "credentials", "clients">>
Closes == <<"db", "redis">>
Wanted == {Parts[i] : i \in 1..Len(Parts)} \ (Optional \ enabled)

LsInit == /\ enabled \in SUBSET Optional
          /\ stage = "starting" /\ next = 0 /\ live = {} /\ failed = FALSE
          /\ requests = 0 /\ writes = 0 /\ late = FALSE

Bring ==
  /\ stage = "starting"
  /\ live' = live \cup ({Parts[next + 1]} \cap Wanted)
  /\ next' = next + 1 /\ stage' = IF next + 1 = Len(Parts) THEN "serving" ELSE "starting"
  /\ UNCHANGED <<enabled, failed, requests, writes, late>>
(* A part raises: connecting, an unapplied migration, a bad row or header,  *)
(* no policy, AUTH_MODE=client_key without CLIENT_API_KEY. What the         *)
(* lifespan has started stays started.                                      *)
BringFails ==
  /\ stage = "starting" /\ Parts[next + 1] \in Wanted
  /\ stage' = "closing" /\ next' = 0 /\ failed' = TRUE
  /\ UNCHANGED <<enabled, live, requests, writes, late>>

Request == /\ stage = "serving" /\ requests + writes < MaxRequests
           /\ requests' = requests + 1 /\ live' = live \cup {"clients"}
           /\ UNCHANGED <<enabled, stage, next, failed, writes, late>>
Respond == /\ requests > 0
           /\ requests' = requests - 1 /\ writes' = writes + 1
           /\ UNCHANGED <<enabled, stage, next, live, failed, late>>

(* get_pool: a closed pool is a pool that was never opened.                 *)
GetPool == /\ live' = live \cup {"db"}
           /\ late' = (late \/ "db" \notin live)
Write == /\ writes > 0 /\ writes' = writes - 1 /\ GetPool /\ stage # "ended"
         /\ UNCHANGED <<enabled, stage, next, failed, requests>>
Purge == /\ "purger" \in live /\ GetPool /\ stage # "ended"
         /\ UNCHANGED <<enabled, stage, next, failed, requests, writes>>

(* uvicorn: a signal stops new requests, and the lifespan shuts down when   *)
(* those in flight have been answered.                                      *)
Signal == /\ stage = "serving" /\ stage' = "draining"
          /\ UNCHANGED <<enabled, next, live, failed, requests, writes, late>>
DrainsNothing == TRUE
Drained == requests = 0
ShutDown == /\ stage = "draining" /\ Drained
            /\ stage' = "stopping" /\ next' = 0
            /\ UNCHANGED <<enabled, live, failed, requests, writes, late>>
Stop ==
  /\ stage = "stopping"
  /\ live' = live \ {Stops[next + 1]}
  /\ IF next + 1 = Len(Stops) THEN stage' = "closing" /\ next' = 0
                              ELSE next' = next + 1 /\ UNCHANGED stage
  /\ UNCHANGED <<enabled, failed, requests, writes, late>>
(* A stop that raises skips the ones after it.                              *)
StopFails ==
  /\ stage = "stopping" /\ Stops[next + 1] \in Wanted \cup {"clients"}
  /\ stage' = "closing" /\ next' = 0 /\ failed' = TRUE
  /\ UNCHANGED <<enabled, live, requests, writes, late>>

Close ==
  /\ stage = "closing" /\ next < Len(Closes)
  /\ live' = live \ {Closes[next + 1]} /\ next' = next + 1
  /\ UNCHANGED <<enabled, stage, failed, requests, writes, late>>
(* asyncio.run cancels the tasks that are left.                             *)
End ==
  /\ stage = "closing" /\ next = Len(Closes)
  /\ stage' = "ended" /\ writes' = 0 /\ live' = live \ {"purger", "telemetry"}
  /\ UNCHANGED <<enabled, next, failed, requests, late>>

LsNext == \/ Bring \/ BringFails \/ Request \/ Respond \/ Write \/ Purge \/ Signal
          \/ ShutDown \/ Stop \/ StopFails \/ Close \/ End

-----------------------------------------------------------------------------
(* No request meets a part that is not up yet or already stopped; the pool  *)
(* and Redis are closed after everything that uses them, and closed for     *)
(* good, unless a part failed or a write that a request left behind came    *)
(* after all of it.                                                         *)
LifespanOrder ==
  /\ requests > 0 => Wanted \subseteq live
  /\ stage = "closing" /\ ~failed => live \cap {Stops[i] : i \in 1..Len(Stops)} = {}
  /\ stage = "ended" /\ ~failed /\ ~late => live \cap {"db", "redis"} = {}
  /\ late => failed \/ stage \in {"closing", "ended"}
=============================================================================
