----------------------------- MODULE UsageTelemetry -----------------------------
(***************************************************************************)
(* Usage telemetry: requests are counted by UsageCollector (collector.py),  *)
(* and TelemetrySender (sender.py) posts the counters of every interval and *)
(* once more at shutdown. A counter is kept as the set of the requests it   *)
(* counted, so that what is counted twice or lost can be told.              *)
(***************************************************************************)
EXTENDS Naturals, FiniteSets

CONSTANTS
  Requests,   (* the requests of the process's life *)
  MaxSends    (* bound on the intervals *)

VARIABLES
  accepted, completed,  \* what was ever counted
  counters,  \* the collector: [accepted, completed] since the last reset
  posts,     \* the snapshots that went to a POST, and how each ended
  loop,      \* the periodic task
  stopping,  \* where stop() is
  due        \* history: all that was counted when stop() made its last send

Zero   == [accepted |-> {}, completed |-> {}]
HasData(c) == c # Zero

\* resolve_telemetry_config: the environment, then the database, then enabled.
\* A database that fails counts for one that says nothing.
Resolved(env, db) == IF env # "unset" THEN env = "on" ELSE db # "off"

UtInit ==
  /\ accepted = {} /\ completed = {} /\ counters = Zero /\ posts = {}
  /\ \E env \in {"unset", "on", "off"}, db \in {"none", "failed", "unset", "on", "off"} :
       loop = IF Resolved(env, db) THEN "sleeping" ELSE "disabled"
  /\ stopping = "no" /\ due = Zero

\* Nothing is counted when telemetry is off: main() makes no collector.
Accept(r) ==
  /\ loop # "disabled" /\ r \notin accepted
  /\ accepted' = accepted \cup {r}
  /\ counters' = [counters EXCEPT !.accepted = @ \cup {r}]
  /\ UNCHANGED <<completed, posts, loop, stopping, due>>

Complete(r) ==
  /\ r \in accepted \ completed
  /\ completed' = completed \cup {r}
  /\ counters' = [counters EXCEPT !.completed = @ \cup {r}]
  /\ UNCHANGED <<accepted, posts, loop, stopping, due>>

SnapshotAndReset == counters' = Zero

\* send_once up to the POST: nothing is sent for an interval without data.
Take(end) ==
  /\ SnapshotAndReset
  /\ posts' = IF HasData(counters)
                THEN posts \cup {[n |-> Cardinality(posts), what |-> counters, end |-> end]} ELSE posts

Wakes ==
  /\ loop = "sleeping" /\ Cardinality(posts) < MaxSends
  /\ Take("open") /\ loop' = IF HasData(counters) THEN "posting" ELSE "sleeping"
  /\ UNCHANGED <<accepted, completed, stopping, due>>

Ended(end) == {IF p.end = "open" THEN [p EXCEPT !.end = end] ELSE p : p \in posts}

\* An answer of any status ends the POST, an exception is logged: no retry.
Posted ==
  /\ loop = "posting" /\ \E end \in {"answered", "failed"} : posts' = Ended(end)
  /\ loop' = "sleeping"
  /\ UNCHANGED <<accepted, completed, counters, stopping, due>>

\* stop(): cancel the loop, wherever it is, then a last send_once.
Stop ==
  /\ stopping = "no" /\ loop # "disabled" /\ stopping' = "cancelling"
  /\ UNCHANGED <<accepted, completed, counters, posts, loop, due>>

LoopCancelled ==
  /\ stopping = "cancelling" /\ loop' = "cancelled"
  /\ IF loop = "posting" THEN posts' = Ended("cancelled") ELSE UNCHANGED posts
  /\ stopping' = "flushing"
  /\ UNCHANGED <<accepted, completed, counters, due>>

Stopped == stopping = "flushing" /\ stopping' = "stopped" /\ due' = [accepted |-> accepted, completed |-> completed]
\* Mutant: stop() ends the loop and sends nothing more.
StopUnsent == Stopped /\ UNCHANGED <<accepted, completed, counters, posts, loop>>
LastSend ==
  /\ Stopped /\ \E end \in {"answered", "failed"} : Take(end)
  /\ UNCHANGED <<accepted, completed, loop>>

UtNext ==
  \/ \E r \in Requests : Accept(r) \/ Complete(r)
  \/ Wakes \/ Posted \/ Stop \/ LoopCancelled \/ LastSend

-----------------------------------------------------------------------------
(* What is counted is reported in one interval or is still in the counters: *)
(* nothing is counted twice, and nothing is lost but with a POST that       *)
(* failed or was cancelled; when stop() is over no POST is open, and all    *)
(* that was counted before its last send went to one.                       *)
CountedOnce ==
  /\ (UNION {p.what.accepted : p \in posts}) \cup counters.accepted = accepted
  /\ (UNION {p.what.completed : p \in posts}) \cup counters.completed = completed
  /\ \A p \in posts :
       /\ p.what.accepted \cap counters.accepted = {} /\ p.what.completed \cap counters.completed = {}
       /\ \A q \in posts \ {p} :
            /\ p.what.accepted \cap q.what.accepted = {} /\ p.what.completed \cap q.what.completed = {}
            /\ p.end = "open" => q.end # "open"
       /\ stopping \in {"flushing", "stopped"} => p.end # "open"
  /\ due.accepted \cap counters.accepted = {} /\ due.completed \cap counters.completed = {}
=============================================================================
