----------------------------- MODULE ActivityStream -----------------------------
(***************************************************************************)
(* The live activity feed (observability/event_publisher.py and             *)
(* redis_event_publisher.py): publish_event fans an event out to every      *)
(* subscriber, stream_events serves one server-sent-event client. In        *)
(* process a subscriber is a bounded queue, dropped when it is full; over   *)
(* Redis it is a pub/sub connection, which ends with an error event.        *)
(*                                                                         *)
(* An event is its number in the order of publication.                      *)
(***************************************************************************)
EXTENDS Naturals, Sequences

CONSTANTS
  Streams,    (* the clients of the feed *)
  QueueSize,  (* maxsize of a queue: 1000 *)
  MaxEvents   (* bound on the events *)

VARIABLES
  redis,      \* whether the gateway uses the Redis publisher
  published,  \* the number of events published
  queue,      \* queue[s]: what is in the queue, or the connection, of s
  subscribed, \* the streams publish_event knows
  state,      \* state[s]: of the stream
  from,       \* from[s]: the number published when s subscribed
  got,        \* got[s]: the events s has yielded
  lost        \* the events the publisher could not hand to Redis

AsInit ==
  /\ redis \in BOOLEAN /\ published = 0 /\ subscribed = {} /\ lost = {}
  /\ queue = [s \in Streams |-> <<>>] /\ state = [s \in Streams |-> "new"]
  /\ from = [s \in Streams |-> 0] /\ got = [s \in Streams |-> <<>>]

Subscribe(s) ==
  /\ state[s] = "new" /\ state' = [state EXCEPT ![s] = "open"]
  /\ subscribed' = subscribed \cup {s}
  /\ from' = [from EXCEPT ![s] = published]
  /\ UNCHANGED <<redis, published, queue, got, lost>>

Slow == {s \in subscribed : ~redis /\ Len(queue[s]) = QueueSize}

\* Mutant: a full queue loses the event, and its subscriber stays.
DroppedNone == {}
Dropped == Slow

Publish ==
  LET n == published + 1 IN
  /\ published < MaxEvents /\ published' = n
  /\ queue' = [s \in Streams |-> IF s \in subscribed \ Slow THEN Append(queue[s], n) ELSE queue[s]]
  /\ subscribed' = subscribed \ Dropped
  /\ UNCHANGED <<redis, state, from, got, lost>>

\* redis.publish raised: the request goes on without the event.
PublishFails ==
  /\ redis /\ published < MaxEvents /\ published' = published + 1
  /\ lost' = lost \cup {published + 1}
  /\ UNCHANGED <<redis, queue, subscribed, state, from, got>>

Yield(s) ==
  /\ state[s] = "open" /\ queue[s] # <<>>
  /\ got' = [got EXCEPT ![s] = Append(@, Head(queue[s]))]
  /\ queue' = [queue EXCEPT ![s] = Tail(@)]
  /\ UNCHANGED <<redis, published, subscribed, state, from, lost>>

\* The client goes away, or the Redis connection fails.
Close(s) ==
  /\ state[s] = "open"
  /\ \/ state' = [state EXCEPT ![s] = "closed"]
     \/ redis /\ state' = [state EXCEPT ![s] = "error"]
  /\ subscribed' = subscribed \ {s} /\ queue' = [queue EXCEPT ![s] = <<>>]
  /\ UNCHANGED <<redis, published, from, got, lost>>

AsNext ==
  \/ Publish \/ PublishFails
  \/ \E s \in Streams : Subscribe(s) \/ Yield(s) \/ Close(s)

-----------------------------------------------------------------------------
(* A stream shows the events from its subscription on, in order and without *)
(* a gap, except those Redis did not take: a client that is too slow stops  *)
(* receiving altogether, and never misses an event in the middle. A stream  *)
(* that is subscribed has, or is about to yield, all of them.               *)
NoGaps ==
  \A s \in Streams : state[s] # "new" =>
    LET seen == got[s] \o queue[s] IN
    /\ \A i, j \in DOMAIN seen : i < j => seen[i] < seen[j]
    /\ \E last \in from[s]..published :
         /\ {seen[i] : i \in DOMAIN seen} = {n \in (from[s] + 1)..last : n \notin lost}
         /\ s \in subscribed => last = published
=============================================================================
