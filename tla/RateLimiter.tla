------------------------------ MODULE RateLimiter ------------------------------
(***************************************************************************)
(* TokenBucketRateLimiter (rate_limit.py): one bucket per client key, kept  *)
(* in an OrderedDict of at most max_keys entries, least recently used first.*)
(* check() suspends nowhere: its locks are released before any coroutine    *)
(* can find them taken, so a check is one step.                             *)
(*                                                                         *)
(* A bucket counts in 60ths of a token, so a second adds rpm of them.       *)
(***************************************************************************)
EXTENDS Integers, Sequences, SequencesExt

CONSTANTS
  Keys,       (* the client keys *)
  Rpm, Burst, (* the limit: requests a minute, capacity in tokens *)
  MaxKeys,    (* max_keys *)
  MaxClock    (* bound on the clock, in seconds *)

VARIABLES
  clock,     \* time.monotonic()
  buckets,   \* _buckets: a sequence of [key, units, at], and for the property
             \* when each was made and what it has granted since
  promise,   \* promise[k]: when the last denial said the next token is there
  order      \* the keys by their last check, latest last

Token    == 60
Full     == Burst * Token
NoPromise == -1

RlInit ==
  /\ clock = 0 /\ buckets = <<>> /\ order = <<>>
  /\ promise = [k \in Keys |-> NoPromise]

Position(s, k) == CHOOSE n \in DOMAIN s : s[n] = k
BucketKeys == [n \in DOMAIN buckets |-> buckets[n].key]
Known(k)   == Contains(BucketKeys, k)
Place(k)   == Position(BucketKeys, k)

Least(a, b) == IF a <= b THEN a ELSE b
Refilled(b) == [b EXCEPT !.units = Least(Full, @ + (clock - b.at) * Rpm), !.at = clock]

\* The bucket of k, refilled; a new one is full.
Bucket(k) ==
  IF Known(k) THEN Refilled(buckets[Place(k)])
  ELSE [key |-> k, units |-> Full, at |-> clock, made |-> clock, granted |-> 0]

\* The other buckets; a new key evicts the first when they are max_keys.
Others(k) ==
  IF Known(k) THEN RemoveAt(buckets, Place(k))
  ELSE IF Len(buckets) = MaxKeys THEN Tail(buckets) ELSE buckets

\* Mutant: a denied check does not move its key to the end.
PlacedUnlessDenied(k, b) ==
  IF Known(k) /\ Bucket(k).units < Token THEN [buckets EXCEPT ![Place(k)] = b]
  ELSE Append(Others(k), b)

\* _get_or_create_bucket moves the key to the end.
Placed(k, b) == Append(Others(k), b)

\* The keys by their last check, k latest.
Latest(k) ==
  Append(IF Contains(order, k) THEN RemoveAt(order, Position(order, k)) ELSE order, k)

CeilDiv(a, b) == (a + b - 1) \div b
RetryAfter(units) == CeilDiv(Token - units, Rpm)

Check(k) ==
  LET b == Bucket(k) IN
  /\ order' = Latest(k)
  /\ \/ /\ b.units < Token
        /\ buckets' = Placed(k, b)
        /\ promise' = [promise EXCEPT ![k] = clock + RetryAfter(b.units)]
     \/ /\ b.units >= Token
        /\ buckets' = Placed(k, [b EXCEPT !.units = @ - Token, !.granted = @ + 1])
        /\ promise' = [promise EXCEPT ![k] = NoPromise]
  /\ UNCHANGED clock

Second == clock < MaxClock /\ clock' = clock + 1 /\ UNCHANGED <<buckets, promise, order>>

RlNext == Second \/ \E k \in Keys : Check(k)

-----------------------------------------------------------------------------
(* The limit holds and the limiter does not mislead. A bucket grants a      *)
(* burst and the refill of its lifetime, no more; a client that waits for   *)
(* retry_after finds a token; and the keys that lost their buckets are      *)
(* those checked longest ago ("a key that is actively retrying is never the *)
(* LRU victim").                                                            *)
LimitHonored ==
  /\ \A n \in DOMAIN buckets :
       buckets[n].granted * Token <= Full + (clock - buckets[n].made) * Rpm
  /\ \A k \in Keys : promise[k] # NoPromise /\ clock >= promise[k] => Bucket(k).units >= Token
  /\ BucketKeys = SubSeq(order, Len(order) - Len(buckets) + 1, Len(order))
=============================================================================
