--------------------------- MODULE CredentialCache ---------------------------
(***************************************************************************)
(* Passthrough authentication (credential_manager.py, gateway_routes.py,    *)
(* utils/credential_cache.py): a request's credential is looked up in a     *)
(* cache with a TTL, validated with Anthropic's count_tokens on a miss, and *)
(* the request is forwarded to the backend, which has the last word.        *)
(*                                                                         *)
(* The cache is Redis or an in-process dictionary. Every Redis command is   *)
(* awaited, so other requests run between a command and the next; the       *)
(* methods of the in-process cache never suspend, so a sequence of them     *)
(* runs alone. Time is counted in half seconds, because the two caches      *)
(* round the remaining TTL to seconds differently.                          *)
(***************************************************************************)
EXTENDS Naturals

CONSTANTS
  Req,         (* clients, each with one request at a time *)
  Key,         (* credentials *)
  ValidTTL, InvalidTTL,  (* cache TTLs, in seconds *)
  AskTimeout,  (* half seconds a count_tokens call may last *)
  MaxClock      (* bound on the clock, in half seconds *)

ASSUME CacheAssumption ==
  /\ ValidTTL \in Nat \ {0} /\ InvalidTTL \in Nat \ {0}
  /\ AskTimeout \in Nat /\ MaxClock \in Nat

VARIABLES
  redis,     \* create_credential_cache chose RedisCredentialCache, for good
  clock,     \* the clock
  oauth,     \* oauth[k]: k is an OAuth token, for good; else it is an API key
  good,      \* good[k]: Anthropic accepts k, sent the way such a key is sent
  revoked,   \* revoked[k]: when k stopped being good; 0 if it was never good
  cache,     \* cache[k]: the cached verdict on k, or NoEntry
  sweep,     \* the keys invalidate_all has scanned and not yet unlinked
  pc,        \* pc[r]: where the handling of r's request is
  key,       \* key[r]: the credential r carries
  bearer,    \* bearer[r]: it came as Authorization: Bearer
  copy,      \* copy[r]: the entry r read and is about to write back
  ttl,       \* ttl[r]: the remaining TTL r read, in seconds
  answer,    \* answer[r]: what count_tokens said
  asked      \* asked[r]: when r called count_tokens

request == <<pc, key, bearer, copy, ttl, answer, asked>>
credentialVars == <<redis, clock, oauth, good, revoked, cache, sweep, request>>

Time    == Nat
Entry   == [valid : BOOLEAN, validated : Time, expires : Time]
NoEntry == [valid |-> FALSE, validated |-> 0, expires |-> 0]
Steps   == {"idle", "lookup", "touch_get", "touch_ttl", "touch_set", "asking",
            "answered", "forward"}
Answers == {"none", "valid", "invalid", "inconclusive"}

CredentialTypeOK ==
  /\ redis \in BOOLEAN
  /\ clock \in 1..(MaxClock + 1)
  /\ oauth \in [Key -> BOOLEAN]
  /\ good \in [Key -> BOOLEAN] /\ revoked \in [Key -> Time]
  /\ cache \in [Key -> Entry]
  /\ sweep \subseteq Key
  /\ pc \in [Req -> Steps] /\ key \in [Req -> Key] /\ bearer \in [Req -> BOOLEAN]
  /\ copy \in [Req -> Entry] /\ ttl \in [Req -> Nat]
  /\ answer \in [Req -> Answers] /\ asked \in [Req -> Time]

CredentialInit ==
  /\ redis \in BOOLEAN
  /\ clock = 1
  /\ oauth \in [Key -> BOOLEAN]
  /\ good \in [Key -> BOOLEAN] /\ revoked = [k \in Key |-> 0]
  /\ cache = [k \in Key |-> NoEntry]
  /\ sweep = {}
  /\ pc = [r \in Req |-> "idle"]
  /\ key \in [Req -> Key] /\ bearer \in [Req -> BOOLEAN]
  /\ copy = [r \in Req |-> NoEntry] /\ ttl = [r \in Req |-> 0]
  /\ answer = [r \in Req |-> "none"] /\ asked = [r \in Req |-> 0]

-----------------------------------------------------------------------------
(* The cache.                                                               *)

Cached(k) == cache[k].expires > clock
Remaining(k) == cache[k].expires - clock
(* TTL in whole seconds: Redis rounds to the nearest second, the in-process *)
(* cache truncates.                                                         *)
Seconds(halves) == IF redis THEN (halves + 1) \div 2 ELSE halves \div 2

SetEx(k, seconds, valid, validated) ==
  cache' = [cache EXCEPT ![k] =
              [valid |-> valid, validated |-> validated, expires |-> clock + 2 * seconds]]

\* The in-process touch and sweep run without suspending: nothing else moves.
Touching(r) == pc[r] \in {"touch_get", "touch_ttl", "touch_set"}
Alone(r)    == redis \/ (sweep = {} /\ \A q \in Req \ {r} : ~Touching(q))

Interleaved == redis \/ (sweep = {} /\ \A q \in Req : ~Touching(q))

Goto(r, step) == pc' = [pc EXCEPT ![r] = step]
world == <<redis, clock, oauth, good, revoked, sweep>>

-----------------------------------------------------------------------------
(* validate_credential.                                                     *)

\* A client calls, and may call again once its last request is over.
Arrive(r) ==
  /\ pc[r] = "idle" /\ Interleaved
  /\ Goto(r, "lookup")
  /\ UNCHANGED <<world, cache, key, bearer, copy, ttl, answer, asked>>

LookupHit(r) ==
  /\ pc[r] = "lookup" /\ Alone(r) /\ Cached(key[r])
  /\ answer' = [answer EXCEPT ![r] = IF cache[key[r]].valid THEN "valid" ELSE "invalid"]
  /\ Goto(r, "touch_get")
  /\ UNCHANGED <<world, cache, key, bearer, copy, ttl, asked>>

LookupMiss(r) ==
  /\ pc[r] = "lookup" /\ Alone(r) /\ ~Cached(key[r])
  /\ asked' = [asked EXCEPT ![r] = clock]
  /\ Goto(r, "asking")
  /\ UNCHANGED <<world, cache, key, bearer, copy, ttl, answer>>

\* validate_credential returns and its locals are gone; refused is 401.
Decide(r, admit) ==
  /\ Goto(r, IF admit THEN "forward" ELSE "idle")
  /\ copy' = [copy EXCEPT ![r] = NoEntry]
  /\ ttl' = [ttl EXCEPT ![r] = 0]
  /\ answer' = [answer EXCEPT ![r] = "none"]
  /\ asked' = [asked EXCEPT ![r] = 0]

(* _touch_last_used: get, ttl and setex, three commands.                    *)
TouchGet(r) ==
  /\ pc[r] = "touch_get"
  /\ \/ /\ Cached(key[r])
        /\ copy' = [copy EXCEPT ![r] = cache[key[r]]]
        /\ Goto(r, "touch_ttl")
        /\ UNCHANGED <<ttl, answer, asked>>
     \/ ~Cached(key[r]) /\ Decide(r, answer[r] = "valid")
  /\ UNCHANGED <<world, cache, key, bearer>>

\* Less than a second left: the in-process ttl() drops the entry.
TouchTTL(r) ==
  LET left == IF Cached(key[r]) THEN Seconds(Remaining(key[r])) ELSE 0 IN
  /\ pc[r] = "touch_ttl"
  /\ \/ /\ left > 0
        /\ ttl' = [ttl EXCEPT ![r] = left]
        /\ Goto(r, "touch_set")
        /\ UNCHANGED <<cache, copy, answer, asked>>
     \/ /\ left = 0
        /\ Decide(r, answer[r] = "valid")
        /\ cache' = IF redis THEN cache ELSE [cache EXCEPT ![key[r]] = NoEntry]
  /\ UNCHANGED <<world, key, bearer>>

\* Mutant: the touch starts the TTL again.
TouchSetAfresh(r) ==
  /\ pc[r] = "touch_set"
  /\ SetEx(key[r], ValidTTL, copy[r].valid, copy[r].validated)
  /\ Decide(r, answer[r] = "valid")
  /\ UNCHANGED <<world, key, bearer>>

TouchSet(r) ==
  /\ pc[r] = "touch_set"
  /\ SetEx(key[r], ttl[r], copy[r].valid, copy[r].validated)
  /\ Decide(r, answer[r] = "valid")
  /\ UNCHANGED <<world, key, bearer>>

\* Anthropic takes an OAuth token as Authorization: Bearer and an API key as
\* x-api-key; the gateway sends a credential on the way it came.
Accepts(r) == good[key[r]] /\ bearer[r] = oauth[key[r]]

\* Anthropic decides on the key as it is when the call reaches it. A 401 on a
\* bearer token, another status and a network error are inconclusive. So a good
\* OAuth token that came as x-api-key is invalid, and cached so by its hash
\* alone, for every client.
CountTokens(r) ==
  /\ pc[r] = "asking" /\ Interleaved
  /\ \E a \in {"inconclusive",
               IF Accepts(r) THEN "valid"
               ELSE IF bearer[r] THEN "inconclusive" ELSE "invalid"} :
       answer' = [answer EXCEPT ![r] = a]
  /\ Goto(r, "answered")
  /\ UNCHANGED <<world, cache, key, bearer, copy, ttl, asked>>

\* Mutant: an inconclusive answer is cached as invalid.
CacheInconclusive(r) ==
  /\ pc[r] = "answered" /\ Interleaved
  /\ SetEx(key[r], InvalidTTL, answer[r] = "valid", clock)
  /\ Decide(r, answer[r] = "valid")
  /\ UNCHANGED <<world, key, bearer>>

CacheVerdict(r) ==
  /\ pc[r] = "answered" /\ Interleaved
  /\ answer[r] # "inconclusive"
  /\ LET valid == answer[r] = "valid" IN
       /\ SetEx(key[r], IF valid THEN ValidTTL ELSE InvalidTTL, valid, clock)
       /\ Decide(r, valid)
  /\ UNCHANGED <<world, key, bearer>>

\* Mutant: any inconclusive credential passes.
InconclusivePasses(r) ==
  /\ pc[r] = "answered" /\ Interleaved
  /\ answer[r] = "inconclusive"
  /\ Decide(r, TRUE)
  /\ UNCHANGED <<world, cache, key, bearer>>

\* OAuth tokens pass through for the backend to decide; API keys are blocked.
Inconclusive(r) ==
  /\ pc[r] = "answered" /\ Interleaved
  /\ answer[r] = "inconclusive"
  /\ Decide(r, bearer[r])
  /\ UNCHANGED <<world, cache, key, bearer>>

-----------------------------------------------------------------------------
(* The forwarded request is served if Anthropic accepts the credential, and *)
(* else rejected. On 401 backend_api_error_handler would call               *)
(* on_backend_401 for request.state.passthrough_credential, an attribute    *)
(* nothing sets, so the cache is left as it is.                             *)
BackendAnswers(r) ==
  /\ pc[r] = "forward" /\ Interleaved
  /\ Goto(r, "idle")
  /\ UNCHANGED <<world, cache, key, bearer, copy, ttl, answer, asked>>

(* DELETE of a cached credential by an operator.                            *)
Invalidate(k) ==
  /\ Cached(k) /\ Interleaved
  /\ cache' = [cache EXCEPT ![k] = NoEntry]
  /\ UNCHANGED <<redis, oauth, clock, good, revoked, sweep, request>>

(* invalidate_all: scan the keys, then unlink what the scan found.          *)
ScanAll ==
  /\ Interleaved /\ sweep = {}
  /\ sweep' = {k \in Key : Cached(k)} /\ sweep' # {}
  /\ UNCHANGED <<redis, oauth, clock, good, revoked, cache, request>>

UnlinkAll ==
  /\ sweep # {}
  /\ cache' = [k \in Key |-> IF k \in sweep THEN NoEntry ELSE cache[k]]
  /\ sweep' = {}
  /\ UNCHANGED <<redis, oauth, clock, good, revoked, request>>

(* The environment: keys are revoked, time passes.                          *)
Revoke(k) ==
  /\ good[k] /\ Interleaved
  /\ good' = [good EXCEPT ![k] = FALSE]
  /\ revoked' = [revoked EXCEPT ![k] = clock]
  /\ UNCHANGED <<redis, oauth, clock, cache, sweep, request>>

ClockTick ==
  /\ clock <= MaxClock /\ Interleaved
  /\ \A r \in Req : pc[r] \in {"asking", "answered"} => clock < asked[r] + AskTimeout
  /\ clock' = clock + 1
  /\ cache' = [k \in Key |-> IF cache[k].expires > clock + 1 THEN cache[k] ELSE NoEntry]
  /\ UNCHANGED <<redis, oauth, good, revoked, sweep, request>>

-----------------------------------------------------------------------------
RequestStep(r) ==
  \/ LookupHit(r) \/ LookupMiss(r)
  \/ TouchGet(r) \/ TouchTTL(r) \/ TouchSet(r)
  \/ CountTokens(r) \/ CacheVerdict(r) \/ Inconclusive(r) \/ BackendAnswers(r)

CredentialNext ==
  \/ \E r \in Req : Arrive(r) \/ RequestStep(r)
  \/ \E k \in Key : Invalidate(k) \/ Revoke(k)
  \/ ScanAll \/ UnlinkAll \/ ClockTick

CredentialSpec == CredentialInit /\ [][CredentialNext]_credentialVars

-----------------------------------------------------------------------------
(* Correctness properties.                                                  *)

Admitted(r) == pc[r] = "forward"
NeverGood(k) == ~good[k] /\ revoked[k] = 0
Missent(k) == oauth[k] /\ \E r \in Req : key[r] = k /\ ~bearer[r]

(* An API key Anthropic never accepted is never forwarded, whatever the     *)
(* cache, concurrent requests and failed validations did; a bearer token    *)
(* may be.                                                                  *)
OnlyProvenKeysForwarded ==
  \A r \in Req : Admitted(r) /\ ~bearer[r] => ~NeverGood(key[r])

(* A cached verdict was true of the key at most one count_tokens call       *)
(* before it was cached: a key is cached valid only if it was good then,    *)
(* and invalid only if it was not, or if a client sends an OAuth token as   *)
(* an API key; the verdict on that holds for those who send it well, too.   *)
VerdictWasTrue ==
  \A k \in Key : Cached(k) =>
    IF cache[k].valid
      THEN good[k] \/ (~NeverGood(k) /\ cache[k].validated <= revoked[k] + AskTimeout)
      ELSE ~good[k] \/ Missent(k)

(* So, in process, a revoked key is admitted on a verdict for at most one   *)
(* TTL and one validation after its revocation, however often it is used:   *)
(* "Update last_used_at without resetting TTL". (On Redis the touch writes  *)
(* a rounded TTL back late, and the entry drifts.)                          *)
TrustBounded ==
  [][\A r \in Req : ~redis /\ pc[r] # "forward" /\ pc'[r] = "forward" /\ answer[r] = "valid" =>
       good[key[r]] \/ clock <= revoked[key[r]] + AskTimeout + 2 * ValidTTL]_credentialVars

-----------------------------------------------------------------------------
(* The inductive invariant the proofs use.                                  *)

KeyInv(k) ==
  /\ revoked[k] <= clock
  /\ good[k] => revoked[k] = 0

\* What a cache entry of key k says was true of k when it was validated.
EntryTrue(k, e) ==
  IF e.valid
    THEN good[k] \/ (~NeverGood(k) /\ e.validated <= revoked[k] + AskTimeout)
    ELSE ~good[k] \/ Missent(k)

CacheInv(k) == Cached(k) => EntryTrue(k, cache[k]) /\ cache[k].validated <= clock

\* What a suspended request still remembers is no less true than the cache.
RequestInv(r) ==
  LET k == key[r] IN
  /\ pc[r] \in {"touch_ttl", "touch_set"} =>
       EntryTrue(k, copy[r]) /\ copy[r].validated <= clock
  /\ Touching(r) => answer[r] \in {"valid", "invalid"}
  /\ answer[r] = "valid" => ~NeverGood(k)
  /\ pc[r] \in {"asking", "answered"} => asked[r] <= clock /\ clock <= asked[r] + AskTimeout
  /\ pc[r] = "answered" =>
       /\ answer[r] = "valid" => good[k] \/ asked[r] <= revoked[k]
       /\ answer[r] = "invalid" => ~good[k] \/ Missent(k)
       /\ answer[r] # "none"
  /\ Admitted(r) /\ ~bearer[r] => ~NeverGood(k)

(* The cache, and what a request still remembers of it or of count_tokens,  *)
(* were true when they were learnt, on either cache and under interleaving. *)
TruthInv ==
  /\ \A k \in Key : KeyInv(k) /\ CacheInv(k)
  /\ \A r \in Req : RequestInv(r)
CredentialIndInv == CredentialTypeOK /\ TruthInv

(* In process only. A touch and a sweep exclude each other and themselves,  *)
(* so what a touch has read is still the entry, and time stands still.      *)
SoleInv(r) == Touching(r) => sweep = {} /\ \A q \in Req \ {r} : ~Touching(q)

(* An entry lives one TTL from its validation; a touch only shortens it.    *)
SpanInv(k) ==
  Cached(k) /\ cache[k].valid => cache[k].expires <= cache[k].validated + 2 * ValidTTL

Trusted(k) == good[k] \/ clock <= revoked[k] + AskTimeout + 2 * ValidTTL

TouchInv(r) ==
  /\ Touching(r) /\ answer[r] = "valid" => Trusted(key[r])
  /\ pc[r] \in {"touch_ttl", "touch_set"} => Cached(key[r]) /\ copy[r] = cache[key[r]]
  /\ pc[r] = "touch_set" => clock + 2 * ttl[r] <= cache[key[r]].expires

TrustInv ==
  ~redis => (\A r \in Req : SoleInv(r) /\ TouchInv(r)) /\ (\A k \in Key : SpanInv(k))

-----------------------------------------------------------------------------
(* Statements of the sources that the code does not keep.                   *)

(* "invalidates cached credentials on 401 so stale valid entries don't let  *)
(* rejected keys keep passing auth" (main.py).                              *)
RejectedKeyLeavesCache ==
  [][\A r \in Req : pc[r] = "forward" /\ pc'[r] = "idle" /\ ~Accepts(r) =>
       ~(cache'[key[r]].valid /\ cache'[key[r]].expires > clock')]_credentialVars
=============================================================================
