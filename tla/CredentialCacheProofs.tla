------------------------ MODULE CredentialCacheProofs ------------------------
(***************************************************************************)
(* Proofs about CredentialCache for any clients, keys and TTLs, with the   *)
(* commands of the cache interleaved (Redis) or not: a verdict in the      *)
(* cache was true when it was validated, no API key that Anthropic never   *)
(* accepted is forwarded, and in process trust in a key ends.              *)
(***************************************************************************)
EXTENDS CredentialCache, TLAPS

USE CacheAssumption

LEMMA HalvesAreNat ==
  ASSUME NEW halves \in Nat
  PROVE  Seconds(halves) \in Nat
BY DEF Seconds

LEMMA InitHolds == CredentialInit => CredentialTypeOK /\ TruthInv
<1>1. CredentialInit => CredentialTypeOK
  BY DEF CredentialInit, CredentialTypeOK, Entry, NoEntry, Time, Steps, Answers
<1>2. CredentialInit => TruthInv
  BY DEF CredentialInit, TruthInv, KeyInv, CacheInv, RequestInv, Cached, NoEntry, Touching, Admitted
<1>3. QED
  BY <1>1, <1>2

(* The world as the request r finds it when it is resumed.                  *)
LEMMA TypeNext == CredentialTypeOK /\ [CredentialNext]_credentialVars => CredentialTypeOK'
<1> SUFFICES ASSUME CredentialTypeOK, [CredentialNext]_credentialVars PROVE CredentialTypeOK'
  OBVIOUS
<1> USE DEF CredentialTypeOK, world, Time
<1>1. ASSUME NEW r \in Req, NEW step \in Steps, Goto(r, step),
             UNCHANGED <<world, cache, key, bearer, copy, ttl>>,
             answer' \in [Req -> Answers], asked' \in [Req -> Nat]
      PROVE  CredentialTypeOK'
  BY <1>1 DEF Goto
<1>2. ASSUME NEW r \in Req, NEW admit \in BOOLEAN, Decide(r, admit),
             UNCHANGED <<world, key, bearer>>, cache' \in [Key -> Entry]
      PROVE  CredentialTypeOK'
  BY <1>2 DEF Decide, Goto, Steps, Answers, Entry, NoEntry
<1>3. ASSUME NEW k \in Key, NEW seconds \in Nat, NEW valid \in BOOLEAN, NEW validated \in Nat,
             SetEx(k, seconds, valid, validated)
      PROVE  cache' \in [Key -> Entry]
  BY <1>3 DEF SetEx, Entry
<1>4. NoEntry \in Entry
  BY DEF NoEntry, Entry
<1>5. ASSUME NEW r \in Req, Arrive(r) \/ LookupHit(r) \/ LookupMiss(r) \/ CountTokens(r)
                            \/ BackendAnswers(r)
      PROVE  CredentialTypeOK'
  BY <1>1, <1>5 DEF Arrive, LookupHit, LookupMiss, CountTokens, BackendAnswers, Steps, Answers
<1>6. ASSUME NEW r \in Req, TouchGet(r) PROVE CredentialTypeOK'
  <2>1. CASE Cached(key[r])
    BY <1>6, <2>1 DEF TouchGet, Goto, Steps
  <2>2. CASE ~Cached(key[r])
    BY <1>2, <1>6, <2>2 DEF TouchGet
  <2>3. QED
    BY <2>1, <2>2
<1>7. ASSUME NEW r \in Req, TouchTTL(r) PROVE CredentialTypeOK'
  <2> DEFINE left == IF Cached(key[r]) THEN Seconds(Remaining(key[r])) ELSE 0
  <2>1. left \in Nat
    <3>1. CASE Cached(key[r])
      <4>1. Remaining(key[r]) \in Nat
        BY <3>1 DEF Cached, Remaining, Entry
      <4>2. QED
        BY <4>1, HalvesAreNat
    <3>2. QED
      BY <3>1
  <2>2. CASE left > 0
    BY <1>7, <2>1, <2>2 DEF TouchTTL, Goto, Steps
  <2>3. CASE left = 0
    <3>1. cache' \in [Key -> Entry] /\ Decide(r, answer[r] = "valid")
      BY <1>4, <1>7, <2>3 DEF TouchTTL
    <3>2. QED
      BY <1>2, <1>7, <3>1 DEF TouchTTL
  <2>4. QED
    BY <2>1, <2>2, <2>3
<1>8. ASSUME NEW r \in Req, TouchSet(r) PROVE CredentialTypeOK'
  <2>1. cache' \in [Key -> Entry]
    BY <1>3, <1>8 DEF TouchSet, Entry
  <2>2. QED
    BY <1>2, <1>8, <2>1 DEF TouchSet
<1>9. ASSUME NEW r \in Req, CacheVerdict(r) PROVE CredentialTypeOK'
  <2>1. cache' \in [Key -> Entry]
    <3>1. CASE answer[r] = "valid"
      BY <1>9, <3>1 DEF CacheVerdict, SetEx, Entry
    <3>2. CASE answer[r] # "valid"
      BY <1>9, <3>2 DEF CacheVerdict, SetEx, Entry
    <3>3. QED
      BY <3>1, <3>2
  <2>2. Decide(r, answer[r] = "valid") /\ UNCHANGED <<world, key, bearer>>
    BY <1>9 DEF CacheVerdict
  <2>3. QED
    BY <1>2, <2>1, <2>2
<1>10. ASSUME NEW r \in Req, Inconclusive(r) PROVE CredentialTypeOK'
  <2>1. bearer[r] \in BOOLEAN /\ cache' \in [Key -> Entry]
    BY <1>10 DEF Inconclusive
  <2>2. Decide(r, bearer[r]) /\ UNCHANGED <<world, key, bearer>>
    BY <1>10 DEF Inconclusive
  <2>3. QED
    BY <1>2, <2>1, <2>2
<1>11. ASSUME NEW k \in Key, Invalidate(k) \/ Revoke(k) PROVE CredentialTypeOK'
  <2>1. CASE Invalidate(k)
    <3>1. cache' \in [Key -> Entry]
      BY <1>4, <2>1 DEF Invalidate
    <3>2. QED
      BY <2>1, <3>1 DEF Invalidate, request
  <2>2. CASE Revoke(k)
    <3>1. good' \in [Key -> BOOLEAN] /\ revoked' \in [Key -> Nat]
      BY <2>2 DEF Revoke
    <3>2. QED
      BY <2>2, <3>1 DEF Revoke, request
  <2>3. QED
    BY <1>11, <2>1, <2>2
<1>12. CASE ScanAll \/ UnlinkAll
  <2>1. CASE ScanAll
    BY <2>1 DEF ScanAll, request
  <2>2. CASE UnlinkAll
    <3>1. cache' \in [Key -> Entry] /\ sweep' \subseteq Key
      BY <1>4, <2>2 DEF UnlinkAll
    <3>2. QED
      BY <2>2, <3>1 DEF UnlinkAll, request
  <2>3. QED
    BY <1>12, <2>1, <2>2
<1>13. CASE ClockTick
  BY <1>4, <1>13 DEF ClockTick, request
<1>14. CASE UNCHANGED credentialVars
  BY <1>14 DEF credentialVars, request
<1>15. QED
  BY <1>5, <1>6, <1>7, <1>8, <1>9, <1>10, <1>11, <1>12, <1>13, <1>14 DEF CredentialNext, RequestStep

-----------------------------------------------------------------------------
(* How the world moves: time does not go back, a key can only be revoked.   *)

LEMMA WorldNext ==
  ASSUME CredentialTypeOK, \A k \in Key : KeyInv(k), [CredentialNext]_credentialVars, NEW k \in Key
  PROVE  /\ KeyInv(k)'
         /\ clock' = clock \/ clock' = clock + 1
         /\ good'[k] => good[k]
         /\ IF good[k] /\ ~good'[k] THEN revoked'[k] = clock ELSE revoked'[k] = revoked[k]
<1> USE DEF CredentialTypeOK, KeyInv, world, Time
<1>1. ASSUME NEW r \in Req, Arrive(r) \/ RequestStep(r)
      PROVE  UNCHANGED <<clock, good, revoked>>
  BY <1>1 DEF Arrive, RequestStep, LookupHit, LookupMiss, TouchGet, TouchTTL, TouchSet,
              CountTokens, CacheVerdict, Inconclusive, BackendAnswers
<1>2. ASSUME NEW j \in Key, Invalidate(j) PROVE UNCHANGED <<clock, good, revoked>>
  BY <1>2 DEF Invalidate
<1>3. CASE ScanAll \/ UnlinkAll \/ UNCHANGED credentialVars
  BY <1>3 DEF ScanAll, UnlinkAll, credentialVars
<1>4. CASE ClockTick
  BY <1>4 DEF ClockTick
<1>5. ASSUME NEW j \in Key, Revoke(j)
      PROVE  /\ KeyInv(k)' /\ clock' = clock /\ (good'[k] => good[k])
             /\ IF good[k] /\ ~good'[k] THEN revoked'[k] = clock ELSE revoked'[k] = revoked[k]
  BY <1>5 DEF Revoke
<1>6. ASSUME UNCHANGED <<clock, good, revoked>>
      PROVE  /\ KeyInv(k)' /\ clock' = clock /\ (good'[k] => good[k])
             /\ IF good[k] /\ ~good'[k] THEN revoked'[k] = clock ELSE revoked'[k] = revoked[k]
  BY <1>6
<1>7. QED
  BY <1>1, <1>2, <1>3, <1>4, <1>5, <1>6 DEF CredentialNext

(* Which credential a client sends, and how, never changes.                 *)
LEMMA SendersFixed == [CredentialNext]_credentialVars => UNCHANGED <<oauth, key, bearer>>
BY DEF CredentialNext, Arrive, RequestStep, LookupHit, LookupMiss, TouchGet, TouchTTL, TouchSet,
       CountTokens, CacheVerdict, Inconclusive, BackendAnswers, Invalidate, Revoke, ScanAll,
       UnlinkAll, ClockTick, world, request, credentialVars

(* What was true of a key when it was learnt stays so.                      *)
LEMMA TruthKept ==
  ASSUME CredentialTypeOK, CredentialTypeOK', NEW k \in Key, NEW e \in Entry, KeyInv(k),
         e.validated <= clock, EntryTrue(k, e), UNCHANGED <<oauth, key, bearer>>,
         good'[k] => good[k],
         IF good[k] /\ ~good'[k] THEN revoked'[k] = clock ELSE revoked'[k] = revoked[k]
  PROVE  IF e.valid
           THEN good'[k] \/ (~NeverGood(k)' /\ e.validated <= revoked'[k] + AskTimeout)
           ELSE ~good'[k] \/ Missent(k)'
<1>1. Missent(k)' = Missent(k)
  BY DEF Missent
<1>2. QED
  BY <1>1 DEF CredentialTypeOK, Entry, EntryTrue, NeverGood, KeyInv, Time

LEMMA ProvenKept ==
  ASSUME CredentialTypeOK, NEW k \in Key, KeyInv(k), ~NeverGood(k),
         good'[k] => good[k],
         IF good[k] /\ ~good'[k] THEN revoked'[k] = clock ELSE revoked'[k] = revoked[k]
  PROVE  ~NeverGood(k)'
BY DEF CredentialTypeOK, NeverGood, KeyInv, Time

-----------------------------------------------------------------------------
(* The cache: an entry is kept, removed, or written by a request.           *)

LEMMA EntryKept ==
  ASSUME CredentialTypeOK, CredentialTypeOK', \A k \in Key : KeyInv(k), [CredentialNext]_credentialVars,
         NEW k \in Key, CacheInv(k),
         cache'[k] = cache[k] \/ cache'[k] = NoEntry
  PROVE  CacheInv(k)'
<1>1. KeyInv(k) /\ clock \in Nat /\ clock >= 1 /\ cache[k] \in Entry
  BY DEF CredentialTypeOK
<1>2. /\ clock' = clock \/ clock' = clock + 1
      /\ good'[k] => good[k]
      /\ IF good[k] /\ ~good'[k] THEN revoked'[k] = clock ELSE revoked'[k] = revoked[k]
  BY WorldNext
<1>3. CASE cache'[k] = NoEntry
  BY <1>1, <1>2, <1>3 DEF CacheInv, Cached, NoEntry
<1>4. CASE cache'[k] = cache[k]
  <2>1. Cached(k)' => Cached(k)
    BY <1>1, <1>2, <1>4 DEF Cached, Entry, Time
  <2>2. Cached(k) => EntryTrue(k, cache[k])'
    BY <1>1, <1>2, <1>4, TruthKept, SendersFixed DEF CacheInv, EntryTrue
  <2>3. Cached(k) => cache'[k].validated <= clock'
    BY <1>1, <1>2, <1>4 DEF CacheInv, Entry, Time
  <2>4. QED
    BY <2>1, <2>2, <2>3 DEF CacheInv
<1>5. QED
  BY <1>3, <1>4

LEMMA CacheNext ==
  ASSUME CredentialTypeOK, CredentialTypeOK', TruthInv, [CredentialNext]_credentialVars, NEW k \in Key
  PROVE  CacheInv(k)'
<1> USE DEF TruthInv
<1>1. ASSUME cache'[k] = cache[k] \/ cache'[k] = NoEntry PROVE CacheInv(k)'
  BY <1>1, EntryKept
<1>2. ASSUME NEW r \in Req, TouchSet(r) PROVE CacheInv(k)'
  <2>1. CASE k # key[r]
    BY <1>1, <1>2, <2>1 DEF TouchSet, SetEx, CredentialTypeOK
  <2>2. CASE k = key[r]
    <3>1. EntryTrue(k, copy[r]) /\ copy[r].validated <= clock
      BY <1>2, <2>2 DEF TouchSet, RequestInv
    <3>2. /\ cache'[k].valid = copy[r].valid /\ cache'[k].validated = copy[r].validated
          /\ UNCHANGED <<clock, good, revoked>>
      BY <1>2, <2>2 DEF TouchSet, SetEx, CredentialTypeOK, world
    <3>3. QED
      BY <3>1, <3>2, SendersFixed DEF CacheInv, EntryTrue, NeverGood, Missent
  <2>3. QED
    BY <2>1, <2>2
<1>3. ASSUME NEW r \in Req, CacheVerdict(r) PROVE CacheInv(k)'
  <2>1. CASE k # key[r]
    BY <1>1, <1>3, <2>1 DEF CacheVerdict, SetEx, CredentialTypeOK
  <2>2. CASE k = key[r]
    <3>1. /\ answer[r] = "valid" => good[k] \/ asked[r] <= revoked[k]
          /\ answer[r] = "valid" => ~NeverGood(k)
          /\ answer[r] # "valid" => ~good[k] \/ Missent(k)
          /\ clock <= asked[r] + AskTimeout
      BY <1>3, <2>2 DEF CacheVerdict, RequestInv, CredentialTypeOK, Answers
    <3>2. /\ cache'[k].valid <=> answer[r] = "valid"
          /\ cache'[k].validated = clock
          /\ UNCHANGED <<clock, good, revoked>>
      <4>1. UNCHANGED <<clock, good, revoked>>
        BY <1>3 DEF CacheVerdict, world
      <4>2. CASE answer[r] = "valid"
        BY <1>3, <2>2, <4>1, <4>2 DEF CacheVerdict, SetEx, CredentialTypeOK
      <4>3. CASE answer[r] # "valid"
        BY <1>3, <2>2, <4>1, <4>3 DEF CacheVerdict, SetEx, CredentialTypeOK
      <4>4. QED
        BY <4>2, <4>3
    <3>3. clock \in Nat /\ asked[r] \in Nat /\ revoked[k] \in Nat
      BY DEF CredentialTypeOK, Time
    <3>4. EntryTrue(k, cache[k])'
      BY <3>1, <3>2, <3>3, SendersFixed DEF EntryTrue, NeverGood, Missent
    <3>5. QED
      BY <3>2, <3>3, <3>4 DEF CacheInv
  <2>3. QED
    BY <2>1, <2>2
<1>4. ASSUME NEW r \in Req, TouchTTL(r) PROVE CacheInv(k)'
  BY <1>1, <1>4 DEF TouchTTL, CredentialTypeOK
<1>5. ASSUME NEW r \in Req,
             \/ Arrive(r) \/ LookupHit(r) \/ LookupMiss(r) \/ TouchGet(r)
             \/ CountTokens(r) \/ Inconclusive(r) \/ BackendAnswers(r)
      PROVE  CacheInv(k)'
  BY <1>1, <1>5 DEF Arrive, LookupHit, LookupMiss, TouchGet, CountTokens, Inconclusive,
                    BackendAnswers
<1>6. ASSUME NEW j \in Key, Invalidate(j) \/ Revoke(j) PROVE CacheInv(k)'
  BY <1>1, <1>6 DEF Invalidate, Revoke, CredentialTypeOK
<1>7. CASE ScanAll \/ UnlinkAll \/ ClockTick \/ UNCHANGED credentialVars
  BY <1>1, <1>7 DEF ScanAll, UnlinkAll, ClockTick, credentialVars
<1>8. QED
  BY <1>2, <1>3, <1>4, <1>5, <1>6, <1>7 DEF CredentialNext, RequestStep

-----------------------------------------------------------------------------
(* The requests: one moves at a time, and what the others remember stays    *)
(* true.                                                                    *)

LEMMA RequestKept ==
  ASSUME CredentialTypeOK, CredentialTypeOK', TruthInv, [CredentialNext]_credentialVars, NEW r \in Req,
         pc'[r] = pc[r], key' = key, bearer' = bearer, copy'[r] = copy[r],
         answer'[r] = answer[r], asked'[r] = asked[r],
         pc[r] \in {"asking", "answered"} => clock' <= asked[r] + AskTimeout
  PROVE  RequestInv(r)'
<1> DEFINE k == key[r]
<1>1. /\ k \in Key /\ copy[r] \in Entry /\ clock \in Nat \ {0} /\ asked[r] \in Nat
      /\ revoked[k] \in Nat /\ KeyInv(k) /\ RequestInv(r)
  BY DEF CredentialTypeOK, TruthInv, Time
<1>2. /\ clock' = clock \/ clock' = clock + 1
      /\ good'[k] => good[k]
      /\ IF good[k] /\ ~good'[k] THEN revoked'[k] = clock ELSE revoked'[k] = revoked[k]
  BY <1>1, WorldNext DEF TruthInv
<1>3. (~NeverGood(k) => ~NeverGood(k)') /\ Missent(k)' = Missent(k)
  BY <1>1, <1>2, ProvenKept, SendersFixed DEF Missent
<1>4. pc[r] \in {"touch_ttl", "touch_set"} =>
        /\ IF copy[r].valid
             THEN good'[k] \/ (~NeverGood(k)' /\ copy[r].validated <= revoked'[k] + AskTimeout)
             ELSE ~good'[k] \/ Missent(k)'
        /\ copy[r].validated <= clock'
  <2>1. pc[r] \in {"touch_ttl", "touch_set"} =>
          EntryTrue(k, copy[r]) /\ copy[r].validated <= clock
    BY <1>1 DEF RequestInv
  <2>2. copy[r].validated \in Nat
    BY <1>1 DEF Entry, Time
  <2>3. QED
    BY <1>1, <1>2, <1>3, <2>1, <2>2 DEF EntryTrue, NeverGood, KeyInv
<1>5. pc[r] \in {"touch_ttl", "touch_set"} =>
        EntryTrue(k, copy[r])' /\ copy'[r].validated <= clock'
  BY <1>4 DEF EntryTrue, NeverGood
<1>6. (answer[r] = "valid" \/ (Admitted(r) /\ ~bearer[r])) => ~NeverGood(k)'
  BY <1>1, <1>3 DEF RequestInv
<1>7. pc[r] \in {"asking", "answered"} => asked[r] <= clock' /\ clock' <= asked[r] + AskTimeout
  BY <1>1, <1>2 DEF RequestInv
<1>8. pc[r] = "answered" =>
        /\ answer[r] = "valid" => good'[k] \/ asked[r] <= revoked'[k]
        /\ answer[r] = "invalid" => ~good'[k] \/ Missent(k)'
        /\ answer[r] # "none"
  BY <1>1, <1>2, <1>3 DEF RequestInv
<1>9. Touching(r)' = Touching(r) /\ Admitted(r)' = Admitted(r)
  BY DEF Touching, Admitted
<1>10. NeverGood(key[r])' = NeverGood(k)' /\ EntryTrue(key[r], copy[r])' = EntryTrue(k, copy[r])'
  OBVIOUS
<1>11. Touching(r) => answer[r] \in {"valid", "invalid"}
  BY <1>1 DEF RequestInv
<1> HIDE DEF k
<1>12. QED
  BY <1>5, <1>6, <1>7, <1>8, <1>9, <1>10, <1>11 DEF RequestInv, k

LEMMA RequestMoves ==
  ASSUME CredentialTypeOK, CredentialTypeOK', TruthInv, NEW r \in Req, RequestStep(r) \/ Arrive(r)
  PROVE  RequestInv(r)'
<1> DEFINE k == key[r]
<1>1. /\ k \in Key /\ copy[r] \in Entry /\ clock \in Nat /\ asked[r] \in Nat
      /\ cache[k] \in Entry /\ RequestInv(r) /\ CacheInv(k) /\ bearer[r] \in BOOLEAN
  BY DEF CredentialTypeOK, TruthInv, Time
<1>2. UNCHANGED <<clock, oauth, good, revoked, key, bearer>>
  BY DEF Arrive, RequestStep, LookupHit, LookupMiss, TouchGet, TouchTTL, TouchSet,
         CountTokens, CacheVerdict, Inconclusive, BackendAnswers, world
<1> USE DEF RequestInv, Touching, Admitted
<1>3. ASSUME NEW admit \in BOOLEAN, Decide(r, admit),
             admit /\ ~bearer[r] => ~NeverGood(k)
      PROVE  RequestInv(r)'
  BY <1>2, <1>3 DEF Decide, Goto, CredentialTypeOK, NeverGood
<1>4. CASE Arrive(r)
  BY <1>1, <1>2, <1>4 DEF Arrive, Goto, CredentialTypeOK, NeverGood
<1>5. CASE LookupHit(r)
  <2>1. Cached(k) /\ EntryTrue(k, cache[k])
    BY <1>1, <1>5 DEF LookupHit, CacheInv
  <2>2. cache[k].valid => ~NeverGood(k)
    BY <2>1 DEF EntryTrue, NeverGood
  <2>3. answer'[r] = IF cache[k].valid THEN "valid" ELSE "invalid"
    BY <1>5 DEF LookupHit, CredentialTypeOK
  <2>4. pc'[r] = "touch_get" /\ copy' = copy
    BY <1>5 DEF LookupHit, Goto, CredentialTypeOK
  <2>5. QED
    BY <1>1, <1>2, <2>2, <2>3, <2>4 DEF NeverGood
<1>6. CASE LookupMiss(r)
  BY <1>1, <1>2, <1>6 DEF LookupMiss, Goto, CredentialTypeOK, NeverGood
<1>7. CASE TouchGet(r)
  <2>1. CASE Cached(k)
    <3>1. EntryTrue(k, cache[k]) /\ cache[k].validated <= clock
      BY <1>1, <2>1 DEF CacheInv
    <3>2. copy'[r] = cache[k] /\ pc'[r] = "touch_ttl" /\ answer' = answer
      BY <1>7, <2>1 DEF TouchGet, Goto, CredentialTypeOK
    <3>3. pc[r] = "touch_get"
      BY <1>7 DEF TouchGet
    <3>4. QED
      BY <1>1, <1>2, <3>1, <3>2, <3>3 DEF EntryTrue, NeverGood, Missent
  <2>2. CASE ~Cached(k)
    <3>1. Decide(r, answer[r] = "valid")
      BY <1>7, <2>2 DEF TouchGet
    <3>2. QED
      BY <1>1, <1>3, <3>1
  <2>3. QED
    BY <2>1, <2>2
<1>8. CASE TouchTTL(r)
  <2>1. CASE Decide(r, answer[r] = "valid")
    BY <1>1, <1>3, <2>1
  <2>2. CASE Goto(r, "touch_set") /\ UNCHANGED <<copy, answer, asked>>
    BY <1>1, <1>2, <1>8, <2>2 DEF TouchTTL, Goto, CredentialTypeOK, EntryTrue, NeverGood, Missent
  <2>3. QED
    BY <1>8, <2>1, <2>2 DEF TouchTTL
<1>9. CASE TouchSet(r)
  <2>1. Decide(r, answer[r] = "valid")
    BY <1>9 DEF TouchSet
  <2>2. QED
    BY <1>1, <1>3, <2>1
<1>10. CASE CountTokens(r)
  <2>1. pc[r] = "asking" /\ pc'[r] = "answered" /\ UNCHANGED <<asked, copy>>
    BY <1>10 DEF CountTokens, Goto, CredentialTypeOK
  <2>2. /\ answer'[r] = "valid" => good[k]
        /\ answer'[r] = "invalid" => ~good[k] \/ Missent(k)
        /\ answer'[r] # "none"
    BY <1>1, <1>10 DEF CountTokens, Accepts, Missent, CredentialTypeOK
  <2>3. QED
    BY <1>1, <1>2, <2>1, <2>2 DEF NeverGood, Missent
<1>11. CASE CacheVerdict(r)
  <2>1. Decide(r, answer[r] = "valid")
    BY <1>11 DEF CacheVerdict
  <2>2. QED
    BY <1>1, <1>3, <2>1
<1>12. CASE Inconclusive(r)
  <2>1. Decide(r, bearer[r])
    BY <1>12 DEF Inconclusive
  <2>2. QED
    BY <1>1, <1>3, <2>1
<1>13. CASE BackendAnswers(r)
  BY <1>1, <1>2, <1>13 DEF BackendAnswers, Goto, CredentialTypeOK, NeverGood
<1>14. QED
  BY <1>4, <1>5, <1>6, <1>7, <1>8, <1>9, <1>10, <1>11, <1>12, <1>13 DEF RequestStep

LEMMA RequestNext ==
  ASSUME CredentialTypeOK, CredentialTypeOK', TruthInv, [CredentialNext]_credentialVars, NEW r \in Req
  PROVE  RequestInv(r)'
<1> USE DEF world, request
<1>1. clock \in Nat /\ RequestInv(r)
  BY DEF CredentialTypeOK, TruthInv
<1>2. ASSUME NEW q \in Req, q # r, RequestStep(q) \/ Arrive(q) PROVE RequestInv(r)'
  <2>1. UNCHANGED <<clock, key, bearer>>
    BY <1>2 DEF Arrive, RequestStep, LookupHit, LookupMiss, TouchGet, TouchTTL, TouchSet,
                CountTokens, CacheVerdict, Inconclusive, BackendAnswers
  <2>2. /\ pc'[r] = pc[r] /\ copy'[r] = copy[r]
        /\ answer'[r] = answer[r] /\ asked'[r] = asked[r]
    BY <1>2 DEF Arrive, RequestStep, LookupHit, LookupMiss, TouchGet, TouchTTL, TouchSet,
                CountTokens, CacheVerdict, Inconclusive, BackendAnswers, Decide, Goto, CredentialTypeOK
  <2>3. QED
    BY <1>1, <2>1, <2>2, RequestKept DEF RequestInv
<1>3. CASE RequestStep(r) \/ Arrive(r)
  BY <1>3, RequestMoves
<1>4. CASE ClockTick
  <2>1. pc[r] \in {"asking", "answered"} => clock' <= asked[r] + AskTimeout
    BY <1>1, <1>4 DEF ClockTick, CredentialTypeOK, Time
  <2>2. UNCHANGED request
    BY <1>4 DEF ClockTick
  <2>3. QED
    BY <2>1, <2>2, RequestKept
<1>5. ASSUME UNCHANGED <<clock, request>> PROVE RequestInv(r)'
  BY <1>1, <1>5, RequestKept DEF RequestInv
<1>6. CASE ScanAll \/ UnlinkAll \/ UNCHANGED credentialVars \/ \E k \in Key : Invalidate(k) \/ Revoke(k)
  BY <1>5, <1>6 DEF ScanAll, UnlinkAll, credentialVars, Invalidate, Revoke
<1>7. QED
  BY <1>2, <1>3, <1>4, <1>6 DEF CredentialNext

-----------------------------------------------------------------------------
(* The theorems.                                                            *)

(* What the cache and the suspended requests hold was true when learnt.     *)
THEOREM Invariance == CredentialSpec => []CredentialIndInv
<1>1. CredentialTypeOK /\ TruthInv /\ [CredentialNext]_credentialVars => CredentialTypeOK' /\ TruthInv'
  <2> SUFFICES ASSUME CredentialTypeOK, TruthInv, [CredentialNext]_credentialVars PROVE CredentialTypeOK' /\ TruthInv'
    OBVIOUS
  <2>1. CredentialTypeOK'
    BY TypeNext
  <2>2. \A k \in Key : KeyInv(k)'
    BY WorldNext DEF TruthInv
  <2>3. \A k \in Key : CacheInv(k)'
    BY <2>1, CacheNext
  <2>4. \A r \in Req : RequestInv(r)'
    BY <2>1, RequestNext
  <2>5. QED
    BY <2>1, <2>2, <2>3, <2>4 DEF TruthInv
<1>2. QED
  BY <1>1, InitHolds, PTL DEF CredentialSpec, CredentialIndInv

(* An API key that Anthropic never accepted is never forwarded, whichever   *)
(* cache is used and however requests, operators and time interleave.       *)
THEOREM ForwardsProven == CredentialSpec => []OnlyProvenKeysForwarded
<1>1. TruthInv => OnlyProvenKeysForwarded
  BY DEF TruthInv, RequestInv, OnlyProvenKeysForwarded
<1>2. QED
  BY <1>1, Invariance, PTL DEF CredentialIndInv

(* A cached verdict was true at most one count_tokens call before.          *)
THEOREM CachesTruth == CredentialSpec => []VerdictWasTrue
<1>1. TruthInv => VerdictWasTrue
  BY DEF TruthInv, CacheInv, EntryTrue, VerdictWasTrue
<1>2. QED
  BY <1>1, Invariance, PTL DEF CredentialIndInv

-----------------------------------------------------------------------------
(* The in-process cache.                                                    *)

(* Once the cache is chosen it stays.                                       *)
LEMMA RedisKept == [CredentialNext]_credentialVars => redis' = redis
BY DEF CredentialNext, Arrive, RequestStep, LookupHit, LookupMiss, TouchGet, TouchTTL, TouchSet, CountTokens,
       CacheVerdict, Inconclusive, BackendAnswers, Invalidate, Revoke, ScanAll, UnlinkAll, ClockTick,
       world, credentialVars

(* While a request touches an entry nothing else moves.                     *)
LEMMA OnlyTouch ==
  ASSUME ~redis, \A q \in Req : SoleInv(q), NEW r \in Req, Touching(r), [CredentialNext]_credentialVars
  PROVE  TouchGet(r) \/ TouchTTL(r) \/ TouchSet(r) \/ UNCHANGED credentialVars
<1>1. sweep = {} /\ (\A q \in Req \ {r} : ~Touching(q)) /\ ~Interleaved
  BY DEF SoleInv, Interleaved
<1>2. ASSUME NEW q \in Req, Arrive(q) \/ CountTokens(q) \/ CacheVerdict(q) \/ Inconclusive(q) \/ BackendAnswers(q)
      PROVE  FALSE
  BY <1>1, <1>2 DEF Arrive, CountTokens, CacheVerdict, Inconclusive, BackendAnswers
<1>3. ASSUME NEW q \in Req, LookupHit(q) \/ LookupMiss(q) PROVE FALSE
  BY <1>1, <1>3 DEF LookupHit, LookupMiss, Alone, Touching
<1>4. ASSUME NEW q \in Req, TouchGet(q) \/ TouchTTL(q) \/ TouchSet(q) PROVE q = r
  BY <1>1, <1>4 DEF TouchGet, TouchTTL, TouchSet, Touching
<1>5. ASSUME NEW k \in Key, Invalidate(k) \/ Revoke(k) PROVE FALSE
  BY <1>1, <1>5 DEF Invalidate, Revoke
<1>6. ~ScanAll /\ ~UnlinkAll /\ ~ClockTick
  BY <1>1 DEF ScanAll, UnlinkAll, ClockTick
<1>7. QED
  BY <1>2, <1>3, <1>4, <1>5, <1>6 DEF CredentialNext, RequestStep

(* An entry spans at most one TTL from its validation, and so does a        *)
(* verdict that is read from it.                                            *)
LEMMA ReadIsTrusted ==
  ASSUME CredentialTypeOK, NEW k \in Key, CacheInv(k), SpanInv(k), Cached(k), cache[k].valid
  PROVE  Trusted(k)
BY DEF CredentialTypeOK, Time, Entry, CacheInv, SpanInv, Cached, EntryTrue, Trusted

LEMMA LessThanLeft ==
  ASSUME ~redis, NEW h \in Nat
  PROVE  Seconds(h) \in Nat /\ 2 * Seconds(h) <= h
BY DEF Seconds

(* The steps of a touch: the entry keeps its verdict and expires no later.  *)
LEMMA TouchTrusted ==
  ASSUME CredentialTypeOK, ~redis, TrustInv, NEW r \in Req, Touching(r),
         TouchGet(r) \/ TouchTTL(r) \/ TouchSet(r)
  PROVE  (\A q \in Req : SoleInv(q)' /\ TouchInv(q)') /\ (\A k \in Key : SpanInv(k)')
<1> DEFINE k == key[r]
<1>1. /\ k \in Key /\ cache[k] \in Entry /\ cache[k].expires \in Nat /\ clock \in Nat
      /\ DOMAIN cache = Key /\ cache \in [Key -> Entry]
      /\ DOMAIN pc = Req /\ DOMAIN copy = Req /\ DOMAIN ttl = Req
  BY DEF CredentialTypeOK, Entry, Time
<1>2. UNCHANGED <<clock, good, revoked, sweep, key>>
  BY DEF TouchGet, TouchTTL, TouchSet, world
<1>3. SoleInv(r) /\ TouchInv(r) /\ \A j \in Key : SpanInv(j)
  BY DEF TrustInv
<1>4. \A q \in Req \ {r} : ~Touching(q) /\ pc'[q] = pc[q] /\ ~Touching(q)'
  <2>1. \A q \in Req \ {r} : pc'[q] = pc[q]
    BY <1>1 DEF TouchGet, TouchTTL, TouchSet, Decide, Goto
  <2>2. QED
    BY <1>3, <2>1 DEF SoleInv, Touching
<1>5. \A q \in Req : SoleInv(q)'
  BY <1>2, <1>3, <1>4 DEF SoleInv
<1>6. \A q \in Req \ {r} : TouchInv(q)'
  BY <1>4 DEF TouchInv, Touching
<1>7. ASSUME cache' = cache PROVE \A j \in Key : SpanInv(j)'
  BY <1>2, <1>3, <1>7 DEF SpanInv, Cached
<1>8. ASSUME pc'[r] \in {"forward", "idle"} PROVE TouchInv(r)'
  BY <1>8 DEF TouchInv, Touching
<1>9. ASSUME NEW admit \in BOOLEAN, Decide(r, admit) PROVE TouchInv(r)'
  BY <1>1, <1>8, <1>9 DEF Decide, Goto
<1>10. Trusted(k)' = Trusted(k)
  BY <1>2 DEF Trusted
<1>11. CASE TouchGet(r)
  <2>1. cache' = cache
    BY <1>11 DEF TouchGet
  <2>2. TouchInv(r)'
    <3>1. CASE Cached(k)
      <4>1. copy'[r] = cache[k] /\ pc'[r] = "touch_ttl" /\ answer' = answer
        BY <1>1, <1>11, <3>1 DEF TouchGet, Goto
      <4>2. QED
        BY <1>2, <1>3, <1>10, <2>1, <3>1, <4>1 DEF TouchInv, Cached
    <3>2. CASE ~Cached(k)
      BY <1>9, <1>11, <3>2 DEF TouchGet
    <3>3. QED
      BY <3>1, <3>2
  <2>3. QED
    BY <1>5, <1>6, <1>7, <2>1, <2>2
<1>12. CASE TouchTTL(r)
  <2> DEFINE left == IF Cached(k) THEN Seconds(Remaining(k)) ELSE 0
  <2>1. pc[r] = "touch_ttl" /\ Cached(k) /\ copy[r] = cache[k]
    BY <1>3, <1>12 DEF TouchTTL, TouchInv
  <2>2. left \in Nat /\ clock + 2 * left <= cache[k].expires
    <3>1. cache[k].expires > clock
      BY <2>1 DEF Cached
    <3>2. cache[k].expires - clock \in Nat
      BY <1>1, <3>1
    <3>3. Seconds(cache[k].expires - clock) \in Nat /\ 2 * Seconds(cache[k].expires - clock) <= cache[k].expires - clock
      BY <3>2, LessThanLeft
    <3>4. left = Seconds(cache[k].expires - clock)
      BY <2>1 DEF Remaining
    <3> HIDE DEF left, k
    <3>5. QED
      BY <1>1, <3>3, <3>4
  <2>3. CASE left > 0
    <3>1. ttl'[r] = left /\ pc'[r] = "touch_set" /\ UNCHANGED <<cache, copy, answer>>
      BY <1>1, <1>12, <2>3 DEF TouchTTL, Goto
    <3>2. TouchInv(r)'
      <4> HIDE DEF left
      <4>1. QED
        BY <1>2, <1>3, <1>10, <2>1, <2>2, <3>1 DEF TouchInv, Touching, Cached
    <3>3. QED
      BY <1>5, <1>6, <1>7, <3>1, <3>2
  <2>4. CASE left = 0
    <3>1. Decide(r, answer[r] = "valid") /\ cache' = [cache EXCEPT ![k] = NoEntry]
      BY <1>12, <2>4 DEF TouchTTL
    <3>2. \A j \in Key : SpanInv(j)'
      BY <1>1, <1>2, <1>3, <3>1 DEF SpanInv, Cached, NoEntry
    <3>3. QED
      BY <1>5, <1>6, <1>9, <3>1, <3>2
  <2>5. QED
    BY <2>2, <2>3, <2>4
<1>13. CASE TouchSet(r)
  <2>1. Decide(r, answer[r] = "valid")
    BY <1>13 DEF TouchSet
  <2>2. /\ copy[r] = cache[k] /\ Cached(k) /\ clock + 2 * ttl[r] <= cache[k].expires /\ ttl[r] \in Nat
    BY <1>3, <1>13 DEF TouchSet, TouchInv, CredentialTypeOK
  <2>3. /\ \A j \in Key \ {k} : cache'[j] = cache[j]
        /\ cache'[k].valid = cache[k].valid /\ cache'[k].validated = cache[k].validated
        /\ cache'[k].expires = clock + 2 * ttl[r]
    BY <1>1, <1>13, <2>2 DEF TouchSet, SetEx
  <2>4. SpanInv(k)'
    <3>1. cache[k].valid => cache[k].expires <= cache[k].validated + 2 * ValidTTL
      BY <1>1, <1>3, <2>2 DEF SpanInv
    <3>2. cache[k].validated \in Nat /\ 2 * ValidTTL \in Nat
      BY <1>1 DEF Entry, Time
    <3>3. cache[k].valid => clock + 2 * ttl[r] <= cache[k].validated + 2 * ValidTTL
      <4> DEFINE x == clock + 2 * ttl[r]  y == 2 * ValidTTL
      <4>1. x \in Nat /\ y \in Nat /\ x <= cache[k].expires
        BY <1>1, <2>2
      <4> HIDE DEF x, y
      <4>2. QED
        BY <1>1, <3>1, <3>2, <4>1 DEF x, y
    <3>4. QED
      BY <1>2, <2>3, <3>3 DEF SpanInv
  <2>5. \A j \in Key : SpanInv(j)'
    BY <1>2, <1>3, <2>3, <2>4 DEF SpanInv, Cached
  <2>6. QED
    BY <1>5, <1>6, <1>9, <2>1, <2>5
<1>14. QED
  BY <1>11, <1>12, <1>13

(* Any other step: an entry is kept, removed or written anew, and a request *)
(* that starts to touch one has just read it.                               *)
LEMMA ElseTrusted ==
  ASSUME CredentialTypeOK, TruthInv, ~redis, TrustInv, \A q \in Req : ~Touching(q), [CredentialNext]_credentialVars
  PROVE  (\A q \in Req : SoleInv(q)' /\ TouchInv(q)') /\ (\A k \in Key : SpanInv(k)')
<1>1. /\ cache \in [Key -> Entry] /\ clock \in Nat /\ key \in [Req -> Key] /\ DOMAIN pc = Req
      /\ DOMAIN answer = Req
      /\ \A k \in Key : SpanInv(k) /\ CacheInv(k) /\ cache[k].expires \in Nat
  BY DEF CredentialTypeOK, TruthInv, TrustInv, Entry, Time
<1>2. ASSUME NEW k \in Key, clock' \in {clock, clock + 1},
             cache'[k] = cache[k] \/ cache'[k] = NoEntry
      PROVE  SpanInv(k)'
  BY <1>1, <1>2 DEF SpanInv, Cached, NoEntry
<1>3. ASSUME \A q \in Req : ~Touching(q)'
      PROVE  \A q \in Req : SoleInv(q)' /\ TouchInv(q)'
  BY <1>3 DEF SoleInv, TouchInv, Touching
<1>4. ASSUME UNCHANGED pc PROVE \A q \in Req : ~Touching(q)'
  BY <1>4 DEF Touching
<1>5. ASSUME NEW r \in Req, NEW step \in Steps \ {"touch_get", "touch_ttl", "touch_set"}, Goto(r, step)
      PROVE  \A q \in Req : ~Touching(q)'
  BY <1>1, <1>5 DEF Goto, Touching
<1>6. ASSUME NEW r \in Req, NEW admit \in BOOLEAN, Decide(r, admit)
      PROVE  \A q \in Req : ~Touching(q)'
  <2>1. Goto(r, IF admit THEN "forward" ELSE "idle")
    BY <1>6 DEF Decide
  <2>2. QED
    BY <1>5, <2>1 DEF Steps
<1>7. ASSUME NEW r \in Req, LookupHit(r)
      PROVE  (\A q \in Req : SoleInv(q)' /\ TouchInv(q)') /\ (\A k \in Key : SpanInv(k)')
  <2>1. /\ Cached(key[r]) /\ sweep = {} /\ pc' = [pc EXCEPT ![r] = "touch_get"]
        /\ answer' = [answer EXCEPT ![r] = IF cache[key[r]].valid THEN "valid" ELSE "invalid"]
        /\ UNCHANGED <<clock, good, revoked, sweep, cache, key>>
    BY <1>7 DEF LookupHit, Alone, Goto, world
  <2>2. /\ pc'[r] = "touch_get" /\ \A q \in Req \ {r} : ~Touching(q)'
        /\ answer'[r] = "valid" => cache[key[r]].valid
    BY <1>1, <2>1 DEF Touching
  <2>3. \A q \in Req : SoleInv(q)'
    BY <2>1, <2>2 DEF SoleInv
  <2>4. TouchInv(r)'
    <3>1. key[r] \in Key
      BY <1>1
    <3>2. answer'[r] = "valid" => Trusted(key[r])
      BY <1>1, <2>1, <2>2, <3>1, ReadIsTrusted
    <3>3. Trusted(key[r])' = Trusted(key[r])
      BY <2>1 DEF Trusted
    <3>4. QED
      BY <2>2, <3>2, <3>3 DEF TouchInv
  <2>5. \A q \in Req \ {r} : TouchInv(q)'
    BY <2>2 DEF TouchInv, Touching
  <2>6. \A k \in Key : SpanInv(k)'
    BY <1>2, <2>1
  <2>7. QED
    BY <2>3, <2>4, <2>5, <2>6
<1>8. ASSUME NEW r \in Req, Arrive(r) \/ LookupMiss(r) \/ CountTokens(r) \/ BackendAnswers(r)
      PROVE  (\A q \in Req : ~Touching(q)') /\ (\A k \in Key : SpanInv(k)')
  <2>1. UNCHANGED <<clock, cache>>
    BY <1>8 DEF Arrive, LookupMiss, CountTokens, BackendAnswers, world
  <2>2. \E step \in Steps \ {"touch_get", "touch_ttl", "touch_set"} : Goto(r, step)
    BY <1>8 DEF Arrive, LookupMiss, CountTokens, BackendAnswers, Steps
  <2>3. QED
    BY <1>2, <1>5, <2>1, <2>2
<1>9. ASSUME NEW r \in Req, CacheVerdict(r)
      PROVE  (\A q \in Req : ~Touching(q)') /\ (\A k \in Key : SpanInv(k)')
  <2> DEFINE j == key[r]  valid == answer[r] = "valid"
  <2>1. /\ SetEx(j, IF valid THEN ValidTTL ELSE InvalidTTL, valid, clock)
        /\ Decide(r, valid) /\ UNCHANGED clock
    BY <1>9 DEF CacheVerdict, world
  <2>2. \A q \in Req : ~Touching(q)'
    <3>1. valid \in BOOLEAN
      OBVIOUS
    <3>2. QED
      BY <1>6, <2>1, <3>1
  <2> HIDE DEF j, valid
  <2>3. ASSUME NEW k \in Key PROVE SpanInv(k)'
    <3>1. CASE k = j
      <4>1. /\ cache'[k].valid = valid /\ cache'[k].validated = clock
            /\ cache'[k].expires = clock + 2 * (IF valid THEN ValidTTL ELSE InvalidTTL)
        BY <1>1, <2>1, <3>1 DEF SetEx
      <4>2. QED
        BY <1>1, <4>1 DEF SpanInv
    <3>2. CASE k # j
      BY <1>1, <1>2, <2>1, <3>2 DEF SetEx
    <3>3. QED
      BY <3>1, <3>2
  <2>4. QED
    BY <2>2, <2>3
<1>10. ASSUME NEW r \in Req, Inconclusive(r)
       PROVE  (\A q \in Req : ~Touching(q)') /\ (\A k \in Key : SpanInv(k)')
  <2>1. Decide(r, bearer[r]) /\ bearer[r] \in BOOLEAN /\ UNCHANGED <<clock, cache>>
    BY <1>10 DEF Inconclusive, world, CredentialTypeOK
  <2>2. QED
    BY <1>2, <1>6, <2>1
<1>11. ASSUME NEW r \in Req PROVE ~TouchGet(r) /\ ~TouchTTL(r) /\ ~TouchSet(r)
  BY DEF TouchGet, TouchTTL, TouchSet, Touching
<1>12. ASSUME NEW k \in Key, Invalidate(k) \/ Revoke(k)
       PROVE  (\A q \in Req : ~Touching(q)') /\ (\A j \in Key : SpanInv(j)')
  <2>1. UNCHANGED <<pc, clock>> /\ \A j \in Key : cache'[j] = cache[j] \/ cache'[j] = NoEntry
    BY <1>1, <1>12 DEF Invalidate, Revoke, request
  <2>2. QED
    BY <1>2, <1>4, <2>1
<1>13. CASE ScanAll \/ UnlinkAll \/ ClockTick \/ UNCHANGED credentialVars
  <2>1. /\ UNCHANGED pc /\ clock' \in {clock, clock + 1}
        /\ \A j \in Key : cache'[j] = cache[j] \/ cache'[j] = NoEntry
    BY <1>13 DEF ScanAll, UnlinkAll, ClockTick, credentialVars, request
  <2>2. QED
    BY <1>2, <1>3, <1>4, <2>1
<1>14. QED
  BY <1>3, <1>7, <1>8, <1>9, <1>10, <1>11, <1>12, <1>13 DEF CredentialNext, RequestStep

LEMMA TrustNext ==
  ASSUME CredentialTypeOK, TruthInv, TrustInv, [CredentialNext]_credentialVars
  PROVE  TrustInv'
<1> SUFFICES ASSUME ~redis' PROVE (\A q \in Req : SoleInv(q)' /\ TouchInv(q)') /\ (\A k \in Key : SpanInv(k)')
  BY DEF TrustInv
<1>1. ~redis
  BY RedisKept
<1>2. ASSUME NEW r \in Req, Touching(r)
      PROVE  (\A q \in Req : SoleInv(q)' /\ TouchInv(q)') /\ (\A k \in Key : SpanInv(k)')
  <2>1. TouchGet(r) \/ TouchTTL(r) \/ TouchSet(r) \/ UNCHANGED credentialVars
    BY <1>1, <1>2, OnlyTouch DEF TrustInv
  <2>2. CASE UNCHANGED credentialVars
    BY <1>1, <2>2 DEF TrustInv, credentialVars, request, SoleInv, TouchInv, SpanInv, Touching, Cached, Trusted
  <2>3. QED
    BY <1>1, <1>2, <2>1, <2>2, TouchTrusted
<1>3. QED
  BY <1>1, <1>2, ElseTrusted

(* A verdict that admits is of this touch or of this validation.            *)
LEMMA AdmittedInTime ==
  ASSUME CredentialTypeOK, TruthInv, TrustInv, [CredentialNext]_credentialVars, NEW r \in Req, ~redis,
         pc[r] # "forward", pc'[r] = "forward", answer[r] = "valid"
  PROVE  Trusted(key[r])
<1>1. CASE Touching(r)
  BY <1>1 DEF TrustInv, TouchInv
<1>2. CASE pc[r] = "answered"
  <2>1. key[r] \in Key /\ (good[key[r]] \/ asked[r] <= revoked[key[r]]) /\ clock <= asked[r] + AskTimeout
    BY <1>2 DEF TruthInv, RequestInv, CredentialTypeOK
  <2>2. clock \in Nat /\ asked[r] \in Nat /\ revoked[key[r]] \in Nat /\ 2 * ValidTTL \in Nat
    BY <2>1 DEF CredentialTypeOK, Time
  <2>3. QED
    BY <2>1, <2>2 DEF Trusted
<1>3. ASSUME NEW q \in Req, Arrive(q) \/ LookupHit(q) \/ LookupMiss(q) \/ CountTokens(q) \/ BackendAnswers(q)
      PROVE  pc'[r] # "forward"
  BY <1>3 DEF Arrive, LookupHit, LookupMiss, CountTokens, BackendAnswers, Goto, CredentialTypeOK
<1>4. ASSUME NEW q \in Req, TouchGet(q) \/ TouchTTL(q) \/ TouchSet(q)
      PROVE  Touching(r)
  <2>1. q = r
    BY <1>4 DEF TouchGet, TouchTTL, TouchSet, Decide, Goto, CredentialTypeOK
  <2>2. QED
    BY <1>4, <2>1 DEF TouchGet, TouchTTL, TouchSet, Touching
<1>5. ASSUME NEW q \in Req, CacheVerdict(q) \/ Inconclusive(q)
      PROVE  pc[r] = "answered"
  BY <1>5 DEF CacheVerdict, Inconclusive, Decide, Goto, CredentialTypeOK
<1>6. ASSUME ScanAll \/ UnlinkAll \/ ClockTick \/ UNCHANGED credentialVars \/ \E k \in Key : Invalidate(k) \/ Revoke(k)
      PROVE  FALSE
  BY <1>6 DEF ScanAll, UnlinkAll, ClockTick, credentialVars, Invalidate, Revoke, request
<1>7. QED
  BY <1>1, <1>2, <1>3, <1>4, <1>5, <1>6 DEF CredentialNext, RequestStep

(* In process a key is admitted on a verdict, its own or a cached one, for  *)
(* at most one TTL and one validation after it was revoked, however often   *)
(* it is used and however requests, operators and time interleave.          *)
THEOREM TrustEnds == CredentialSpec => TrustBounded
<1>1. CredentialInit => TrustInv
  BY DEF CredentialInit, TrustInv, SoleInv, TouchInv, SpanInv, Touching, Cached, NoEntry
<1>2. CredentialIndInv /\ TrustInv /\ [CredentialNext]_credentialVars => TrustInv'
  BY TrustNext DEF CredentialIndInv
<1>3. CredentialIndInv /\ TrustInv /\ [CredentialNext]_credentialVars =>
        [\A r \in Req : ~redis /\ pc[r] # "forward" /\ pc'[r] = "forward" /\ answer[r] = "valid" =>
           good[key[r]] \/ clock <= revoked[key[r]] + AskTimeout + 2 * ValidTTL]_credentialVars
  BY AdmittedInTime DEF CredentialIndInv, Trusted
<1>4. QED
  BY <1>1, <1>2, <1>3, Invariance, PTL DEF CredentialSpec, TrustBounded
=============================================================================
