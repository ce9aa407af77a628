---------------------------- MODULE ServicesProofs ----------------------------
(***************************************************************************)
(* The services beside the request path and what surrounds the running      *)
(* gateway, for every value of the constants: any sets of calls, client     *)
(* keys, writers, requests, streams, clients, administrators, operators and *)
(* gateways, any TTL, limit, cap and queue size, any values of a setting,   *)
(* any migration files, any age of a session. Each section has the          *)
(* inductive invariant of one service; a step of another leaves it alone.   *)
(***************************************************************************)
EXTENDS Services, FiniteSetTheorems, NaturalsInduction, SequenceTheorems, TLAPS

-----------------------------------------------------------------------------
(* The provider registry: what is cached, or about to be, was the stored    *)
(* record at its stamp or later.                                             *)

(* The program counters of a resolution, and the values of its locals.      *)
CallPlaces == {"idle", "lock", "reading", "fetched", "credential", "key_read", "key_fetched", "build", "done"}
CallState == [began : 0..MaxTime, stamp : 0..MaxTime, rec : Row, key : Key, end : Outcomes \cup {"none"}]

-----------------------------------------------------------------------------
(* Types.                                                                   *)

(* The missing row, and a call that has not begun, are of their types.      *)
LEMMA RegistryRecords ==
  /\ NoRow \in Row /\ NoRow \in Key /\ Idle \in CallState
         /\ \A w \in Outcomes \cup {"none"} : [Idle EXCEPT !.end = w] \in CallState
  BY RegistryAssumption DEF NoRow, Row, Key, Version, Idle, CallState, Outcomes

(* A step of a call leaves the other calls alone, and its own is typed.     *)
LEMMA EndTypes ==
  ASSUME TypeOK, NEW c \in Calls, NEW why \in Outcomes, End(c, why)
  PROVE  pc' \in [Calls -> CallPlaces] /\ call' \in [Calls -> CallState]
  BY RegistryRecords DEF TypeOK, End, Go, CallPlaces, CallState

(* So is the step that makes a provider of a row, or fails to.              *)
LEMMA ResolvedTypes ==
  ASSUME TypeOK, NEW c \in Calls, NEW r \in Row, NEW started \in CallState,
         Resolved(c, r, started)
  PROVE  pc' \in [Calls -> CallPlaces] /\ call' \in [Calls -> CallState]
<1>1. CASE r.shape = "unknown_backend"
  <2>1. End(c, "UnknownBackendTypeError")
    BY <1>1, Zenon DEF Resolved
  <2>2. "UnknownBackendTypeError" \in Outcomes
    BY DEF Outcomes
  <2>3. QED
    BY <2>1, <2>2, EndTypes
<1>2. CASE r.shape # "unknown_backend"
  <2>1. [started EXCEPT !.rec = r, !.stamp = 0] \in CallState
    <3>1. 0 \in 0..MaxTime
      BY RegistryAssumption
    <3>2. QED
      BY <3>1 DEF CallState
  <2>2. /\ pc' = [pc EXCEPT ![c] = IF r.shape \in Bare THEN "build" ELSE "credential"]
        /\ call' = [call EXCEPT ![c] = [started EXCEPT !.rec = r, !.stamp = 0]]
    BY <1>2, Zenon DEF Resolved, Go
  <2>3. call \in [Calls -> CallState] /\ pc \in [Calls -> CallPlaces]
    BY DEF TypeOK, CallPlaces, CallState
  <2>4. (IF r.shape \in Bare THEN "build" ELSE "credential") \in CallPlaces
    BY DEF CallPlaces
  <2>5. QED
    BY <2>1, <2>2, <2>3, <2>4
<1>3. QED
  BY <1>1, <1>2

(* An administrator's write, its invalidation and the clock keep the        *)
(* types.                                                                   *)
LEMMA WriteTypes ==
  ASSUME TypeOK,
         \/ \E shape \in Shapes, pops \in BOOLEAN : WriteRow(shape, pops)
         \/ \E shape \in NewKeys \cup {"absent"} : WriteKey(shape)
         \/ PopRow \/ PopKey \/ Tick
  PROVE  TypeOK'
<1> USE RegistryAssumption DEF TypeOK
<1>1. CASE \E shape \in Shapes, pops \in BOOLEAN : WriteRow(shape, pops)
  <2>1. PICK shape \in Shapes, pops \in BOOLEAN : WriteRow(shape, pops)
    BY <1>1
  <2>2. row.version \in Version /\ key.version \in Version /\ row.version + 1 \in Version
    BY <2>1 DEF WriteRow, Row, Key, Version
  <2>3. row' \in Row /\ replaced' \in [Version -> 0..MaxTime] /\ popping' \subseteq {"row", "key"}
    BY <2>1, <2>2 DEF WriteRow, Row
  <2>4. QED
    BY <2>1, <2>3 DEF WriteRow
<1>2. CASE \E shape \in NewKeys \cup {"absent"} : WriteKey(shape)
  <2>1. PICK shape \in NewKeys \cup {"absent"} : WriteKey(shape)
    BY <1>2
  <2>2. row.version \in Version /\ key.version \in Version /\ key.version + 1 \in Version
    BY <2>1 DEF WriteKey, Row, Key, Version
  <2>3. key' \in Key
    BY <2>1, <2>2 DEF WriteKey, Key, NewKeys, KeyShapes
  <2>4. QED
    BY <2>1, <2>3 DEF WriteKey
<1>3. CASE PopRow
  BY <1>3 DEF PopRow
<1>4. CASE PopKey
  BY <1>4 DEF PopKey
<1>5. CASE Tick
  BY <1>5 DEF Tick
<1>6. QED
  BY <1>1, <1>2, <1>3, <1>4, <1>5

(* A step of a call keeps the types.                                        *)
LEMMA CallTypes ==
  ASSUME TypeOK, NEW c \in Calls, Step(c) \/ Interrupt(c) \/ Again(c)
  PROVE  TypeOK'
<1>1. call[c] \in CallState /\ now \in 0..MaxTime
  BY DEF TypeOK, CallState
<1>2. /\ now' = now /\ row' = row /\ key' = key /\ replaced' = replaced /\ popping' = popping
  BY DEF Step, Start, Lock, ReadRow, StoreRow, LookupKey, ReadKey, StoreKey, Build, Interrupt,
     Again, UnchangedAdmin
<1>3. SUFFICES /\ pc' \in [Calls -> CallPlaces] /\ call' \in [Calls -> CallState]
               /\ entry' \subseteq [at : 0..MaxTime, row : Row]
               /\ keyEntry' \subseteq [at : 0..MaxTime, key : Key] /\ holder' \subseteq Calls
  BY <1>2 DEF TypeOK, CallPlaces, CallState
<1>4. CASE Start(c)
  <2>1. [call[c] EXCEPT !.began = now] \in CallState
    BY <1>1 DEF CallState
  <2>2. CASE \E e \in entry : Fresh(e) /\ Resolved(c, e.row, [call[c] EXCEPT !.began = now])
    <3>1. PICK e \in entry : Resolved(c, e.row, [call[c] EXCEPT !.began = now])
      BY <2>2
    <3>2. e.row \in Row
      BY DEF TypeOK
    <3>3. QED
      BY <1>4, <2>1, <3>1, <3>2, ResolvedTypes DEF Start, TypeOK
  <2>3. CASE Go(c, "lock") /\ call' = [call EXCEPT ![c] = [call[c] EXCEPT !.began = now]]
    BY <1>4, <2>1, <2>3 DEF Start, TypeOK, Go, CallPlaces, CallState
  <2>4. QED
    BY <1>4, <2>2, <2>3 DEF Start
<1>5. CASE Lock(c)
  <2>1. CASE \E e \in entry : Fresh(e) /\ Resolved(c, e.row, call[c]) /\ UNCHANGED holder
    <3>1. PICK e \in entry : Resolved(c, e.row, call[c]) /\ UNCHANGED holder
      BY <2>1
    <3>2. e.row \in Row
      BY DEF TypeOK
    <3>3. QED
      BY <1>1, <1>5, <3>1, <3>2, ResolvedTypes DEF Lock, TypeOK
  <2>2. CASE holder' = {c} /\ Go(c, "reading") /\ call' = [call EXCEPT ![c].stamp = now]
    BY <1>1, <1>5, <2>2 DEF Lock, TypeOK, Go, CallPlaces, CallState
  <2>3. QED
    BY <1>5, <2>1, <2>2 DEF Lock
<1>6. CASE ReadRow(c)
  BY <1>1, <1>6 DEF ReadRow, TypeOK, Go, CallPlaces, CallState
<1>7. CASE StoreRow(c)
  <2>1. CASE call[c].rec.shape = "absent"
    <3>1. End(c, "ProviderNotFoundError") /\ entry' = {} /\ holder' = {} /\ keyEntry' = keyEntry
      BY <1>7, <2>1 DEF StoreRow
    <3>2. QED
      BY <3>1, EndTypes DEF Outcomes, TypeOK
  <2>2. CASE call[c].rec.shape # "absent"
    <3>1. /\ Resolved(c, call[c].rec, call[c]) /\ holder' = {} /\ keyEntry' = keyEntry
          /\ entry' = {[at |-> call[c].stamp, row |-> call[c].rec]}
      BY <1>7, <2>2 DEF StoreRow, Stamp
    <3>2. call[c].rec \in Row /\ call[c].stamp \in 0..MaxTime
      BY <1>1 DEF CallState
    <3>3. QED
      BY <1>1, <3>1, <3>2, ResolvedTypes DEF TypeOK
  <2>3. QED
    BY <2>1, <2>2
<1>8. CASE LookupKey(c)
  <2>1. CASE \E e \in keyEntry : /\ Fresh(e) /\ Go(c, "build")
                                 /\ call' = [call EXCEPT ![c].key = e.key] /\ UNCHANGED keyEntry
    BY <1>1, <1>8, <2>1 DEF LookupKey, TypeOK, Go, CallPlaces, CallState
  <2>2. CASE keyEntry' = {} /\ Go(c, "key_read") /\ UNCHANGED call
    BY <1>8, <2>2 DEF LookupKey, TypeOK, Go, CallPlaces, CallState
  <2>3. QED
    BY <1>8, <2>1, <2>2 DEF LookupKey
<1>9. CASE ReadKey(c)
  BY <1>1, <1>9 DEF ReadKey, TypeOK, Go, CallPlaces, CallState
<1>10. CASE StoreKey(c)
  <2>1. CASE call[c].key.shape = "absent"
    <3>1. End(c, "MissingCredentialError") /\ UNCHANGED <<entry, holder, keyEntry>>
      BY <1>10, <2>1 DEF StoreKey
    <3>2. QED
      BY <3>1, EndTypes DEF Outcomes, TypeOK
  <2>2. CASE call[c].key.shape = "unreadable"
    <3>1. End(c, "CredentialResolutionError") /\ UNCHANGED <<entry, holder, keyEntry>>
      BY <1>10, <2>2 DEF StoreKey
    <3>2. QED
      BY <3>1, EndTypes DEF Outcomes, TypeOK
  <2>3. CASE call[c].key.shape \notin {"absent", "unreadable"}
    <3>1. /\ keyEntry' = {[at |-> now, key |-> call[c].key]} /\ Go(c, "build")
          /\ UNCHANGED <<call, entry, holder>>
      BY <1>10, <2>3 DEF StoreKey
    <3>2. QED
      BY <1>1, <3>1 DEF TypeOK, Go, CallPlaces, CallState
  <2>4. QED
    BY <2>1, <2>2, <2>3
<1>11. CASE Build(c)
  <2>1. Built(call[c].rec.shape, call[c].key.shape) \in Outcomes
    BY DEF Built, Outcomes
  <2>2. End(c, Built(call[c].rec.shape, call[c].key.shape)) /\ UNCHANGED <<entry, holder, keyEntry>>
    BY <1>11 DEF Build
  <2>3. QED
    BY <2>1, <2>2, EndTypes DEF TypeOK
<1>12. CASE Interrupt(c)
  <2>1. PICK why \in {"cancelled", "failed"} : End(c, why)
    BY <1>12 DEF Interrupt
  <2>2. why \in Outcomes
    BY DEF Outcomes
  <2>3. QED
    BY <1>12, <2>1, <2>2, EndTypes DEF Interrupt, TypeOK
<1>13. CASE Again(c)
  BY <1>13, RegistryRecords DEF Again, TypeOK, Go, CallPlaces, CallState
<1>14. QED
  BY <1>4, <1>5, <1>6, <1>7, <1>8, <1>9, <1>10, <1>11, <1>12, <1>13 DEF Step

-----------------------------------------------------------------------------
(* What is cached was current since its stamp.                              *)

(* What the types say of numbers, for the arithmetic of the leaves.         *)
LEMMA RegistryRanges ==
  ASSUME TypeOK
  PROVE  /\ now \in Nat /\ Ttl \in Nat /\ Ttl >= 1 /\ row.version \in Nat
         /\ \A v \in Version : v \in Nat /\ replaced[v] \in Nat
         /\ \A e \in entry : e.at \in Nat /\ e.row \in Row /\ e.row.version \in Version
         /\ \A c \in Calls : /\ call[c] \in CallState /\ pc[c] \in CallPlaces
                             /\ call[c].began \in Nat /\ call[c].stamp \in Nat
                             /\ call[c].rec \in Row /\ call[c].rec.version \in Version
  BY RegistryAssumption DEF TypeOK, Version, Row, CallState, CallPlaces

(* The end of a version is noted when it comes, so never too early.         *)
LEMMA CurrentSinceStays ==
  ASSUME TypeOK,
         \/ \E shape \in Shapes, pops \in BOOLEAN : WriteRow(shape, pops)
         \/ row' = row /\ replaced' = replaced,
         NEW v \in Version, NEW at \in Int, v <= row.version, at <= now, CurrentSince(v, at)
  PROVE  CurrentSince(v, at)' /\ v <= row.version'
<1>1. CASE \E shape \in Shapes, pops \in BOOLEAN : WriteRow(shape, pops)
  <2>1. /\ row.version' = row.version + 1
        /\ replaced' = [replaced EXCEPT ![row.version] = now]
    BY <1>1 DEF WriteRow
  <2>2. row.version \in Version /\ replaced \in [Version -> 0..MaxTime]
    BY DEF TypeOK, Row
  <2>3. v \in Nat /\ row.version \in Nat
    BY RegistryRanges
  <2>4. CASE v = row.version
    BY <2>1, <2>2, <2>3, <2>4 DEF CurrentSince
  <2>5. CASE v # row.version
    <3>1. replaced'[v] = replaced[v] /\ replaced[v] >= at
      BY <2>1, <2>2, <2>5 DEF CurrentSince
    <3>2. QED
      BY <2>1, <2>3, <3>1 DEF CurrentSince
  <2>6. QED
    BY <2>4, <2>5
<1>2. CASE row' = row /\ replaced' = replaced
  BY <1>2 DEF CurrentSince
<1>3. QED
  BY <1>1, <1>2

(* Every step of the administrator and of the clock keeps the stamps true.  *)
LEMMA WritesKeep ==
  ASSUME IInv,
         \/ \E shape \in Shapes, pops \in BOOLEAN : WriteRow(shape, pops)
         \/ \E shape \in NewKeys \cup {"absent"} : WriteKey(shape)
         \/ PopRow \/ PopKey \/ Tick
  PROVE  EntryInv' /\ \A c \in Calls : CallInv(c)'
<1>1. /\ pc' = pc /\ call' = call /\ entry' \subseteq entry /\ now' >= now /\ now' \in Nat
      /\ \/ \E shape \in Shapes, pops \in BOOLEAN : WriteRow(shape, pops)
         \/ row' = row /\ replaced' = replaced
  BY RegistryRanges DEF IInv, WriteRow, WriteKey, PopRow, PopKey, Tick
<1>2. ASSUME NEW v \in Version, NEW at \in Int, v <= row.version, at <= now, CurrentSince(v, at)
      PROVE  v = row.version' \/ replaced'[v] >= at
  BY <1>1, <1>2, CurrentSinceStays DEF IInv, CurrentSince
<1>3. ASSUME NEW v \in Version, v <= row.version
      PROVE  v <= row.version'
  <2>1. v \in Nat /\ row.version \in Nat /\ (row' = row \/ row.version' = row.version + 1)
    BY <1>1, RegistryRanges DEF IInv, WriteRow
  <2>2. QED
    BY <1>3, <2>1
<1>4. EntryInv'
  <2>1. SUFFICES ASSUME NEW e \in entry
                 PROVE  /\ e.at <= now' /\ e.row.version <= row.version'
                        /\ CurrentSince(e.row.version, e.at)'
    BY <1>1 DEF EntryInv
  <2>2. e.at \in Nat /\ e.row.version \in Version /\ now \in Nat
    BY RegistryRanges DEF IInv
  <2>3. e.at <= now /\ e.row.version <= row.version /\ CurrentSince(e.row.version, e.at)
    BY DEF IInv, EntryInv
  <2>4. QED
    <3>1. e.at <= now'
      BY <1>1, <2>2, <2>3
    <3>2. e.row.version <= row.version'
      BY <1>3, <2>2, <2>3
    <3>3. e.row.version = row.version' \/ replaced'[e.row.version] >= e.at
      BY <1>2, <2>2, <2>3
    <3>4. QED
      BY <3>1, <3>2, <3>3 DEF CurrentSince
<1>5. ASSUME NEW c \in Calls
      PROVE  CallInv(c)'
  <2>1. /\ call[c].began \in Nat /\ call[c].stamp \in Nat /\ call[c].rec.version \in Version
        /\ now \in Nat /\ Ttl \in Nat /\ Ttl >= 1
    BY RegistryRanges DEF IInv
  <2>2. CallInv(c)
    BY DEF IInv
  <2>3. call[c].began <= now' /\ call[c].stamp <= now' /\ call[c].rec.version <= row.version'
    <3>1. call[c].began <= now /\ call[c].stamp <= now /\ call[c].rec.version <= row.version
      BY <2>2 DEF CallInv
    <3>2. call[c].rec.version <= row.version'
      BY <1>3, <2>1, <3>1
    <3>3. QED
      BY <1>1, <2>1, <3>1, <3>2
  <2>4. pc[c] = "fetched" => CurrentSince(call[c].rec.version, call[c].stamp)'
    <3> SUFFICES ASSUME pc[c] = "fetched"
                 PROVE  CurrentSince(call[c].rec.version, call[c].stamp)'
      OBVIOUS
    <3>1. /\ call[c].rec.version <= row.version /\ call[c].stamp <= now
          /\ CurrentSince(call[c].rec.version, call[c].stamp)
      BY <2>2 DEF CallInv
    <3>2. \/ call[c].rec.version = row.version'
          \/ replaced'[call[c].rec.version] >= call[c].stamp
      BY <1>2, <2>1, <3>1
    <3>3. QED
      BY <1>1, <3>2 DEF CurrentSince
  <2>5. pc[c] \in {"credential", "key_read", "key_fetched", "build"} =>
          CurrentSince(call[c].rec.version, call[c].began - Ttl + 1)'
    <3> SUFFICES ASSUME pc[c] \in {"credential", "key_read", "key_fetched", "build"}
                 PROVE  CurrentSince(call[c].rec.version, call[c].began - Ttl + 1)'
      OBVIOUS
    <3>1. call[c].began - Ttl + 1 \in Int /\ call[c].began - Ttl + 1 <= now
      BY <2>1, <2>2 DEF CallInv
    <3>2. /\ call[c].rec.version <= row.version
          /\ CurrentSince(call[c].rec.version, call[c].began - Ttl + 1)
      BY <2>2 DEF CallInv
    <3>3. \/ call[c].rec.version = row.version'
          \/ replaced'[call[c].rec.version] >= call[c].began - Ttl + 1
      BY <1>2, <2>1, <3>1, <3>2
    <3>4. QED
      BY <1>1, <3>3 DEF CurrentSince
  <2>6. QED
    BY <1>1, <2>2, <2>3, <2>4, <2>5 DEF CallInv, CurrentSince
<1>6. QED
  BY <1>4, <1>5

-----------------------------------------------------------------------------
(* What a call works with.                                                  *)

(* A call that ends keeps what holds of it.                                 *)
LEMMA EndInv ==
  ASSUME TypeOK, row' = row, now' = now, NEW c \in Calls, NEW why, End(c, why)
  PROVE  CallInv(c)'
<1>1. pc'[c] = "done" /\ call'[c] = [Idle EXCEPT !.end = why]
  BY DEF TypeOK, End, Go
<1>2. /\ call'[c].began = 0 /\ call'[c].stamp = 0 /\ call'[c].rec = NoRow
      /\ NoRow.version = 0
  BY <1>1 DEF Idle, NoRow
<1>3. 0 <= now /\ 0 <= row.version
  BY RegistryRanges
<1>4. QED
  BY <1>1, <1>2, <1>3 DEF CallInv

(* One that goes on with a row took it at a stamp since which it is         *)
(* current.                                                                 *)
LEMMA ResolvedInv ==
  ASSUME TypeOK, row' = row, now' = now, replaced' = replaced,
         NEW c \in Calls, NEW r \in Row, NEW started \in CallState, Resolved(c, r, started),
         r.version <= row.version, started.began <= now,
         CurrentSince(r.version, started.began - Ttl + 1)
  PROVE  CallInv(c)'
<1>1. CASE r.shape = "unknown_backend"
  <2>1. End(c, "UnknownBackendTypeError")
    BY <1>1, Zenon DEF Resolved
  <2>2. QED
    BY <2>1, EndInv
<1>2. CASE r.shape # "unknown_backend"
  <2>1. /\ pc' = [pc EXCEPT ![c] = IF r.shape \in Bare THEN "build" ELSE "credential"]
        /\ call' = [call EXCEPT ![c] = [started EXCEPT !.rec = r, !.stamp = 0]]
    BY <1>2, Zenon DEF Resolved, Go
  <2>2. /\ pc'[c] \in {"build", "credential"}
        /\ call'[c] = [started EXCEPT !.rec = r, !.stamp = 0]
    BY <2>1 DEF TypeOK
  <2>3. call'[c].began = started.began /\ call'[c].stamp = 0 /\ call'[c].rec = r
    BY <2>2 DEF CallState
  <2>4. 0 <= now
    BY RegistryRanges
  <2>5. CurrentSince(call'[c].rec.version, call'[c].began - Ttl + 1)
    BY <2>3
  <2>6. QED
    BY <2>2, <2>3, <2>4, <2>5 DEF CallInv, CurrentSince
<1>3. QED
  BY <1>1, <1>2

(* A record found in the cache is fresh, so it was current within Ttl.      *)
LEMMA FreshIsRecent ==
  ASSUME IInv, NEW e \in entry, Fresh(e), NEW began \in Nat, began <= now
  PROVE  /\ e.row \in Row /\ e.row.version <= row.version
         /\ CurrentSince(e.row.version, began - Ttl + 1)
<1>1. /\ e.at \in Nat /\ e.row \in Row /\ e.row.version \in Version
      /\ now \in Nat /\ Ttl \in Nat /\ replaced[e.row.version] \in Nat
  BY RegistryRanges DEF IInv
<1>2. e.row.version <= row.version /\ CurrentSince(e.row.version, e.at)
  BY DEF IInv, EntryInv
<1>3. e.at >= began - Ttl + 1
  BY <1>1 DEF Fresh
<1>4. QED
  BY <1>1, <1>2, <1>3 DEF CurrentSince

(* A step of one resolution keeps the invariant of all of them.             *)
LEMMA StepInv ==
  ASSUME IInv, NEW c \in Calls, Step(c) \/ Interrupt(c) \/ Again(c)
  PROVE  EntryInv' /\ \A d \in Calls : CallInv(d)'
<1>1. /\ now' = now /\ row' = row /\ key' = key /\ replaced' = replaced
  BY DEF Step, Start, Lock, ReadRow, StoreRow, LookupKey, ReadKey, StoreKey, Build, Interrupt,
     Again, UnchangedAdmin
<1>2. ASSUME NEW d \in Calls, d # c
      PROVE  pc'[d] = pc[d] /\ call'[d] = call[d]
  BY <1>2 DEF IInv, TypeOK, Step, Start, Lock, ReadRow, StoreRow, LookupKey, ReadKey, StoreKey,
     Build, Interrupt, Again, Resolved, End, Go
<1>3. ASSUME NEW d \in Calls, d # c
      PROVE  CallInv(d)'
  <2>1. CallInv(d)
    BY DEF IInv
  <2>2. QED
    BY <1>1, <1>2, <1>3, <2>1 DEF CallInv, CurrentSince
<1>4. SUFFICES EntryInv' /\ CallInv(c)'
  BY <1>3
<1>5. /\ TypeOK /\ CallInv(c) /\ call[c] \in CallState /\ now \in Nat /\ call[c].began \in Nat
      /\ call[c].stamp \in Nat /\ call[c].rec \in Row /\ call[c].rec.version \in Nat
      /\ Ttl \in Nat /\ Ttl >= 1 /\ call[c].rec.version \in Version
  BY RegistryRanges DEF IInv
<1>6. ASSUME entry' = entry \/ entry' = {}
      PROVE  EntryInv'
  BY <1>1, <1>6 DEF IInv, EntryInv, CurrentSince
<1>7. CASE Start(c)
  <2>1. CASE \E e \in entry : Fresh(e) /\ Resolved(c, e.row, [call[c] EXCEPT !.began = now])
    <3>1. PICK e \in entry : Fresh(e) /\ Resolved(c, e.row, [call[c] EXCEPT !.began = now])
      BY <2>1
    <3>2. /\ [call[c] EXCEPT !.began = now] \in CallState
          /\ [call[c] EXCEPT !.began = now].began = now
      BY <1>5 DEF TypeOK, CallState
    <3>3. /\ e.row \in Row /\ e.row.version <= row.version
          /\ CurrentSince(e.row.version, now - Ttl + 1)
      BY <1>5, <3>1, FreshIsRecent
    <3>4. now <= now
      BY <1>5
    <3>5. CallInv(c)'
      <4> DEFINE started == [call[c] EXCEPT !.began = now]
      <4>1. started \in CallState /\ started.began = now /\ Resolved(c, e.row, started)
        BY <3>1, <3>2
      <4>2. started.began <= now /\ CurrentSince(e.row.version, started.began - Ttl + 1)
        BY <3>3, <3>4, <4>1
      <4> HIDE DEF started
      <4>3. QED
        BY <1>1, <1>5, <3>3, <4>1, <4>2, ResolvedInv
    <3>6. QED
      BY <1>6, <1>7, <3>5 DEF Start
  <2>2. CASE Go(c, "lock") /\ call' = [call EXCEPT ![c] = [call[c] EXCEPT !.began = now]]
    <3>1. pc'[c] = "lock" /\ call'[c] = [call[c] EXCEPT !.began = now]
      BY <1>5, <2>2 DEF TypeOK, Go
    <3>2. call'[c].began = now /\ call'[c].stamp = call[c].stamp /\ call'[c].rec = call[c].rec
      BY <1>5, <3>1 DEF CallState
    <3>3. CallInv(c)'
      BY <1>1, <1>5, <1>7, <3>1, <3>2 DEF Start, CallInv
    <3>4. QED
      BY <1>6, <1>7, <3>3 DEF Start
  <2>3. QED
    BY <1>7, <2>1, <2>2 DEF Start
<1>8. CASE Lock(c)
  <2>1. CASE \E e \in entry : Fresh(e) /\ Resolved(c, e.row, call[c])
    <3>1. PICK e \in entry : Fresh(e) /\ Resolved(c, e.row, call[c])
      BY <2>1
    <3>2. call[c].began <= now
      BY <1>5 DEF CallInv
    <3>3. /\ e.row \in Row /\ e.row.version <= row.version
          /\ CurrentSince(e.row.version, call[c].began - Ttl + 1)
      BY <1>5, <3>1, <3>2, FreshIsRecent
    <3>4. CallInv(c)'
      BY <1>1, <1>5, <3>1, <3>2, <3>3, ResolvedInv
    <3>5. QED
      BY <1>6, <1>8, <3>4 DEF Lock
  <2>2. CASE Go(c, "reading") /\ call' = [call EXCEPT ![c].stamp = now]
    <3>1. pc'[c] = "reading" /\ call'[c] = [call[c] EXCEPT !.stamp = now]
      BY <1>5, <2>2 DEF TypeOK, Go
    <3>2. call'[c].began = call[c].began /\ call'[c].stamp = now /\ call'[c].rec = call[c].rec
      BY <1>5, <3>1 DEF CallState
    <3>3. CallInv(c)'
      BY <1>1, <1>5, <1>8, <3>1, <3>2 DEF Lock, CallInv
    <3>4. QED
      BY <1>6, <1>8, <3>3 DEF Lock
  <2>3. QED
    BY <1>8, <2>1, <2>2 DEF Lock
<1>9. CASE ReadRow(c)
  <2>1. pc'[c] = "fetched" /\ call'[c] = [call[c] EXCEPT !.rec = row]
    BY <1>5, <1>9 DEF ReadRow, TypeOK, Go
  <2>2. call'[c].began = call[c].began /\ call'[c].stamp = call[c].stamp /\ call'[c].rec = row
    BY <1>5, <2>1 DEF CallState
  <2>3. row.version \in Nat
    BY <1>5, RegistryRanges
  <2>4. CallInv(c)'
    BY <1>1, <1>5, <1>9, <2>1, <2>2, <2>3 DEF ReadRow, CallInv, CurrentSince
  <2>5. QED
    BY <1>6, <1>9, <2>4 DEF ReadRow
<1>10. CASE StoreRow(c)
  <2>1. /\ pc[c] = "fetched" /\ call[c].rec.version <= row.version
        /\ CurrentSince(call[c].rec.version, call[c].stamp)
        /\ call[c].began <= call[c].stamp /\ call[c].stamp <= now /\ call[c].began <= now
    BY <1>5, <1>10 DEF StoreRow, CallInv
  <2>2. CASE call[c].rec.shape = "absent"
    <3>1. End(c, "ProviderNotFoundError") /\ entry' = {}
      BY <1>10, <2>2 DEF StoreRow
    <3>2. QED
      BY <1>1, <1>5, <1>6, <3>1, EndInv
  <2>3. CASE call[c].rec.shape # "absent"
    <3>1. /\ Resolved(c, call[c].rec, call[c])
          /\ entry' = {[at |-> call[c].stamp, row |-> call[c].rec]}
      BY <1>10, <2>3 DEF StoreRow, Stamp
    <3>2. EntryInv'
      BY <1>1, <2>1, <3>1 DEF EntryInv, CurrentSince
    <3>3. replaced[call[c].rec.version] \in Nat
      BY <1>5, RegistryRanges
    <3>4. CurrentSince(call[c].rec.version, call[c].began - Ttl + 1)
      BY <1>5, <2>1, <3>3 DEF CurrentSince
    <3>5. CallInv(c)'
      BY <1>1, <1>5, <2>1, <3>1, <3>4, ResolvedInv
    <3>6. QED
      BY <3>2, <3>5
  <2>4. QED
    BY <2>2, <2>3
<1>11. CASE LookupKey(c)
  <2>1. entry' = entry /\ pc[c] = "credential" /\ pc'[c] \in {"build", "key_read"}
    BY <1>5, <1>11 DEF LookupKey, TypeOK, Go
  <2>2. /\ call'[c].began = call[c].began /\ call'[c].stamp = call[c].stamp
        /\ call'[c].rec = call[c].rec
    BY <1>5, <1>11 DEF LookupKey, TypeOK, CallState
  <2>3. QED
    BY <1>1, <1>5, <1>6, <2>1, <2>2 DEF CallInv, CurrentSince
<1>12. CASE ReadKey(c)
  <2>1. entry' = entry /\ pc[c] = "key_read" /\ pc'[c] = "key_fetched"
    BY <1>5, <1>12 DEF ReadKey, TypeOK, Go
  <2>2. /\ call'[c].began = call[c].began /\ call'[c].stamp = call[c].stamp
        /\ call'[c].rec = call[c].rec
    BY <1>5, <1>12 DEF ReadKey, TypeOK, CallState
  <2>3. QED
    BY <1>1, <1>5, <1>6, <2>1, <2>2 DEF CallInv, CurrentSince
<1>13. CASE StoreKey(c)
  <2>1. CASE call[c].key.shape \in {"absent", "unreadable"}
    <3>1. PICK why \in {"MissingCredentialError", "CredentialResolutionError"} :
            End(c, why) /\ entry' = entry
      BY <1>13, <2>1 DEF StoreKey
    <3>2. QED
      BY <1>1, <1>5, <1>6, <3>1, EndInv
  <2>2. CASE call[c].key.shape \notin {"absent", "unreadable"}
    <3>1. entry' = entry /\ pc[c] = "key_fetched" /\ Go(c, "build") /\ call' = call
      BY <1>13, <2>2 DEF StoreKey
    <3>2. pc'[c] = "build"
      BY <1>5, <3>1 DEF TypeOK, Go
    <3>3. QED
      BY <1>1, <1>5, <1>6, <3>1, <3>2 DEF CallInv, CurrentSince
  <2>3. QED
    BY <2>1, <2>2
<1>14. CASE Build(c)
  BY <1>1, <1>5, <1>6, <1>14, EndInv DEF Build
<1>15. CASE Interrupt(c)
  <2>1. PICK why \in {"cancelled", "failed"} : End(c, why) /\ entry' = entry
    BY <1>15 DEF Interrupt
  <2>2. QED
    BY <1>1, <1>5, <1>6, <2>1, EndInv
<1>16. CASE Again(c)
  <2>1. entry' = entry /\ pc'[c] = "idle" /\ call'[c] = Idle
    BY <1>5, <1>16 DEF Again, TypeOK, Go
  <2>2. /\ Idle.began = 0 /\ Idle.stamp = 0 /\ Idle.rec = NoRow /\ NoRow.version = 0
        /\ row.version >= 0
    BY <1>5, RegistryRanges DEF Idle, NoRow
  <2>3. QED
    BY <1>1, <1>5, <1>6, <2>1, <2>2 DEF CallInv
<1>17. QED
  BY <1>7, <1>8, <1>9, <1>10, <1>11, <1>12, <1>13, <1>14, <1>15, <1>16 DEF Step

-----------------------------------------------------------------------------

(* The invariant of every behaviour: what is cached, or about to be, was    *)
(* the stored record at its stamp or later.                                 *)
THEOREM RegistryInvariance == Spec => []IInv
<1>1. RgInit => IInv
  <2> SUFFICES ASSUME RgInit PROVE IInv
    OBVIOUS
  <2>1. row \in Row /\ row.version = 0 /\ key \in Key
    BY RegistryAssumption DEF RgInit, Row, Key, Version, KeyShapes
  <2>2. TypeOK
    <3>1. 0 \in 0..MaxTime /\ Idle \in CallState
      BY RegistryRecords, RegistryAssumption
    <3>2. replaced \in [Version -> 0..MaxTime]
      BY <3>1 DEF RgInit
    <3>3. call \in [Calls -> CallState]
      BY <3>1 DEF RgInit
    <3>4. pc \in [Calls -> CallPlaces]
      BY DEF RgInit, CallPlaces
    <3>5. /\ now \in 0..MaxTime /\ entry = {} /\ keyEntry = {} /\ holder = {} /\ popping = {}
      BY <3>1 DEF RgInit
    <3>6. QED
      <4>1. /\ entry \subseteq [at : 0..MaxTime, row : Row] /\ holder \subseteq Calls
            /\ keyEntry \subseteq [at : 0..MaxTime, key : Key] /\ popping \subseteq {"row", "key"}
        BY <3>5
      <4>2. QED
        BY <2>1, <3>2, <3>3, <3>4, <3>5, <4>1, Zenon DEF TypeOK, CallState, CallPlaces
  <2>3. ASSUME NEW c \in Calls PROVE CallInv(c)
    <3>1. pc[c] = "idle" /\ call[c] = Idle /\ now = 0
      BY DEF RgInit
    <3>2. Idle.began = 0 /\ Idle.stamp = 0 /\ Idle.rec = NoRow /\ NoRow.version = 0
      BY DEF Idle, NoRow
    <3>3. QED
      BY <2>1, <3>1, <3>2 DEF CallInv
  <2>4. QED
    BY <2>2, <2>3 DEF RgInit, IInv, EntryInv
<1>2. IInv /\ [RgNext]_registryVars => IInv'
  <2> SUFFICES ASSUME IInv, [RgNext]_registryVars PROVE IInv'
    OBVIOUS
  <2>1. CASE \/ \E shape \in Shapes, pops \in BOOLEAN : WriteRow(shape, pops)
             \/ \E shape \in NewKeys \cup {"absent"} : WriteKey(shape)
             \/ PopRow \/ PopKey \/ Tick
    BY <2>1, WriteTypes, WritesKeep DEF IInv
  <2>2. CASE \E c \in Calls : Step(c) \/ Interrupt(c) \/ Again(c)
    <3>1. PICK c \in Calls : Step(c) \/ Interrupt(c) \/ Again(c)
      BY <2>2
    <3>2. QED
      BY <3>1, CallTypes, StepInv DEF IInv
  <2>3. CASE UNCHANGED registryVars
    BY <2>3 DEF registryVars, IInv, TypeOK, EntryInv, CallInv, CurrentSince, Fresh
  <2>4. QED
    BY <2>1, <2>2, <2>3 DEF RgNext
<1>3. Init => RgInit
  BY DEF Init
<1>4. [Next]_vars => [RgNext]_registryVars
  BY DEF Next, vars, besideVars, Picked
<1>5. QED
  BY <1>1, <1>2, <1>3, <1>4, PTL DEF Spec

(* "bounded config staleness after an admin-API edit" holds whatever write, *)
(* lost invalidation, failed or cancelled lookup comes in between, for any  *)
(* number of calls and any TTL.                                             *)
THEOREM StalenessBounded == Spec => []BoundedStaleness
<1>1. IInv => BoundedStaleness
  <2> SUFFICES ASSUME IInv, NEW c \in Calls, call[c].rec # NoRow
               PROVE  \/ call[c].rec.version = row.version
                      \/ replaced[call[c].rec.version] + Ttl > call[c].began
    BY DEF BoundedStaleness
  <2>1. CallInv(c) /\ pc[c] \in CallPlaces
    BY RegistryRanges DEF IInv
  <2>2. /\ call[c].began \in Nat /\ call[c].stamp \in Nat /\ Ttl \in Nat /\ Ttl >= 1
        /\ replaced[call[c].rec.version] \in Nat
    BY RegistryRanges DEF IInv
  <2>3. pc[c] \in {"fetched", "credential", "key_read", "key_fetched", "build"}
    BY <2>1 DEF CallInv, CallPlaces
  <2>4. QED
    BY <2>1, <2>2, <2>3 DEF CallInv, CurrentSince
<1>2. QED
  BY <1>1, RegistryInvariance, PTL

-----------------------------------------------------------------------------
(* The rate limiter: every bucket accounts for what it has granted, and the *)
(* buckets are those of the keys checked last.                              *)

(* Only a step of the limiter touches its buckets.                          *)
LEMMA LimiterSteps ==
  [Next]_vars => \/ Limiter!RlNext
                 \/ UNCHANGED limiterVars /\ (clock' = clock \/ clock' = clock + 1)
<1> SUFFICES ASSUME [Next]_vars PROVE \/ Limiter!RlNext
                                      \/ UNCHANGED limiterVars /\ (clock' = clock \/ clock' = clock + 1)
  OBVIOUS
<1>1. ASSUME Cache!PcNext PROVE clock' = clock \/ clock' = clock + 1
  <2>1. ASSUME Cache!Moment PROVE clock' = clock + 1
    BY <2>1 DEF Cache!Moment
  <2>2. ASSUME NEW w \in Writers, \/ Cache!Count(w) \/ Cache!Select(w) \/ Cache!Delete(w)
                                  \/ Cache!Commit(w) \/ Cache!Rollback(w) \/ Cache!Abandon(w)
        PROVE  clock' = clock
    BY <2>2 DEF Cache!Count, Cache!Select, Cache!Delete, Cache!Commit, Cache!Rollback, Cache!Abandon
  <2>3. ASSUME NEW w \in Writers, NEW k \in CacheKeys, Cache!Begin(w, k) PROVE clock' = clock
    BY <2>3 DEF Cache!Begin
  <2>4. ASSUME NEW keys, Cache!Remove(keys) PROVE clock' = clock
    BY <2>4 DEF Cache!Remove
  <2>5. ASSUME Cache!Flush PROVE clock' = clock
    BY <2>5 DEF Cache!Flush
  <2>6. QED
    BY <1>1, <2>1, <2>2, <2>3, <2>4, <2>5 DEF Cache!PcNext
<1>2. Limiter!RlNext \/ UNCHANGED <<limiterVars, clock>> \/ (UNCHANGED limiterVars /\ Cache!PcNext)
  BY DEF Next, vars, besideVars, Picked
<1>3. QED
  BY <1>1, <1>2

(* The sequence without its i-th element. *)
LEMMA Removed ==
  ASSUME NEW S, NEW s \in Seq(S), NEW i \in 1..Len(s)
  PROVE  LET r == Limiter!RemoveAt(s, i) IN
         /\ r \in Seq(S) /\ Len(r) = Len(s) - 1
         /\ \A m \in 1..Len(s) - 1 : r[m] = IF m < i THEN s[m] ELSE s[m + 1]
<1> DEFINE a == SubSeq(s, 1, i - 1)  b == SubSeq(s, i + 1, Len(s))
<1>1. Len(s) \in Nat /\ \A m \in 1..Len(s) : s[m] \in S
  BY LenProperties
<1>2. a \in Seq(S) /\ Len(a) = i - 1 /\ \A m \in 1..i - 1 : a[m] = s[m]
  <2>1. /\ SubSeq(s, 1, i - 1) \in Seq(S) /\ Len(SubSeq(s, 1, i - 1)) = IF 1 <= i - 1 THEN i - 1 - 1 + 1 ELSE 0
        /\ \A m \in 1..i - 1 - 1 + 1 : SubSeq(s, 1, i - 1)[m] = s[1 + m - 1]
    <3>1. \A m \in 1..i - 1 : s[m] \in S
      BY <1>1
    <3>2. QED
      BY <3>1, SubSeqProperties
  <2>2. QED
    BY <1>1, <2>1
<1>3. b \in Seq(S) /\ Len(b) = Len(s) - i /\ \A m \in 1..Len(s) - i : b[m] = s[i + m]
  <2>1. /\ SubSeq(s, i + 1, Len(s)) \in Seq(S) /\ Len(SubSeq(s, i + 1, Len(s))) = IF i + 1 <= Len(s) THEN Len(s) - (i + 1) + 1 ELSE 0
        /\ \A m \in 1..Len(s) - (i + 1) + 1 : SubSeq(s, i + 1, Len(s))[m] = s[i + 1 + m - 1]
    <3>1. \A m \in i + 1..Len(s) : s[m] \in S
      BY <1>1
    <3>2. i + 1 \in Int /\ Len(s) \in Int
      BY <1>1
    <3>3. QED
      BY <3>1, <3>2, SubSeqProperties
  <2>2. QED
    BY <1>1, <2>1
<1> HIDE DEF a, b
<1>4. a \o b \in Seq(S) /\ Len(a \o b) = Len(a) + Len(b) /\ \A m \in 1..Len(a) + Len(b) : (a \o b)[m] = IF m <= Len(a) THEN a[m] ELSE b[m - Len(a)]
  <2>1. a \in Seq(S) /\ b \in Seq(S)
    BY <1>2, <1>3
  <2>2. QED
    BY <2>1, ConcatProperties
<1>5. \A m \in 1..Len(s) - 1 : (a \o b)[m] = IF m < i THEN s[m] ELSE s[m + 1]
  <2> SUFFICES ASSUME NEW m \in 1..Len(s) - 1 PROVE (a \o b)[m] = IF m < i THEN s[m] ELSE s[m + 1]
    OBVIOUS
  <2>1. CASE m < i
    BY <1>1, <1>2, <1>3, <1>4, <2>1
  <2>2. CASE ~(m < i)
    <3>1. m - Len(a) \in 1..Len(s) - i /\ (a \o b)[m] = b[m - Len(a)] /\ i + (m - Len(a)) = m + 1
      BY <1>1, <1>2, <1>3, <1>4, <2>2
    <3>2. QED
      BY <1>3, <2>2, <3>1
  <2>3. QED
    BY <2>1, <2>2
<1>6. Limiter!RemoveAt(s, i) = a \o b
  BY DEF Limiter!RemoveAt, a, b
<1>7. Len(a) + Len(b) = Len(s) - 1
  BY <1>1, <1>2, <1>3
<1>8. QED
  BY <1>4, <1>5, <1>6, <1>7

(* Where an element of a sequence is.                                       *)
LEMMA PositionOf ==
  ASSUME NEW S, NEW s \in Seq(S), NEW k
  PROVE  /\ Limiter!Contains(s, k) <=> \E n \in 1..Len(s) : s[n] = k
         /\ Limiter!Contains(s, k) => Limiter!Position(s, k) \in 1..Len(s) /\ s[Limiter!Position(s, k)] = k
<1>1. DOMAIN s = 1..Len(s)
  OBVIOUS
<1>2. QED
  BY <1>1 DEF Limiter!Contains, Limiter!Position

(* A sequence with an element at its end.                                   *)
LEMMA AppendTo ==
  ASSUME NEW S, NEW s \in Seq(S), NEW e \in S
  PROVE  Append(s, e) \in Seq(S) /\ Len(Append(s, e)) = Len(s) + 1 /\ Len(s) \in Nat
         /\ \A m \in 1..Len(s) + 1 : Append(s, e)[m] = IF m <= Len(s) THEN s[m] ELSE e
OBVIOUS

(* A sequence without its first element.                                    *)
LEMMA TailOf ==
  ASSUME NEW S, NEW s \in Seq(S), Len(s) > 0
  PROVE  Tail(s) \in Seq(S) /\ Len(Tail(s)) = Len(s) - 1 /\ \A m \in 1..Len(s) - 1 : Tail(s)[m] = s[m + 1]
OBVIOUS

(* A bucket; what it has granted, in 60ths of a token, is no more than it   *)
(* was given; a promise made to its client is the second its next token is  *)
(* there; the keys of the buckets are the last ones checked.                *)
Pail == [key : Keys, units : Nat, at : Nat, made : Nat, granted : Nat]
Accounted(b) == /\ b.granted * 60 + b.units <= Burst * 60 + (b.at - b.made) * Rpm
                /\ b.made <= b.at /\ b.at <= clock /\ b.units <= Burst * 60
Promised(b) == promise[b.key] # -1 => b.units < 60 /\ promise[b.key] = b.at + Limiter!RetryAfter(b.units)
Distinct(s) == \A m, n \in 1..Len(s) : s[m] = s[n] => m = n
LastOf(s, o) == Len(s) <= Len(o) /\ \A n \in 1..Len(s) : s[n].key = o[Len(o) - Len(s) + n]
LimiterInv ==
  /\ clock \in Nat /\ buckets \in Seq(Pail) /\ order \in Seq(Keys) /\ promise \in [Keys -> Int]
  /\ Distinct(order) /\ LastOf(buckets, order)
  /\ \A n \in 1..Len(buckets) : Accounted(buckets[n]) /\ Promised(buckets[n])

(* The keys of the buckets, as a sequence.                                  *)
LEMMA Keyed ==
  ASSUME LimiterInv
  PROVE  /\ Limiter!BucketKeys \in Seq(Keys) /\ Len(Limiter!BucketKeys) = Len(buckets) /\ Len(buckets) \in Nat
         /\ \A n \in 1..Len(buckets) : buckets[n] \in Pail /\ buckets[n].key \in Keys /\ Limiter!BucketKeys[n] = buckets[n].key
<1>1. DOMAIN buckets = 1..Len(buckets) /\ Len(buckets) \in Nat /\ \A n \in 1..Len(buckets) : buckets[n] \in Pail
  BY LenProperties DEF LimiterInv
<1>2. \A n \in 1..Len(buckets) : buckets[n].key \in Keys
  BY <1>1 DEF Pail
<1>3. Limiter!BucketKeys = [n \in 1..Len(buckets) |-> buckets[n].key]
  BY <1>1 DEF Limiter!BucketKeys
<1>4. QED
  BY <1>1, <1>2, <1>3

(* The bucket of a key, if it is kept, is at its place. *)
LEMMA Placement ==
  ASSUME LimiterInv, NEW k \in Keys
  PROVE  /\ Limiter!Known(k) <=> \E n \in 1..Len(buckets) : buckets[n].key = k
         /\ Limiter!Known(k) => Limiter!Place(k) \in 1..Len(buckets) /\ buckets[Limiter!Place(k)].key = k
BY Keyed, PositionOf DEF Limiter!Known, Limiter!Place

(* Dropping k from the buckets, or the first of them when k is new, leaves  *)
(* buckets that are again the last of the keys, k dropped there too.        *)
KeysLeft(k) == IF Limiter!Contains(order, k) THEN Limiter!RemoveAt(order, Limiter!Position(order, k)) ELSE order

(* The buckets a check leaves alone are those of the keys checked last,     *)
(* without its own, and, when they are full, without the one checked        *)
(* longest ago.                                                             *)
LEMMA OthersFollow ==
  ASSUME LimiterInv, NEW k \in Keys
  PROVE  LET o == Limiter!Others(k)  r == KeysLeft(k) IN
         /\ o \in Seq(Pail) /\ r \in Seq(Keys) /\ Distinct(r) /\ LastOf(o, r)
         /\ \A n \in 1..Len(r) : r[n] # k
         /\ \A n \in 1..Len(o) : o[n].key # k /\ \E m \in 1..Len(buckets) : o[n] = buckets[m]
<1> DEFINE o == Limiter!Others(k)  r == KeysLeft(k)  L == Len(buckets)  N == Len(order)  i == Limiter!Place(k)  j == Limiter!Position(order, k)
<1>1. /\ L \in Nat /\ N \in Nat /\ L <= N /\ buckets \in Seq(Pail) /\ order \in Seq(Keys)
      /\ \A n \in 1..L : buckets[n].key = order[N - L + n]
      /\ \A m, n \in 1..N : order[m] = order[n] => m = n
  BY Keyed DEF LimiterInv, LastOf, Distinct
<1>2. /\ Limiter!Known(k) <=> \E n \in 1..L : buckets[n].key = k
      /\ Limiter!Known(k) => i \in 1..L /\ buckets[i].key = k
  BY Placement
<1>3. /\ Limiter!Contains(order, k) <=> \E n \in 1..N : order[n] = k
      /\ Limiter!Contains(order, k) => j \in 1..N /\ order[j] = k
  BY <1>1, PositionOf
<1>4. /\ r \in Seq(Keys)
      /\ Limiter!Contains(order, k) => Len(r) = N - 1 /\ \A m \in 1..N - 1 : r[m] = IF m < j THEN order[m] ELSE order[m + 1]
      /\ ~Limiter!Contains(order, k) => r = order
  BY <1>1, <1>3, Removed DEF KeysLeft
<1>5. CASE Limiter!Known(k)
  <2>1. o \in Seq(Pail) /\ Len(o) = L - 1 /\ \A m \in 1..L - 1 : o[m] = IF m < i THEN buckets[m] ELSE buckets[m + 1]
    BY <1>1, <1>2, <1>5, Removed DEF Limiter!Others
  <2> HIDE DEF o, r, L, N, i, j
  <2>2. Limiter!Contains(order, k) /\ j = N - L + i
    <3>1. i \in 1..L /\ buckets[i].key = k
      BY <1>2, <1>5
    <3>2. N - L + i \in 1..N /\ order[N - L + i] = k
      BY <1>1, <3>1
    <3>3. Limiter!Contains(order, k) /\ j \in 1..N /\ order[j] = k
      BY <1>3, <3>2
    <3>4. QED
      BY <1>1, <3>2, <3>3
  <2>3. Len(r) = N - 1 /\ \A m \in 1..N - 1 : r[m] = IF m < j THEN order[m] ELSE order[m + 1]
    BY <1>4, <2>2
  <2>4. \A n \in 1..N - 1 : r[n] # k
    BY <1>1, <1>3, <2>2, <2>3
  <2>5. \A m, n \in 1..N - 1 : r[m] = r[n] => m = n
    BY <1>1, <1>3, <2>2, <2>3
  <2>6. ASSUME NEW n \in 1..L - 1
        PROVE  /\ o[n].key = r[(N - 1) - (L - 1) + n]
               /\ o[n].key # k /\ \E m \in 1..L : o[n] = buckets[m]
    <3> DEFINE p == (N - 1) - (L - 1) + n
    <3>1. p = N - L + n /\ p \in 1..N - 1 /\ (n < i <=> p < j) /\ p + 1 = N - L + (n + 1) /\ n \in 1..L /\ n + 1 \in 1..L
      BY <1>1, <1>2, <1>5, <2>2
    <3> HIDE DEF p
    <3>2. o[n].key = r[p]
      <4>1. CASE n < i
        <5>1. o[n].key = order[N - L + n]
          BY <1>1, <2>1, <3>1, <4>1
        <5>2. QED
          BY <2>3, <3>1, <4>1, <5>1
      <4>2. CASE ~(n < i)
        <5>1. o[n].key = order[N - L + (n + 1)]
          BY <1>1, <2>1, <3>1, <4>2
        <5>2. QED
          BY <2>3, <3>1, <4>2, <5>1
      <4>3. QED
        BY <4>1, <4>2
    <3>3. \E m \in 1..L : o[n] = buckets[m]
      BY <2>1, <3>1
    <3>4. QED
      BY <2>4, <3>1, <3>2, <3>3 DEF p
  <2>7. L - 1 <= N - 1
    BY <1>1
  <2>8. QED
    BY <1>1, <1>4, <2>1, <2>3, <2>4, <2>5, <2>6, <2>7 DEF o, r, L, LastOf, Distinct
<1>6. CASE ~Limiter!Known(k)
  <2> DEFINE d == IF L = MaxKeys THEN 1 ELSE 0
  <2>1. o \in Seq(Pail) /\ Len(o) = L - d /\ \A m \in 1..L - d : o[m] = buckets[m + d]
    <3>1. CASE L = MaxKeys
      <4>1. L > 0 /\ o = Tail(buckets)
        BY <1>1, <1>6, <3>1, LimiterAssumption DEF Limiter!Others
      <4>2. QED
        BY <1>1, <3>1, <4>1, TailOf
    <3>2. CASE L # MaxKeys
      <4>1. o = buckets
        BY <1>6, <3>2 DEF Limiter!Others
      <4>2. QED
        BY <1>1, <3>2, <4>1
    <3>3. QED
      BY <3>1, <3>2
  <2>2. d \in {0, 1} /\ d <= L
    BY <1>1, LimiterAssumption
  <2> HIDE DEF d, o, r, L, N, i, j
  <2>3. \A n \in 1..L - d : n + d \in 1..L /\ o[n].key = order[N - L + d + n] /\ o[n].key # k
    <3> SUFFICES ASSUME NEW n \in 1..L - d PROVE n + d \in 1..L /\ o[n].key = order[N - L + d + n] /\ o[n].key # k
      OBVIOUS
    <3>1. n + d \in 1..L /\ N - L + (n + d) = N - L + d + n
      BY <1>1, <2>2
    <3>2. QED
      BY <1>1, <1>2, <1>6, <2>1, <3>1
  <2>4. CASE ~Limiter!Contains(order, k)
    <3>1. r = order /\ Len(r) = N
      BY <1>4, <2>4 DEF N
    <3>2. Distinct(r) /\ \A n \in 1..Len(r) : r[n] # k
      BY <1>1, <1>3, <2>4, <3>1 DEF Distinct, N
    <3>3. L - d <= N /\ \A n \in 1..L - d : N - L + d + n = N - (L - d) + n
      BY <1>1, <2>2
    <3>4. LastOf(o, r)
      BY <2>1, <2>3, <3>1, <3>3 DEF LastOf
    <3>5. QED
      BY <1>4, <2>1, <2>3, <3>2, <3>4 DEF o, r, L
  <2>5. CASE Limiter!Contains(order, k)
    <3>1. Len(r) = N - 1 /\ \A m \in 1..N - 1 : r[m] = IF m < j THEN order[m] ELSE order[m + 1]
      BY <1>4, <2>5
    <3>2. j \in 1..N - L
      <4>1. j \in 1..N /\ order[j] = k
        BY <1>3, <2>5
      <4>2. ASSUME j > N - L PROVE FALSE
        <5>1. j - (N - L) \in 1..L /\ N - L + (j - (N - L)) = j
          BY <1>1, <4>1, <4>2
        <5>2. buckets[j - (N - L)].key = k
          BY <1>1, <4>1, <5>1
        <5>3. QED
          BY <1>2, <1>6, <5>1, <5>2
      <4>3. QED
        BY <1>1, <4>1, <4>2
    <3>3. (\A n \in 1..N - 1 : r[n] # k) /\ \A m, n \in 1..N - 1 : r[m] = r[n] => m = n
      BY <1>1, <1>3, <2>5, <3>1
    <3>4. L - d <= N - 1 /\ \A n \in 1..L - d : o[n].key = r[(N - 1) - (L - d) + n]
      <4>1. L - d <= N - 1
        BY <1>1, <2>2, <3>2
      <4>2. ASSUME NEW n \in 1..L - d PROVE o[n].key = r[(N - 1) - (L - d) + n]
        <5> DEFINE p == (N - 1) - (L - d) + n
        <5>1. p \in 1..N - 1 /\ p + 1 = N - L + d + n
          BY <1>1, <2>2, <3>2
        <5>2. ~(p < j)
          BY <1>1, <2>2, <3>2
        <5>3. r[p] = order[p + 1]
          BY <3>1, <5>1, <5>2
        <5>4. QED
          BY <2>3, <5>1, <5>3
      <4>3. QED
        BY <4>1, <4>2
    <3>5. QED
      BY <1>4, <2>1, <2>3, <3>1, <3>3, <3>4 DEF o, r, L, LastOf, Distinct
  <2>6. QED
    BY <2>4, <2>5
<1>7. QED
  BY <1>5, <1>6

(* Products. *)
LEMMA Product ==
  ASSUME NEW a \in Nat, NEW b \in Nat, NEW c \in Nat
  PROVE  a * c \in Nat /\ (a + b) * c = a * c + b * c
OBVIOUS

(* ... and the refill grows with the time.                                  *)
LEMMA ProductGrows ==
  ASSUME NEW a \in Nat, NEW b \in Nat, NEW c \in Nat, a <= b
  PROVE  a * c <= b * c
<1>1. b - a \in Nat /\ b = a + (b - a)
  OBVIOUS
<1>2. b * c = a * c + (b - a) * c /\ (b - a) * c \in Nat /\ a * c \in Nat
  BY <1>1, Product
<1>3. QED
  BY <1>2

(* A wait of RetryAfter seconds refills a whole token, ...                  *)
LEMMA CeilEnough ==
  ASSUME NEW a \in Nat, NEW b \in Nat \ {0}
  PROVE  Limiter!CeilDiv(a, b) \in Nat /\ Limiter!CeilDiv(a, b) * b >= a
<1> DEFINE q == (a + b - 1) \div b
<1>1. a + b - 1 \in Nat
  OBVIOUS
<1>2. q \in Int /\ b * q <= a + b - 1 /\ a + b - 1 < b * (q + 1)
  BY <1>1
<1>3. b * (q + 1) = b * q + b
  BY <1>2
<1>4. b * q >= a
  BY <1>2, <1>3
<1>5. q >= 0
  BY <1>1
<1>6. QED
  BY <1>2, <1>4, <1>5 DEF Limiter!CeilDiv

(* Refilling keeps a bucket within what its lifetime adds, and leaves at    *)
(* least what it had and the refill, or a full bucket.                      *)
LEMMA RefillKeeps ==
  ASSUME clock \in Nat, NEW b \in Pail, Accounted(b)
  PROVE  LET r == Limiter!Refilled(b) IN
         /\ r \in Pail /\ r.key = b.key /\ r.at = clock /\ Accounted(r)
         /\ r.units >= Burst * 60 \/ r.units >= b.units + (clock - b.at) * Rpm
<1> DEFINE g == (clock - b.at) * Rpm  h == (b.at - b.made) * Rpm  F == Burst * 60  r == Limiter!Refilled(b)
<1>1. /\ b.key \in Keys /\ b.units \in Nat /\ b.at \in Nat /\ b.made \in Nat /\ b.granted \in Nat /\ Rpm \in Nat
      /\ clock - b.at \in Nat /\ b.at - b.made \in Nat /\ b.granted * 60 \in Nat /\ F \in Nat
      /\ (clock - b.at) + (b.at - b.made) = clock - b.made
  BY LimiterAssumption DEF Pail, Accounted
<1>2. g \in Nat /\ h \in Nat /\ (clock - b.made) * Rpm = g + h
  BY <1>1, Product
<1>3. b.granted * 60 + b.units <= F + h /\ b.made <= b.at /\ b.at <= clock /\ b.units <= F
  BY DEF Accounted
<1>4. r = [b EXCEPT !.units = Limiter!Least(F, b.units + g), !.at = clock]
  BY DEF Limiter!Refilled, Limiter!Full, Limiter!Token
<1> HIDE DEF r, F, g, h
<1>5. Limiter!Least(F, b.units + g) \in Nat /\ Limiter!Least(F, b.units + g) <= F /\ Limiter!Least(F, b.units + g) <= b.units + g
      /\ (Limiter!Least(F, b.units + g) = F \/ Limiter!Least(F, b.units + g) = b.units + g)
  BY <1>1, <1>2 DEF Limiter!Least
<1>6. /\ r \in Pail /\ r.key = b.key /\ r.at = clock /\ r.made = b.made /\ r.granted = b.granted
      /\ r.units = Limiter!Least(F, b.units + g)
  BY <1>1, <1>4, <1>5 DEF Pail
<1>7. r.granted * 60 + r.units <= F + (clock - b.made) * Rpm
  BY <1>1, <1>2, <1>3, <1>5, <1>6
<1>8. r.made <= r.at /\ r.at <= clock /\ r.units <= F
  BY <1>1, <1>3, <1>5, <1>6
<1>9. Accounted(r)
  BY <1>6, <1>7, <1>8 DEF Accounted, F
<1>10. r.units >= F \/ r.units >= b.units + g
  BY <1>1, <1>2, <1>5, <1>6
<1>11. QED
  BY <1>6, <1>9, <1>10 DEF r, F, g

(* The bucket of a key, and the token that a denial has promised.           *)
LEMMA Bucketed ==
  ASSUME LimiterInv, NEW k \in Keys
  PROVE  LET b == Limiter!Bucket(k) IN
         /\ b \in Pail /\ b.key = k /\ b.at = clock /\ Accounted(b)
         /\ promise[k] # -1 /\ clock >= promise[k] => b.units >= 60
<1> DEFINE b == Limiter!Bucket(k)
<1>1. clock \in Nat /\ Burst * 60 \in Nat /\ Burst * 60 >= 60 /\ Rpm \in Nat /\ promise[k] \in Int
  BY LimiterAssumption DEF LimiterInv
<1>2. CASE ~Limiter!Known(k)
  <2>1. b = [key |-> k, units |-> Burst * 60, at |-> clock, made |-> clock, granted |-> 0]
    BY <1>2 DEF Limiter!Bucket, Limiter!Full, Limiter!Token
  <2>2. b \in Pail /\ b.key = k /\ b.at = clock /\ b.made = clock /\ b.units = Burst * 60 /\ b.granted = 0
    BY <1>1, <2>1 DEF Pail
  <2>3. (clock - clock) * Rpm = 0
    BY <1>1
  <2>4. Accounted(b)
    BY <1>1, <2>2, <2>3 DEF Accounted
  <2>5. QED
    BY <1>1, <2>2, <2>4
<1>3. CASE Limiter!Known(k)
  <2> DEFINE n == Limiter!Place(k)  o == buckets[n]
  <2>1. n \in 1..Len(buckets) /\ o.key = k /\ b = Limiter!Refilled(o)
    BY <1>3, Placement DEF Limiter!Bucket
  <2>2. o \in Pail /\ Accounted(o) /\ Promised(o)
    BY <2>1, Keyed DEF LimiterInv
  <2> HIDE DEF n, o, b
  <2>3. /\ b \in Pail /\ b.key = o.key /\ b.at = clock /\ Accounted(b)
        /\ b.units >= Burst * 60 \/ b.units >= o.units + (clock - o.at) * Rpm
    BY <1>1, <2>1, <2>2, RefillKeeps
  <2>4. ASSUME promise[k] # -1, clock >= promise[k] PROVE b.units >= 60
    <3> DEFINE c == Limiter!CeilDiv(60 - o.units, Rpm)
    <3>1. o.units < 60 /\ promise[k] = o.at + c
      BY <2>1, <2>2, <2>4 DEF Promised, Limiter!RetryAfter, Limiter!Token
    <3>2. o.units \in Nat /\ o.at \in Nat /\ o.at <= clock /\ b.units \in Nat
      BY <2>2, <2>3 DEF Pail, Accounted
    <3>3. 60 - o.units \in Nat /\ Rpm \in Nat \ {0}
      BY <3>1, <3>2, LimiterAssumption
    <3>4. c \in Nat /\ c * Rpm >= 60 - o.units
      BY <3>3, CeilEnough
    <3> HIDE DEF c
    <3>5. clock - o.at \in Nat /\ c <= clock - o.at
      BY <1>1, <2>4, <3>1, <3>2, <3>4
    <3>6. c * Rpm <= (clock - o.at) * Rpm /\ c * Rpm \in Nat /\ (clock - o.at) * Rpm \in Nat
      BY <3>3, <3>4, <3>5, Product, ProductGrows
    <3>7. o.units + (clock - o.at) * Rpm >= 60
      BY <3>2, <3>4, <3>6
    <3>8. QED
      BY <1>1, <2>3, <3>2, <3>6, <3>7
  <2>5. QED
    BY <2>1, <2>3, <2>4 DEF b
<1>4. QED
  BY <1>2, <1>3

(* The new bucket goes to the end; the others keep what they have.          *)
LEMMA PlacedKeeps ==
  ASSUME LimiterInv, NEW k \in Keys, NEW b \in Pail, b.key = k, Accounted(b),
         order' = Limiter!Latest(k), buckets' = Limiter!Placed(k, b), clock' = clock,
         NEW v \in Int, promise' = [promise EXCEPT ![k] = v],
         v # -1 => b.units < 60 /\ v = b.at + Limiter!RetryAfter(b.units)
  PROVE  LimiterInv'
<1> DEFINE o == Limiter!Others(k)  r == KeysLeft(k)
<1>1. /\ o \in Seq(Pail) /\ r \in Seq(Keys) /\ Distinct(r) /\ LastOf(o, r)
      /\ \A n \in 1..Len(r) : r[n] # k
      /\ \A n \in 1..Len(o) : o[n].key # k /\ \E m \in 1..Len(buckets) : o[n] = buckets[m]
  BY OthersFollow
<1>2. buckets' = Append(o, b) /\ order' = Append(r, k)
  BY DEF Limiter!Placed, Limiter!Latest, KeysLeft
<1> HIDE DEF o, r
<1>3. buckets' \in Seq(Pail) /\ Len(buckets') = Len(o) + 1 /\ Len(o) \in Nat /\ \A m \in 1..Len(o) + 1 : buckets'[m] = IF m <= Len(o) THEN o[m] ELSE b
  BY <1>1, <1>2, AppendTo
<1>4. order' \in Seq(Keys) /\ Len(order') = Len(r) + 1 /\ Len(r) \in Nat /\ \A m \in 1..Len(r) + 1 : order'[m] = IF m <= Len(r) THEN r[m] ELSE k
  BY <1>1, <1>2, AppendTo
<1>5. Distinct(order)'
  <2>1. \A m, n \in 1..Len(r) : r[m] = r[n] => m = n
    BY <1>1 DEF Distinct
  <2>2. ASSUME NEW m \in 1..Len(r) + 1, NEW n \in 1..Len(r) + 1, order'[m] = order'[n] PROVE m = n
    <3>1. m <= Len(r) => order'[m] = r[m] /\ m \in 1..Len(r) /\ r[m] # k
      BY <1>1, <1>4
    <3>2. n <= Len(r) => order'[n] = r[n] /\ n \in 1..Len(r) /\ r[n] # k
      BY <1>1, <1>4
    <3>3. (m > Len(r) => m = Len(r) + 1 /\ order'[m] = k) /\ (n > Len(r) => n = Len(r) + 1 /\ order'[n] = k)
      BY <1>4
    <3>4. QED
      BY <1>4, <2>1, <2>2, <3>1, <3>2, <3>3
  <2>3. QED
    BY <1>4, <2>2 DEF Distinct
<1>6. LastOf(buckets, order)'
  <2>1. Len(o) <= Len(r) /\ \A n \in 1..Len(o) : o[n].key = r[Len(r) - Len(o) + n]
    BY <1>1 DEF LastOf
  <2>2. ASSUME NEW n \in 1..Len(o) + 1 PROVE buckets'[n].key = order'[Len(r) + 1 - (Len(o) + 1) + n]
    <3> DEFINE p == Len(r) + 1 - (Len(o) + 1) + n
    <3>1. p = Len(r) - Len(o) + n /\ p \in 1..Len(r) + 1 /\ (n <= Len(o) <=> p <= Len(r))
      BY <1>3, <1>4, <2>1
    <3> HIDE DEF p
    <3>2. order'[p] = IF p <= Len(r) THEN r[p] ELSE k
      BY <1>4, <3>1
    <3>3. buckets'[n] = IF n <= Len(o) THEN o[n] ELSE b
      BY <1>3
    <3>4. n <= Len(o) => o[n].key = r[p]
      BY <1>3, <2>1, <3>1
    <3>5. buckets'[n].key = order'[p]
      BY <3>1, <3>2, <3>3, <3>4
    <3>6. QED
      BY <3>5 DEF p
  <2>3. Len(buckets') <= Len(order')
    BY <1>3, <1>4, <2>1
  <2>4. QED
    BY <1>3, <1>4, <2>2, <2>3 DEF LastOf
<1>7. promise' \in [Keys -> Int] /\ promise'[k] = v /\ \A x \in Keys \ {k} : promise'[x] = promise[x]
  BY DEF LimiterInv
<1>8. ASSUME NEW n \in 1..Len(buckets') PROVE (Accounted(buckets[n]) /\ Promised(buckets[n]))'
  <2> DEFINE c == buckets'[n]
  <2>1. CASE n <= Len(o)
    <3>1. n \in 1..Len(o) /\ c = o[n]
      BY <1>3, <2>1
    <3>2. PICK m \in 1..Len(buckets) : o[n] = buckets[m]
      BY <1>1, <3>1
    <3>3. Accounted(c) /\ Promised(c) /\ c.key \in Keys /\ c.key # k
      BY <1>1, <3>1, <3>2, Keyed DEF LimiterInv
    <3>4. QED
      BY <1>7, <3>3 DEF Accounted, Promised
  <2>2. CASE ~(n <= Len(o))
    <3>1. c = b
      BY <1>3, <2>2
    <3>2. QED
      BY <1>7, <3>1 DEF Accounted, Promised
  <2>3. QED
    BY <2>1, <2>2
<1>9. clock' \in Nat
  BY DEF LimiterInv
<1>10. QED
  BY <1>3, <1>4, <1>5, <1>6, <1>7, <1>8, <1>9 DEF LimiterInv

(* A check, granted or denied, keeps the invariant.                         *)
LEMMA CheckKeeps ==
  ASSUME LimiterInv, NEW k \in Keys, Limiter!Check(k) PROVE LimiterInv'
<1> DEFINE b == Limiter!Bucket(k)  c == [b EXCEPT !.units = b.units - 60, !.granted = b.granted + 1]
<1>1. b \in Pail /\ b.key = k /\ b.at = clock /\ Accounted(b) /\ clock \in Nat
  BY Bucketed DEF LimiterInv
<1>2. /\ order' = Limiter!Latest(k) /\ clock' = clock
      /\ \/ /\ b.units < 60 /\ buckets' = Limiter!Placed(k, b)
            /\ promise' = [promise EXCEPT ![k] = clock + Limiter!RetryAfter(b.units)]
         \/ /\ b.units >= 60 /\ buckets' = Limiter!Placed(k, c)
            /\ promise' = [promise EXCEPT ![k] = -1]
  BY DEF Limiter!Check, Limiter!Token, Limiter!NoPromise
<1> HIDE DEF b, c
<1>3. CASE b.units < 60 /\ buckets' = Limiter!Placed(k, b) /\ promise' = [promise EXCEPT ![k] = clock + Limiter!RetryAfter(b.units)]
  <2>1. Limiter!RetryAfter(b.units) \in Nat
    <3>1. 60 - b.units \in Nat
      BY <1>1, <1>3 DEF Pail
    <3>2. QED
      BY <3>1, CeilEnough, LimiterAssumption DEF Limiter!RetryAfter, Limiter!Token
  <2>2. clock + Limiter!RetryAfter(b.units) \in Int
    BY <1>1, <2>1
  <2>3. QED
    BY <1>1, <1>2, <1>3, <2>2, PlacedKeeps
<1>4. CASE b.units >= 60 /\ buckets' = Limiter!Placed(k, c) /\ promise' = [promise EXCEPT ![k] = -1]
  <2>1. /\ b.units \in Nat /\ b.granted \in Nat /\ b.at \in Nat /\ b.made \in Nat /\ b.key \in Keys
    BY <1>1 DEF Pail
  <2>2. b.units - 60 \in Nat /\ b.granted + 1 \in Nat /\ (b.granted + 1) * 60 + (b.units - 60) = b.granted * 60 + b.units
    BY <1>4, <2>1
  <2>3. /\ c \in Pail /\ c.key = k /\ c.at = b.at /\ c.made = b.made
        /\ c.units = b.units - 60 /\ c.granted = b.granted + 1
    BY <1>1, <2>1, <2>2 DEF Pail, c
  <2>4. c.granted * 60 + c.units = b.granted * 60 + b.units /\ c.units <= b.units
    BY <2>1, <2>2, <2>3
  <2>5. Accounted(c)
    <3>1. Burst * 60 \in Nat
      BY LimiterAssumption
    <3>2. b.units <= Burst * 60 /\ c.units <= Burst * 60
      BY <1>1, <2>1, <2>2, <2>3, <2>4, <3>1 DEF Accounted
    <3>3. QED
      BY <1>1, <2>3, <2>4, <3>2 DEF Accounted
  <2>6. /\ order' = Limiter!Latest(k) /\ buckets' = Limiter!Placed(k, c) /\ clock' = clock
        /\ -1 \in Int /\ promise' = [promise EXCEPT ![k] = -1]
    BY <1>2, <1>4
  <2> DEFINE v == -1
  <2>7. v \in Int /\ promise' = [promise EXCEPT ![k] = v] /\ ~(v # -1)
    BY <2>6
  <2> HIDE DEF v
  <2>8. QED
    BY <2>3, <2>5, <2>6, <2>7, PlacedKeeps
<1>5. QED
  BY <1>2, <1>3, <1>4

(* So does a second that passes.                                            *)
LEMMA TimeKeeps ==
  ASSUME LimiterInv, UNCHANGED limiterVars, clock' = clock \/ clock' = clock + 1 PROVE LimiterInv'
<1>1. buckets' = buckets /\ order' = order /\ promise' = promise /\ clock \in Nat /\ clock' \in Nat /\ clock <= clock'
  BY DEF limiterVars, LimiterInv
<1>2. ASSUME NEW n \in 1..Len(buckets) PROVE (Accounted(buckets[n]) /\ Promised(buckets[n]))'
  <2>1. Accounted(buckets[n]) /\ Promised(buckets[n]) /\ buckets[n] \in Pail
    BY Keyed DEF LimiterInv
  <2>2. buckets[n].at <= clock'
    BY <1>1, <2>1 DEF Accounted, Pail
  <2>3. QED
    BY <1>1, <2>1, <2>2 DEF Accounted, Promised
<1>3. QED
  BY <1>1, <1>2 DEF LimiterInv, Distinct, LastOf

(* No key has a bucket at first.                                            *)
LEMMA LimiterStart == Init => LimiterInv
<1> SUFFICES ASSUME Init PROVE LimiterInv
  OBVIOUS
<1>1. clock = 0 /\ buckets = <<>> /\ order = <<>> /\ promise = [k \in Keys |-> -1]
  BY DEF Init, Limiter!RlInit, Limiter!NoPromise
<1>2. QED
  BY <1>1 DEF LimiterInv, Distinct, LastOf

(* Every bucket accounts for what it granted and promised, and belongs to   *)
(* one of the keys checked last.                                            *)
LEMMA LimiterInvariance == Spec => []LimiterInv
<1>1. Init => LimiterInv
  BY LimiterStart
<1>2. LimiterInv /\ [Next]_vars => LimiterInv'
  <2>1. ASSUME LimiterInv, Limiter!Second PROVE LimiterInv'
    BY <2>1, TimeKeeps DEF Limiter!Second, limiterVars
  <2>2. QED
    BY <2>1, LimiterSteps, CheckKeeps, TimeKeeps DEF Limiter!RlNext
<1>3. QED
  BY <1>1, <1>2, PTL DEF Spec

(* The limit is honoured, and so is retry_after.                            *)
LEMMA LimiterHolds == LimiterInv => Limiter!LimitHonored
<1> SUFFICES ASSUME LimiterInv PROVE Limiter!LimitHonored
  OBVIOUS
<1>1. DOMAIN buckets = 1..Len(buckets) /\ Len(buckets) \in Nat /\ Len(order) \in Nat /\ order \in Seq(Keys)
  BY LenProperties DEF LimiterInv
<1>2. ASSUME NEW n \in 1..Len(buckets)
      PROVE  buckets[n].granted * 60 <= Burst * 60 + (clock - buckets[n].made) * Rpm
  <2> DEFINE b == buckets[n]
  <2>1. b \in Pail /\ Accounted(b) /\ clock \in Nat
    BY Keyed DEF LimiterInv
  <2> HIDE DEF b
  <2>2. /\ b.at \in Nat /\ b.made \in Nat /\ b.granted \in Nat /\ b.units \in Nat /\ Rpm \in Nat /\ Burst * 60 \in Nat
        /\ b.at - b.made \in Nat /\ clock - b.made \in Nat /\ b.at - b.made <= clock - b.made
    BY <2>1, LimiterAssumption DEF Pail, Accounted
  <2>3. (b.at - b.made) * Rpm \in Nat /\ (clock - b.made) * Rpm \in Nat /\ (b.at - b.made) * Rpm <= (clock - b.made) * Rpm
    BY <2>2, Product, ProductGrows
  <2>4. b.granted * 60 + b.units <= Burst * 60 + (b.at - b.made) * Rpm
    BY <2>1 DEF Accounted
  <2>5. b.granted * 60 <= Burst * 60 + (clock - b.made) * Rpm
    <3> DEFINE x == b.granted * 60  y == Burst * 60  g == (b.at - b.made) * Rpm  h == (clock - b.made) * Rpm
    <3>1. x \in Nat /\ y \in Nat
      BY <2>2
    <3>2. g \in Nat /\ h \in Nat /\ g <= h
      BY <2>3
    <3>3. x + b.units <= y + g /\ b.units \in Nat
      BY <2>2, <2>4
    <3> HIDE DEF x, y, g, h
    <3>4. x <= y + h
      BY <3>1, <3>2, <3>3
    <3>5. QED
      BY <3>4 DEF x, y, h
  <2>6. QED
    BY <2>5 DEF b
<1>3. Limiter!BucketKeys = SubSeq(order, Len(order) - Len(buckets) + 1, Len(order))
  <2> DEFINE a == Len(order) - Len(buckets) + 1  z == Len(order)  t == SubSeq(order, a, z)
  <2>1. Len(buckets) <= Len(order) /\ \A n \in 1..Len(buckets) : buckets[n].key = order[Len(order) - Len(buckets) + n]
    BY DEF LimiterInv, LastOf
  <2>2. a \in Int /\ z \in Int /\ \A i \in a..z : order[i] \in Keys
    BY <1>1, <2>1
  <2>3. /\ t \in Seq(Keys) /\ Len(t) = IF a <= z THEN z - a + 1 ELSE 0
        /\ \A i \in 1..z - a + 1 : t[i] = order[a + i - 1]
    BY <2>2, SubSeqProperties
  <2> HIDE DEF t
  <2>4. Len(t) = Len(buckets) /\ \A i \in 1..Len(buckets) : t[i] = order[Len(order) - Len(buckets) + i]
    BY <1>1, <2>1, <2>3
  <2>5. QED
    BY <2>1, <2>3, <2>4, Keyed, SeqEqual DEF t
<1>4. QED
  BY <1>1, <1>2, <1>3, Bucketed DEF Limiter!LimitHonored, Limiter!Full, Limiter!Token,
     Limiter!NoPromise

-----------------------------------------------------------------------------
(* The policy cache: whichever of the puts under way commit, their rows fit.*)

(* Only a step of the cache touches its rows; the limiter shares its clock  *)
(* alone.                                                                   *)
LEMMA CacheSteps == [Next]_vars => Cache!PcNext \/ UNCHANGED <<cacheVars, clock>> \/ (UNCHANGED cacheVars /\ Limiter!RlNext)
BY DEF Next, vars, besideVars, Picked

(* A set of naturals that is not empty has a least element.                 *)
LEMMA LeastElement ==
  ASSUME NEW S \in SUBSET Nat, S # {} PROVE \E e \in S : \A d \in S : e <= d
<1>1. PICK e \in S : \A d \in S : ~(<<d, e>> \in OpToRel(<, Nat))
  BY WFMin, NatLessThanWellFounded
<1>2. \A d \in S : ~(d < e)
  BY <1>1 DEF OpToRel
<1>3. QED
  BY <1>2

(* The instance's cardinality is the library's.                             *)
LEMMA CacheCounts == \A S : Cache!Cardinality(S) = Cardinality(S)
BY DEF Cache!Cardinality, Cardinality

(* FiniteSizes of finite sets. *)
LEMMA FiniteSizes ==
  ASSUME NEW S, IsFiniteSet(S)
  PROVE  /\ Cardinality(S) \in Nat
         /\ \A T \in SUBSET S : IsFiniteSet(T) /\ Cardinality(T) \in Nat /\ Cardinality(T) <= Cardinality(S)
         /\ \A T : IsFiniteSet(T) => IsFiniteSet(S \cup T) /\ Cardinality(S \cup T) \in Nat /\ Cardinality(S \cup T) <= Cardinality(S) + Cardinality(T)
         /\ \A T \in SUBSET S : Cardinality(S \ T) = Cardinality(S) - Cardinality(T)
<1>1. ASSUME NEW T \in SUBSET S
      PROVE  IsFiniteSet(T) /\ Cardinality(T) \in Nat /\ Cardinality(T) <= Cardinality(S)
  BY FS_Subset, FS_CardinalityType
<1>2. ASSUME NEW T, IsFiniteSet(T)
      PROVE  IsFiniteSet(S \cup T) /\ Cardinality(S \cup T) \in Nat /\ Cardinality(S \cup T) <= Cardinality(S) + Cardinality(T)
  <2>1. IsFiniteSet(S \cup T) /\ Cardinality(S \cup T) = Cardinality(S) + Cardinality(T) - Cardinality(S \cap T)
    BY <1>2, FS_Union
  <2>2. Cardinality(S \cap T) \in Nat /\ Cardinality(S \cup T) \in Nat /\ Cardinality(S) \in Nat /\ Cardinality(T) \in Nat
    <3>1. IsFiniteSet(S \cap T)
      BY FS_Intersection
    <3>2. QED
      BY <1>2, <2>1, <3>1, FS_CardinalityType
  <2>3. QED
    BY <2>1, <2>2
<1>3. ASSUME NEW T \in SUBSET S PROVE Cardinality(S \ T) = Cardinality(S) - Cardinality(T)
  <2>1. S \cap T = T
    OBVIOUS
  <2>2. QED
    BY <2>1, FS_Difference
<1>4. QED
  BY <1>1, <1>2, <1>3, FS_CardinalityType

(* The oldest n of more than n rows are at least n. *)
LEMMA OldestAreEnough ==
  ASSUME NEW f, IsFiniteSet(DOMAIN f), DOMAIN f \subseteq Int, \A k \in DOMAIN f : f[k].created \in Nat,
         NEW n \in Nat
  PROVE  /\ Cache!Oldest(f, n) \subseteq DOMAIN f
         /\ Cardinality(Cache!Oldest(f, n)) >= n \/ Cache!Oldest(f, n) = DOMAIN f
<1> DEFINE D == DOMAIN f  Before(k) == {x \in D : Cache!Older(f, x, k)}  O == Cache!Oldest(f, n)
<1>1. O = {k \in D : Cardinality(Before(k)) < n}
  BY CacheCounts DEF Cache!Oldest
<1>2. \A k \in D : Before(k) \subseteq D /\ Cardinality(Before(k)) \in Nat
  BY FiniteSizes
<1>3. \A x, y \in D : x \in Before(y) => Before(x) \subseteq Before(y) /\ x \notin Before(x)
  BY DEF Cache!Older
<1>4. \A x, y \in D : x \in Before(y) => Cardinality(Before(x)) < Cardinality(Before(y))
  <2> SUFFICES ASSUME NEW x \in D, NEW y \in D, x \in Before(y) PROVE Cardinality(Before(x)) < Cardinality(Before(y))
    OBVIOUS
  <2>1. IsFiniteSet(Before(y)) /\ Before(x) \in SUBSET Before(y) /\ Before(x) # Before(y)
    BY <1>3, FiniteSizes
  <2>2. Cardinality(Before(x)) <= Cardinality(Before(y)) /\ Cardinality(Before(x)) # Cardinality(Before(y))
    BY <2>1, FS_Subset
  <2>3. QED
    BY <1>2, <2>2
<1> HIDE DEF Before, O, D
<1>5. O \subseteq D /\ O \in SUBSET D
  BY <1>1
<1>6. ASSUME O # D PROVE Cardinality(O) >= n
  <2> DEFINE Sz == {Cardinality(Before(k)) : k \in D \ O}
  <2>1. Sz \in SUBSET Nat /\ Sz # {}
    BY <1>2, <1>5, <1>6
  <2>2. PICK e \in Sz : \A d \in Sz : e <= d
    BY <2>1, LeastElement
  <2>3. PICK m \in D \ O : e = Cardinality(Before(m))
    OBVIOUS
  <2>4. \A k \in D \ O : Cardinality(Before(m)) <= Cardinality(Before(k))
    BY <2>2, <2>3
  <2>5. Before(m) \subseteq O
    <3> SUFFICES ASSUME NEW x \in Before(m), x \notin O PROVE FALSE
      OBVIOUS
    <3>1. x \in D \ O /\ Cardinality(Before(x)) < Cardinality(Before(m))
      BY <1>2, <1>4, <2>3
    <3>2. QED
      BY <1>2, <2>4, <3>1
  <2>6. Cardinality(Before(m)) <= Cardinality(O) /\ Cardinality(O) \in Nat
    <3>1. IsFiniteSet(O) 
      BY <1>5, FiniteSizes DEF D
    <3>2. QED
      BY <2>5, <3>1, FiniteSizes
  <2>7. ~(Cardinality(Before(m)) < n)
    BY <1>1, <2>3
  <2>8. QED
    BY <1>2, <2>3, <2>6, <2>7
<1>7. QED
  BY <1>5, <1>6 DEF O, D

(* The rows there is room for when the puts of P commit. On SQLite, where a *)
(* put is alone, a put that has counted trims what cancelled puts left; on  *)
(* Postgres the other puts under way may each add a row.                    *)
Room(P) == IF serial THEN IF P = {} THEN MaxEntries + leaks ELSE MaxEntries
           ELSE MaxEntries + Cardinality(Writers) - 1
PutState == [at : {"idle", "upserted", "counted", "selected", "deleted"}, key : Int, created : Nat, excess : Int, victims : SUBSET Int]
Counting == {w \in Writers : put[w].at \in {"counted", "selected", "deleted"}}
(* The rows when the puts of P have committed, before their deletions, and  *)
(* what these delete.                                                       *)
RowsWith(P)    == DOMAIN rows \cup {put[w].key : w \in P}
Deleted(P) == UNION {put[w].victims : w \in P}
(* Whichever of the puts under way commit, the rows are within the cap, or  *)
(* one of these puts has counted enough and selects its victims next.       *)
Fits(P) == \/ Cardinality(RowsWith(P) \ Deleted(P)) <= Room(P)
           \/ \E c \in P : put[c].at = "counted" /\ Cardinality(RowsWith(P)) - put[c].excess <= Room(P)
PutsInv == /\ serial \in BOOLEAN /\ leaks \in Nat /\ clock \in Nat /\ put \in [Writers -> PutState]
           /\ IsFiniteSet(DOMAIN rows) /\ DOMAIN rows \subseteq Int /\ \A k \in DOMAIN rows : rows[k].created \in Nat
           /\ serial => \A w, x \in Writers : Cache!InPut(w) /\ Cache!InPut(x) => w = x
           /\ \A w \in Writers : put[w].at \in {"idle", "upserted", "counted"} => put[w].victims = {}
           /\ \A w \in Writers : put[w].at = "deleted" => \A x \in Writers \ {w} : Cache!InPut(x) => put[x].key \notin put[w].victims
(* Whichever of the puts that have counted commit, the rows fit. It is the  *)
(* strengthening the cap needs: a put counts only the rows it sees and its  *)
(* own, so that the cap of the committed rows alone is not inductive.       *)
CacheInv == PutsInv /\ \A P \in SUBSET Counting : Fits(P)

(* The cap is a natural.                                                    *)
LEMMA CapSize ==
  ASSUME serial \in BOOLEAN, leaks \in Nat, NEW P PROVE Room(P) \in Int /\ Room(P) >= 0
<1>1. Cardinality(Writers) \in Nat /\ (Cardinality(Writers) = 0 => Writers = {})
  BY FS_CardinalityType, FS_EmptySet, CacheAssumption
<1>2. QED
  BY <1>1, CacheAssumption DEF Room

(* A set of puts under way is no larger than the cap allows beside one more. *)
LEMMA FewPuts ==
  ASSUME CacheInv, NEW P \in SUBSET Writers, \A x \in P : Cache!InPut(x), NEW w \in P
  PROVE  /\ IsFiniteSet(P) /\ Cardinality(P) \in Nat /\ MaxEntries + Cardinality(P) - 1 <= Room(P)
         /\ IsFiniteSet(P \ {w}) /\ Cardinality(P \ {w}) = Cardinality(P) - 1
<1>1. IsFiniteSet(P) /\ Cardinality(P) \in Nat /\ Cardinality(P) <= Cardinality(Writers) /\ Cardinality(Writers) \in Nat
  BY FiniteSizes, CacheAssumption
<1>2. IsFiniteSet(P \ {w}) /\ Cardinality(P \ {w}) = Cardinality(P) - 1
  BY <1>1, FS_RemoveElement
<1>3. serial => Cardinality(P) = 1
  <2>1. serial => P = {w}
    BY DEF CacheInv, PutsInv
  <2>2. QED
    BY <2>1, FS_Singleton
<1>4. QED
  BY <1>1, <1>2, <1>3, CacheAssumption DEF Room

(* Puts write no more keys than they are.                                   *)
LEMMA KeysOf ==
  ASSUME NEW P, IsFiniteSet(P)
  PROVE  LET K == {put[w].key : w \in P} IN IsFiniteSet(K) /\ Cardinality(K) \in Nat /\ Cardinality(K) <= Cardinality(P)
<1> DEFINE K == {put[w].key : w \in P}  f == [w \in P |-> put[w].key]
<1>1. f \in Surjection(P, K)
  BY DEF Surjection
<1> HIDE DEF K, f
<1>2. IsFiniteSet(K) /\ Cardinality(K) <= Cardinality(P)
  BY <1>1, FS_Surjection
<1>3. QED
  BY <1>2, FS_CardinalityType DEF K

(* The rows with those of the puts are finitely many.                       *)
LEMMA WithFinite ==
  ASSUME CacheInv, NEW P \in SUBSET Writers
  PROVE  IsFiniteSet(RowsWith(P)) /\ Cardinality(RowsWith(P)) \in Nat
         /\ \A T \in SUBSET RowsWith(P) : IsFiniteSet(T) /\ Cardinality(T) \in Nat /\ Cardinality(T) <= Cardinality(RowsWith(P))
<1>1. IsFiniteSet(P)
  BY FiniteSizes, CacheAssumption
<1>2. IsFiniteSet({put[w].key : w \in P}) /\ IsFiniteSet(DOMAIN rows)
  BY <1>1, KeysOf DEF CacheInv, PutsInv
<1>3. IsFiniteSet(RowsWith(P))
  BY <1>2, FiniteSizes DEF RowsWith
<1>4. QED
  BY <1>3, FiniteSizes

(* The rows a put sees.                                                     *)
LEMMA SeesRows ==
  ASSUME CacheInv, NEW w \in Writers
  PROVE  LET f == Cache!Upserted(w) IN
         /\ DOMAIN f = DOMAIN rows \cup {put[w].key} /\ IsFiniteSet(DOMAIN f) /\ DOMAIN f \subseteq Int
         /\ Cardinality(DOMAIN f) \in Nat
         /\ \A k \in DOMAIN f : f[k].created \in Nat
<1>1. put[w] \in PutState /\ IsFiniteSet(DOMAIN rows) /\ DOMAIN rows \subseteq Int /\ \A k \in DOMAIN rows : rows[k].created \in Nat
  BY DEF CacheInv, PutsInv
<1>2. put[w].key \in Int /\ put[w].created \in Nat
  BY <1>1 DEF PutState
<1>3. DOMAIN Cache!Upserted(w) = DOMAIN rows \cup {put[w].key}
  BY DEF Cache!Upserted
<1>4. \A k \in DOMAIN rows \cup {put[w].key} : Cache!Upserted(w)[k].created \in Nat
  BY <1>1, <1>2 DEF Cache!Upserted
<1>5. IsFiniteSet(DOMAIN rows \cup {put[w].key})
  BY <1>1, FS_AddElement
<1>6. QED
  BY <1>1, <1>2, <1>3, <1>4, <1>5, FS_CardinalityType

(* A set of puts that a step leaves alone still fits when the rows are no more. *)
LEMMA Unmoved ==
  ASSUME CacheInv, NEW P \in SUBSET Writers, Fits(P), serial' = serial, leaks' = leaks,
         \A x \in P : put'[x] = put[x], DOMAIN rows' \subseteq DOMAIN rows
  PROVE  Fits(P)'
<1>1. RowsWith(P)' \in SUBSET RowsWith(P) /\ Deleted(P)' = Deleted(P) /\ Room(P)' = Room(P)
  BY DEF RowsWith, Deleted, Room
<1>2. RowsWith(P)' \ Deleted(P)' \in SUBSET RowsWith(P) /\ RowsWith(P) \ Deleted(P) \in SUBSET RowsWith(P)
  BY <1>1
<1>3. /\ Cardinality(RowsWith(P)) \in Nat /\ Cardinality(RowsWith(P)') \in Nat /\ Cardinality(RowsWith(P)') <= Cardinality(RowsWith(P))
      /\ Cardinality(RowsWith(P)' \ Deleted(P)') \in Nat /\ Cardinality(RowsWith(P) \ Deleted(P)) \in Nat
      /\ IsFiniteSet(RowsWith(P) \ Deleted(P))
  BY <1>1, <1>2, WithFinite
<1>4. Cardinality(RowsWith(P)' \ Deleted(P)') <= Cardinality(RowsWith(P) \ Deleted(P))
  <2>1. RowsWith(P)' \ Deleted(P)' \subseteq RowsWith(P) \ Deleted(P)
    BY <1>1
  <2>2. QED
    BY <1>3, <2>1, FS_Subset
<1>5. Room(P) \in Int
  BY CapSize DEF CacheInv, PutsInv
<1>6. CASE Cardinality(RowsWith(P) \ Deleted(P)) <= Room(P)
  <2>1. Cardinality(RowsWith(P)' \ Deleted(P)') <= Room(P)'
    BY <1>1, <1>3, <1>4, <1>5, <1>6
  <2>2. QED
    BY <2>1 DEF Fits
<1>7. ASSUME NEW c \in P, put[c].at = "counted", Cardinality(RowsWith(P)) - put[c].excess <= Room(P)
      PROVE  Fits(P)'
  <2>1. put[c].excess \in Int /\ put'[c] = put[c]
    BY DEF CacheInv, PutsInv, PutState
  <2>2. Cardinality(RowsWith(P)') - put'[c].excess <= Room(P)'
    BY <1>1, <1>3, <1>5, <1>7, <2>1
  <2>3. QED
    BY <1>7, <2>1, <2>2 DEF Fits
<1>8. QED
  BY <1>6, <1>7 DEF Fits

(* A put that begins is of its type, and has no victims.                    *)
LEMMA NewPut ==
  ASSUME NEW k \in Int, NEW n \in Nat
  PROVE  LET r == [Cache!NoPut EXCEPT !.at = "upserted", !.key = k, !.created = n] IN
         r \in PutState /\ r.at = "upserted" /\ r.key = k /\ r.victims = {}
<1> DEFINE o == Cache!NoPut
<1>1. o \in PutState /\ o.victims = {}
  BY DEF Cache!NoPut, PutState
<1> HIDE DEF o
<1>2. [o EXCEPT !.at = "upserted", !.key = k, !.created = n] \in PutState
  BY <1>1 DEF PutState
<1>3. LET r == [o EXCEPT !.at = "upserted", !.key = k, !.created = n] IN r.at = "upserted" /\ r.key = k /\ r.victims = {}
  BY <1>1 DEF PutState
<1>4. QED
  BY <1>2, <1>3 DEF o

(* Beginning a put keeps the invariant, ...                                 *)
LEMMA BeginKeeps ==
  ASSUME CacheInv, NEW w \in Writers, NEW k \in CacheKeys, Cache!Begin(w, k) PROVE CacheInv'
<1> DEFINE r == [Cache!NoPut EXCEPT !.at = "upserted", !.key = k, !.created = clock]
<1>1. r \in PutState /\ r.at = "upserted" /\ r.key = k /\ r.victims = {}
  BY NewPut, CacheAssumption DEF CacheInv, PutsInv
<1>2. put' = [put EXCEPT ![w] = r] /\ rows' = rows /\ serial' = serial /\ leaks' = leaks /\ clock' = clock /\ put \in [Writers -> PutState]
  BY DEF Cache!Begin, CacheInv, PutsInv
<1>3. (serial => \A x \in Writers : ~Cache!InPut(x)) /\ put[w].at = "idle" /\ ~Cache!Taken(w, k)
  BY DEF Cache!Begin, Cache!InPut, Cache!Alone
<1> HIDE DEF r
<1>4. put'[w] = r /\ (\A x \in Writers \ {w} : put'[x] = put[x]) /\ put' \in [Writers -> PutState]
  BY <1>1, <1>2
<1>5. \A y \in Writers \ {w} : put[y].at = "deleted" => k \notin put[y].victims
  BY <1>3 DEF Cache!Taken, Cache!Touches, Cache!InPut
<1>6. PutsInv'
  BY <1>1, <1>2, <1>3, <1>4, <1>5 DEF CacheInv, PutsInv, Cache!InPut
<1>7. ASSUME NEW P \in SUBSET Counting' PROVE Fits(P)'
  <2>1. P \in SUBSET Counting /\ w \notin P /\ P \in SUBSET Writers
    BY <1>1, <1>3, <1>4 DEF Counting
  <2>2. QED
    BY <1>2, <1>4, <2>1, Unmoved DEF CacheInv, PutsInv
<1>8. QED
  BY <1>6, <1>7 DEF CacheInv, PutsInv

(* ... and so does rolling it back, ...                                     *)
LEMMA RollbackKeeps ==
  ASSUME CacheInv, NEW w \in Writers, Cache!Rollback(w) PROVE CacheInv'
<1>1. Cache!NoPut \in PutState /\ Cache!NoPut.at = "idle" /\ Cache!NoPut.victims = {}
  BY DEF Cache!NoPut, PutState
<1>2. put' = [put EXCEPT ![w] = Cache!NoPut] /\ rows' = rows /\ serial' = serial /\ leaks' = leaks /\ clock' = clock /\ put \in [Writers -> PutState]
  BY DEF Cache!Rollback, CacheInv, PutsInv
<1>3. put'[w] = Cache!NoPut /\ (\A x \in Writers \ {w} : put'[x] = put[x]) /\ put' \in [Writers -> PutState]
  BY <1>1, <1>2
<1>4. PutsInv'
  BY <1>1, <1>2, <1>3 DEF CacheInv, PutsInv, Cache!InPut
<1>5. ASSUME NEW P \in SUBSET Counting' PROVE Fits(P)'
  <2>1. P \in SUBSET Counting /\ w \notin P /\ P \in SUBSET Writers
    BY <1>1, <1>3 DEF Counting
  <2>2. QED
    BY <1>2, <1>3, <2>1, Unmoved DEF CacheInv, PutsInv
<1>6. QED
  BY <1>4, <1>5 DEF CacheInv, PutsInv

(* ... and abandoning it on SQLite, which makes room for its row, ...       *)
LEMMA AbandonKeeps ==
  ASSUME CacheInv, NEW w \in Writers, Cache!Abandon(w) PROVE CacheInv'
<1> DEFINE D == DOMAIN rows \cup {put[w].key}
<1>1. Cache!NoPut \in PutState /\ Cache!NoPut.at = "idle" /\ Cache!NoPut.victims = {}
  BY DEF Cache!NoPut, PutState
<1>2. /\ put' = [put EXCEPT ![w] = Cache!NoPut] /\ serial' = serial /\ leaks' = leaks + 1 /\ clock' = clock
      /\ put \in [Writers -> PutState] /\ serial /\ Cache!InPut(w) /\ leaks \in Nat
  BY DEF Cache!Abandon, CacheInv, PutsInv
<1>3. put'[w] = Cache!NoPut /\ (\A x \in Writers \ {w} : put'[x] = put[x]) /\ put' \in [Writers -> PutState]
  BY <1>1, <1>2
<1>4. /\ IsFiniteSet(D) /\ D \subseteq Int /\ DOMAIN Cache!Upserted(w) = D
      /\ \A k \in D : Cache!Upserted(w)[k].created \in Nat
  BY SeesRows
<1>5. DOMAIN rows' \subseteq D /\ \A k \in DOMAIN rows' : rows'[k].created \in Nat
  <2>1. CASE rows' = rows
    BY <2>1 DEF CacheInv, PutsInv
  <2>2. CASE \E gone : rows' = Cache!Restrict(Cache!Upserted(w), DOMAIN Cache!Upserted(w) \ gone)
    <3>1. PICK gone : rows' = [k \in D \ gone |-> Cache!Upserted(w)[k]]
      BY <1>4, <2>2 DEF Cache!Restrict
    <3>2. QED
      BY <1>4, <3>1
  <2>3. QED
    BY <2>1, <2>2 DEF Cache!Abandon
<1>6. IsFiniteSet(DOMAIN rows') /\ Cardinality(DOMAIN rows') <= Cardinality(D) /\ Cardinality(DOMAIN rows') \in Nat
  BY <1>4, <1>5, FS_Subset, FS_CardinalityType
<1>7. Cardinality(D) <= Cardinality(DOMAIN rows) + 1 /\ Cardinality(D) \in Nat /\ Cardinality(DOMAIN rows) \in Nat
  <2>1. IsFiniteSet(DOMAIN rows)
    BY <1>4, FS_Subset
  <2>2. Cardinality(DOMAIN rows) \in Nat
    BY <2>1, FS_CardinalityType
  <2>3. Cardinality(D) = Cardinality(DOMAIN rows) \/ Cardinality(D) = Cardinality(DOMAIN rows) + 1
    BY <2>1, FS_AddElement
  <2>4. QED
    BY <2>2, <2>3
<1>8. \A x \in Writers : ~Cache!InPut(x)'
  <2>1. \A x \in Writers : Cache!InPut(x) => x = w
    BY <1>2 DEF CacheInv, PutsInv
  <2>2. QED
    BY <1>1, <1>3, <2>1 DEF Cache!InPut
<1>9. PutsInv'
  <2>1. /\ clock' \in Nat /\ serial' \in BOOLEAN /\ leaks' \in Nat
        /\ IsFiniteSet(DOMAIN rows') /\ DOMAIN rows' \subseteq Int
    BY <1>2, <1>4, <1>5, <1>6 DEF CacheInv, PutsInv
  <2>2. QED
    <3>1. \A x \in Writers : put'[x].at = "idle"
      BY <1>8 DEF Cache!InPut
    <3>2. \A x \in Writers : put'[x].victims = {}
      BY <1>1, <1>3, <3>1 DEF CacheInv, PutsInv
    <3>3. put' \in [Writers -> PutState] /\ \A k \in DOMAIN rows' : rows'[k].created \in Nat
      BY <1>3, <1>5
    <3>4. QED
      BY <1>8, <2>1, <3>1, <3>2, <3>3 DEF PutsInv
<1>10. Cardinality(DOMAIN rows) <= MaxEntries + leaks
  <2>1. Fits({})
    BY DEF CacheInv
  <2>2. RowsWith({}) \ Deleted({}) = DOMAIN rows
    BY DEF RowsWith, Deleted
  <2>3. QED
    BY <1>2, <2>1, <2>2 DEF Fits, Room
<1>11. ASSUME NEW P \in SUBSET Counting' PROVE Fits(P)'
  <2>1. P = {}
    BY <1>8 DEF Counting, Cache!InPut
  <2>2. RowsWith(P)' \ Deleted(P)' = DOMAIN rows' /\ Room(P)' = MaxEntries + leaks + 1
    BY <1>2, <2>1, CacheAssumption DEF RowsWith, Deleted, Room
  <2>3. Cardinality(RowsWith(P)' \ Deleted(P)') <= Room(P)'
    BY <1>2, <1>6, <1>7, <1>10, <2>2, CacheAssumption
  <2>4. QED
    BY <2>3 DEF Fits
<1>12. QED
  BY <1>9, <1>11 DEF CacheInv

(* ... and removing a row, ...                                              *)
LEMMA RemoveKeeps ==
  ASSUME CacheInv, NEW keys, Cache!Remove(keys) PROVE CacheInv'
<1>1. rows' = [x \in DOMAIN rows \ keys |-> rows[x]] /\ serial' = serial /\ leaks' = leaks /\ clock' = clock /\ put' = put
  BY DEF Cache!Remove, Cache!Restrict
<1>2. DOMAIN rows' \subseteq DOMAIN rows /\ \A k \in DOMAIN rows' : rows'[k] = rows[k]
  BY <1>1
<1>3. IsFiniteSet(DOMAIN rows')
  BY <1>2, FS_Subset DEF CacheInv, PutsInv
<1>4. PutsInv'
  BY <1>1, <1>2, <1>3 DEF CacheInv, PutsInv, Cache!InPut
<1>5. ASSUME NEW P \in SUBSET Counting' PROVE Fits(P)'
  <2>1. P \in SUBSET Counting /\ P \in SUBSET Writers
    BY <1>1 DEF Counting
  <2>2. QED
    BY <1>1, <1>2, <2>1, Unmoved DEF CacheInv, PutsInv
<1>6. QED
  BY <1>4, <1>5 DEF CacheInv, PutsInv

(* ... and the second that passes, or the commit of what was left open.     *)
LEMMA WaitKeeps ==
  ASSUME CacheInv, UNCHANGED <<serial, leaks, rows, put>>, clock' \in Nat PROVE CacheInv'
<1>1. serial' = serial /\ leaks' = leaks /\ rows' = rows /\ put' = put
  OBVIOUS
<1>2. PutsInv'
  BY <1>1 DEF CacheInv, PutsInv, Cache!InPut
<1>3. ASSUME NEW P \in SUBSET Counting' PROVE Fits(P)'
  <2>1. P \in SUBSET Counting /\ P \in SUBSET Writers
    BY <1>1 DEF Counting
  <2>2. QED
    BY <1>1, <2>1, Unmoved DEF CacheInv, PutsInv
<1>4. QED
  BY <1>2, <1>3 DEF CacheInv, PutsInv

(* A put that counts finds how many rows are over the cap with its own,     *)
(* ...                                                                      *)
LEMMA CountKeeps ==
  ASSUME CacheInv, NEW w \in Writers, Cache!Count(w) PROVE CacheInv'
<1> DEFINE e == Cache!Excess(w)  r == [put[w] EXCEPT !.at = "counted", !.excess = e]
<1>1. put[w] \in PutState /\ put[w].at = "upserted" /\ put[w].victims = {}
  BY DEF CacheInv, PutsInv, Cache!Count
<1>2. e = Cardinality(DOMAIN Cache!Upserted(w)) - MaxEntries /\ e \in Int
  <2>1. Cardinality(DOMAIN Cache!Upserted(w)) \in Nat
    BY SeesRows
  <2>2. QED
    BY <2>1, CacheCounts, CacheAssumption DEF Cache!Excess
<1> HIDE DEF e
<1>3. r \in PutState /\ r.at = "counted" /\ r.key = put[w].key /\ r.excess = e /\ r.victims = {}
  BY <1>1, <1>2 DEF PutState
<1>4. put' = [put EXCEPT ![w] = r] /\ rows' = rows /\ serial' = serial /\ leaks' = leaks /\ clock' = clock /\ put \in [Writers -> PutState]
  BY DEF Cache!Count, CacheInv, PutsInv, e
<1> HIDE DEF r
<1>5. put'[w] = r /\ (\A x \in Writers \ {w} : put'[x] = put[x]) /\ put' \in [Writers -> PutState]
  BY <1>3, <1>4
<1>6. \A x \in Writers : put'[x].key = put[x].key /\ put'[x].victims = put[x].victims /\ (Cache!InPut(x)' <=> Cache!InPut(x))
  BY <1>1, <1>3, <1>5 DEF Cache!InPut
<1>7. PutsInv'
  BY <1>1, <1>3, <1>4, <1>5, <1>6 DEF CacheInv, PutsInv
<1>8. ASSUME NEW P \in SUBSET Counting', w \notin P PROVE Fits(P)'
  <2>1. P \in SUBSET Counting /\ P \in SUBSET Writers
    BY <1>5, <1>8 DEF Counting
  <2>2. QED
    BY <1>4, <1>5, <1>8, <2>1, Unmoved DEF CacheInv, PutsInv
<1>9. ASSUME NEW P \in SUBSET Counting', w \in P PROVE Fits(P)'
  <2> DEFINE K == {put[x].key : x \in P \ {w}}  D == DOMAIN Cache!Upserted(w)
  <2>1. P \in SUBSET Writers /\ \A x \in P : Cache!InPut(x)
    BY <1>1, <1>5 DEF Counting, Cache!InPut
  <2>2. /\ MaxEntries + Cardinality(P) - 1 <= Room(P) /\ IsFiniteSet(P \ {w}) /\ Cardinality(P) \in Nat
        /\ Cardinality(P \ {w}) = Cardinality(P) - 1
    BY <1>9, <2>1, FewPuts
  <2>3. IsFiniteSet(K) /\ Cardinality(K) \in Nat /\ Cardinality(K) <= Cardinality(P) - 1
    BY <2>2, KeysOf
  <2>4. D = DOMAIN rows \cup {put[w].key} /\ IsFiniteSet(D) /\ Cardinality(D) \in Nat
    BY SeesRows
  <2>5. RowsWith(P)' = D \cup K
    <3>1. RowsWith(P)' = DOMAIN rows \cup {put[x].key : x \in P}
      BY <1>4, <1>6, <2>1 DEF RowsWith
    <3>2. QED
      BY <3>1, <2>4, <1>9
  <2> HIDE DEF K, D
  <2>6. Cardinality(D \cup K) <= Cardinality(D) + Cardinality(K) /\ Cardinality(D \cup K) \in Nat
    BY <2>3, <2>4, FiniteSizes
  <2>7. Room(P) \in Int /\ Room(P)' = Room(P) /\ e = Cardinality(D) - MaxEntries
    BY <1>2, <1>4, CapSize DEF CacheInv, PutsInv, Room, D
  <2>8. Cardinality(RowsWith(P)') - put'[w].excess <= Room(P)'
    BY <1>2, <1>3, <1>5, <2>2, <2>3, <2>4, <2>5, <2>6, <2>7, CacheAssumption
  <2>9. QED
    BY <1>3, <1>5, <1>9, <2>8 DEF Fits
<1>10. QED
  BY <1>7, <1>8, <1>9 DEF CacheInv, PutsInv

(* ... selects as many of the oldest, ...                                   *)
LEMMA SelectKeeps ==
  ASSUME CacheInv, NEW w \in Writers, Cache!Select(w) PROVE CacheInv'
<1> DEFINE D == DOMAIN Cache!Upserted(w)
           V == IF put[w].excess > 0 THEN Cache!Oldest(Cache!Upserted(w), put[w].excess) ELSE {}
           r == [put[w] EXCEPT !.at = "selected", !.victims = V]
<1>1. put[w] \in PutState /\ put[w].at = "counted" /\ put[w].victims = {} /\ put[w].excess \in Int
  BY DEF CacheInv, PutsInv, Cache!Select, PutState
<1>2. D = DOMAIN rows \cup {put[w].key} /\ IsFiniteSet(D) /\ Cardinality(D) \in Nat /\ D \subseteq Int
  BY SeesRows
<1>3. /\ V \subseteq D
      /\ put[w].excess > 0 => Cardinality(V) >= put[w].excess \/ V = D
  <2> DEFINE f == Cache!Upserted(w)
  <2>1. IsFiniteSet(DOMAIN f) /\ DOMAIN f \subseteq Int /\ \A k \in DOMAIN f : f[k].created \in Nat
    BY SeesRows
  <2> HIDE DEF f
  <2>2. put[w].excess > 0 => put[w].excess \in Nat
    BY <1>1
  <2>3. CASE put[w].excess > 0
    <3>1. /\ Cache!Oldest(f, put[w].excess) \subseteq DOMAIN f
          /\ Cardinality(Cache!Oldest(f, put[w].excess)) >= put[w].excess \/ Cache!Oldest(f, put[w].excess) = DOMAIN f
      BY <2>1, <2>2, <2>3, OldestAreEnough
    <3>2. QED
      BY <2>3, <3>1 DEF f
  <2>4. QED
    BY <1>1, <2>3
<1> HIDE DEF V, D
<1>4. r \in PutState /\ r.at = "selected" /\ r.key = put[w].key /\ r.victims = V
  BY <1>1, <1>2, <1>3 DEF PutState
<1>5. put' = [put EXCEPT ![w] = r] /\ rows' = rows /\ serial' = serial /\ leaks' = leaks /\ clock' = clock /\ put \in [Writers -> PutState]
  BY DEF Cache!Select, CacheInv, PutsInv, V
<1> HIDE DEF r
<1>6. put'[w] = r /\ (\A x \in Writers \ {w} : put'[x] = put[x]) /\ put' \in [Writers -> PutState]
  BY <1>4, <1>5
<1>7. \A x \in Writers : put'[x].key = put[x].key /\ (Cache!InPut(x)' <=> Cache!InPut(x))
  BY <1>1, <1>4, <1>6 DEF Cache!InPut
<1>8. PutsInv'
  BY <1>1, <1>4, <1>5, <1>6, <1>7 DEF CacheInv, PutsInv
<1>9. Counting' = Counting
  BY <1>1, <1>4, <1>6 DEF Counting
<1>10. ASSUME NEW P \in SUBSET Counting, w \notin P PROVE Fits(P)'
  <2>1. P \in SUBSET Writers
    BY DEF Counting
  <2>2. QED
    BY <1>5, <1>6, <1>10, <2>1, Unmoved DEF CacheInv, PutsInv
<1>11. ASSUME NEW P \in SUBSET Counting, w \in P PROVE Fits(P)'
  <2> DEFINE K == {put[x].key : x \in P \ {w}}  W == RowsWith(P)
  <2>1. P \in SUBSET Writers /\ \A x \in P : Cache!InPut(x)
    BY DEF Counting, Cache!InPut
  <2>2. /\ MaxEntries + Cardinality(P) - 1 <= Room(P) /\ IsFiniteSet(P \ {w}) /\ Cardinality(P) \in Nat
        /\ Cardinality(P \ {w}) = Cardinality(P) - 1
    BY <1>11, <2>1, FewPuts
  <2>3. IsFiniteSet(K) /\ Cardinality(K) \in Nat /\ Cardinality(K) <= Cardinality(P) - 1
    BY <2>2, KeysOf
  <2>4. W = D \cup K
    BY <1>2, <1>11 DEF RowsWith
  <2>5. RowsWith(P)' = W
    BY <1>5, <1>7, <2>1 DEF RowsWith
  <2>6. Deleted(P)' = Deleted(P) \cup V
    <3>1. \A x \in P : put'[x].victims = put[x].victims \cup (IF x = w THEN V ELSE {})
      BY <1>1, <1>4, <1>6, <2>1
    <3>2. QED
      BY <3>1, <1>11 DEF Deleted
  <2> HIDE DEF K, W
  <2>7. IsFiniteSet(W) /\ Cardinality(W) \in Nat /\ V \in SUBSET W
    BY <1>3, <2>1, <2>4, WithFinite DEF W
  <2>8. Room(P) \in Int /\ Room(P)' = Room(P)
    BY <1>5, CapSize DEF CacheInv, PutsInv, Room
  <2>9. \A T : T \subseteq W => IsFiniteSet(T) /\ Cardinality(T) \in Nat
    BY <2>7, FiniteSizes
  <2>10. \A S, T : S \subseteq T /\ T \subseteq W => Cardinality(S) <= Cardinality(T)
    BY <2>9, FS_Subset
  <2>11. Cardinality(W \ Deleted(P)') \in Nat /\ (Cardinality(W \ Deleted(P)') <= Room(P) => Fits(P)')
    BY <2>5, <2>8, <2>9 DEF Fits
  <2>12. CASE Cardinality(W \ Deleted(P)) <= Room(P)
    <3>1. Cardinality(W \ Deleted(P)') <= Cardinality(W \ Deleted(P)) /\ Cardinality(W \ Deleted(P)) \in Nat
      BY <2>6, <2>9, <2>10
    <3>2. QED
      BY <2>8, <2>11, <2>12, <3>1
  <2>13. ASSUME NEW c \in P, c # w, put[c].at = "counted", Cardinality(W) - put[c].excess <= Room(P)
         PROVE  Fits(P)'
    <3>1. put'[c] = put[c]
      BY <1>6, <2>1, <2>13
    <3>2. QED
      BY <2>5, <2>8, <2>13, <3>1 DEF Fits
  <2>14. ASSUME Cardinality(W) - put[w].excess <= Room(P) PROVE Fits(P)'
    <3>1. Cardinality(W \ Deleted(P)') <= Cardinality(W \ V) /\ Cardinality(W \ V) \in Nat
      BY <2>6, <2>9, <2>10
    <3>2. Cardinality(W \ V) = Cardinality(W) - Cardinality(V) /\ Cardinality(V) \in Nat
      BY <2>7, <2>9, FiniteSizes
    <3>3. CASE put[w].excess <= 0 
      BY <1>1, <2>7, <2>8, <2>11, <2>14, <3>1, <3>2, <3>3
    <3>4. CASE put[w].excess > 0 /\ Cardinality(V) >= put[w].excess
      BY <1>1, <2>7, <2>8, <2>11, <2>14, <3>1, <3>2, <3>4
    <3>5. CASE V = D
      <4>1. W \ V \subseteq K /\ K \subseteq W
        BY <2>4, <3>5
      <4>2. Cardinality(W \ V) <= Cardinality(K)
        BY <4>1, <2>10
      <4>3. QED
        BY <2>2, <2>3, <2>8, <2>11, <3>1, <4>2, CacheAssumption
    <3>6. QED
      BY <1>1, <1>3, <3>3, <3>4, <3>5
  <2>15. Fits(P)
    BY <1>11 DEF CacheInv, PutsInv
  <2>16. QED
    BY <2>12, <2>13, <2>14, <2>15 DEF Fits, W
<1>12. QED
  BY <1>8, <1>9, <1>10, <1>11 DEF CacheInv, PutsInv

(* ... deletes them unseen, ...                                             *)
LEMMA DeleteKeeps ==
  ASSUME CacheInv, NEW w \in Writers, Cache!Delete(w) PROVE CacheInv'
<1> DEFINE r == [put[w] EXCEPT !.at = "deleted"]
<1>1. put[w] \in PutState /\ put[w].at = "selected"
  BY DEF CacheInv, PutsInv, Cache!Delete
<1>2. r \in PutState /\ r.at = "deleted" /\ r.key = put[w].key /\ r.excess = put[w].excess /\ r.victims = put[w].victims
  BY <1>1 DEF PutState
<1>3. put' = [put EXCEPT ![w] = r] /\ rows' = rows /\ serial' = serial /\ leaks' = leaks /\ clock' = clock /\ put \in [Writers -> PutState]
  BY DEF Cache!Delete, CacheInv, PutsInv
<1> HIDE DEF r
<1>4. put'[w] = r /\ (\A x \in Writers \ {w} : put'[x] = put[x]) /\ put' \in [Writers -> PutState]
  BY <1>2, <1>3
<1>5. /\ \A x \in Writers : /\ put'[x].key = put[x].key /\ put'[x].victims = put[x].victims /\ put'[x].excess = put[x].excess
                            /\ (Cache!InPut(x)' <=> Cache!InPut(x)) /\ (put'[x].at = "counted" <=> put[x].at = "counted")
  BY <1>1, <1>2, <1>4 DEF Cache!InPut
<1>6. \A x \in Writers \ {w} : Cache!InPut(x) => put[x].key \notin put[w].victims
  BY DEF Cache!Delete, Cache!Taken, Cache!Touches
<1>7. PutsInv'
  BY <1>1, <1>2, <1>3, <1>4, <1>5, <1>6 DEF CacheInv, PutsInv
<1>8. Counting' = Counting
  BY <1>1, <1>2, <1>4 DEF Counting
<1>9. ASSUME NEW P \in SUBSET Counting PROVE Fits(P)'
  <2>1. P \in SUBSET Writers
    BY DEF Counting
  <2>2. RowsWith(P)' = RowsWith(P) /\ Deleted(P)' = Deleted(P) /\ Room(P)' = Room(P)
    BY <1>3, <1>5, <2>1 DEF RowsWith, Deleted, Room
  <2>3. Fits(P)
    BY DEF CacheInv, PutsInv
  <2>4. QED
    BY <1>5, <2>1, <2>2, <2>3 DEF Fits
<1>10. QED
  BY <1>7, <1>8, <1>9 DEF CacheInv, PutsInv

(* ... and commits both.                                                    *)
LEMMA CommitKeeps ==
  ASSUME CacheInv, NEW w \in Writers, Cache!Commit(w) PROVE CacheInv'
<1> DEFINE D == DOMAIN Cache!Upserted(w)  V == put[w].victims
<1>1. put[w] \in PutState /\ put[w].at = "deleted" /\ \A x \in Writers \ {w} : Cache!InPut(x) => put[x].key \notin V
  BY DEF CacheInv, PutsInv, Cache!Commit
<1>2. Cache!NoPut \in PutState /\ Cache!NoPut.at = "idle" /\ Cache!NoPut.victims = {}
  BY DEF Cache!NoPut, PutState
<1>3. put' = [put EXCEPT ![w] = Cache!NoPut] /\ serial' = serial /\ leaks' = 0 /\ clock' = clock /\ put \in [Writers -> PutState]
  BY DEF Cache!Commit, CacheInv, PutsInv
<1>4. D = DOMAIN rows \cup {put[w].key} /\ IsFiniteSet(D) /\ D \subseteq Int /\ \A k \in D : Cache!Upserted(w)[k].created \in Nat
  BY SeesRows
<1>5. rows' = [x \in D \ V |-> Cache!Upserted(w)[x]]
  BY DEF Cache!Commit, Cache!Restrict
<1>6. DOMAIN rows' = D \ V /\ \A k \in DOMAIN rows' : rows'[k].created \in Nat
  BY <1>4, <1>5
<1>7. IsFiniteSet(D \ V)
  BY <1>4, FS_Subset
<1> HIDE DEF D, V
<1>8. put'[w] = Cache!NoPut /\ (\A x \in Writers \ {w} : put'[x] = put[x]) /\ put' \in [Writers -> PutState]
  BY <1>2, <1>3
<1>9. PutsInv'
  BY <1>2, <1>3, <1>4, <1>6, <1>7, <1>8 DEF CacheInv, PutsInv, Cache!InPut
<1>10. ASSUME NEW P \in SUBSET Counting' PROVE Fits(P)'
  <2> DEFINE Q == P \cup {w}
  <2>1. P \in SUBSET Counting /\ w \notin P /\ P \in SUBSET Writers /\ Q \in SUBSET Counting /\ Q \in SUBSET Writers
    BY <1>1, <1>2, <1>8 DEF Counting
  <2>2. \A x \in P : put[x].key \notin V /\ put'[x] = put[x]
    BY <1>1, <1>8, <2>1 DEF Counting, Cache!InPut
  <2>3. RowsWith(P)' = RowsWith(Q) \ V
    <3>1. RowsWith(P)' = (D \ V) \cup {put[x].key : x \in P}
      BY <1>6, <2>2 DEF RowsWith
    <3>2. RowsWith(Q) = D \cup {put[x].key : x \in P}
      BY <1>4 DEF RowsWith
    <3>3. QED
      BY <2>2, <3>1, <3>2
  <2>4. Deleted(Q) = Deleted(P)' \cup V
    BY <2>2 DEF Deleted, V
  <2>5. RowsWith(P)' \ Deleted(P)' = RowsWith(Q) \ Deleted(Q) /\ RowsWith(P)' \in SUBSET RowsWith(Q)
    BY <2>3, <2>4
  <2>6. Cardinality(RowsWith(Q)) \in Nat /\ Cardinality(RowsWith(P)') \in Nat /\ Cardinality(RowsWith(P)') <= Cardinality(RowsWith(Q))
    BY <2>1, <2>5, WithFinite
  <2>7. Room(Q) \in Int /\ Room(P)' = Room(Q)
    <3>1. Q # {} /\ (serial => P = {})
      BY <1>1, <2>1 DEF CacheInv, PutsInv, Counting, Cache!InPut
    <3>2. Room(P)' = Room(Q)
      BY <1>3, <3>1, CacheAssumption DEF Room
    <3>3. QED
      BY <3>2, CapSize DEF CacheInv, PutsInv
  <2>8. Fits(Q)
    BY <2>1 DEF CacheInv, PutsInv
  <2>9. ASSUME NEW c \in Q, put[c].at = "counted", Cardinality(RowsWith(Q)) - put[c].excess <= Room(Q)
        PROVE  Fits(P)'
    <3>1. c \in P /\ put'[c] = put[c] /\ put[c].excess \in Int
      BY <1>1, <2>1, <2>2, <2>9 DEF CacheInv, PutsInv, PutState
    <3>2. Cardinality(RowsWith(P)') - put'[c].excess <= Room(P)'
      BY <2>6, <2>7, <2>9, <3>1
    <3>3. QED
      BY <2>9, <3>1, <3>2 DEF Fits
  <2>10. QED
    BY <2>5, <2>7, <2>8, <2>9 DEF Fits
<1>11. QED
  BY <1>9, <1>10 DEF CacheInv, PutsInv

(* At first there is no row.                                                *)
LEMMA CacheStart == Init => CacheInv
<1> SUFFICES ASSUME Init PROVE CacheInv
  OBVIOUS
<1>1. Cache!PcInit
  BY DEF Init
<1>2. clock = 0 /\ serial \in BOOLEAN /\ rows = <<>> /\ put = [w \in Writers |-> Cache!NoPut] /\ leaks = 0 /\ Cache!NoPut \in PutState /\ Cache!NoPut.at = "idle" /\ Cache!NoPut.victims = {}
  BY <1>1 DEF Cache!PcInit, Cache!NoPut, PutState
<1>3. DOMAIN rows = {}
  BY <1>2
<1>4. PutsInv
  BY <1>2, <1>3, FS_EmptySet DEF PutsInv, Cache!InPut
<1>5. ASSUME NEW P \in SUBSET Counting PROVE Fits(P)
  <2>1. P = {}
    BY <1>2 DEF Counting
  <2>2. RowsWith(P) \ Deleted(P) = {}
    BY <1>3, <2>1 DEF RowsWith, Deleted
  <2>3. Cardinality(RowsWith(P) \ Deleted(P)) = 0 /\ Room(P) >= 0
    BY <1>2, <2>2, FS_EmptySet, CapSize, CacheAssumption
  <2>4. QED
    BY <2>3 DEF Fits
<1>6. QED
  BY <1>4, <1>5 DEF CacheInv, PutsInv

(* The rows alone fit: no put is needed.                                    *)
LEMMA CacheHolds == CacheInv => Cache!CapHolds
<1> SUFFICES ASSUME CacheInv PROVE Cache!CapHolds
  OBVIOUS
<1>1. Fits({})
  BY DEF CacheInv, PutsInv
<1>2. RowsWith({}) \ Deleted({}) = DOMAIN rows
  BY DEF RowsWith, Deleted
<1>3. Cardinality(DOMAIN rows) <= Room({})
  BY <1>1, <1>2 DEF Fits
<1>4. QED
  BY <1>3, CacheCounts DEF Cache!CapHolds, Room

(* The rows fit, whichever puts under way commit.                           *)
LEMMA CacheInvariance == Spec => []CacheInv
<1>1. Init => CacheInv
  BY CacheStart
<1>2. CacheInv /\ [Next]_vars => CacheInv'
  <2> SUFFICES ASSUME CacheInv, [Next]_vars PROVE CacheInv'
    OBVIOUS
  <2>1. clock \in Nat
    BY DEF CacheInv, PutsInv
  <2>2. CASE Cache!PcNext
    <3>1. CASE Cache!Moment
      BY <2>1, <3>1, WaitKeeps DEF Cache!Moment
    <3>2. CASE Cache!Flush
      BY <2>1, <3>2, WaitKeeps DEF Cache!Flush
    <3>3. ASSUME NEW w \in Writers, \/ Cache!Count(w) \/ Cache!Select(w) \/ Cache!Delete(w) \/ Cache!Commit(w)
                                    \/ Cache!Rollback(w) \/ Cache!Abandon(w) \/ \E k \in CacheKeys : Cache!Begin(w, k)
          PROVE  CacheInv'
      BY <3>3, BeginKeeps, CountKeeps, SelectKeeps, DeleteKeeps, CommitKeeps, RollbackKeeps, AbandonKeeps
    <3>4. CASE \E keys : Cache!Remove(keys)
      BY <3>4, RemoveKeeps
    <3>5. QED
      BY <2>2, <3>1, <3>2, <3>3, <3>4 DEF Cache!PcNext
  <2>3. CASE UNCHANGED <<cacheVars, clock>>
    BY <2>1, <2>3, WaitKeeps DEF cacheVars
  <2>4. CASE UNCHANGED cacheVars /\ Limiter!RlNext
    <3>1. clock' = clock \/ clock' = clock + 1
      <4>1. ASSUME NEW k \in Keys, Limiter!Check(k) PROVE clock' = clock
        BY <4>1 DEF Limiter!Check
      <4>2. QED
        BY <2>4, <4>1 DEF Limiter!RlNext, Limiter!Second
    <3>2. QED
      BY <2>1, <2>4, <3>1, WaitKeeps DEF cacheVars
  <2>5. QED
    BY <2>2, <2>3, <2>4, CacheSteps
<1>3. QED
  BY <1>1, <1>2, PTL DEF Spec

-----------------------------------------------------------------------------
(* The limits.                                                              *)

(* No client is granted more than a burst and the refill, a denial promises *)
(* the truth, a client that retries keeps its bucket; and the policy cache  *)
(* is over its cap by no more than the other puts under way, and on SQLite  *)
(* the puts cancelled since one last committed, however often puts race,    *)
(* fail, roll back and are cancelled.                                       *)
THEOREM LimitsAreKept == Spec => []LimitsHold
<1>1. LimiterInv /\ CacheInv => LimitsHold
  BY LimiterHolds, CacheHolds DEF LimitsHold
<1>2. QED
  BY <1>1, LimiterInvariance, CacheInvariance, PTL

-----------------------------------------------------------------------------
(* Usage telemetry: an event is in the counters or in one report.           *)

(* Only a step of the telemetry touches its counters.                       *)
LEMMA TelemetrySteps == [Next]_vars => Telemetry!UtNext \/ UNCHANGED telemetryVars
BY DEF Next, vars, besideVars, Picked

Counts == [accepted : SUBSET Requests, completed : SUBSET Requests]
Report    == [n : Nat, what : Counts, end : {"open", "answered", "failed", "cancelled"}]
Disjoint(a, b) == a.accepted \cap b.accepted = {} /\ a.completed \cap b.completed = {}
(* What is counted are requests; a report is not empty.                     *)
TelemetryType ==
  /\ accepted \subseteq Requests /\ completed \subseteq Requests /\ counters \in Counts
  /\ \A p \in posts : p.what \in Counts /\ p.what # Telemetry!Zero
  /\ \A p \in posts : p = [n |-> p.n, what |-> p.what, end |-> p.end]
(* What was counted is in the counters or in a report, ...                  *)
SumsUp ==
  /\ \A r \in Requests : r \in accepted <=> r \in counters.accepted \/ \E p \in posts : r \in p.what.accepted
  /\ \A r \in Requests : r \in completed <=> r \in counters.completed \/ \E p \in posts : r \in p.what.completed
(* ... in one of them, ...                                                  *)
Apart == \A p \in posts : Disjoint(p.what, counters) /\ \A q \in posts \ {p} : Disjoint(p.what, q.what)
(* ... and at most one report is on its way.                                *)
OneOpen ==
  /\ \A p \in posts : p.end = "open" => loop = "posting"
  /\ \A p, q \in posts : p.end = "open" /\ q.end = "open" => p = q
  /\ stopping \in {"flushing", "stopped"} => loop = "cancelled"
CountsAdd == TelemetryType /\ SumsUp /\ Apart /\ OneOpen
(* Moreover what stop() took has left the counters.                         *)
Flushed ==
  /\ due.accepted \subseteq accepted /\ due.completed \subseteq completed
  /\ due.accepted \cap counters.accepted = {} /\ due.completed \cap counters.completed = {}
TelemetryInv == CountsAdd /\ Flushed

(* A report that ends, however it does, still holds what it held.           *)
LEMMA EndedPosts ==
  ASSUME NEW end, end # "open", CountsAdd, posts' = Telemetry!Ended(end), 
         UNCHANGED <<accepted, completed, counters>>
  PROVE  /\ TelemetryType' /\ SumsUp' /\ Apart' /\ \A p \in posts' : p.end # "open"
<1> DEFINE E(p) == IF p.end = "open" THEN [p EXCEPT !.end = end] ELSE p
<1>1. posts' = {E(p) : p \in posts}
  BY DEF Telemetry!Ended
<1>2. \A p \in posts : /\ E(p).what = p.what /\ E(p).end # "open"
                       /\ E(p) = [n |-> p.n, what |-> p.what, end |-> E(p).end]
  BY DEF CountsAdd, TelemetryType
<1>3. \A p \in posts : E(p) \in posts'
  BY <1>1
<1>4. \A x \in posts' : \E p \in posts : x = E(p)
  BY <1>1
<1> HIDE DEF E
<1>5. TelemetryType'
  <2>1. \A x \in posts' : x.what \in Counts /\ x.what # Telemetry!Zero /\ x = [n |-> x.n, what |-> x.what, end |-> x.end]
    BY <1>4, <1>2 DEF CountsAdd, TelemetryType
  <2>2. QED
    BY <2>1 DEF CountsAdd, TelemetryType, Telemetry!Zero
<1>6. SumsUp'
  <2>1. /\ \A r \in Requests : (\E p \in posts : r \in p.what.accepted) <=> \E x \in posts' : r \in x.what.accepted
        /\ \A r \in Requests : (\E p \in posts : r \in p.what.completed) <=> \E x \in posts' : r \in x.what.completed
    BY <1>3, <1>4, <1>2
  <2>2. QED
    BY <2>1 DEF CountsAdd, SumsUp
<1>7. Apart'
  BY <1>4, <1>2 DEF CountsAdd, Apart, Disjoint
<1>8. QED
  BY <1>2, <1>4, <1>5, <1>6, <1>7

(* Taking the counters for a report empties them.                           *)
LEMMA TakenPosts ==
  ASSUME NEW end, CountsAdd, Telemetry!Take(end), UNCHANGED <<accepted, completed>>
  PROVE  /\ TelemetryType' /\ SumsUp' /\ Apart'
         /\ \E new : new.end = end /\ posts' = IF Telemetry!HasData(counters) THEN posts \cup {new} ELSE posts
<1> DEFINE new == [n |-> Telemetry!Cardinality(posts), what |-> counters, end |-> end]
<1>1. counters' = Telemetry!Zero /\ posts' = IF Telemetry!HasData(counters) THEN posts \cup {new} ELSE posts
  BY DEF Telemetry!Take, Telemetry!SnapshotAndReset
<1>2. /\ new.what = counters /\ new.end = end /\ new = [n |-> new.n, what |-> new.what, end |-> new.end]
      /\ Telemetry!Zero \in Counts /\ Telemetry!Zero.accepted = {} /\ Telemetry!Zero.completed = {}
  BY DEF Telemetry!Zero, Counts
<1> HIDE DEF new
<1>3. TelemetryType'
  BY <1>1, <1>2 DEF CountsAdd, TelemetryType, Telemetry!Zero, Telemetry!HasData
<1>4. SumsUp'
  <2>1. CASE Telemetry!HasData(counters)
    BY <2>1, <1>1, <1>2 DEF CountsAdd, SumsUp
  <2>2. CASE ~Telemetry!HasData(counters)
    BY <2>2, <1>1, <1>2 DEF CountsAdd, SumsUp, Telemetry!HasData
  <2>3. QED
    BY <2>1, <2>2
<1>5. Apart'
  BY <1>1, <1>2 DEF CountsAdd, Apart, Disjoint
<1>6. QED
  BY <1>1, <1>2, <1>3, <1>4, <1>5

(* Every step of the telemetry keeps the accounts.                          *)
LEMMA CountingStep == ASSUME CountsAdd, Telemetry!UtNext PROVE CountsAdd'
<1>1. ASSUME NEW r \in Requests, Telemetry!Accept(r) PROVE CountsAdd'
  <2>1. /\ r \notin accepted /\ accepted' = accepted \cup {r} 
        /\ counters' = [counters EXCEPT !.accepted = @ \cup {r}]
        /\ UNCHANGED <<completed, posts, loop, stopping>>
    BY <1>1 DEF Telemetry!Accept
  <2>2. /\ counters'.accepted = counters.accepted \cup {r} /\ counters'.completed = counters.completed
        /\ counters' \in Counts
    BY <2>1 DEF CountsAdd, TelemetryType, Counts
  <2>3. \A p \in posts : r \notin p.what.accepted
    BY <2>1 DEF CountsAdd, SumsUp
  <2>4. QED
    BY <2>1, <2>2, <2>3 DEF CountsAdd, TelemetryType, SumsUp, Apart, OneOpen, Disjoint,
       Telemetry!Zero
<1>2. ASSUME NEW r \in Requests, Telemetry!Complete(r) PROVE CountsAdd'
  <2>1. /\ r \notin completed /\ completed' = completed \cup {r} 
        /\ counters' = [counters EXCEPT !.completed = @ \cup {r}]
        /\ UNCHANGED <<accepted, posts, loop, stopping>>
    BY <1>2 DEF Telemetry!Complete
  <2>2. /\ counters'.completed = counters.completed \cup {r} /\ counters'.accepted = counters.accepted
        /\ counters' \in Counts
    BY <2>1 DEF CountsAdd, TelemetryType, Counts
  <2>3. \A p \in posts : r \notin p.what.completed
    BY <2>1 DEF CountsAdd, SumsUp
  <2>4. QED
    BY <2>1, <2>2, <2>3 DEF CountsAdd, TelemetryType, SumsUp, Apart, OneOpen, Disjoint,
       Telemetry!Zero
<1>3. CASE Telemetry!Wakes
  <2>1. /\ loop = "sleeping" /\ Telemetry!Take("open") /\ UNCHANGED <<accepted, completed, stopping>>
        /\ loop' = IF Telemetry!HasData(counters) THEN "posting" ELSE "sleeping"
    BY <1>3 DEF Telemetry!Wakes
  <2>2. /\ TelemetryType' /\ SumsUp' /\ Apart'
        /\ \E new : new.end = "open" /\ posts' = IF Telemetry!HasData(counters) THEN posts \cup {new} ELSE posts
    BY <2>1, TakenPosts
  <2>3. OneOpen'
    BY <2>1, <2>2 DEF CountsAdd, OneOpen
  <2>4. QED
    BY <2>2, <2>3 DEF CountsAdd
<1>4. CASE Telemetry!Posted
  <2>1. PICK end \in {"answered", "failed"} : posts' = Telemetry!Ended(end)
    BY <1>4 DEF Telemetry!Posted
  <2>2. loop = "posting" /\ UNCHANGED <<accepted, completed, counters, stopping>>
    BY <1>4 DEF Telemetry!Posted
  <2>3. TelemetryType' /\ SumsUp' /\ Apart' /\ \A p \in posts' : p.end # "open"
    BY <2>1, <2>2, EndedPosts
  <2>4. QED
    BY <2>2, <2>3 DEF CountsAdd, OneOpen
<1>5. CASE Telemetry!Stop
  BY <1>5 DEF Telemetry!Stop, CountsAdd, TelemetryType, SumsUp, Apart, OneOpen, Telemetry!Zero
<1>6. CASE Telemetry!LoopCancelled
  <2>1. loop' = "cancelled" /\ UNCHANGED <<accepted, completed, counters>>
    BY <1>6 DEF Telemetry!LoopCancelled
  <2>2. CASE loop = "posting"
    <3>1. posts' = Telemetry!Ended("cancelled")
      BY <1>6, <2>2 DEF Telemetry!LoopCancelled
    <3>2. TelemetryType' /\ SumsUp' /\ Apart' /\ \A p \in posts' : p.end # "open"
      BY <2>1, <3>1, EndedPosts
    <3>3. QED
      BY <2>1, <3>2 DEF CountsAdd, OneOpen
  <2>3. CASE loop # "posting"
    <3>1. posts' = posts
      BY <1>6, <2>3 DEF Telemetry!LoopCancelled
    <3>2. QED
      BY <2>1, <2>3, <3>1 DEF CountsAdd, TelemetryType, SumsUp, Apart, OneOpen, Telemetry!Zero
  <2>4. QED
    BY <2>2, <2>3
<1>7. CASE Telemetry!LastSend
  <2>1. PICK end \in {"answered", "failed"} : Telemetry!Take(end)
    BY <1>7 DEF Telemetry!LastSend
  <2>2. stopping = "flushing" /\ stopping' = "stopped" /\ UNCHANGED <<accepted, completed, loop>>
    BY <1>7 DEF Telemetry!LastSend, Telemetry!Stopped
  <2>3. /\ TelemetryType' /\ SumsUp' /\ Apart'
        /\ \E new : new.end = end /\ posts' = IF Telemetry!HasData(counters) THEN posts \cup {new} ELSE posts
    BY <2>1, <2>2, TakenPosts
  <2>4. OneOpen'
    BY <2>2, <2>3 DEF CountsAdd, OneOpen
  <2>5. QED
    BY <2>3, <2>4 DEF CountsAdd
<1>8. QED
  BY <1>1, <1>2, <1>3, <1>4, <1>5, <1>6, <1>7 DEF Telemetry!UtNext

(* What stop() took stays out of the counters.                              *)
LEMMA FlushedStep == ASSUME TelemetryInv, Telemetry!UtNext PROVE Flushed'
<1>1. ASSUME NEW r \in Requests, Telemetry!Accept(r) \/ Telemetry!Complete(r) PROVE Flushed'
  <2>1. CASE Telemetry!Accept(r)
    <3>1. r \notin accepted /\ accepted' = accepted \cup {r} /\ due' = due /\ completed' = completed
          /\ counters'.accepted = counters.accepted \cup {r} /\ counters'.completed = counters.completed
      BY <2>1 DEF Telemetry!Accept, TelemetryInv, CountsAdd, TelemetryType, Counts
    <3>2. QED
      BY <3>1 DEF TelemetryInv, Flushed
  <2>2. CASE Telemetry!Complete(r)
    <3>1. r \notin completed /\ completed' = completed \cup {r} /\ due' = due /\ accepted' = accepted
          /\ counters'.completed = counters.completed \cup {r} /\ counters'.accepted = counters.accepted
      BY <2>2 DEF Telemetry!Complete, TelemetryInv, CountsAdd, TelemetryType, Counts
    <3>2. QED
      BY <3>1 DEF TelemetryInv, Flushed
  <2>3. QED
    BY <1>1, <2>1, <2>2
<1>2. ASSUME NEW end, Telemetry!Take(end) PROVE counters'.accepted = {} /\ counters'.completed = {}
  BY <1>2 DEF Telemetry!Take, Telemetry!SnapshotAndReset, Telemetry!Zero
<1>3. CASE Telemetry!Wakes
  BY <1>2, <1>3 DEF Telemetry!Wakes, TelemetryInv, Flushed
<1>4. CASE Telemetry!LastSend
  <2>1. counters'.accepted = {} /\ counters'.completed = {} /\ accepted' = accepted /\ completed' = completed
    BY <1>2, <1>4 DEF Telemetry!LastSend
  <2>2. due'.accepted = accepted /\ due'.completed = completed
    BY <1>4 DEF Telemetry!LastSend, Telemetry!Stopped
  <2>3. QED
    BY <2>1, <2>2 DEF Flushed
<1>5. CASE Telemetry!Posted \/ Telemetry!Stop \/ Telemetry!LoopCancelled
  BY <1>5 DEF Telemetry!Posted, Telemetry!Stop, Telemetry!LoopCancelled, TelemetryInv, Flushed
<1>6. QED
  BY <1>1, <1>3, <1>4, <1>5 DEF Telemetry!UtNext

(* Every event is in the counters or in exactly one report, at most one     *)
(* report is on its way, and what stop() took is in a report.               *)
THEOREM TelemetryInvariance == Spec => []TelemetryInv
<1>1. Init => TelemetryInv
  BY DEF Init, Telemetry!UtInit, TelemetryInv, CountsAdd, Flushed, TelemetryType, SumsUp, Apart, OneOpen, Counts,
     Telemetry!Zero
<1>2. TelemetryInv /\ [Next]_vars => TelemetryInv'
  <2>1. CASE UNCHANGED telemetryVars
    BY <2>1 DEF telemetryVars, TelemetryInv, CountsAdd, Flushed, TelemetryType, SumsUp, Apart, OneOpen, Telemetry!Zero
  <2>2. QED
    BY <2>1, TelemetrySteps, CountingStep, FlushedStep DEF TelemetryInv
<1>3. QED
  BY <1>1, <1>2, PTL DEF Spec

(* No event is reported twice, and none is lost but with a report that      *)
(* failed or was cancelled, whenever the loop sends, a request completes    *)
(* or the gateway stops; and stop() posts all that was counted before its   *)
(* last send (sender.py).                                                   *)
THEOREM UsageCountedOnce == Spec => []CountedOnce
<1>1. TelemetryInv => CountedOnce
  <2> SUFFICES ASSUME TelemetryInv PROVE Telemetry!CountedOnce
    BY DEF CountedOnce
  <2>1. (UNION {p.what.accepted : p \in posts}) \cup counters.accepted = accepted
    BY DEF TelemetryInv, CountsAdd, TelemetryType, SumsUp, Counts
  <2>2. (UNION {p.what.completed : p \in posts}) \cup counters.completed = completed
    BY DEF TelemetryInv, CountsAdd, TelemetryType, SumsUp, Counts
  <2>3. QED
    BY <2>1, <2>2 DEF TelemetryInv, CountsAdd, Flushed, Telemetry!CountedOnce, Apart, OneOpen, Disjoint
<1>2. QED
  BY <1>1, TelemetryInvariance, PTL

-----------------------------------------------------------------------------
(* The activity feed: a stream has, or had, every event up to its last.     *)

(* Only a step of the feed touches its streams.                             *)
LEMMA FeedSteps == [Next]_vars => Feed!AsNext \/ UNCHANGED feedVars
BY DEF Next, vars, besideVars, Picked

(* What a stream has sent and what waits for it.                            *)
Seen(s) == got[s] \o queue[s]
(* The stream has, or had, exactly the events up to the last one.           *)
Whole(s, seen, last) ==
  /\ \A i, j \in DOMAIN seen : i < j => seen[i] < seen[j]
  /\ {seen[i] : i \in DOMAIN seen} = {n \in (from[s] + 1)..last : n \notin lost}
(* With last: a stream has everything published after its subscription up   *)
(* to last, but what Redis did not take; and last is the latest as long as  *)
(* it is subscribed.                                                        *)
Follows(s, last) ==
  /\ last \in Nat /\ from[s] <= last /\ last <= published
  /\ Whole(s, Seen(s), last)
  /\ (s \in subscribed => last = published)
(* Before it subscribes a stream has nothing; from then on it follows.      *)
StreamInv(s) ==
  /\ from[s] <= published
  /\ state[s] = "new" => got[s] = <<>> /\ queue[s] = <<>> /\ s \notin subscribed
  /\ state[s] # "new" => \E last : Follows(s, last)
FeedInv ==
  /\ published \in Nat /\ lost \subseteq 1..published /\ from \in [Streams -> Nat]
  /\ queue \in [Streams -> Seq(Nat)] /\ got \in [Streams -> Seq(Nat)]
  /\ subscribed \subseteq Streams
  /\ state \in [Streams -> {"new", "open", "closed", "error"}]
  /\ \A s \in Streams : StreamInv(s)

(* The feed has no gaps.                                                    *)
LEMMA GapsInv == FeedInv => Feed!NoGaps
<1> SUFFICES ASSUME FeedInv, NEW s \in Streams, state[s] # "new"
             PROVE  LET seen == got[s] \o queue[s] IN
                    /\ \A i, j \in DOMAIN seen : i < j => seen[i] < seen[j]
                    /\ \E last \in from[s]..published :
                         /\ {seen[i] : i \in DOMAIN seen} = {n \in (from[s] + 1)..last : n \notin lost}
                         /\ s \in subscribed => last = published
  BY DEF Feed!NoGaps
<1>1. PICK last : Follows(s, last)
  BY DEF FeedInv, StreamInv
<1>2. last \in from[s]..published /\ (s \in subscribed => last = published)
  BY <1>1 DEF Follows, FeedInv
<1>3. QED
  BY <1>1, <1>2 DEF Follows, Whole, Seen

(* What was yielded, followed by what waits.                                *)
LEMMA Joined ==
  ASSUME NEW g \in Seq(Nat), NEW q \in Seq(Nat)
  PROVE  /\ g \o q \in Seq(Nat) /\ DOMAIN (g \o q) = 1..(Len(g) + Len(q))
         /\ DOMAIN g = 1..Len(g)
         /\ \A i \in 1..Len(g) : (g \o q)[i] = g[i]
OBVIOUS

(* A publication goes to the end; a yield moves the border between what was *)
(* yielded and what waits.                                                  *)
LEMMA MovesBorder ==
  ASSUME NEW g \in Seq(Nat), NEW q \in Seq(Nat), q # <<>>
  PROVE  /\ Append(g, Head(q)) \in Seq(Nat) /\ Tail(q) \in Seq(Nat)
         /\ Append(g, Head(q)) \o Tail(q) = g \o q
<1>1. Append(g, Head(q)) \in Seq(Nat) /\ Tail(q) \in Seq(Nat)
  OBVIOUS
<1>2. Append(g, Head(q)) \o Tail(q) = g \o q
  BY SMTT(20)
<1>3. QED
  BY <1>1, <1>2

(* An event that arrives goes to the end of what waits.                     *)
LEMMA GoesToEnd ==
  ASSUME NEW g \in Seq(Nat), NEW q \in Seq(Nat), NEW n \in Nat
  PROVE  LET old == g \o q  new == g \o Append(q, n) IN
         /\ new \in Seq(Nat) /\ DOMAIN new = 1..(Len(old) + 1) /\ DOMAIN old = 1..Len(old) /\ Len(old) \in Nat
         /\ \A i \in 1..Len(old) : new[i] = old[i]
         /\ new[Len(old) + 1] = n
<1>1. g \o Append(q, n) = Append(g \o q, n) /\ g \o q \in Seq(Nat)
  OBVIOUS
<1>2. ASSUME NEW old \in Seq(Nat)
      PROVE  /\ Append(old, n) \in Seq(Nat) /\ DOMAIN Append(old, n) = 1..(Len(old) + 1) /\ DOMAIN old = 1..Len(old)
             /\ Len(old) \in Nat
             /\ \A i \in 1..Len(old) : Append(old, n)[i] = old[i]
             /\ Append(old, n)[Len(old) + 1] = n
  OBVIOUS
<1>3. QED
  BY <1>1, <1>2

(* What a stream yielded before it was closed has no gap either.            *)
LEMMA PrefixWhole ==
  ASSUME NEW s \in Streams, from[s] \in Nat, NEW g \in Seq(Nat), NEW q \in Seq(Nat),
         NEW last \in Nat, from[s] <= last, Whole(s, g \o q, last)
  PROVE  \E l \in from[s]..last : Whole(s, g, l)
<1> DEFINE seen == g \o q  k == Len(g)
<1>1. /\ DOMAIN seen = 1..(k + Len(q)) /\ DOMAIN g = 1..k /\ k \in Nat /\ Len(q) \in Nat
      /\ (\A i \in 1..k : seen[i] = g[i])
  BY Joined, LenProperties
<1>2. /\ \A i, j \in DOMAIN seen : i < j => seen[i] < seen[j]
      /\ \A i \in DOMAIN seen : seen[i] \in (from[s] + 1)..last /\ seen[i] \notin lost
      /\ \A n \in (from[s] + 1)..last : n \notin lost => \E i \in DOMAIN seen : seen[i] = n
  BY DEF Whole
<1> HIDE DEF seen, k
<1>3. CASE k = 0
  <2>1. DOMAIN g = {} /\ (from[s] + 1)..from[s] = {}
    BY <1>1, <1>3
  <2>2. Whole(s, g, from[s])
    BY <2>1 DEF Whole
  <2>3. QED
    BY <2>2
<1>4. CASE k > 0
  <2> DEFINE l == g[k]
  <2>1. l = seen[k] /\ k \in DOMAIN seen /\ l \in (from[s] + 1)..last
    BY <1>1, <1>2, <1>4
  <2> HIDE DEF l
  <2>2. \A i, j \in DOMAIN g : i < j => g[i] < g[j]
    BY <1>1, <1>2
  <2>3. ASSUME NEW i \in DOMAIN g PROVE g[i] \in (from[s] + 1)..l /\ g[i] \notin lost
    <3>1. i \in DOMAIN seen /\ g[i] = seen[i] /\ i \in 1..k
      BY <1>1, <2>3
    <3>2. i = k \/ i < k
      BY <1>1, <3>1
    <3>3. seen[i] <= l
      BY <1>2, <2>1, <3>1, <3>2
    <3>4. QED
      BY <1>2, <3>1, <3>3, <2>1
  <2>4. ASSUME NEW n \in (from[s] + 1)..l, n \notin lost PROVE \E i \in DOMAIN g : g[i] = n
    <3>1. PICK i \in DOMAIN seen : seen[i] = n
      BY <1>2, <2>1, <2>4
    <3>2. i <= k
      <4> SUFFICES ASSUME i > k PROVE FALSE
        BY <1>1
      <4>1. seen[k] < seen[i]
        BY <1>2, <2>1
      <4>2. QED
        BY <2>1, <2>4, <3>1, <4>1
    <3>3. i \in DOMAIN g /\ g[i] = n
      BY <1>1, <3>1, <3>2
    <3>4. QED
      BY <3>3
  <2>5. Whole(s, g, l)
    BY <2>2, <2>3, <2>4 DEF Whole
  <2>6. QED
    BY <2>1, <2>5
<1>5. QED
  BY <1>1, <1>3, <1>4

(* The new stream is the old one, whole to last, and the event after.       *)
GrowsBy(old, new, first, last) ==
  /\ \A i, j \in DOMAIN old : i < j => old[i] < old[j]
  /\ {old[i] : i \in DOMAIN old} = {m \in (first + 1)..last : m \notin lost}
  /\ \E len \in Nat :
       /\ DOMAIN old = 1..len /\ DOMAIN new = 1..(len + 1)
       /\ \A i \in 1..len : new[i] = old[i]
       /\ new[len + 1] = last + 1

(* One more event, the next one, and the stream is whole to it.             *)
LEMMA Grown ==
  ASSUME NEW s \in Streams, from[s] \in Nat, NEW last \in Nat, from[s] <= last, last + 1 \notin lost,
         NEW old, NEW new, GrowsBy(old, new, from[s], last)
  PROVE  Whole(s, new, last + 1)
<1>1. PICK len \in Nat :
        /\ DOMAIN old = 1..len /\ DOMAIN new = 1..(len + 1)
        /\ \A i \in 1..len : new[i] = old[i]
        /\ new[len + 1] = last + 1
  BY DEF GrowsBy
<1>2. /\ \A i, j \in 1..len : i < j => old[i] < old[j]
      /\ \A i \in 1..len : old[i] \in (from[s] + 1)..last /\ old[i] \notin lost
      /\ \A m \in (from[s] + 1)..last : m \notin lost => \E i \in 1..len : old[i] = m
  BY <1>1 DEF GrowsBy
<1>3. ASSUME NEW i \in DOMAIN new, NEW j \in DOMAIN new, i < j PROVE new[i] < new[j]
  <2>1. i \in 1..len /\ new[i] = old[i]
    BY <1>1, <1>3
  <2>2. CASE j \in 1..len
    BY <1>1, <1>2, <1>3, <2>1, <2>2
  <2>3. CASE j = len + 1
    <3>1. new[j] = last + 1 /\ old[i] \in (from[s] + 1)..last
      BY <1>1, <1>2, <2>1, <2>3
    <3>2. QED
      BY <2>1, <3>1
  <2>4. QED
    BY <1>1, <2>2, <2>3
<1>4. ASSUME NEW i \in DOMAIN new PROVE new[i] \in (from[s] + 1)..(last + 1) /\ new[i] \notin lost
  <2>1. CASE i \in 1..len
    BY <1>1, <1>2, <2>1
  <2>2. CASE i = len + 1
    BY <1>1, <2>2
  <2>3. QED
    BY <1>1, <2>1, <2>2
<1>5. ASSUME NEW m \in (from[s] + 1)..(last + 1), m \notin lost PROVE \E i \in DOMAIN new : new[i] = m
  <2>1. CASE m = last + 1
    BY <1>1, <2>1
  <2>2. CASE m \in (from[s] + 1)..last
    <3>1. PICK i \in 1..len : old[i] = m
      BY <1>2, <1>5, <2>2
    <3>2. i \in DOMAIN new /\ new[i] = m
      BY <1>1, <3>1
    <3>3. QED
      BY <3>2
  <2>3. QED
    BY <2>1, <2>2
<1>6. QED
  BY <1>3, <1>4, <1>5 DEF Whole

(* Every step of the feed keeps its invariant.                              *)
LEMMA FeedStep == ASSUME FeedInv, Feed!AsNext PROVE FeedInv'
<1>1. /\ published \in Nat /\ lost \subseteq 1..published /\ from \in [Streams -> Nat]
      /\ queue \in [Streams -> Seq(Nat)] /\ got \in [Streams -> Seq(Nat)]
      /\ subscribed \subseteq Streams /\ state \in [Streams -> {"new", "open", "closed", "error"}]
  BY DEF FeedInv
<1>2. \A s \in Streams : StreamInv(s)
  BY DEF FeedInv
<1>3. ASSUME NEW s \in Streams, Feed!Subscribe(s) PROVE FeedInv'
  <2>1. /\ state[s] = "new" /\ state' = [state EXCEPT ![s] = "open"] /\ subscribed' = subscribed \cup {s}
        /\ from' = [from EXCEPT ![s] = published] /\ UNCHANGED <<published, queue, got, lost>>
    BY <1>3 DEF Feed!Subscribe
  <2>2. StreamInv(s)'
    <3>1. Seen(s)' = <<>>
      BY <1>2, <2>1 DEF Seen, StreamInv
    <3>2. from'[s] = published /\ state'[s] = "open" /\ (published + 1)..published = {}
      BY <1>1, <2>1
    <3>3. Follows(s, published)'
      <4>1. DOMAIN <<>> = {}
        OBVIOUS
      <4>2. QED
        BY <1>1, <2>1, <3>1, <3>2, <4>1 DEF Whole, Follows
    <3>4. QED
      BY <1>1, <2>1, <3>2, <3>3 DEF StreamInv, Follows
  <2>3. ASSUME NEW r \in Streams \ {s} PROVE StreamInv(r)'
    <3>1. from'[r] = from[r] /\ state'[r] = state[r] /\ (r \in subscribed' <=> r \in subscribed)
      BY <1>1, <2>1
    <3>2. Seen(r)' = Seen(r)
      BY <2>1 DEF Seen
    <3>3. \A last : Follows(r, last) => Follows(r, last)'
      BY <2>1, <3>1, <3>2 DEF Follows, Whole
    <3>4. QED
      BY <1>2, <2>1, <3>1, <3>3 DEF StreamInv
  <2>4. QED
    BY <1>1, <2>1, <2>2, <2>3 DEF FeedInv
<1>4. CASE Feed!Publish
  <2> DEFINE n == published + 1
  <2>1. /\ published' = n /\ subscribed' = subscribed \ Feed!Slow /\ UNCHANGED <<state, from, got, lost>>
        /\ queue' = [s \in Streams |-> IF s \in subscribed \ Feed!Slow THEN Append(queue[s], n) ELSE queue[s]]
    BY <1>4 DEF Feed!Publish, Feed!Dropped
  <2>2. \A s \in Streams : s \in subscribed' => s \in subscribed /\ queue'[s] = Append(queue[s], n)
    BY <1>1, <2>1
  <2>3. \A s \in Streams : s \notin subscribed' => queue'[s] = queue[s]
    BY <1>1, <2>1
  <2>n. n \in Nat /\ n \notin lost
    BY <1>1
  <2>4. queue' \in [Streams -> Seq(Nat)]
    BY <1>1, <2>1, <2>n
  <2>5. ASSUME NEW s \in Streams PROVE StreamInv(s)'
    <3>1. from'[s] = from[s] /\ from[s] \in Nat /\ got'[s] = got[s] /\ state'[s] = state[s] /\ from[s] <= published /\ StreamInv(s)
      BY <1>1, <1>2, <2>1 DEF StreamInv
    <3>2. CASE s \notin subscribed'
      <4>1. Seen(s)' = Seen(s)
        BY <2>1, <2>3, <3>2 DEF Seen
      <4>2. \A last : Follows(s, last) => Follows(s, last)'
        <5> SUFFICES ASSUME NEW last, Follows(s, last) PROVE Follows(s, last)'
          OBVIOUS
        <5>1. last \in Nat /\ from'[s] <= last /\ last <= published'
          BY <1>1, <2>1, <3>1 DEF Follows
        <5>2. Whole(s, Seen(s), last)'
          BY <2>1, <4>1 DEF Follows, Whole
        <5>3. QED
          BY <3>2, <5>1, <5>2 DEF Follows
      <4>3. from'[s] <= published'
        BY <1>1, <2>1, <3>1
      <4>4. QED
        BY <2>3, <3>1, <3>2, <4>2, <4>3 DEF StreamInv
    <3>3. CASE s \in subscribed'
      <4>1. state[s] # "new" /\ Whole(s, Seen(s), published)
        <5>1. state[s] # "new" /\ s \in subscribed
          BY <2>2, <3>1, <3>3 DEF StreamInv
        <5>2. PICK last : Follows(s, last)
          BY <3>1, <5>1 DEF StreamInv
        <5>3. QED
          BY <5>1, <5>2 DEF Follows
      <4> DEFINE old == got[s] \o queue[s]  new == got[s] \o Append(queue[s], n)
      <4>2. /\ DOMAIN new = 1..(Len(old) + 1) /\ DOMAIN old = 1..Len(old) /\ Len(old) \in Nat
            /\ \A i \in 1..Len(old) : new[i] = old[i]
            /\ new[Len(old) + 1] = n
        BY <1>1, <2>n, GoesToEnd
      <4>3. Seen(s) = old /\ Seen(s)' = new
        BY <2>2, <3>1, <3>3 DEF Seen
      <4> HIDE DEF old, new
      <4>4. GrowsBy(old, new, from[s], published)
        BY <4>1, <4>2, <4>3 DEF Whole, GrowsBy
      <4>5. Whole(s, new, n)
        BY <1>1, <2>n, <3>1, <4>4, Grown
      <4>6. \E m : Follows(s, m)'
        <5>1. PICK m : m = n
          OBVIOUS
        <5>2. Whole(s, Seen(s), m)'
          BY <2>1, <3>1, <4>3, <4>5, <5>1 DEF Whole
        <5>3. Follows(s, m)'
          BY <1>1, <2>1, <2>n, <3>1, <5>1, <5>2 DEF Follows
        <5>4. QED
          BY <5>3
      <4>7. QED
        BY <1>1, <2>1, <3>1, <4>1, <4>6 DEF StreamInv
    <3>4. QED
      BY <3>2, <3>3
  <2>6. QED
    BY <1>1, <2>1, <2>4, <2>5, <2>n DEF FeedInv
<1>5. CASE Feed!PublishFails
  <2>1. /\ published' = published + 1 /\ lost' = lost \cup {published + 1} /\ UNCHANGED <<queue, subscribed, state, from, got>>
    BY <1>5 DEF Feed!PublishFails
  <2>2. ASSUME NEW s \in Streams PROVE StreamInv(s)'
    <3>1. from'[s] = from[s] /\ from[s] \in Nat /\ from[s] <= published /\ StreamInv(s) /\ Seen(s)' = Seen(s) /\ from'[s] <= published'
      BY <1>1, <1>2, <2>1 DEF StreamInv, Seen
    <3>2. ASSUME NEW last, Follows(s, last) PROVE \E upto : Follows(s, upto)'
      <4> DEFINE upto == IF s \in subscribed THEN published + 1 ELSE last
      <4>1. upto \in Nat /\ from[s] <= upto /\ upto <= published + 1 /\ (s \in subscribed => upto = published + 1)
        BY <1>1, <3>1, <3>2 DEF Follows
      <4>2. {m \in (from[s] + 1)..last : m \notin lost} = {m \in (from[s] + 1)..upto : m \notin lost'}
        <5>1. last \in Nat /\ last <= published /\ (s \in subscribed => last = published)
          BY <3>2 DEF Follows
        <5>2. CASE s \in subscribed
          BY <1>1, <2>1, <3>1, <5>1, <5>2
        <5>3. CASE s \notin subscribed
          BY <1>1, <2>1, <3>1, <5>1, <5>3
        <5>4. QED
          BY <5>2, <5>3
      <4> HIDE DEF upto
      <4>q. PICK u : u = upto
        OBVIOUS
      <4>3. Whole(s, Seen(s), u)'
        BY <3>1, <3>2, <4>2, <4>q DEF Whole, Follows
      <4>4. Follows(s, u)'
        BY <2>1, <3>1, <4>1, <4>3, <4>q DEF Follows
      <4>5. QED
        BY <4>4
    <3>3. QED
      BY <2>1, <3>1, <3>2 DEF StreamInv
  <2>3. lost' \subseteq 1..published' /\ published' \in Nat
    BY <1>1, <2>1
  <2>4. QED
    BY <1>1, <2>1, <2>2, <2>3 DEF FeedInv
<1>6. ASSUME NEW s \in Streams, Feed!Yield(s) PROVE FeedInv'
  <2>1. /\ state[s] = "open" /\ queue[s] # <<>> /\ got' = [got EXCEPT ![s] = Append(got[s], Head(queue[s]))]
        /\ queue' = [queue EXCEPT ![s] = Tail(queue[s])] /\ UNCHANGED <<published, subscribed, state, from, lost>>
    BY <1>6 DEF Feed!Yield
  <2>2. /\ Append(got[s], Head(queue[s])) \in Seq(Nat) /\ Tail(queue[s]) \in Seq(Nat)
        /\ Append(got[s], Head(queue[s])) \o Tail(queue[s]) = got[s] \o queue[s]
    BY <1>1, <2>1, MovesBorder
  <2>3. got' \in [Streams -> Seq(Nat)] /\ queue' \in [Streams -> Seq(Nat)]
    BY <1>1, <2>1, <2>2
  <2>4. /\ got'[s] = Append(got[s], Head(queue[s])) /\ queue'[s] = Tail(queue[s])
        /\ \A r \in Streams \ {s} : got'[r] = got[r] /\ queue'[r] = queue[r]
    BY <1>1, <2>1
  <2>5. \A r \in Streams : Seen(r)' = Seen(r)
    BY <2>2, <2>4 DEF Seen
  <2>6. ASSUME NEW r \in Streams PROVE StreamInv(r)'
    <3>1. \A last : Follows(r, last) => Follows(r, last)'
      BY <2>1, <2>5 DEF Whole, Follows
    <3>2. state[r] = "new" => got'[r] = <<>> /\ queue'[r] = <<>>
      BY <1>2, <2>1, <2>4 DEF StreamInv
    <3>3. QED
      BY <1>2, <2>1, <3>1, <3>2 DEF StreamInv
  <2>7. QED
    BY <1>1, <2>1, <2>3, <2>6 DEF FeedInv
<1>7. ASSUME NEW s \in Streams, Feed!Close(s) PROVE FeedInv'
  <2>1. /\ state[s] = "open" /\ subscribed' = subscribed \ {s} /\ queue' = [queue EXCEPT ![s] = <<>>]
        /\ UNCHANGED <<published, from, got, lost>>
    BY <1>7 DEF Feed!Close
  <2>2. PICK how \in {"closed", "error"} : state' = [state EXCEPT ![s] = how]
    BY <1>7 DEF Feed!Close
  <2>3. queue' \in [Streams -> Seq(Nat)] /\ state' \in [Streams -> {"new", "open", "closed", "error"}]
    BY <1>1, <2>1, <2>2
  <2>4. /\ queue'[s] = <<>> /\ state'[s] # "new"
        /\ \A r \in Streams \ {s} : state'[r] = state[r] /\ queue'[r] = queue[r] /\ Seen(r)' = Seen(r)
    BY <1>1, <2>1, <2>2 DEF Seen
  <2>5. StreamInv(s)'
    <3>1. PICK last : Follows(s, last)
      BY <1>2, <2>1 DEF StreamInv
    <3>2. /\ from[s] \in Nat /\ last \in Nat /\ from[s] <= last /\ last <= published /\ got[s] \in Seq(Nat) /\ queue[s] \in Seq(Nat)
          /\ Whole(s, got[s] \o queue[s], last)
      BY <1>1, <3>1 DEF Follows, Seen
    <3>3. PICK l \in from[s]..last : Whole(s, got[s], l)
      BY <3>2, PrefixWhole
    <3>4. Seen(s)' = got[s]
      <4>1. got[s] \o <<>> = got[s]
        BY <3>2
      <4>2. QED
        BY <2>1, <2>4, <4>1 DEF Seen
    <3>5. Whole(s, Seen(s), l)'
      BY <2>1, <3>3, <3>4 DEF Whole
    <3>6. l \in Nat /\ from'[s] <= l /\ l <= published' /\ s \notin subscribed'
      BY <1>1, <2>1, <3>2, <3>3
    <3>7. Follows(s, l)'
      BY <3>5, <3>6 DEF Follows
    <3>8. QED
      BY <1>2, <2>1, <2>4, <3>7 DEF StreamInv
  <2>6. ASSUME NEW r \in Streams \ {s} PROVE StreamInv(r)'
    <3>1. \A last : Follows(r, last) => Follows(r, last)'
      BY <2>1, <2>4 DEF Whole, Follows
    <3>2. QED
      BY <1>2, <2>1, <2>4, <3>1 DEF StreamInv
  <2>7. QED
    BY <1>1, <2>1, <2>3, <2>5, <2>6 DEF FeedInv
<1>8. QED
  BY <1>3, <1>4, <1>5, <1>6, <1>7 DEF Feed!AsNext

(* What a stream has yielded and what waits for it is, in order, a whole    *)
(* stretch of what was published since it subscribed; to the latest, as     *)
(* long as it is subscribed.                                                *)
THEOREM FeedInvariance == Spec => []FeedInv
<1>1. Init => FeedInv
  <2> SUFFICES ASSUME Init PROVE FeedInv
    OBVIOUS
  <2>1. /\ published = 0 /\ subscribed = {} /\ lost = {}
        /\ queue = [s \in Streams |-> <<>>] /\ state = [s \in Streams |-> "new"]
        /\ from = [s \in Streams |-> 0] /\ got = [s \in Streams |-> <<>>]
    BY DEF Init, Feed!AsInit
  <2>2. QED
    BY <2>1 DEF FeedInv, StreamInv
<1>2. FeedInv /\ [Next]_vars => FeedInv'
  <2> SUFFICES ASSUME FeedInv, [Next]_vars PROVE FeedInv'
    OBVIOUS
  <2>1. CASE UNCHANGED feedVars
    <3>1. UNCHANGED <<published, queue, subscribed, state, from, got, lost>>
      BY <2>1 DEF feedVars
    <3>2. \A s : Seen(s)' = Seen(s)
      BY <3>1 DEF Seen
    <3>3. \A s, last : Follows(s, last)' <=> Follows(s, last)
      BY <3>1, <3>2 DEF Follows, Whole
    <3>4. \A s \in Streams : StreamInv(s)'
      BY <3>1, <3>3 DEF StreamInv, FeedInv
    <3>5. QED
      BY <3>1, <3>4 DEF FeedInv
  <2>2. QED
    BY <2>1, FeedStep, FeedSteps
<1>3. QED
  BY <1>1, <1>2, PTL DEF Spec

(* A stream shows the events in order and without a gap, but for those      *)
(* Redis did not take; a slow client stops receiving and misses none in     *)
(* the middle (event_publisher.py, redis_event_publisher.py).               *)
THEOREM FeedIsWhole == Spec => []NoGaps
<1>1. FeedInv => NoGaps
  BY GapsInv DEF NoGaps
<1>2. QED
  BY <1>1, FeedInvariance, PTL DEF Spec

-----------------------------------------------------------------------------
(* The request log: the rows of a call are written inbound first.           *)

(* The instance's cardinality is the library's.                             *)
LEMMA RecorderCounts == \A S : Recorder!Cardinality(S) = Cardinality(S)
BY DEF Recorder!Cardinality, Cardinality

(* Only a step of the recorder touches its rows.                            *)
LEMMA RecorderSteps == [Next]_vars => Recorder!RrNext \/ UNCHANGED recorderVars
BY DEF Next, vars, besideVars, Picked

(* A pair has two elements.                                                 *)
LEMMA PairSize == ASSUME NEW a, NEW b, a # b PROVE IsFiniteSet({a, b}) /\ Cardinality({a, b}) = 2
<1>1. IsFiniteSet({a}) /\ Cardinality({a}) = 1
  BY FS_Singleton
<1>2. {a, b} = {a} \cup {b} /\ b \notin {a}
  OBVIOUS
<1>3. QED
  BY <1>1, <1>2, FS_AddElement

(* The halves of one side of a call, the row of the inbound side, and       *)
(* where its task can be.                                                   *)
Exchange(direction) == IF direction = "inbound" THEN {"inbound_request", "inbound_response"}
                       ELSE {"outbound_request", "outbound_response"}
InboundRow(c) == Recorder!Row(c, "inbound")
TaskPlaces == {"recording", "noop", "connecting", "inbound", "outbound", "ended"}
(* Where the writing of a call is, its rows are: the inbound one is whole,  *)
(* and comes first.                                                         *)
WriteInv(c) ==
  /\ task[c] \in {"recording", "noop", "connecting", "inbound"} => stored[c] = {}
  /\ task[c] = "outbound" => stored[c] = {InboundRow(c)}
  /\ task[c] = "ended" => \/ stored[c] = {InboundRow(c), Recorder!Row(c, "outbound")} /\ failures[c] = "none"
                          \/ stored[c] \in {{}, {InboundRow(c)}} /\ failures[c] # "none"
  /\ task[c] # "ended" => failures[c] = "none"
  /\ task[c] \in {"connecting", "inbound", "outbound", "ended"} => Exchange("inbound") \subseteq sides[c]
FailedInserts == {c \in Calls : failures[c] = "insert"}
RecorderType ==
  /\ sides \in [Calls -> SUBSET Recorder!Parts] /\ task \in [Calls -> TaskPlaces]
  /\ stored \in [Calls -> SUBSET [direction : {"inbound", "outbound"}, parts : SUBSET Recorder!Parts]]
  /\ failures \in [Calls -> {"none", "no_connection", "insert", "cancelled"}]
(* The rows of every call, and the count of those that were dropped.        *)
RecorderInv ==
  /\ RecorderType /\ \A c \in Calls : WriteInv(c)
  /\ dropped = Cardinality(FailedInserts)

(* At first nothing is written.                                             *)
LEMMA RecorderStart == Recorder!RrInit => RecorderInv
<1> SUFFICES ASSUME Recorder!RrInit PROVE RecorderInv
  OBVIOUS
<1>1. RecorderType /\ \A c \in Calls : WriteInv(c)
  BY DEF Recorder!RrInit, RecorderType, Recorder!Parts, TaskPlaces, WriteInv
<1>2. FailedInserts = {} /\ dropped = 0
  BY DEF Recorder!RrInit, FailedInserts
<1>3. QED
  BY <1>1, <1>2, FS_EmptySet DEF RecorderInv

(* Every step of a request or of a write keeps the invariant.               *)
LEMMA RecorderStep ==
  ASSUME RecorderInv, Recorder!RrNext PROVE RecorderInv'
<1>1. PICK c \in Calls : \/ \E part \in Recorder!Parts : Recorder!Record(c, part)
                         \/ Recorder!Flush(c) \/ Recorder!Connect(c) \/ Recorder!Insert(c)
                         \/ Recorder!InsertFails(c) \/ Recorder!Lost(c)
  BY DEF Recorder!RrNext
<1>2. RecorderType'
  BY <1>1 DEF RecorderInv, RecorderType, Recorder!Row, Recorder!Record, Recorder!Flush,
     Recorder!Connect, Recorder!Insert, Recorder!InsertFails, Recorder!Lost, TaskPlaces,
     Recorder!Parts, Recorder!NextRow, Recorder!AfterFailure
<1>3. ASSUME NEW d \in Calls \ {c} PROVE WriteInv(d)'
  BY <1>1 DEF RecorderInv, RecorderType, WriteInv, InboundRow, Recorder!Row, Recorder!Record,
     Recorder!Flush, Recorder!Connect, Recorder!Insert, Recorder!InsertFails, Recorder!Lost
<1>4. WriteInv(c)'
  BY <1>1 DEF RecorderInv, RecorderType, WriteInv, InboundRow, Exchange, Recorder!Row,
     Recorder!Record, Recorder!Flush, Recorder!Connect, Recorder!Insert, Recorder!InsertFails,
     Recorder!Lost, TaskPlaces, Recorder!Parts, Recorder!NextRow, Recorder!AfterFailure
<1>5. dropped' = Cardinality(FailedInserts')
  <2>1. IsFiniteSet(FailedInserts) /\ dropped = Cardinality(FailedInserts)
    BY RecorderAssumption, FS_Subset DEF FailedInserts, RecorderInv
  <2>2. CASE Recorder!InsertFails(c)
    <3>1. c \notin FailedInserts /\ FailedInserts' = FailedInserts \cup {c} /\ dropped' = dropped + 1
      BY <2>2 DEF Recorder!InsertFails, RecorderInv, RecorderType, WriteInv, FailedInserts
    <3>2. QED
      BY <2>1, <3>1, FS_AddElement
  <2>3. CASE ~Recorder!InsertFails(c)
    <3>1. FailedInserts' = FailedInserts /\ dropped' = dropped
      BY <1>1, <2>3 DEF RecorderInv, RecorderType, WriteInv, FailedInserts, Recorder!Record,
         Recorder!Flush, Recorder!Connect, Recorder!Insert, Recorder!Lost
    <3>2. QED
      BY <2>1, <3>1
  <2>4. QED
    BY <2>2, <2>3
<1>6. QED
  BY <1>2, <1>3, <1>4, <1>5 DEF RecorderInv

(* The rows of a call are written inbound first, and a row is missing only  *)
(* of a call that failed.                                                   *)
THEOREM RecorderInvariance == Spec => []RecorderInv
<1>1. Init => RecorderInv
  BY RecorderStart DEF Init
<1>2. RecorderInv /\ [Next]_vars => RecorderInv'
  <2>1. CASE UNCHANGED recorderVars
    BY <2>1 DEF recorderVars, RecorderInv, RecorderType, WriteInv, FailedInserts, InboundRow,
       Recorder!Row
  <2>2. QED
    BY <2>1, RecorderSteps, RecorderStep
<1>3. QED
  BY <1>1, <1>2, PTL DEF Spec

(* A log with the outbound row has the inbound one, an inbound row is       *)
(* whole, a log without both rows is one whose write failed, and the drops  *)
(* counted are the inserts that failed (request_log/recorder.py).           *)
THEOREM LogsAgree == Spec => []LogConsistent
<1>1. RecorderInv => LogConsistent
  <2> SUFFICES ASSUME RecorderInv PROVE Recorder!LogConsistent
    BY DEF LogConsistent
  <2>1. ASSUME NEW c \in Calls
        PROVE  /\ \A r \in stored[c] : r.direction = "outbound" => Recorder!Row(c, "inbound") \in stored[c]
               /\ \A r \in stored[c] : r.direction = "inbound" => Cardinality(r.parts) = 2
               /\ task[c] = "ended" /\ Cardinality(stored[c]) < 2 => failures[c] # "none"
               /\ task[c] = "noop" => stored[c] = {}
    <3>1. WriteInv(c) /\ task[c] \in TaskPlaces
      BY DEF RecorderInv, RecorderType
    <3>2. Recorder!Row(c, "inbound").direction = "inbound" /\ Recorder!Row(c, "outbound").direction = "outbound"
      BY DEF Recorder!Row
    <3>3. stored[c] # {} => Recorder!Row(c, "inbound").parts = Exchange("inbound")
      <4>1. stored[c] # {} => Exchange("inbound") \subseteq sides[c]
        BY <3>1 DEF WriteInv, TaskPlaces
      <4>2. Recorder!Row(c, "inbound").parts = sides[c] \cap Exchange("inbound")
        BY DEF Recorder!Row, Exchange
      <4>3. QED
        BY <4>1, <4>2
    <3>4. Cardinality(Exchange("inbound")) = 2
      BY PairSize, "inbound_request" # "inbound_response" DEF Exchange
    <3>5. stored[c] = {InboundRow(c), Recorder!Row(c, "outbound")} => Cardinality(stored[c]) = 2
      <4>1. InboundRow(c) # Recorder!Row(c, "outbound")
        BY <3>2 DEF InboundRow
      <4>2. Cardinality({InboundRow(c), Recorder!Row(c, "outbound")}) = 2
        BY <4>1, PairSize, Zenon
      <4>3. QED
        BY <4>2
    <3>6. QED
      BY <3>1, <3>2, <3>3, <3>4, <3>5 DEF WriteInv, TaskPlaces, InboundRow
  <2>2. dropped = Cardinality({c \in Calls : failures[c] = "insert"})
    BY DEF RecorderInv, FailedInserts
  <2>3. QED
    BY <2>1, <2>2, RecorderCounts, Zenon DEF Recorder!LogConsistent
<1>2. QED
  BY <1>1, RecorderInvariance, PTL

-----------------------------------------------------------------------------
(* The admission of requests and administrators.                            *)

(* Only a request, an administrator or a session touches the gate.          *)
LEMMA GateSteps == [Next]_vars => GateNext \/ DoorNext \/ UNCHANGED gateVars
BY DEF Next, vars, aroundVars, Picked

-----------------------------------------------------------------------------
(* Who is let in, and on whose account.                                     *)

(* Where a request is in the gate, what it sends upstream, and what the     *)
(* gate keeps.                                                              *)
Places == {"out", "verify", "asking", "limit", "resolve", "sent"}
Sends  == {"nothing", "override", "token", "server key", "headers"}
Guest  == [at : Places, token : Credentials, bearer : BOOLEAN, sent : Sends, seen : SUBSET Config]
Cookie == [key : {NoKey, "k1", "k2"}, since : Nat]

(* The types of the gate's variables.                                       *)
GateTypes ==
  /\ keyed \in BOOLEAN /\ auth \in Config /\ authRow \in Config
  /\ edit \in [Operators -> [at : {"idle", "writing", "written"}, new : Config, alone : BOOLEAN]]
  /\ guest \in [Guests -> Guest]
  /\ hour \in Nat /\ adminKey \in {NoKey, "k1", "k2"} /\ cookie \in Cookie /\ login \in Cookie

(* A request in the door has seen the mode in force; past VerifyToken it    *)
(* has a title; sent on, it goes on the right account.                      *)
Open(c) == c.mode # "client_key"
GuestInv(g) ==
  LET v == guest[g] IN
  /\ InTheDoor(g) => auth \in v.seen
  /\ v.at \in {"asking", "limit", "resolve", "sent"} /\ ~Matches(g) => \E c \in v.seen : Open(c)
  /\ v.at \in {"limit", "resolve", "sent"} /\ ~Matches(g) /\ v.token # "own" =>
       v.bearer \/ \E c \in v.seen : Open(c) /\ ~c.validate
  /\ v.at = "sent" /\ v.sent = "server key" => Matches(g) /\ \E c \in v.seen : c.mode # "passthrough"
  /\ v.at = "sent" /\ v.sent = "token" /\ Matches(g) => \E c \in v.seen : c.mode = "passthrough"
(* A session is the one of the last login; the gate, with it.               *)
CookieInv == cookie = NoCookie \/ cookie = login
GateInv == GateTypes /\ (\A g \in Guests : GuestInv(g)) /\ CookieInv

-----------------------------------------------------------------------------
(* The steps of a request.                                                  *)

(* The steps of a request, and those of an operator.                        *)
RequestStep(g) ==
  \/ \E token \in Credentials, bearer \in BOOLEAN : Arrive(g, token, bearer)
  \/ VerifyToken(g) \/ Validated(g) \/ CheckRateLimit(g)
  \/ \E key_1 \in Overrides : ResolveClient(g, key_1)
  \/ ProxyPassthrough(g)
OperatorStep(o) ==
  (\E new \in Config : UpdateConfig(o, new)) \/ StoreConfig(o) \/ SwapConfig(o) \/ UpdateFails(o)

(* A request that has not come is of its type.                              *)
LEMMA OutFits ==
  /\ Out \in Guest /\ Out.at = "out" /\ Out.token = "bad" /\ Out.bearer = FALSE
  /\ Out.sent = "nothing" /\ Out.seen = {}
  BY DEF Out, Guest, Places, Sends, Credentials

(* A request that goes nowhere else keeps what it has seen.                 *)
LEMMA GoesOn ==
  ASSUME GateTypes, NEW g \in Guests, NEW where \in Places, Goes(g, where)
  PROVE  /\ guest' \in [Guests -> Guest]
         /\ \A h \in Guests \ {g} : guest'[h] = guest[h]
         /\ where = "out" => guest'[g].at = "out"
         /\ where # "out" => /\ guest'[g].at = where /\ guest'[g].token = guest[g].token
                             /\ guest'[g].bearer = guest[g].bearer /\ guest'[g].seen = guest[g].seen
                             /\ guest'[g].sent = guest[g].sent
<1>1. CASE where = "out"
  BY <1>1, OutFits DEF GateTypes, Goes
<1>2. CASE where # "out"
  <2>1. guest' = [guest EXCEPT ![g] = [guest[g] EXCEPT !.at = where]]
    BY <1>2 DEF Goes, GateTypes
  <2>2. guest[g] \in Guest
    BY DEF GateTypes
  <2>3. [guest[g] EXCEPT !.at = where] \in Guest
    BY <2>2 DEF Guest
  <2>4. QED
    BY <1>2, <2>1, <2>2, <2>3 DEF GateTypes, Guest
<1>3. QED
  BY <1>1, <1>2

(* Sending changes one request, and leaves what it brought and saw.         *)
LEMMA SentOn ==
  ASSUME GateTypes, NEW g \in Guests, NEW what \in Sends, Send(g, what)
  PROVE  /\ guest' \in [Guests -> Guest]
         /\ \A h \in Guests \ {g} : guest'[h] = guest[h]
         /\ guest'[g].at = "sent" /\ guest'[g].sent = what /\ guest'[g].token = guest[g].token
         /\ guest'[g].bearer = guest[g].bearer /\ guest'[g].seen = guest[g].seen
<1>1. guest[g] \in Guest /\ guest' = [guest EXCEPT ![g] = [guest[g] EXCEPT !.at = "sent", !.sent = what]]
  BY DEF GateTypes, Send
<1>2. [guest[g] EXCEPT !.at = "sent", !.sent = what] \in Guest
  BY <1>1 DEF Guest, Places
<1>3. QED
  BY <1>1, <1>2 DEF GateTypes, Guest

(* A step of a request keeps the invariant of all of them.                  *)
LEMMA RequestInv ==
  ASSUME GateInv, NEW g \in Guests, RequestStep(g)
  PROVE  guest' \in [Guests -> Guest] /\ \A h \in Guests : GuestInv(h)'
<1>1. keyed' = keyed /\ auth' = auth
  BY DEF RequestStep, Arrive, VerifyToken, Validated, CheckRateLimit, ResolveClient,
     ProxyPassthrough, editVars
<1>2. GateTypes /\ GuestInv(g) /\ auth \in Config /\ guest[g] \in Guest
  BY DEF GateInv, GateTypes
<1>3. ASSUME \A h \in Guests \ {g} : guest'[h] = guest[h], GuestInv(g)'
      PROVE  \A h \in Guests : GuestInv(h)'
  BY <1>1, <1>3 DEF GateInv, GuestInv, InTheDoor, Matches
<1>4. CASE \E token \in Credentials, bearer \in BOOLEAN : Arrive(g, token, bearer)
  <2>1. PICK token \in Credentials, bearer \in BOOLEAN : Arrive(g, token, bearer)
    BY <1>4
  <2>2. guest' = [guest EXCEPT ![g] = [Out EXCEPT !.at = "verify", !.token = token, !.bearer = bearer,
                                                  !.seen = {auth}]]
    BY <2>1 DEF Arrive
  <2>3. [Out EXCEPT !.at = "verify", !.token = token, !.bearer = bearer, !.seen = {auth}] \in Guest
    BY <1>2, OutFits DEF Guest, Places
  <2>4. guest' \in [Guests -> Guest] /\ \A h \in Guests \ {g} : guest'[h] = guest[h]
    BY <1>2, <2>2, <2>3 DEF GateTypes
  <2>5. guest'[g].at = "verify" /\ guest'[g].seen = {auth}
    BY <1>2, <2>2, OutFits DEF GateTypes, Guest
  <2>6. GuestInv(g)'
    BY <1>1, <2>5 DEF GuestInv, InTheDoor
  <2>7. QED
    BY <1>3, <2>4, <2>6
<1>5. CASE VerifyToken(g)
  <2>1. guest[g].at = "verify" /\ Goes(g, Verdict(g)) /\ auth \in guest[g].seen
    BY <1>2, <1>5 DEF VerifyToken, GuestInv, InTheDoor
  <2>2. Verdict(g) \in Places
    BY DEF Verdict, Places
  <2>3. GuestInv(g)'
    <3>1. CASE Verdict(g) = "out"
      BY <1>2, <2>1, <2>2, <3>1, GoesOn DEF GuestInv, InTheDoor
    <3>2. CASE Verdict(g) # "out"
      <4>1. /\ guest'[g].at = Verdict(g) /\ guest'[g].token = guest[g].token
            /\ guest'[g].bearer = guest[g].bearer /\ guest'[g].seen = guest[g].seen
        BY <1>2, <2>1, <2>2, <3>2, GoesOn
      <4>2. Verdict(g) \in {"asking", "limit"} /\ (~Matches(g) => Open(auth))
        BY <1>2, <3>2 DEF Verdict, Open, Config, Modes
      <4>3. Verdict(g) = "limit" /\ ~Matches(g) => ~auth.validate
        BY <1>2, <3>2 DEF Verdict, Config, Modes
      <4>4. Matches(g)' = Matches(g)
        BY <1>1, <4>1 DEF Matches
      <4>5. QED
        BY <1>1, <2>1, <4>1, <4>2, <4>3, <4>4 DEF GuestInv, InTheDoor
    <3>3. QED
      BY <3>1, <3>2
  <2>4. QED
    BY <1>2, <1>3, <2>1, <2>2, <2>3, GoesOn
<1>6. CASE Validated(g)
  <2>1. PICK ok \in {guest[g].token = "own", guest[g].bearer} :
          Goes(g, IF ok THEN "limit" ELSE "out") /\ guest[g].at = "asking"
    BY <1>6 DEF Validated
  <2>2. (IF ok THEN "limit" ELSE "out") \in Places
    BY DEF Places
  <2>3. GuestInv(g)'
    <3>1. CASE ~ok
      BY <1>2, <2>1, <2>2, <3>1, GoesOn DEF GuestInv, InTheDoor
    <3>2. CASE ok
      <4>1. /\ guest'[g].at = "limit" /\ guest'[g].token = guest[g].token
            /\ guest'[g].bearer = guest[g].bearer /\ guest'[g].seen = guest[g].seen
        BY <1>2, <2>1, <2>2, <3>2, GoesOn
      <4>2. guest[g].token = "own" \/ guest[g].bearer
        BY <3>2
      <4>3. QED
        BY <1>1, <1>2, <2>1, <4>1, <4>2 DEF GuestInv, InTheDoor, Matches
    <3>3. QED
      BY <3>1, <3>2
  <2>4. QED
    BY <1>2, <1>3, <2>1, <2>2, <2>3, GoesOn
<1>7. CASE CheckRateLimit(g)
  <2>1. PICK onto \in {"resolve", "out"} : Goes(g, onto) /\ guest[g].at = "limit"
    BY <1>7 DEF CheckRateLimit
  <2>2. onto \in Places
    BY DEF Places
  <2>3. GuestInv(g)'
    BY <1>1, <1>2, <2>1, <2>2, GoesOn DEF GuestInv, InTheDoor, Matches
  <2>4. QED
    BY <1>2, <1>3, <2>1, <2>2, <2>3, GoesOn
<1>8. CASE \E key_1 \in Overrides : ResolveClient(g, key_1)
  <2>1. guest[g].at = "resolve" /\ auth \in guest[g].seen
    BY <1>2, <1>8 DEF ResolveClient, GuestInv, InTheDoor
  <2>2. \/ Goes(g, "out")
        \/ Send(g, "override")
        \/ UsesOwn(g) /\ Send(g, "token")
        \/ ~UsesOwn(g) /\ Send(g, "server key")
    BY <1>8 DEF ResolveClient
  <2>3. CASE Goes(g, "out")
    <3>1. guest'[g].at = "out"
      BY <1>2, <2>3, GoesOn DEF Places
    <3>2. GuestInv(g)'
      BY <3>1 DEF GuestInv, InTheDoor
    <3>3. QED
      BY <1>2, <1>3, <2>3, <3>2, GoesOn DEF Places
  <2>4. ASSUME NEW what \in Sends, Send(g, what),
               what = "server key" => ~UsesOwn(g), what = "token" => UsesOwn(g)
        PROVE  guest' \in [Guests -> Guest] /\ \A h \in Guests : GuestInv(h)'
    <3>1. /\ guest'[g].at = "sent" /\ guest'[g].sent = what /\ guest'[g].token = guest[g].token
          /\ guest'[g].bearer = guest[g].bearer /\ guest'[g].seen = guest[g].seen
      BY <1>2, <2>4, SentOn
    <3>2. Matches(g)' = Matches(g)
      BY <1>1, <3>1 DEF Matches
    <3>3. what = "server key" => Matches(g) /\ auth.mode # "passthrough"
      BY <2>4 DEF UsesOwn
    <3>4. what = "token" /\ Matches(g) => auth.mode = "passthrough"
      BY <2>4 DEF UsesOwn
    <3>5. GuestInv(g)'
      BY <1>2, <2>1, <3>1, <3>2, <3>3, <3>4 DEF GuestInv, InTheDoor
    <3>6. QED
      BY <1>2, <1>3, <2>4, <3>5, SentOn
  <2>5. QED
    BY <2>2, <2>3, <2>4 DEF Sends
<1>9. CASE ProxyPassthrough(g)
  <2>1. guest[g].at = "resolve" /\ Send(g, "headers") /\ "headers" \in Sends
    BY <1>9 DEF ProxyPassthrough, Sends
  <2>2. GuestInv(g)'
    BY <1>1, <1>2, <2>1, SentOn DEF GuestInv, InTheDoor, Matches
  <2>3. QED
    BY <1>2, <1>3, <2>1, <2>2, SentOn
<1>10. QED
  BY <1>4, <1>5, <1>6, <1>7, <1>8, <1>9 DEF RequestStep

-----------------------------------------------------------------------------
(* The steps of an administrator, and a restart.                            *)

(* The mode changes under the requests in the door, and they all see it.    *)
LEMMA SwapInv ==
  ASSUME GateInv, NEW config \in Config, Swap(config), keyed' = keyed
  PROVE  auth' \in Config /\ guest' \in [Guests -> Guest] /\ \A g \in Guests : GuestInv(g)'
<1>1. auth' = config /\ keyed' = keyed /\ GateTypes
  BY DEF Swap, GateInv
<1>2. ASSUME NEW g \in Guests
      PROVE  guest'[g] \in Guest /\ GuestInv(g)'
  <2>1. guest[g] \in Guest /\ GuestInv(g)
    BY <1>1 DEF GateInv, GateTypes
  <2>2. CASE InTheDoor(g)
    <3>1. guest'[g] = [guest[g] EXCEPT !.seen = guest[g].seen \cup {config}]
      BY <2>2 DEF Swap
    <3>2. /\ guest'[g].at = guest[g].at /\ guest'[g].token = guest[g].token
          /\ guest'[g].bearer = guest[g].bearer /\ guest'[g].sent = guest[g].sent
          /\ guest'[g].seen = guest[g].seen \cup {config} /\ guest'[g] \in Guest
      BY <2>1, <3>1 DEF Guest
    <3>3. Matches(g)' = Matches(g)
      BY <1>1, <3>2 DEF Matches
    <3>4. QED
      BY <1>1, <2>1, <3>2, <3>3 DEF GuestInv, InTheDoor
  <2>3. CASE ~InTheDoor(g)
    <3>1. guest'[g] = guest[g]
      BY <2>3 DEF Swap
    <3>2. ~InTheDoor(g)' /\ Matches(g)' = Matches(g)
      BY <1>1, <2>3, <3>1 DEF InTheDoor, Matches
    <3>3. QED
      BY <2>1, <3>1, <3>2 DEF GuestInv
  <2>4. QED
    BY <2>2, <2>3
<1>3. guest' = [g \in Guests |-> guest'[g]]
  BY DEF Swap
<1>4. QED
  BY <1>1, <1>2, <1>3

(* What is written down is a mode that exists.                              *)
LEMMA OperatorInv ==
  ASSUME GateInv, NEW o \in Operators, OperatorStep(o)
  PROVE  GateTypes' /\ (\A g \in Guests : GuestInv(g)') /\ CookieInv'
<1>1. /\ GateTypes /\ CookieInv /\ SeededRow \in Config /\ NoEdit.at = "idle" /\ NoEdit.new \in Config
      /\ NoEdit.alone \in BOOLEAN /\ edit[o].new \in Config
  BY DEF GateInv, GateTypes, SeededRow, Config, Modes, NoEdit
<1>2. NoEdit \in [at : {"idle", "writing", "written"}, new : Config, alone : BOOLEAN]
  BY <1>1 DEF NoEdit
<1>3. keyed' = keyed /\ hour' = hour /\ adminKey' = adminKey /\ cookie' = cookie /\ login' = login
  BY DEF OperatorStep, UpdateConfig, StoreConfig, SwapConfig, UpdateFails, doorVars
<1>4. CASE \E new \in Config : UpdateConfig(o, new)
  <2>1. /\ edit' \in [Operators -> [at : {"idle", "writing", "written"}, new : Config, alone : BOOLEAN]]
        /\ auth' = auth /\ authRow' = authRow /\ guest' = guest
    <3>1. PICK new \in Config : UpdateConfig(o, new)
      BY <1>4
    <3> DEFINE rivals == {p \in Operators \ {o} : Editing(p)}
           after(p) == IF p = o THEN [at |-> "writing", new |-> new, alone |-> rivals = {}]
                       ELSE IF p \in rivals THEN [edit[p] EXCEPT !.alone = FALSE] ELSE edit[p]
    <3>2. edit' = [p \in Operators |-> after(p)] /\ auth' = auth /\ authRow' = authRow /\ guest' = guest
      BY <3>1 DEF UpdateConfig
    <3>3. ASSUME NEW p \in Operators
          PROVE  after(p) \in [at : {"idle", "writing", "written"}, new : Config, alone : BOOLEAN]
      <4>1. edit[p] \in [at : {"idle", "writing", "written"}, new : Config, alone : BOOLEAN]
        BY <1>1 DEF GateTypes
      <4>2. [edit[p] EXCEPT !.alone = FALSE] \in
              [at : {"idle", "writing", "written"}, new : Config, alone : BOOLEAN]
        BY <4>1
      <4>3. [at |-> "writing", new |-> new, alone |-> rivals = {}] \in
              [at : {"idle", "writing", "written"}, new : Config, alone : BOOLEAN]
        OBVIOUS
      <4>4. QED
        BY <4>1, <4>2, <4>3
    <3> HIDE DEF after
    <3>4. QED
      BY <3>2, <3>3
  <2>2. QED
    BY <1>1, <1>3, <2>1 DEF GateTypes, GateInv, GuestInv, InTheDoor, Matches, CookieInv
<1>5. CASE StoreConfig(o)
  <2>1. /\ edit' \in [Operators -> [at : {"idle", "writing", "written"}, new : Config, alone : BOOLEAN]]
        /\ auth' = auth /\ authRow' \in Config /\ guest' = guest
    BY <1>1, <1>5 DEF StoreConfig, GateTypes
  <2>2. QED
    BY <1>1, <1>3, <2>1 DEF GateTypes, GateInv, GuestInv, InTheDoor, Matches, CookieInv
<1>6. CASE SwapConfig(o)
  <2>1. Swap(edit[o].new) /\ authRow' = authRow /\ edit' = [edit EXCEPT ![o] = NoEdit]
    BY <1>6 DEF SwapConfig, Swapped
  <2>2. auth' \in Config /\ guest' \in [Guests -> Guest] /\ \A g \in Guests : GuestInv(g)'
    BY <1>1, <1>3, <2>1, SwapInv
  <2>3. edit' \in [Operators -> [at : {"idle", "writing", "written"}, new : Config, alone : BOOLEAN]]
    BY <1>1, <1>2, <2>1 DEF GateTypes
  <2>4. QED
    BY <1>1, <1>3, <2>1, <2>2, <2>3 DEF GateTypes, CookieInv
<1>7. CASE UpdateFails(o)
  <2>1. /\ edit' \in [Operators -> [at : {"idle", "writing", "written"}, new : Config, alone : BOOLEAN]]
        /\ auth' = auth /\ authRow' \in Config /\ guest' = guest
    BY <1>1, <1>2, <1>7 DEF UpdateFails, GateTypes
  <2>2. QED
    BY <1>1, <1>3, <2>1 DEF GateTypes, GateInv, GuestInv, InTheDoor, Matches, CookieInv
<1>8. QED
  BY <1>4, <1>5, <1>6, <1>7 DEF OperatorStep

(* A restart empties the door; the other steps are those of the admin's.    *)
LEMMA DoorInv ==
  ASSUME GateInv,
         \/ \E clientKey \in BOOLEAN : Restart(clientKey, adminKey)
         \/ DoorNext
  PROVE  GateInv'
<1>1. GateTypes /\ CookieInv
  BY DEF GateInv
<1>2. ASSUME NEW clientKey \in BOOLEAN, NEW newKey \in {NoKey, "k1", "k2"}, Restart(clientKey, newKey)
      PROVE  GateInv'
  <2>1. NoEdit \in [at : {"idle", "writing", "written"}, new : Config, alone : BOOLEAN]
    BY DEF NoEdit, SeededRow, Config, Modes
  <2>2. guest' \in [Guests -> Guest] /\ \A g \in Guests : guest'[g].at = "out"
    BY <1>2, OutFits DEF Restart
  <2>3. /\ edit' \in [Operators -> [at : {"idle", "writing", "written"}, new : Config, alone : BOOLEAN]]
        /\ keyed' \in BOOLEAN /\ auth' \in Config /\ authRow' \in Config
        /\ hour' \in Nat /\ adminKey' \in {NoKey, "k1", "k2"} /\ cookie' = cookie /\ login' = login
    BY <1>1, <1>2, <2>1 DEF Restart, GateTypes
  <2>4. \A g \in Guests : GuestInv(g)'
    BY <2>2 DEF GuestInv, InTheDoor
  <2>5. QED
    BY <1>1, <2>2, <2>3, <2>4 DEF GateInv, GateTypes, CookieInv
<1>3. CASE Login \/ Logout \/ Hour
  <2>1. keyed' = keyed /\ auth' = auth /\ authRow' = authRow /\ edit' = edit /\ guest' = guest
    BY <1>3 DEF Login, Logout, Hour, insideVars, editVars
  <2>2. /\ hour' \in Nat /\ adminKey' \in {NoKey, "k1", "k2"} /\ cookie' \in Cookie /\ login' \in Cookie
        /\ CookieInv'
    BY <1>1, <1>3 DEF Login, Logout, Hour, GateTypes, Cookie, NoCookie, CookieInv
  <2>3. \A g \in Guests : GuestInv(g)'
    BY <2>1 DEF GateInv, GuestInv, InTheDoor, Matches
  <2>4. QED
    BY <1>1, <2>1, <2>2, <2>3 DEF GateInv, GateTypes
<1>4. adminKey \in {NoKey, "k1", "k2"} /\ keyed \in BOOLEAN
  BY <1>1 DEF GateTypes
<1>5. QED
  BY <1>2, <1>3, <1>4 DEF DoorNext

-----------------------------------------------------------------------------

(* The invariant of every behaviour: a request in the door has seen the     *)
(* mode in force, and has a title to the place it is at.                    *)
THEOREM GateInvariance == Spec => []GateInv
<1>1. AdInit => GateInv
  <2> SUFFICES ASSUME AdInit PROVE GateInv
    OBVIOUS
  <2>1. /\ SeededRow \in Config
        /\ NoEdit \in [at : {"idle", "writing", "written"}, new : Config, alone : BOOLEAN]
    BY DEF NoEdit, SeededRow, Config, Modes
  <2>2. guest \in [Guests -> Guest] /\ \A g \in Guests : guest[g].at = "out"
    BY OutFits DEF AdInit
  <2>3. NoCookie \in Cookie
    BY DEF NoCookie, Cookie
  <2>4. QED
    BY <2>1, <2>2, <2>3 DEF AdInit, GateInv, GateTypes, GuestInv, InTheDoor, CookieInv
<1>2. GateInv /\ [GateNext \/ DoorNext]_gateVars => GateInv'
  <2> SUFFICES ASSUME GateInv, [GateNext \/ DoorNext]_gateVars PROVE GateInv'
    OBVIOUS
  <2>1. CASE \E g \in Guests : RequestStep(g)
    <3>1. PICK g \in Guests : RequestStep(g)
      BY <2>1
    <3>2. guest' \in [Guests -> Guest] /\ \A h \in Guests : GuestInv(h)'
      BY <3>1, RequestInv
    <3>3. UNCHANGED <<keyed, server, editVars, doorVars>>
      BY <3>1 DEF RequestStep, Arrive, VerifyToken, Validated, CheckRateLimit, ResolveClient,
         ProxyPassthrough
    <3>4. QED
      BY <3>2, <3>3 DEF GateInv, GateTypes, CookieInv, editVars, doorVars
  <2>2. CASE \E o \in Operators : OperatorStep(o)
    BY <2>2, OperatorInv DEF GateInv
  <2>3. CASE (\E clientKey \in BOOLEAN : Restart(clientKey, adminKey)) \/ DoorNext
    BY <2>3, DoorInv
  <2>4. CASE UNCHANGED gateVars
    BY <2>4 DEF gateVars, editVars, doorVars, GateInv, GateTypes, GuestInv, InTheDoor, Matches,
       CookieInv
  <2>5. QED
    BY <2>1, <2>2, <2>3, <2>4 DEF GateNext, RequestStep, OperatorStep
<1>3. Init => AdInit
  BY DEF Init
<1>4. [Next]_vars => [GateNext \/ DoorNext]_gateVars
  BY GateSteps
<1>5. QED
  BY <1>1, <1>2, <1>3, <1>4, PTL DEF Spec

(* The right account pays and the admin's doors agree, whenever the mode    *)
(* changes and whatever restarts, logins and logouts come in between.       *)
THEOREM RightlyLetIn == Spec => []LetInRightly
<1>1. GateInv => RightAccount
  <2> SUFFICES ASSUME GateInv, NEW g \in Guests, guest[g].at = "sent"
               PROVE  LET v     == guest[g]
                          modes == {c.mode : c \in v.seen}
                      IN  /\ v.sent = "server key" => Matches(g) /\ modes # {"passthrough"}
                          /\ v.sent = "token" /\ Matches(g) => "passthrough" \in modes
                          /\ v.token # "own" /\ ~Matches(g) =>
                               v.bearer \/ \E c \in v.seen : c.mode # "client_key" /\ ~c.validate
                          /\ ~Matches(g) => modes # {"client_key"}
    BY DEF RightAccount
  <2>1. GuestInv(g)
    BY DEF GateInv
  <2>2. QED
    BY <2>1 DEF GuestInv, Open
<1>2. ASSUME GateInv PROVE OneDoor
  <2>1. /\ hour \in Nat /\ cookie.since \in Nat /\ MaxAge \in Nat /\ adminKey \in {NoKey, "k1", "k2"}
        /\ CookieInv
    BY <1>2, DoorAssumption DEF GateInv, GateTypes, Cookie
  <2>2. ASSUME NEW l \in BOOLEAN, NEW h \in {"none", "wrong"}, ApiAccepts(l, h), ~(l /\ bypass)
        PROVE  login.key = adminKey /\ hour <= login.since + MaxAge
    <3>1. adminKey # NoKey /\ cookie.key = adminKey /\ hour - cookie.since <= MaxAge
      BY <2>2 DEF ApiAccepts, SessionValid
    <3>2. cookie = login
      BY <2>1, <3>1 DEF CookieInv, NoCookie
    <3>3. QED
      BY <2>1, <3>1, <3>2
  <2>3. QED
    BY <2>2 DEF OneDoor, PageServed, ApiAccepts
<1>3. GateInv => LetInRightly
  BY <1>1, <1>2 DEF LetInRightly
<1>4. QED
  BY <1>3, GateInvariance, PTL

-----------------------------------------------------------------------------
(* The auth mode in force is the stored one.                                *)

(* Two edits that overlap are not alone; one that is alone finds its row    *)
(* as it wrote it; memory and row agree unless torn or under way.           *)
EditInv ==
  /\ edit \in [Operators -> [at : {"idle", "writing", "written"}, new : Config, alone : BOOLEAN]]
  /\ torn \in BOOLEAN
  /\ \A o, p \in Operators : Editing(o) /\ Editing(p) /\ o # p => ~edit[o].alone
  /\ \A o \in Operators : edit[o].at = "written" /\ edit[o].alone => authRow = edit[o].new
  /\ \/ torn \/ auth = authRow
     \/ \E o \in Operators : Editing(o) /\ (edit[o].at = "written" \/ ~edit[o].alone)

(* Every step of the gate keeps it.                                         *)
LEMMA EditStep == ASSUME EditInv, GateNext \/ DoorNext PROVE EditInv'
<1> USE DEF EditInv, Editing
<1>1. NoEdit.at = "idle" /\ NoEdit \in [at : {"idle", "writing", "written"}, new : Config, alone : BOOLEAN]
  BY DEF NoEdit, SeededRow, Config, Modes
<1>2. ASSUME UNCHANGED editVars PROVE EditInv'
  BY <1>2 DEF editVars
<1>3. ASSUME NEW o \in Operators, NEW new \in Config, UpdateConfig(o, new) PROVE EditInv'
  <2> DEFINE rivals == {p \in Operators \ {o} : Editing(p)}
  <2>1. edit' = [p \in Operators |->
           IF p = o THEN [at |-> "writing", new |-> new, alone |-> rivals = {}]
           ELSE IF p \in rivals THEN [edit[p] EXCEPT !.alone = FALSE] ELSE edit[p]]
    BY <1>3 DEF UpdateConfig
  <2>2. ~Editing(o) /\ UNCHANGED <<auth, authRow, torn>>
    BY <1>3 DEF UpdateConfig
  <2>3. /\ edit'[o].at = "writing" /\ (edit'[o].alone <=> rivals = {})
        /\ edit'[o] \in [at : {"idle", "writing", "written"}, new : Config, alone : BOOLEAN]
    BY <2>1
  <2>4. \A p \in Operators \ {o} :
          /\ edit'[p].at = edit[p].at /\ edit'[p].new = edit[p].new
          /\ edit'[p] \in [at : {"idle", "writing", "written"}, new : Config, alone : BOOLEAN]
          /\ edit'[p].alone = (edit[p].alone /\ p \notin rivals)
    BY <2>1
  <2>5. edit' \in [Operators -> [at : {"idle", "writing", "written"}, new : Config, alone : BOOLEAN]]
    BY <2>1, <2>3, <2>4
  <2>6. \A p \in Operators : p \in rivals <=> p # o /\ edit[p].at # "idle"
    OBVIOUS
  <2> HIDE DEF rivals
  <2>7. QED
    BY <2>2, <2>3, <2>4, <2>5, <2>6
<1>4. ASSUME NEW o \in Operators, StoreConfig(o) PROVE EditInv'
  BY <1>4 DEF StoreConfig
<1>5. ASSUME NEW o \in Operators, SwapConfig(o) PROVE EditInv'
  BY <1>5, <1>1 DEF SwapConfig, Swap, Swapped
<1>6. ASSUME NEW o \in Operators, UpdateFails(o) PROVE EditInv'
  BY <1>6, <1>1 DEF UpdateFails
<1>7. ASSUME NEW clientKey, NEW newKey, Restart(clientKey, newKey) PROVE EditInv'
  BY <1>7, <1>1 DEF Restart
<1>8. CASE GateNext
  <2>1. ASSUME NEW g \in Guests,
               \/ \E token \in Credentials, bearer \in BOOLEAN : Arrive(g, token, bearer)
               \/ VerifyToken(g) \/ Validated(g) \/ CheckRateLimit(g)
               \/ \E override_1 \in Overrides : ResolveClient(g, override_1)
               \/ ProxyPassthrough(g)
        PROVE  UNCHANGED editVars
    BY <2>1 DEF Arrive, VerifyToken, Validated, CheckRateLimit, ResolveClient, ProxyPassthrough
  <2>2. QED
    BY <1>8, <2>1, <1>2, <1>3, <1>4, <1>5, <1>6, <1>7 DEF GateNext
<1>9. CASE DoorNext
  <2>1. Login \/ Logout \/ Hour => UNCHANGED editVars
    BY DEF Login, Logout, Hour, insideVars
  <2>2. QED
    BY <1>9, <2>1, <1>2, <1>7 DEF DoorNext
<1>10. QED
  BY <1>8, <1>9

(* The auth mode in memory is the stored one, unless an edit is under way   *)
(* or one was torn: overlapped by another, or failed.                       *)
THEOREM EditInvariance == Spec => []EditInv
<1>1. Init => EditInv
  <2>1. NoEdit.at = "idle" /\ NoEdit \in [at : {"idle", "writing", "written"}, new : Config, alone : BOOLEAN]
    BY DEF NoEdit, SeededRow, Config, Modes
  <2>2. Init => auth = authRow /\ edit = [o \in Operators |-> NoEdit] /\ torn = FALSE
    BY DEF Init, AdInit
  <2>3. QED
    BY <2>1, <2>2 DEF EditInv, Editing
<1>2. EditInv /\ [Next]_vars => EditInv'
  <2>1. CASE UNCHANGED gateVars
    BY <2>1 DEF gateVars, editVars, EditInv, Editing
  <2>2. QED
    BY <2>1, GateSteps, EditStep
<1>3. QED
  BY <1>1, <1>2, PTL DEF Spec

(* What the property asks.                                                  *)
LEMMA ModeInForce == EditInv => ModeAgrees
BY DEF EditInv, ModeAgrees, Editing

-----------------------------------------------------------------------------
(* The configuration: what is in force is what a restart would bring.       *)

(* Only a step of the configuration touches it.                             *)
LEMMA ConfigSteps == [Next]_vars => Settings!CfNext \/ UNCHANGED configVars
BY DEF Next, vars, aroundVars, Picked

(* The environment layer, what main() read, and what the registry makes of *)
(* them.                                                                    *)
MainRead  == Settings!Settings(field, flag, local)
LayerOf   == Settings!Snapshot(environ, MainRead)
Writing(a) == admin[a].at # "idle"
(* What is in force is what the layers say, field by field, unless a write  *)
(* is under way.                                                            *)
ConfigInv ==
  /\ admin \in [Admins -> [at : {"idle", "writing", "written"}, to : Values \cup {Settings!Unset}]]
  /\ field \in Settings!Fields /\ changed \in BOOLEAN
  /\ dotenv \in Values \cup {Settings!Unset} /\ shell \in Values \cup {Settings!Unset}
  /\ flag \in Values \cup {Settings!Unset}
  /\ status \in {"down", "booting", "up"}
  /\ status # "down" => environ = Settings!Environ(field, flag, local)
  /\ status = "booting" => settings = MainRead /\ used = MainRead
  /\ status # "up" => Settings!Free
  /\ \A a, b \in Admins : Writing(a) /\ Writing(b) => a = b
  /\ status = "up" =>
       /\ snapshot = LayerOf
       /\ resolved = Settings!Resolve(field, flag, snapshot, override)
       /\ settings = resolved.value
       /\ used = IF Settings!Early(field) THEN MainRead ELSE resolved.value
       /\ ~changed /\ (\A a \in Admins : admin[a].at # "written") => configured = override
       /\ \A a \in Admins : /\ admin[a].at = "written" => configured = admin[a].to
                            /\ Writing(a) => Settings!DbSettable(field)

(* Every step of the start, of an administrator or of a crash keeps it.     *)
LEMMA ConfigStep == ASSUME ConfigInv, Settings!CfNext PROVE ConfigInv'
<1> USE DEF ConfigInv, Writing, MainRead, LayerOf
<1>1. ASSUME NEW c \in Values \cup {Settings!Unset}, NEW l \in BOOLEAN, Settings!Launch(c, l)
      PROVE  ConfigInv'
  BY <1>1 DEF Settings!Launch, Settings!Settings, Settings!Environ, Settings!Flagged, Settings!Free
<1>2. ASSUME NEW db \in Values \cup {Settings!Unset, Settings!Bad}, Settings!Initialize(db)
      PROVE  ConfigInv'
  <2>1. CASE db = Settings!Bad
    BY <1>2, <2>1 DEF Settings!Initialize, Settings!Free, Settings!Settings, Settings!Environ,
       Settings!Flagged
  <2>2. CASE db # Settings!Bad
    BY <1>2, <2>2 DEF Settings!Initialize, Settings!Free, Settings!Settings, Settings!Environ,
       Settings!Flagged
  <2>3. QED
    BY <2>1, <2>2
<1>3. ASSUME NEW a \in Admins, NEW v \in Values \cup {Settings!Unset}, Settings!Begin(a, v)
      PROVE  ConfigInv'
  BY <1>3 DEF Settings!Begin, Settings!Free, Settings!Settings, Settings!Environ, Settings!Flagged
<1>4. ASSUME NEW a \in Admins, Settings!Execute(a) PROVE ConfigInv'
  BY <1>4 DEF Settings!Execute, Settings!Free, Settings!Settings, Settings!Environ, Settings!Flagged
<1>5. ASSUME NEW a \in Admins, Settings!Apply(a) PROVE ConfigInv'
  BY <1>5 DEF Settings!Apply, Settings!EnvLayer, Settings!Free, Settings!Settings, Settings!Environ,
     Settings!Flagged, Settings!Quiet, Settings!ReadLive, Settings!Early, Settings!DbSettable
<1>6. ASSUME NEW a \in Admins, Settings!WriteFails(a) PROVE ConfigInv'
  BY <1>6 DEF Settings!WriteFails, Settings!Free, Settings!Settings, Settings!Environ,
     Settings!Flagged, Settings!Quiet
<1>7. CASE Settings!Ends
  BY <1>7 DEF Settings!Ends, Settings!Free, Settings!Settings, Settings!Environ, Settings!Flagged,
     Settings!Quiet
<1>8. QED
  BY <1>1, <1>2, <1>3, <1>4, <1>5, <1>6, <1>7 DEF Settings!CfNext

(* While the gateway is up its settings are what its flags, its             *)
(* environment and the override resolve to; the row is the override unless  *)
(* a write is under way, failed without an answer, or its read failed.      *)
THEOREM ConfigInvariance == Spec => []ConfigInv
<1>1. Init => ConfigInv
  <2>1. Init => Settings!CfInit
    BY DEF Init
  <2>2. ASSUME Settings!CfInit
        PROVE  /\ status = "down" /\ changed = FALSE /\ flag = Settings!Unset
               /\ field \in Settings!Fields /\ dotenv \in Values \cup {Settings!Unset} /\ shell \in Values \cup {Settings!Unset}
               /\ admin = [a \in Admins |-> [at |-> "idle", to |-> Settings!Unset]]
    BY <2>2 DEF Settings!CfInit, Settings!Quiet
  <2>3. QED
    BY <2>1, <2>2 DEF ConfigInv, Writing, Settings!Free
<1>2. ConfigInv /\ [Next]_vars => ConfigInv'
  <2>1. CASE UNCHANGED configVars
    BY <2>1 DEF configVars, ConfigInv, Writing, MainRead, LayerOf, Settings!Free, Settings!Settings,
       Settings!Environ, Settings!Flagged
  <2>2. QED
    BY <2>1, ConfigSteps, ConfigStep
<1>3. QED
  BY <1>1, <1>2, PTL DEF Spec

(* What a restart would bring is what is used, and what is reported.        *)
LEMMA InForce == ASSUME ConfigInv PROVE Settings!RestartAgrees /\ Settings!ReportedIsUsed
<1>1. Settings!RestartAgrees
  BY DEF ConfigInv, Settings!RestartAgrees, Settings!Free, MainRead, LayerOf
<1>2. Settings!ReportedIsUsed
  BY ConfigAssumption DEF ConfigInv, Settings!ReportedIsUsed, Settings!Free, MainRead, LayerOf,
     Settings!Resolve, Settings!Snapshot, Settings!Settings, Settings!Environ, Settings!Flagged,
     Settings!First, Settings!Provisioned, Settings!Early, Settings!DbSettable, Settings!Fields
<1>3. QED
  BY <1>1, <1>2

-----------------------------------------------------------------------------
(* What is in force.                                                        *)

(* Whatever administrators write and delete, in whichever order: what is in *)
(* force is what a restart would bring, and the dashboard shows what is     *)
(* used. Excepted, as in the properties: a row that could not be read, a    *)
(* write of unknown outcome, edits of the auth mode that overlapped (config *)
(* registry, credential_manager.py).                                        *)
THEOREM RestartBringsTheSame == Spec => []RestartAgrees
<1>1. ConfigInv /\ EditInv => RestartAgrees
  BY InForce, ModeInForce DEF RestartAgrees
<1>2. QED
  BY <1>1, ConfigInvariance, EditInvariance, PTL

-----------------------------------------------------------------------------
(* Instances on Railway.                                                    *)

(* Only a step of a command touches the projects.                           *)
LEMMA RailwaySteps == [Next]_vars => Railway!PrNext \/ UNCHANGED railwayVars
BY DEF Next, vars, aroundVars, Picked

(* The projects, and what a command knows of them.                          *)
ProjectIds == Railway!Ids
ProjectState == [state : {"unborn", "live", "forced", "tidied"}, name : Names, tag : {"none", "described", "scheduled"},
            services : SUBSET Railway!Services, vars : Callers \cup {"none"}, domain : BOOLEAN, deployed : Callers \cup {"none"}]
RunState == [op : Railway!Ops \cup {"idle"}, name : Names, at : 0..9, id : 0..MaxProjects, alone : BOOLEAN,
        end : {"none", "refused", "succeeded", "failed", "died"}]
IsCreate(c) == run[c].op = "create"
(* A command is at a step of its own, and knows a project once it made or   *)
(* found one.                                                               *)
RunInv(c) ==
  LET r == run[c] IN
  /\ r.op = "idle" => r = Railway!Idle
  /\ r.op = "create" => /\ r.id = 0 <=> r.at <= 2
                        /\ r.id # 0 => project[r.id].state # "unborn" /\ project[r.id].name = r.name
                        /\ r.end = "none" => r.at <= 8
                        /\ r.end = "succeeded" => r.at = 9
  /\ r.op \notin {"idle", "create"} /\ r.end = "none" => r.at \in {0, 1}
(* What an undisturbed create has done when it makes its at-th call.        *)
HasMade(c) ==
  LET r == run[c]  p == project[r.id] IN
  /\ p.state \in {"live", "forced"}
  /\ r.at > 3 => "postgres" \in p.services
  /\ r.at > 4 => "redis" \in p.services
  /\ r.at > 5 => "gateway" \in p.services
  /\ r.at > 6 => p.vars = c
  /\ r.at > 7 => p.domain
  /\ r.at > 8 => p.deployed = c
(* Two creates of one name. One that was alone shares its project with no   *)
(* other create, and has made what it is past.                              *)
Rivals(c, d) == c # d /\ IsCreate(d) /\ run[d].name = run[c].name
AloneInv(c) ==
  /\ Railway!Busy(c) => \A d \in Callers : Rivals(c, d) => ~Railway!Busy(d)
  /\ Railway!Busy(c) /\ run[c].at = 1 => Railway!Named(run[c].name) = {}
  /\ Railway!Busy(c) /\ run[c].at = 2 => \A d \in Callers : c # d /\ IsCreate(d) => run[d].id \notin Railway!Named(run[c].name)
  /\ run[c].id # 0 => \A d \in Callers : c # d /\ IsCreate(d) => run[d].id # run[c].id
  /\ run[c].id # 0 => \A d \in Callers : Rivals(c, d) /\ Railway!Busy(d) /\ run[d].at > 0 => project[run[c].id].state # "live"
  /\ run[c].end \in {"none", "succeeded"} /\ run[c].id # 0 => HasMade(c)
(* What the commands have done, and what they left of each other's.         *)
RailwayInv ==
  /\ project \in [ProjectIds -> ProjectState] /\ run \in [Callers -> RunState]
  /\ \A c \in Callers : RunInv(c)
  /\ \A c \in Callers : IsCreate(c) /\ run[c].alone => AloneInv(c)
  /\ Railway!OneProjectPerName

(* What a call makes of its project: the name stays, services only come.    *)
LEMMA ChangedKeeps ==
  ASSUME NEW c \in Callers, NEW p \in ProjectState,
         NEW step \in {"describe", "postgres", "redis", "gateway", "variables", "domain", "deploy", "schedule", "untag", "delete", "cleanup"}
  PROVE  LET q == Railway!Changed(c, step, p) IN
         /\ q \in ProjectState /\ q.name = p.name /\ p.services \subseteq q.services /\ (p.domain => q.domain)
         /\ q.state = IF step = "delete" THEN "forced" ELSE IF step = "cleanup" THEN "tidied" ELSE p.state
         /\ q.vars = IF step = "variables" THEN c ELSE p.vars
         /\ q.deployed = IF step = "deploy" THEN p.vars ELSE p.deployed
         /\ step \in Railway!Services => step \in q.services
         /\ step = "domain" => q.domain
<1> USE DEF Railway!Changed, Railway!Services, ProjectState
<1>1. CASE step = "describe"
  BY <1>1
<1>2. CASE step \in {"postgres", "redis", "gateway"}
  BY <1>2
<1>3. CASE step = "variables"
  BY <1>3
<1>4. CASE step = "domain"
  BY <1>4
<1>5. CASE step = "deploy"
  BY <1>5
<1>6. CASE step \in {"schedule", "untag"}
  BY <1>6
<1>7. CASE step \in {"delete", "cleanup"}
  BY <1>7
<1>8. QED
  BY <1>1, <1>2, <1>3, <1>4, <1>5, <1>6, <1>7

(* The steps of a command, in their order.                                  *)
LEMMA StepsKnown ==
  /\ Len(Railway!Steps("create")) = 8
  /\ Railway!Steps("create")[1] = "init" /\ Railway!Steps("create")[2] = "describe"
  /\ Railway!Steps("create")[3] = "postgres" /\ Railway!Steps("create")[4] = "redis"
  /\ Railway!Steps("create")[5] = "gateway" /\ Railway!Steps("create")[6] = "variables"
  /\ Railway!Steps("create")[7] = "domain" /\ Railway!Steps("create")[8] = "deploy"
  /\ \A op \in {"schedule", "force", "cancel", "redeploy"} :
       Len(Railway!Steps(op)) = 1 /\ Railway!Steps(op)[1] \in {"schedule", "delete", "untag", "deploy"}
BY DEF Railway!Steps

(* The call a process makes next.                                           *)
LEMMA NextCall ==
  ASSUME RailwayInv, NEW c \in Callers, Railway!Busy(c), run[c].at > 0
  PROVE  /\ IsCreate(c) => /\ run[c].at \in 1..8 /\ Len(Railway!Steps(run[c].op)) = 8
                           /\ Railway!Step(c) = <<"init", "describe", "postgres", "redis", "gateway", "variables", "domain", "deploy">>[run[c].at]
         /\ ~IsCreate(c) => /\ run[c].at = 1 /\ Len(Railway!Steps(run[c].op)) = 1
                            /\ Railway!Step(c) \in {"schedule", "delete", "untag", "deploy"}
<1>1. RunInv(c) /\ run[c] \in RunState /\ run[c].op # "idle" /\ run[c].end = "none"
  BY DEF RailwayInv, Railway!Busy
<1>2. ASSUME IsCreate(c) PROVE run[c].at \in 1..8
  BY <1>1, <1>2 DEF RunInv, IsCreate, RunState
<1>3. ASSUME ~IsCreate(c)
      PROVE  run[c].at = 1 /\ run[c].op \in {"schedule", "force", "cancel", "redeploy"}
  BY <1>1, <1>3 DEF RunInv, IsCreate, RunState, Railway!Ops
<1>4. QED
  BY <1>2, <1>3, StepsKnown DEF Railway!Step, IsCreate

(* What a call does to Railway.                                             *)
LEMMA EffectDoes ==
  ASSUME RailwayInv, NEW c \in Callers, Railway!Busy(c), run[c].at > 0,
         NEW i \in Railway!Targets(c), Railway!Effect(c, i)
  PROVE  /\ i \in ProjectIds /\ project' \in [ProjectIds -> ProjectState] /\ \A j \in ProjectIds \ {i} : project'[j] = project[j]
         /\ IsCreate(c) /\ run[c].at = 1 => /\ project[i].state = "unborn" /\ project'[i].state = "live"
                                            /\ project'[i].name = run[c].name
         /\ ~IsCreate(c) \/ run[c].at > 1 => /\ project[i].state = "live" 
                                             /\ Railway!Step(c) \in {"describe", "postgres", "redis", "gateway", "variables", "domain", "deploy", "schedule", "untag", "delete"}
                                             /\ project'[i] = Railway!Changed(c, Railway!Step(c), project[i])
         /\ IsCreate(c) /\ run[c].at = 2 => i \in Railway!Named(run[c].name)
         /\ IsCreate(c) /\ run[c].at > 2 => i = run[c].id
<1> DEFINE step == Railway!Step(c)
<1>1. project \in [ProjectIds -> ProjectState] /\ run[c] \in RunState
  BY DEF RailwayInv
<1>2. project' = [project EXCEPT ![i] = IF step = "init" THEN [Railway!Unborn EXCEPT !.state = "live", !.name = run[c].name]
                                                        ELSE Railway!Changed(c, step, project[i])]
  BY DEF Railway!Effect
<1>3. CASE IsCreate(c) /\ run[c].at = 1
  <2>1. step = "init"
    BY <1>3, NextCall
  <2>2. i \in ProjectIds /\ project[i].state = "unborn"
    BY <2>1 DEF Railway!Targets, ProjectIds
  <2> DEFINE new == [Railway!Unborn EXCEPT !.state = "live", !.name = run[c].name]
  <2>3. new \in ProjectState /\ new.state = "live" /\ new.name = run[c].name
    BY <1>1 DEF Railway!Unborn, Railway!NoKeys, ProjectState, RunState
  <2>4. project' = [project EXCEPT ![i] = new]
    BY <1>2, <2>1
  <2> HIDE DEF new
  <2>5. QED
    BY <1>1, <1>3, <2>2, <2>3, <2>4
<1>4. CASE ~IsCreate(c) \/ run[c].at > 1
  <2>1. step \in {"describe", "postgres", "redis", "gateway", "variables", "domain", "deploy", "schedule", "untag", "delete"}
    BY <1>4, NextCall
  <2>2. /\ i \in ProjectIds /\ project[i].state = "live"
        /\ step = "describe" => i \in Railway!Named(run[c].name)
        /\ step \in {"postgres", "redis", "gateway", "variables", "domain", "deploy"} => i = run[c].id
    BY <2>1 DEF Railway!Targets, Railway!Named, Railway!Live, ProjectIds
  <2>3. project[i] \in ProjectState
    BY <1>1, <2>2
  <2>4. Railway!Changed(c, step, project[i]) \in ProjectState
    BY <2>1, <2>3, ChangedKeeps
  <2>5. project' = [project EXCEPT ![i] = Railway!Changed(c, step, project[i])]
    BY <1>2, <2>1
  <2>6. /\ IsCreate(c) /\ run[c].at = 2 => step = "describe"
        /\ IsCreate(c) /\ run[c].at > 2 => step \in {"postgres", "redis", "gateway", "variables", "domain", "deploy"}
    BY NextCall
  <2> HIDE DEF step
  <2>7. QED
    BY <1>1, <1>4, <2>1, <2>2, <2>4, <2>5, <2>6 DEF step
<1>5. QED
  <2>1. IsCreate(c) => run[c].at \in 1..8
    BY NextCall
  <2>2. QED
    BY <1>3, <1>4, <2>1

(* What any change by the process of c leaves the others.                   *)
Born(c) == \A j \in ProjectIds : project[j].state = "unborn" /\ project'[j].state # "unborn" =>
  /\ IsCreate(c) /\ Railway!Busy(c) /\ run[c].at = 1 /\ project'[j].name = run[c].name
  /\ \A k \in ProjectIds \ {j} : project'[k] = project[k]
Aged(c) == \A j \in ProjectIds : project[j].state # "unborn" =>
  /\ project'[j].state # "unborn" /\ project'[j].name = project[j].name
  /\ project'[j].state = "live" => project[j].state = "live"
Spared(c) == \A d \in Callers \ {c} : IsCreate(d) /\ run[d].alone /\ run[d].id # 0 =>
  LET p == project[run[d].id]  q == project'[run[d].id] IN
  /\ p.state \in {"live", "forced"} => q.state \in {"live", "forced"}
  /\ p.services \subseteq q.services /\ (p.domain => q.domain) /\ q.vars = p.vars /\ q.deployed \in {p.deployed, p.vars}
Changes(c) == project' \in [ProjectIds -> ProjectState] /\ Born(c) /\ Aged(c) /\ Spared(c)

(* What one call of a command may change of the projects.                   *)
LEMMA CallChanges ==
  ASSUME RailwayInv, NEW c \in Callers, Railway!Busy(c), run[c].at > 0,
         \/ UNCHANGED project
         \/ \E i \in Railway!Targets(c) : Railway!Effect(c, i)
         \/ Railway!Tidies(c) /\ project' = [project EXCEPT ![run[c].id] = Railway!Changed(c, "cleanup", @)]
  PROVE  Changes(c)
<1>1. project \in [ProjectIds -> ProjectState] /\ run \in [Callers -> RunState] /\ \A d \in Callers : RunInv(d)
  BY DEF RailwayInv
<1>i. \A d \in Callers : run[d].id \in 0..MaxProjects /\ (run[d].id # 0 => run[d].id \in ProjectIds)
  BY <1>1, RailwayAssumption DEF RunState, ProjectIds, Railway!Ids
<1>2. \A d \in Callers \ {c} : IsCreate(d) /\ run[d].alone /\ run[d].id # 0 /\ IsCreate(c) => run[c].id # run[d].id
  BY DEF RailwayInv, AloneInv
<1>3. CASE UNCHANGED project
  BY <1>1, <1>3 DEF Changes, Born, Aged, Spared
<1>4. ASSUME NEW i \in ProjectIds, project[i].state = "live", 
             NEW step \in {"describe", "postgres", "redis", "gateway", "variables", "domain", "deploy", "schedule", "untag", "delete", "cleanup"},
             project' = [project EXCEPT ![i] = Railway!Changed(c, step, project[i])],
             step \in {"variables", "cleanup"} => IsCreate(c) /\ i = run[c].id
      PROVE  Changes(c)
  <2> DEFINE q == Railway!Changed(c, step, project[i])
  <2>1. /\ q \in ProjectState /\ q.name = project[i].name /\ project[i].services \subseteq q.services /\ (project[i].domain => q.domain)
        /\ q.state = IF step = "delete" THEN "forced" ELSE IF step = "cleanup" THEN "tidied" ELSE project[i].state
        /\ q.vars = IF step = "variables" THEN c ELSE project[i].vars
        /\ q.deployed = IF step = "deploy" THEN project[i].vars ELSE project[i].deployed
    <3>1. project[i] \in ProjectState
      BY <1>1
    <3>2. QED
      BY <3>1, ChangedKeeps
  <2> HIDE DEF q
  <2>2. project'[i] = q /\ project' \in [ProjectIds -> ProjectState] /\ \A j \in ProjectIds \ {i} : project'[j] = project[j]
    BY <1>1, <1>4, <2>1 DEF q
  <2>3. Born(c) /\ Aged(c)
    BY <1>4, <2>1, <2>2 DEF Born, Aged
  <2>4. Spared(c)
    <3> SUFFICES ASSUME NEW d \in Callers \ {c}, IsCreate(d), run[d].alone, run[d].id # 0
                 PROVE  LET p == project[run[d].id]  r == project'[run[d].id] IN
                        /\ p.state \in {"live", "forced"} => r.state \in {"live", "forced"}
                        /\ p.services \subseteq r.services /\ (p.domain => r.domain) /\ r.vars = p.vars /\ r.deployed \in {p.deployed, p.vars}
      BY DEF Spared
    <3>1. run[d].id \in ProjectIds
      BY <1>i
    <3>2. CASE run[d].id # i
      BY <2>2, <3>1, <3>2
    <3>3. CASE run[d].id = i
      <4>1. step \notin {"variables", "cleanup"}
        BY <1>4, <1>2, <3>3
      <4>2. QED
        BY <1>4, <2>1, <2>2, <3>3, <4>1
    <3>4. QED
      BY <3>2, <3>3
  <2>5. QED
    BY <2>2, <2>3, <2>4 DEF Changes
<1>5. ASSUME NEW i \in Railway!Targets(c), Railway!Effect(c, i) PROVE Changes(c)
  <2>1. /\ i \in ProjectIds /\ project' \in [ProjectIds -> ProjectState] /\ \A j \in ProjectIds \ {i} : project'[j] = project[j]
    BY <1>5, EffectDoes
  <2>2. CASE IsCreate(c) /\ run[c].at = 1
    <3>1. project[i].state = "unborn" /\ project'[i].state = "live" /\ project'[i].name = run[c].name
      BY <1>5, <2>2, EffectDoes
    <3>2. Born(c) /\ Aged(c)
      BY <2>1, <2>2, <3>1 DEF Born, Aged
    <3>3. \A d \in Callers \ {c} : IsCreate(d) /\ run[d].alone /\ run[d].id # 0 => project'[run[d].id] = project[run[d].id]
      <4>1. \A d \in Callers : IsCreate(d) /\ run[d].id # 0 => project[run[d].id].state # "unborn"
        BY <1>1 DEF RunInv, IsCreate
      <4>2. QED
        BY <1>i, <2>1, <3>1, <4>1
    <3>4. Spared(c)
      BY <3>3 DEF Spared
    <3>5. QED
      BY <2>1, <3>2, <3>4 DEF Changes
  <2>3. CASE ~IsCreate(c) \/ run[c].at > 1
    <3> DEFINE step == Railway!Step(c)
    <3>1. /\ project[i].state = "live" /\ project' = [project EXCEPT ![i] = Railway!Changed(c, step, project[i])]
          /\ step \in {"describe", "postgres", "redis", "gateway", "variables", "domain", "deploy", "schedule", "untag", "delete"}
      <4>1. step # "init"
        BY <1>5, <2>3, EffectDoes
      <4>2. QED
        BY <1>5, <2>3, <4>1, EffectDoes DEF Railway!Effect
    <3>2. step = "variables" => IsCreate(c) /\ run[c].at > 2
      <4>1. ~IsCreate(c) => step # "variables"
        BY NextCall
      <4>2. IsCreate(c) => run[c].at \in 1..8 /\ (step = "variables" => run[c].at > 2)
        BY NextCall
      <4>3. QED
        BY <4>1, <4>2
    <3>3. step \in {"variables", "cleanup"} => IsCreate(c) /\ i = run[c].id
      BY <1>5, <3>1, <3>2, EffectDoes
    <3> HIDE DEF step
    <3>4. QED
      BY <1>4, <2>1, <3>1, <3>3
  <2>4. QED
    <3>1. IsCreate(c) => run[c].at \in 1..8
      BY NextCall
    <3>2. QED
      BY <2>2, <2>3, <3>1
<1>6. CASE Railway!Tidies(c) /\ project' = [project EXCEPT ![run[c].id] = Railway!Changed(c, "cleanup", @)]
  <2>1. run[c].id \in ProjectIds /\ project[run[c].id].state = "live" /\ IsCreate(c)
    BY <1>6 DEF Railway!Tidies, Railway!Live, ProjectIds, IsCreate
  <2>2. QED
    BY <1>4, <1>6, <2>1
<1>7. QED
  BY <1>3, <1>5, <1>6

(* How the process of c goes on, as the others see it.                      *)
GoesAs(c) ==
  /\ run' \in [Callers -> RunState] /\ \A d \in Callers \ {c} : run'[d] = run[d]
  /\ Railway!Busy(c) /\ run[c].op # "idle"
  /\ run'[c].op = run[c].op /\ run'[c].name = run[c].name /\ run'[c].alone = run[c].alone
  /\ IsCreate(c) /\ run'[c].at > 0 => run[c].at > 0 \/ run'[c].end # "none" \/ Railway!Named(run[c].name) = {}
  /\ IsCreate(c) /\ run'[c].id # run[c].id => run[c].at = 2 /\ run'[c].id \in Railway!Named(run[c].name)

(* A change by one command leaves what another, that is alone, has made.    *)
LEMMA OthersAlone ==
  ASSUME RailwayInv, NEW c \in Callers, GoesAs(c), Changes(c),
         NEW d \in Callers \ {c}, IsCreate(d), run[d].alone
  PROVE  AloneInv(d)'
<1>1. /\ project \in [ProjectIds -> ProjectState] /\ project' \in [ProjectIds -> ProjectState] /\ run \in [Callers -> RunState] /\ \A e \in Callers : RunInv(e)
      /\ AloneInv(d) /\ run'[d] = run[d]
  BY DEF RailwayInv, Changes, GoesAs
<1>2. \A e \in Callers : /\ run'[e].op = run[e].op /\ run'[e].name = run[e].name /\ (Railway!Busy(e)' => Railway!Busy(e))
                         /\ IsCreate(e)' <=> IsCreate(e)
  BY DEF GoesAs, Railway!Busy, IsCreate
<1>3. \A e \in Callers : Rivals(d, e)' <=> Rivals(d, e)
  BY <1>2 DEF Rivals
<1>4. Railway!Busy(d)' <=> Railway!Busy(d)
  BY <1>1 DEF Railway!Busy
<1>5. Railway!Busy(d) => \A e \in Callers : Rivals(d, e) => ~Railway!Busy(e)
  BY <1>1 DEF AloneInv
<1>6. run[d].id # 0 => run[d].id \in ProjectIds /\ project[run[d].id].state # "unborn" /\ project[run[d].id].name = run[d].name
  BY <1>1, RailwayAssumption DEF RunState, ProjectIds, Railway!Ids, RunInv, IsCreate
<1>7. Railway!Busy(d) => (Railway!Named(run[d].name))' \subseteq Railway!Named(run[d].name)
  <2> SUFFICES ASSUME Railway!Busy(d), NEW j \in ProjectIds, project'[j].state = "live", project'[j].name = run[d].name
               PROVE  project[j].state = "live" /\ project[j].name = run[d].name
    BY <1>1 DEF Railway!Named, Railway!Live, ProjectIds, Railway!Ids
  <2>1. project[j].state # "unborn"
    <3> SUFFICES ASSUME project[j].state = "unborn" PROVE FALSE
      OBVIOUS
    <3>1. IsCreate(c) /\ Railway!Busy(c) /\ run[c].name = run[d].name
      BY DEF Changes, Born
    <3>2. QED
      BY <1>5, <3>1 DEF Rivals
  <2>2. QED
    BY <2>1 DEF Changes, Aged
<1>8. Railway!Named(run[d].name) \subseteq ProjectIds /\ \A j \in Railway!Named(run[d].name) : project[j].name = run[d].name
  BY DEF Railway!Named, Railway!Live, ProjectIds, Railway!Ids
<1>9. Railway!Busy(d)' /\ run'[d].at = 2 => \A e \in Callers : d # e /\ IsCreate(e)' => run'[e].id \notin (Railway!Named(run[d].name))'
  <2> SUFFICES ASSUME Railway!Busy(d), run[d].at = 2, NEW e \in Callers, d # e, IsCreate(e), run'[e].id \in Railway!Named(run[d].name)
               PROVE  FALSE
    BY <1>1, <1>2, <1>4, <1>7
  <2>1. run[e].id \notin Railway!Named(run[d].name)
    BY <1>1 DEF AloneInv
  <2>2. e = c /\ run'[c].id # run[c].id
    BY <2>1 DEF GoesAs
  <2>3. Railway!Busy(c) /\ project[run'[c].id].name = run[c].name
    BY <2>2 DEF GoesAs, Railway!Named
  <2>4. QED
    BY <1>5, <1>8, <2>2, <2>3 DEF Rivals
<1>10. run'[d].id # 0 => \A e \in Callers : d # e /\ IsCreate(e)' => run'[e].id # run'[d].id
  <2> SUFFICES ASSUME run[d].id # 0, NEW e \in Callers, d # e, IsCreate(e), run'[e].id = run[d].id
               PROVE  FALSE
    BY <1>1, <1>2
  <2>1. run[e].id # run[d].id
    BY <1>1 DEF AloneInv
  <2>2. e = c /\ run[c].at = 2 /\ run[d].id \in Railway!Named(run[c].name) /\ Railway!Busy(c)
    BY <2>1 DEF GoesAs
  <2>3. project[run[d].id].name = run[c].name /\ project[run[d].id].state = "live"
    BY <2>2 DEF Railway!Named, Railway!Live
  <2>4. Rivals(d, c)
    BY <1>6, <2>2, <2>3 DEF Rivals
  <2>5. QED
    BY <1>1, <2>2, <2>3, <2>4 DEF AloneInv
<1>11. run'[d].id # 0 => \A e \in Callers : Rivals(d, e)' /\ Railway!Busy(e)' /\ run'[e].at > 0 => project'[run'[d].id].state # "live"
  <2> SUFFICES ASSUME run[d].id # 0, NEW e \in Callers, Rivals(d, e), Railway!Busy(e)', run'[e].at > 0, project'[run[d].id].state = "live"
               PROVE  FALSE
    BY <1>1, <1>3
  <2>1. project[run[d].id].state = "live" /\ Railway!Busy(e)
    BY <1>2, <1>6 DEF Changes, Aged
  <2>2. CASE run[e].at > 0
    BY <1>1, <2>1, <2>2 DEF AloneInv
  <2>3. CASE ~(run[e].at > 0)
    <3>1. e = c /\ IsCreate(c) /\ run[c].name = run[d].name
      BY <2>3 DEF GoesAs, Rivals
    <3>2. Railway!Named(run[c].name) = {}
      BY <2>3, <3>1 DEF GoesAs, Railway!Busy
    <3>3. run[d].id \in Railway!Named(run[c].name)
      BY <1>6, <2>1, <3>1 DEF Railway!Named, Railway!Live, ProjectIds
    <3>4. QED
      BY <3>2, <3>3
  <2>4. QED
    BY <2>2, <2>3
<1>12. run'[d].end \in {"none", "succeeded"} /\ run'[d].id # 0 => HasMade(d)'
  <2> SUFFICES ASSUME run[d].end \in {"none", "succeeded"}, run[d].id # 0 PROVE HasMade(d)'
    BY <1>1
  <2>1. HasMade(d)
    BY <1>1 DEF AloneInv
  <2>2. LET p == project[run[d].id]  q == project'[run[d].id] IN
        /\ p.state \in {"live", "forced"} => q.state \in {"live", "forced"}
        /\ p.services \subseteq q.services /\ (p.domain => q.domain) /\ q.vars = p.vars /\ q.deployed \in {p.deployed, p.vars}
    BY DEF Changes, Spared
  <2>3. run[d].at \in Nat
    BY <1>1 DEF RunState
  <2>4. QED
    BY <1>1, <2>1, <2>2, <2>3 DEF HasMade
<1>13. QED
  <2>1. Railway!Busy(d)' => \A e \in Callers : Rivals(d, e)' => ~(Railway!Busy(e)')
    BY <1>2, <1>3, <1>4, <1>5
  <2>2. Railway!Busy(d)' /\ run'[d].at = 1 => (Railway!Named(run[d].name))' = {}
    BY <1>1, <1>4, <1>7 DEF AloneInv
  <2>3. QED
    BY <1>1, <1>9, <1>10, <1>11, <1>12, <2>1, <2>2 DEF AloneInv

(* A step of c that is right for c is right for all.                        *)
LEMMA MovesOn ==
  ASSUME RailwayInv,
         NEW c \in Callers, GoesAs(c), Changes(c), RunInv(c)', IsCreate(c) /\ run[c].alone => AloneInv(c)'
  PROVE  RailwayInv'
<1>1. /\ project \in [ProjectIds -> ProjectState] /\ project' \in [ProjectIds -> ProjectState] /\ run \in [Callers -> RunState] /\ run' \in [Callers -> RunState]
      /\ \A d \in Callers : RunInv(d) /\ run'[d].op = run[d].op /\ run'[d].name = run[d].name /\ run'[d].alone = run[d].alone
      /\ \A d \in Callers \ {c} : run'[d] = run[d]
  BY DEF RailwayInv, Changes, GoesAs
<1>2. ASSUME NEW d \in Callers PROVE RunInv(d)'
  <2>1. CASE d = c
    BY <2>1
  <2>2. CASE d # c
    <3>1. run'[d] = run[d] /\ RunInv(d)
      BY <1>1, <2>2
    <3>2. IsCreate(d) /\ run[d].id # 0 => project'[run[d].id].state # "unborn" /\ project'[run[d].id].name = run[d].name
      <4>1. IsCreate(d) /\ run[d].id # 0 => run[d].id \in ProjectIds /\ project[run[d].id].state # "unborn" /\ project[run[d].id].name = run[d].name
        BY <1>1, <3>1, RailwayAssumption DEF RunState, ProjectIds, Railway!Ids, RunInv, IsCreate
      <4>2. QED
        BY <4>1 DEF Changes, Aged
    <3>3. QED
      BY <3>1, <3>2 DEF RunInv, IsCreate, Railway!Idle
  <2>3. QED
    BY <2>1, <2>2
<1>3. ASSUME NEW d \in Callers, IsCreate(d)', run'[d].alone PROVE AloneInv(d)'
  <2>1. IsCreate(d) /\ run[d].alone
    BY <1>1, <1>3 DEF IsCreate
  <2>2. QED
    BY <2>1, OthersAlone
<1>4. Railway!OneProjectPerName'
  <2> SUFFICES ASSUME \A d \in Callers : run[d].alone, NEW i \in ProjectIds, NEW j \in ProjectIds, i # j,
                      project'[i].state = "live", project'[j].state = "live", project'[i].name = project'[j].name
               PROVE  FALSE
    BY <1>1 DEF Railway!OneProjectPerName, Railway!Live, ProjectIds, Railway!Ids
  <2>1. \A k \in ProjectIds : project[k].state # "unborn" /\ project'[k].state = "live" => project[k].state = "live" /\ project'[k].name = project[k].name
    BY DEF Changes, Aged
  <2>2. ASSUME NEW k \in ProjectIds, NEW l \in ProjectIds, project[k].state = "unborn", k # l, 
               project'[k].state = "live", project'[l].state = "live", project'[k].name = project'[l].name
        PROVE  FALSE
    <3>1. IsCreate(c) /\ Railway!Busy(c) /\ run[c].at = 1 /\ project'[k].name = run[c].name /\ project'[l] = project[l]
      BY <2>2 DEF Changes, Born
    <3>2. Railway!Named(run[c].name) = {}
      BY <3>1 DEF RailwayInv, AloneInv
    <3>3. l \in Railway!Named(run[c].name)
      BY <2>2, <3>1 DEF Railway!Named, Railway!Live, ProjectIds
    <3>4. QED
      BY <3>2, <3>3
  <2>3. project[i].state = "live" /\ project[j].state = "live" /\ project[i].name = project[j].name
    BY <2>1, <2>2
  <2>4. QED
    BY <2>3 DEF RailwayInv, Railway!OneProjectPerName, Railway!Live, ProjectIds
<1>5. QED
  BY <1>1, <1>2, <1>3, <1>4 DEF RailwayInv

(* A look at the projects keeps the invariant, ...                          *)
LEMMA LookStep == ASSUME RailwayInv, NEW c \in Callers, Railway!Look(c) PROVE RailwayInv'
<1>1. /\ Railway!Busy(c) /\ run[c].at = 0 /\ UNCHANGED project
      /\ project \in [ProjectIds -> ProjectState] /\ run \in [Callers -> RunState] /\ RunInv(c) /\ run[c].op # "idle" /\ run[c].end = "none"
  BY DEF Railway!Look, RailwayInv, Railway!Busy
<1>2. Changes(c)
  BY <1>1 DEF Changes, Born, Aged, Spared
<1>3. CASE IsCreate(c) /\ Railway!Named(run[c].name) = {} /\ run' = [run EXCEPT ![c].at = 1]
  <2>1. /\ run'[c].at = 1 /\ run'[c].op = run[c].op /\ run'[c].name = run[c].name /\ run'[c].alone = run[c].alone
        /\ run'[c].id = run[c].id /\ run'[c].end = "none"
        /\ run' \in [Callers -> RunState] /\ \A d \in Callers \ {c} : run'[d] = run[d]
    BY <1>1, <1>3 DEF RunState
  <2>2. run[c].id = 0
    BY <1>1, <1>3 DEF RunInv, IsCreate
  <2>3. GoesAs(c)
    BY <1>1, <1>3, <2>1 DEF GoesAs
  <2>4. RunInv(c)'
    BY <1>1, <1>3, <2>1, <2>2 DEF RunInv, IsCreate
  <2>5. ASSUME run[c].alone PROVE AloneInv(c)'
    <3>1. \A d \in Callers : Rivals(c, d) => ~Railway!Busy(d)
      BY <1>1, <1>3, <2>5 DEF RailwayInv, AloneInv
    <3>2. \A d \in Callers : Rivals(c, d)' => ~(Railway!Busy(d)')
      BY <2>1, <3>1 DEF Rivals, Railway!Busy, IsCreate
    <3>3. (Railway!Named(run[c].name))' = {}
      BY <1>1, <1>3, <2>1 DEF Railway!Named, Railway!Live
    <3>4. QED
      BY <2>1, <2>2, <3>2, <3>3 DEF AloneInv
  <2>6. QED
    BY <1>2, <2>3, <2>4, <2>5, MovesOn
<1>4. CASE ~IsCreate(c) /\ \E i \in Railway!Named(run[c].name) : run' = [run EXCEPT ![c].at = 1, ![c].id = i]
  <2>1. PICK i \in Railway!Named(run[c].name) : run' = [run EXCEPT ![c].at = 1, ![c].id = i]
    BY <1>4
  <2>2. i \in 0..MaxProjects
    BY RailwayAssumption DEF Railway!Named, Railway!Live, Railway!Ids
  <2>3. /\ run'[c].at = 1 /\ run'[c].op = run[c].op /\ run'[c].name = run[c].name /\ run'[c].alone = run[c].alone
        /\ run'[c].end = "none"
        /\ run' \in [Callers -> RunState] /\ \A d \in Callers \ {c} : run'[d] = run[d]
    <3> DEFINE r == [run[c] EXCEPT !.at = 1, !.id = i]
    <3>1. r \in RunState /\ r.at = 1 /\ r.op = run[c].op /\ r.name = run[c].name /\ r.alone = run[c].alone /\ r.end = "none"
      <4>1. run[c] \in RunState /\ 1 \in 0..9 /\ i \in 0..MaxProjects
        BY <1>1, <2>2
      <4>2. QED
        BY <1>1, <4>1 DEF RunState
    <3>2. run' = [run EXCEPT ![c] = r]
      BY <1>1, <2>1 DEF RunState
    <3> HIDE DEF r
    <3>3. QED
      BY <1>1, <3>1, <3>2
  <2>4. GoesAs(c) /\ RunInv(c)'
    BY <1>1, <1>4, <2>3 DEF GoesAs, RunInv, IsCreate
  <2>5. QED
    BY <1>2, <1>4, <2>4, MovesOn
<1>5. CASE run' = [run EXCEPT ![c].end = "refused"]
  <2>1. /\ run'[c].at = 0 /\ run'[c].op = run[c].op /\ run'[c].name = run[c].name /\ run'[c].alone = run[c].alone
        /\ run'[c].id = run[c].id /\ run'[c].end = "refused"
        /\ run' \in [Callers -> RunState] /\ \A d \in Callers \ {c} : run'[d] = run[d]
    BY <1>1, <1>5 DEF RunState
  <2>2. IsCreate(c) => run[c].id = 0
    BY <1>1 DEF RunInv, IsCreate
  <2>3. GoesAs(c)
    BY <1>1, <2>1 DEF GoesAs
  <2>4. RunInv(c)'
    BY <1>1, <2>1, <2>2 DEF RunInv, IsCreate
  <2>5. IsCreate(c) => AloneInv(c)'
    BY <2>1, <2>2 DEF AloneInv, Railway!Busy
  <2>6. QED
    BY <1>2, <2>3, <2>4, <2>5, MovesOn
<1>6. QED
  BY <1>3, <1>4, <1>5 DEF Railway!Look, IsCreate

(* A process ends: its create promises nothing more.                        *)
LEMMA EndStep ==
  ASSUME RailwayInv, NEW c \in Callers, NEW end \in {"failed", "died"}, Railway!Busy(c),
         run' = [run EXCEPT ![c].end = end], Changes(c)
  PROVE  RailwayInv'
<1>1. /\ project \in [ProjectIds -> ProjectState] /\ run \in [Callers -> RunState] /\ RunInv(c) /\ run[c].op # "idle" /\ run[c].end = "none"
  BY DEF RailwayInv, Railway!Busy
<1>2. /\ run'[c].at = run[c].at /\ run'[c].op = run[c].op /\ run'[c].name = run[c].name /\ run'[c].alone = run[c].alone
      /\ run'[c].id = run[c].id /\ run'[c].end = end
      /\ run' \in [Callers -> RunState] /\ \A d \in Callers \ {c} : run'[d] = run[d]
  BY <1>1 DEF RunState
<1>3. GoesAs(c)
  BY <1>1, <1>2 DEF GoesAs
<1>4. IsCreate(c) /\ run[c].id # 0 => /\ run[c].id \in ProjectIds /\ project[run[c].id].state # "unborn" /\ project[run[c].id].name = run[c].name
                                     /\ project'[run[c].id].state # "unborn" /\ project'[run[c].id].name = run[c].name
  <2>1. IsCreate(c) /\ run[c].id # 0 => /\ run[c].id \in ProjectIds /\ project[run[c].id].state # "unborn" /\ project[run[c].id].name = run[c].name
    BY <1>1, RailwayAssumption DEF RunState, ProjectIds, Railway!Ids, RunInv, IsCreate
  <2>2. QED
    BY <2>1 DEF Changes, Aged
<1>5. RunInv(c)'
  BY <1>1, <1>2, <1>4 DEF RunInv, IsCreate
<1>6. ASSUME IsCreate(c), run[c].alone PROVE AloneInv(c)'
  <2>1. AloneInv(c)
    BY <1>6 DEF RailwayInv
  <2>2. ~(Railway!Busy(c)') /\ ~(run'[c].end \in {"none", "succeeded"})
    BY <1>2 DEF Railway!Busy
  <2>3. run'[c].id # 0 => \A d \in Callers : c # d /\ IsCreate(d)' => run'[d].id # run'[c].id
    BY <1>2, <2>1 DEF AloneInv, IsCreate
  <2>4. run'[c].id # 0 => \A d \in Callers : Rivals(c, d)' /\ Railway!Busy(d)' /\ run'[d].at > 0 => project'[run'[c].id].state # "live"
    <3>1. \A d \in Callers : Rivals(c, d)' /\ Railway!Busy(d)' /\ run'[d].at > 0 => Rivals(c, d) /\ Railway!Busy(d) /\ run[d].at > 0
      BY <1>2 DEF Rivals, IsCreate, Railway!Busy
    <3>2. run[c].id # 0 /\ project'[run[c].id].state = "live" => project[run[c].id].state = "live"
      BY <1>4, <1>6 DEF Changes, Aged
    <3>3. QED
      BY <1>2, <2>1, <3>1, <3>2 DEF AloneInv
  <2>5. QED
    BY <2>2, <2>3, <2>4 DEF AloneInv
<1>7. QED
  BY <1>3, <1>5, <1>6, MovesOn

(* ... and so does a call that changes them, or fails.                      *)
LEMMA CallStep == ASSUME RailwayInv, NEW c \in Callers, Railway!Call(c) PROVE RailwayInv'
<1>1. PICK i \in Railway!Targets(c) : Railway!Effect(c, i) /\ Railway!Onward(c, i)
  BY DEF Railway!Call
<1>2. /\ Railway!Busy(c) /\ run[c].at > 0 /\ project \in [ProjectIds -> ProjectState] /\ run \in [Callers -> RunState] /\ RunInv(c)
      /\ run[c].op # "idle" /\ run[c].end = "none" /\ ProjectIds = 1..MaxProjects /\ MaxProjects \in Nat
  BY RailwayAssumption DEF Railway!Call, RailwayInv, Railway!Busy, ProjectIds, Railway!Ids
<1>3. Changes(c)
  BY <1>2, <1>1, CallChanges
<1>4. /\ i \in ProjectIds /\ project' \in [ProjectIds -> ProjectState] /\ \A j \in ProjectIds \ {i} : project'[j] = project[j]
      /\ IsCreate(c) /\ run[c].at = 1 => project[i].state = "unborn"
      /\ IsCreate(c) /\ run[c].at = 2 => i \in Railway!Named(run[c].name)
      /\ IsCreate(c) /\ run[c].at > 2 => i = run[c].id
      /\ ~IsCreate(c) \/ run[c].at > 1 => /\ project[i].state = "live"
                                          /\ project'[i] = Railway!Changed(c, Railway!Step(c), project[i])
  BY <1>2, <1>1, EffectDoes
<1>5. /\ IsCreate(c) => /\ run[c].at \in 1..8 /\ Len(Railway!Steps(run[c].op)) = 8
                        /\ Railway!Step(c) = <<"init", "describe", "postgres", "redis", "gateway", "variables", "domain", "deploy">>[run[c].at]
      /\ ~IsCreate(c) => run[c].at = 1 /\ Len(Railway!Steps(run[c].op)) = 1
  BY <1>2, NextCall
<1>6. /\ run'[c].at = run[c].at + 1 /\ run'[c].op = run[c].op /\ run'[c].name = run[c].name /\ run'[c].alone = run[c].alone
      /\ run'[c].id = IF Railway!Step(c) = "init" THEN 0 ELSE i
      /\ run'[c].end = IF run[c].at = Len(Railway!Steps(run[c].op)) THEN "succeeded" ELSE "none"
      /\ run' \in [Callers -> RunState] /\ \A d \in Callers \ {c} : run'[d] = run[d]
  <2> DEFINE r == [run[c] EXCEPT !.at = run[c].at + 1, !.id = IF Railway!Step(c) = "init" THEN 0 ELSE i,
                                 !.end = IF run[c].at = Len(Railway!Steps(run[c].op)) THEN "succeeded" ELSE "none"]
  <2>1. /\ r \in RunState /\ r.at = run[c].at + 1 /\ r.op = run[c].op /\ r.name = run[c].name /\ r.alone = run[c].alone
        /\ r.id = IF Railway!Step(c) = "init" THEN 0 ELSE i
        /\ r.end = IF run[c].at = Len(Railway!Steps(run[c].op)) THEN "succeeded" ELSE "none"
    <3>1. run[c].at + 1 \in 0..9 /\ i \in 0..MaxProjects /\ 0 \in 0..MaxProjects /\ run[c] \in RunState
      BY <1>2, <1>4, <1>5
    <3>2. QED
      BY <3>1 DEF RunState
  <2>2. run' = [run EXCEPT ![c] = r]
    BY <1>2, <1>1 DEF Railway!Onward, RunState
  <2> HIDE DEF r
  <2>3. QED
    BY <1>2, <2>1, <2>2
<1>7. CASE ~IsCreate(c)
  <2>1. GoesAs(c) /\ RunInv(c)'
    BY <1>2, <1>5, <1>6, <1>7 DEF GoesAs, RunInv, IsCreate
  <2>2. QED
    BY <1>3, <1>7, <2>1, MovesOn
<1>8. CASE IsCreate(c)
  <2>1. Railway!Step(c) = "init" <=> run[c].at = 1
    BY <1>5, <1>8
  <2>2. run[c].id = 0 <=> run[c].at <= 2
    BY <1>2, <1>8 DEF RunInv, IsCreate
  <2>3. run'[c].id = IF run[c].at = 1 THEN 0 ELSE i
    BY <1>6, <2>1
  <2>4. run[c].at > 1 => project[i].state # "unborn" /\ project[i].name = run[c].name
    <3>1. run[c].at = 2 => project[i].name = run[c].name
      BY <1>4, <1>8 DEF Railway!Named
    <3>2. run[c].at > 2 => project[i].name = run[c].name
      BY <1>2, <1>4, <1>8, <2>2, <1>5 DEF RunInv, IsCreate
    <3>3. QED
      BY <1>4, <1>5, <1>8, <3>1, <3>2
  <2>5. GoesAs(c)
    <3>1. run'[c].id # run[c].id => run[c].at = 2 /\ run'[c].id \in Railway!Named(run[c].name)
      BY <1>4, <1>5, <1>8, <2>2, <2>3
    <3>2. QED
      BY <1>2, <1>6, <1>8, <3>1 DEF GoesAs
  <2>6. RunInv(c)'
    <3>1. run[c].at > 1 => project'[i].state # "unborn" /\ project'[i].name = run[c].name
      BY <1>3, <1>4, <2>4 DEF Changes, Aged
    <3>2. i # 0 /\ run[c].at \in 1..8 /\ run'[c].at = run[c].at + 1 /\ run'[c].end = IF run[c].at = 8 THEN "succeeded" ELSE "none"
      <4>1. i # 0
        BY <1>2, <1>4
      <4>2. run[c].at \in 1..8 /\ Len(Railway!Steps(run[c].op)) = 8
        BY <1>5, <1>8
      <4>3. QED
        BY <1>6, <4>1, <4>2
    <3>3. /\ run'[c].op = "create" /\ run'[c].name = run[c].name
          /\ run'[c].id = 0 <=> run'[c].at <= 2
          /\ run'[c].end = "none" => run'[c].at <= 8
          /\ run'[c].end = "succeeded" => run'[c].at = 9
          /\ run'[c].id # 0 => run'[c].id = i /\ run[c].at > 1
      BY <1>6, <1>8, <2>3, <3>2 DEF IsCreate
    <3>4. QED
      BY <3>1, <3>3 DEF RunInv
  <2>7. ASSUME run[c].alone PROVE AloneInv(c)'
    <3>1. AloneInv(c)
      BY <1>8, <2>7 DEF RailwayInv
    <3>2. \A d \in Callers : Rivals(c, d)' => ~(Railway!Busy(d)')
      <4>1. \A d \in Callers : Rivals(c, d)' => Rivals(c, d) /\ d # c
        BY <1>6 DEF Rivals, IsCreate
      <4>2. \A d \in Callers : Rivals(c, d) => ~Railway!Busy(d)
        BY <1>2, <3>1 DEF AloneInv
      <4>3. QED
        BY <1>6, <4>1, <4>2 DEF Railway!Busy
    <3>3. run'[c].at # 1
      BY <1>5, <1>6, <1>8
    <3>4. run'[c].at = 2 => \A d \in Callers : c # d /\ IsCreate(d)' => run'[d].id \notin (Railway!Named(run[c].name))'
      <4> SUFFICES ASSUME run[c].at = 1, NEW d \in Callers, c # d, IsCreate(d), run[d].id \in (Railway!Named(run[c].name))' PROVE FALSE
        BY <1>5, <1>6, <1>8 DEF IsCreate
      <4>1. run[d].id \in ProjectIds /\ project'[run[d].id].state = "live" /\ project'[run[d].id].name = run[c].name
        BY <1>6 DEF Railway!Named, Railway!Live, ProjectIds, Railway!Ids
      <4>2. run[d].id # 0 /\ RunInv(d)
        BY <1>2, <4>1 DEF RailwayInv
      <4>3. project[run[d].id].state # "unborn" /\ run[d].id # i
        BY <1>4, <1>8, <4>2 DEF RunInv, IsCreate
      <4>4. run[d].id \in Railway!Named(run[c].name)
        BY <1>4, <4>1, <4>3 DEF Railway!Named, Railway!Live, ProjectIds
      <4>5. QED
        BY <1>2, <3>1, <4>4 DEF AloneInv
    <3>5. run'[c].id # 0 => \A d \in Callers : c # d /\ IsCreate(d)' => run'[d].id # run'[c].id
      <4> SUFFICES ASSUME run[c].at > 1, NEW d \in Callers, c # d, IsCreate(d), run[d].id = i PROVE FALSE
        BY <1>5, <1>6, <1>8, <2>3 DEF IsCreate
      <4>1. CASE run[c].at = 2
        BY <1>2, <1>4, <1>8, <3>1, <4>1 DEF AloneInv
      <4>2. CASE run[c].at > 2
        BY <1>4, <1>8, <2>2, <3>1, <4>2, <1>5 DEF AloneInv
      <4>3. QED
        BY <4>1, <4>2, <1>5, <1>8
    <3>6. run'[c].id # 0 => HasMade(c)'
      <4> SUFFICES ASSUME run[c].at > 1 PROVE HasMade(c)'
        BY <1>5, <1>6, <1>8, <2>3
      <4>1. project[i] \in ProjectState /\ project[i].state = "live" /\ project'[i] = Railway!Changed(c, Railway!Step(c), project[i])
        BY <1>2, <1>4
      <4>2. run[c].at > 2 => HasMade(c) /\ i = run[c].id
        BY <1>2, <1>4, <1>5, <1>8, <2>2, <3>1 DEF AloneInv
      <4>3. run'[c].id = i /\ run'[c].at = run[c].at + 1 /\ run[c].at \in 2..8
        BY <1>5, <1>6, <1>8, <2>3
      <4> DEFINE p == project[i]  q == project'[i]  step == Railway!Step(c)
      <4>4. /\ p.services \subseteq q.services /\ (p.domain => q.domain) /\ q.state = "live"
            /\ q.vars = IF step = "variables" THEN c ELSE p.vars
            /\ q.deployed = IF step = "deploy" THEN p.vars ELSE p.deployed
            /\ step \in Railway!Services => step \in q.services
            /\ step = "domain" => q.domain
        <5>1. step \in {"describe", "postgres", "redis", "gateway", "variables", "domain", "deploy"}
          BY <1>5, <1>8, <4>3
        <5>2. QED
          BY <4>1, <5>1, ChangedKeeps
      <4>5. step = <<"init", "describe", "postgres", "redis", "gateway", "variables", "domain", "deploy">>[run[c].at]
        BY <1>5, <1>8
      <4>6. HasMade(c)' <=> /\ q.state \in {"live", "forced"}
                            /\ run[c].at > 2 => "postgres" \in q.services
                            /\ run[c].at > 3 => "redis" \in q.services
                            /\ run[c].at > 4 => "gateway" \in q.services
                            /\ run[c].at > 5 => q.vars = c
                            /\ run[c].at > 6 => q.domain
                            /\ run[c].at > 7 => q.deployed = c
        BY <4>3 DEF HasMade
      <4>7. run[c].at > 2 => /\ run[c].at > 3 => "postgres" \in p.services
                             /\ run[c].at > 4 => "redis" \in p.services
                             /\ run[c].at > 5 => "gateway" \in p.services
                             /\ run[c].at > 6 => p.vars = c
                             /\ run[c].at > 7 => p.domain
        BY <4>2 DEF HasMade
      <4> HIDE DEF p, q, step
      <4>8. /\ run[c].at > 2 => "postgres" \in q.services
            /\ run[c].at > 3 => "redis" \in q.services
            /\ run[c].at > 4 => "gateway" \in q.services
        BY <4>3, <4>4, <4>5, <4>7 DEF Railway!Services
      <4>9. /\ run[c].at > 5 => q.vars = c
            /\ run[c].at > 6 => q.domain
            /\ run[c].at > 7 => q.deployed = c
        BY <4>3, <4>4, <4>5, <4>7
      <4>10. QED
        BY <4>4, <4>6, <4>8, <4>9
    <3>7. QED
      BY <1>6, <3>2, <3>3, <3>4, <3>5, <3>6 DEF AloneInv
  <2>8. QED
    BY <1>3, <2>5, <2>6, <2>7, MovesOn
<1>9. QED
  BY <1>7, <1>8

(* A create that starts beside others of its name leaves none of them alone. *)
LEMMA StartStep ==
  ASSUME RailwayInv, NEW c \in Callers, NEW op \in Railway!Ops, NEW n \in Names, Railway!Start(c, op, n)
  PROVE  RailwayInv'
<1> DEFINE rivals == {d \in Callers : Railway!Busy(d) /\ run[d].op = "create" /\ run[d].name = n}
<1>1. project \in [ProjectIds -> ProjectState] /\ run \in [Callers -> RunState] /\ (\A d \in Callers : RunInv(d)) /\ run[c] = Railway!Idle /\ UNCHANGED project
  BY DEF Railway!Start, RailwayInv, RunInv
<1>2. run' = [d \in Callers |->
        IF d = c THEN [Railway!Idle EXCEPT !.op = op, !.name = n, !.alone = op # "create" \/ rivals = {}]
        ELSE IF d \in rivals /\ op = "create" THEN [run[d] EXCEPT !.alone = FALSE] ELSE run[d]]
  BY DEF Railway!Start
<1>3. /\ run'[c] \in RunState /\ run'[c].op = op /\ run'[c].name = n /\ run'[c].at = 0 /\ run'[c].id = 0 /\ run'[c].end = "none"
      /\ run'[c].alone => op # "create" \/ rivals = {}
  <2> DEFINE alone == op # "create" \/ rivals = {}
  <2>1. alone \in BOOLEAN /\ (alone => op # "create" \/ rivals = {})
    OBVIOUS
  <2>2. run'[c] = [Railway!Idle EXCEPT !.op = op, !.name = n, !.alone = alone]
    BY <1>2
  <2> HIDE DEF alone, rivals
  <2>3. run'[c] = [op |-> op, name |-> n, at |-> 0, id |-> 0, alone |-> alone, end |-> "none"]
    BY <2>2 DEF Railway!Idle
  <2>4. run'[c] \in RunState
    BY <2>1, <2>3, RailwayAssumption DEF RunState, Railway!Ops
  <2>5. QED
    BY <2>1, <2>3, <2>4
<1>4. \A d \in Callers \ {c} : /\ run'[d] \in RunState /\ run'[d].op = run[d].op /\ run'[d].name = run[d].name /\ run'[d].at = run[d].at
                               /\ run'[d].id = run[d].id /\ run'[d].end = run[d].end
                               /\ run'[d].alone => run[d].alone /\ (op = "create" => d \notin rivals)
                               /\ run[d].op = "idle" => run'[d] = run[d]
  <2> SUFFICES ASSUME NEW d \in Callers \ {c}
               PROVE  /\ run'[d] \in RunState /\ run'[d].op = run[d].op /\ run'[d].name = run[d].name /\ run'[d].at = run[d].at
                      /\ run'[d].id = run[d].id /\ run'[d].end = run[d].end
                      /\ run'[d].alone => run[d].alone /\ (op = "create" => d \notin rivals)
                      /\ run[d].op = "idle" => run'[d] = run[d]
    OBVIOUS
  <2>1. run[d] \in RunState /\ (d \in rivals => run[d].op = "create")
    BY <1>1
  <2>2. run'[d] = IF d \in rivals /\ op = "create" THEN [run[d] EXCEPT !.alone = FALSE] ELSE run[d]
    BY <1>2
  <2> HIDE DEF rivals
  <2>3. CASE d \in rivals /\ op = "create"
    <3>1. run'[d] = [run[d] EXCEPT !.alone = FALSE]
      BY <2>2, <2>3
    <3>2. run'[d] \in RunState /\ run'[d].op = run[d].op /\ run'[d].name = run[d].name /\ run'[d].at = run[d].at
      BY <2>1, <3>1 DEF RunState
    <3>3. run'[d].id = run[d].id /\ run'[d].end = run[d].end /\ ~run'[d].alone
      BY <2>1, <3>1 DEF RunState
    <3>4. QED
      BY <2>1, <2>3, <3>2, <3>3
  <2>4. CASE ~(d \in rivals /\ op = "create")
    BY <2>1, <2>2, <2>4
  <2>5. QED
    BY <2>3, <2>4
<1>5. project' \in [ProjectIds -> ProjectState] /\ run' \in [Callers -> RunState]
  <2>1. \A d \in Callers : run'[d] \in RunState
    BY <1>3, <1>4
  <2>2. QED
    BY <1>1, <1>2, <2>1
<1>6. \A d \in Callers : RunInv(d)'
  <2>1. RunInv(c)'
    BY <1>3 DEF RunInv, Railway!Ops
  <2>2. \A d \in Callers \ {c} : RunInv(d)'
    <3> SUFFICES ASSUME NEW d \in Callers \ {c} PROVE RunInv(d)'
      OBVIOUS
    <3>1. CASE run[d].op = "idle"
      <4>1. run'[d] = Railway!Idle /\ Railway!Idle.op = "idle"
        BY <1>1, <1>4, <3>1 DEF RunInv, Railway!Idle
      <4>2. QED
        BY <4>1 DEF RunInv, Railway!Idle
    <3>2. CASE run[d].op # "idle"
      BY <1>1, <1>4, <3>2 DEF RunInv
    <3>3. QED
      BY <3>1, <3>2
  <2>3. QED
    BY <2>1, <2>2
<1>7. \A d \in Callers : IsCreate(d)' /\ run'[d].alone => AloneInv(d)'
  <2>1. \A d \in Callers \ {c} : (IsCreate(d)' <=> IsCreate(d)) /\ (Railway!Busy(d)' <=> Railway!Busy(d))
    BY <1>4 DEF IsCreate, Railway!Busy
  <2>2. ASSUME IsCreate(c)', run'[c].alone PROVE AloneInv(c)'
    <3>1. rivals = {}
      BY <1>3, <2>2 DEF IsCreate
    <3>2. \A d \in Callers : Rivals(c, d)' => ~(Railway!Busy(d)')
      <4>1. \A d \in Callers : Rivals(c, d)' => d # c /\ IsCreate(d) /\ run[d].name = n
        BY <1>3, <1>4, <2>1 DEF Rivals
      <4>2. QED
        BY <2>1, <3>1, <4>1 DEF IsCreate
    <3>3. QED
      BY <1>3, <3>2 DEF AloneInv
  <2>3. ASSUME NEW d \in Callers \ {c}, IsCreate(d)', run'[d].alone PROVE AloneInv(d)'
    <3>1. AloneInv(d) /\ IsCreate(d) /\ (op = "create" => d \notin rivals)
      BY <1>4, <2>1, <2>3 DEF RailwayInv
    <3>2. Railway!Busy(d)' => \A e \in Callers : Rivals(d, e)' => ~(Railway!Busy(e)')
      <4> SUFFICES ASSUME Railway!Busy(d), NEW e \in Callers, Rivals(d, e)', Railway!Busy(e)' PROVE FALSE
        BY <2>1
      <4>1. CASE e = c
        <5>1. op = "create" /\ run[d].name = n
          BY <1>3, <1>4, <4>1 DEF Rivals, IsCreate
        <5>2. d \in rivals
          BY <3>1, <5>1 DEF IsCreate
        <5>3. QED
          BY <3>1, <5>1, <5>2
      <4>2. CASE e # c
        <5>1. Rivals(d, e) /\ Railway!Busy(e)
          BY <1>4, <2>1, <4>2 DEF Rivals
        <5>2. QED
          BY <3>1, <5>1 DEF AloneInv
      <4>3. QED
        BY <4>1, <4>2
    <3>3. \A m : (Railway!Named(m))' = Railway!Named(m)
      BY <1>1 DEF Railway!Named, Railway!Live
    <3>4. Railway!Busy(d)' /\ run'[d].at = 1 => (Railway!Named(run[d].name))' = {}
      <4>1. Railway!Busy(d)' /\ run'[d].at = 1 => Railway!Named(run[d].name) = {}
        BY <1>4, <2>1, <3>1 DEF AloneInv
      <4>2. (Railway!Named(run[d].name))' = Railway!Named(run[d].name)
        BY <1>1, <1>4 DEF Railway!Named, Railway!Live
      <4>3. QED
        BY <4>1, <4>2
    <3>5. Railway!Busy(d)' /\ run'[d].at = 2 => \A e \in Callers : d # e /\ IsCreate(e)' => run'[e].id \notin (Railway!Named(run[d].name))'
      <4>1. (Railway!Named(run[d].name))' = Railway!Named(run[d].name) /\ 0 \notin Railway!Named(run[d].name)
        BY <1>1, <1>4 DEF Railway!Named, Railway!Live, Railway!Ids
      <4>2. Railway!Busy(d)' /\ run'[d].at = 2 => \A e \in Callers \ {c} : d # e /\ IsCreate(e) => run[e].id \notin Railway!Named(run[d].name)
        BY <1>4, <2>1, <3>1 DEF AloneInv
      <4>3. QED
        BY <1>3, <1>4, <2>1, <4>1, <4>2
    <3>6. run'[d].id # 0 => \A e \in Callers : d # e /\ IsCreate(e)' => run'[e].id # run'[d].id
      BY <1>3, <1>4, <2>1, <3>1 DEF AloneInv
    <3>7. run'[d].id # 0 => \A e \in Callers : Rivals(d, e)' /\ Railway!Busy(e)' /\ run'[e].at > 0 => project'[run'[d].id].state # "live"
      <4> SUFFICES ASSUME run[d].id # 0, NEW e \in Callers, Rivals(d, e)', Railway!Busy(e)', run'[e].at > 0 PROVE project[run[d].id].state # "live"
        BY <1>1, <1>4
      <4>1. Rivals(d, e) /\ Railway!Busy(e) /\ run[e].at > 0
        BY <1>3, <1>4, <2>1 DEF Rivals
      <4>2. QED
        BY <3>1, <4>1 DEF AloneInv
    <3>8. run'[d].end \in {"none", "succeeded"} /\ run'[d].id # 0 => HasMade(d)'
      <4>1. HasMade(d)' <=> HasMade(d)
        BY <1>1, <1>4 DEF HasMade
      <4>2. QED
        BY <1>4, <3>1, <4>1 DEF AloneInv
    <3>9. QED
      BY <1>4, <3>2, <3>4, <3>5, <3>6, <3>7, <3>8 DEF AloneInv
  <2>4. QED
    BY <2>2, <2>3
<1>8. Railway!OneProjectPerName'
  <2>1. (\A d \in Callers : run'[d].alone) => \A d \in Callers : run[d].alone
    BY <1>1, <1>4 DEF Railway!Idle
  <2>2. QED
    BY <1>1, <2>1 DEF RailwayInv, Railway!OneProjectPerName, Railway!Live
<1>9. QED
  BY <1>5, <1>6, <1>7, <1>8 DEF RailwayInv

(* A create that no other of its name overlaps has done, of its steps, all  *)
(* those it is past, and the project it made is its own.                    *)
THEOREM RailwayInvariance == Spec => []RailwayInv
<1>1. Init => RailwayInv
  <2> SUFFICES ASSUME Init PROVE RailwayInv
    OBVIOUS
  <2>1. project = [i \in ProjectIds |-> Railway!Unborn] /\ run = [c \in Callers |-> Railway!Idle]
    BY DEF Init, Railway!PrInit, ProjectIds
  <2>2. Railway!Unborn \in ProjectState /\ Railway!Unborn.state = "unborn"
    BY RailwayAssumption DEF Railway!Unborn, Railway!NoKeys, ProjectState
  <2>3. Railway!Idle \in RunState /\ Railway!Idle.op = "idle"
    BY RailwayAssumption DEF Railway!Idle, RunState
  <2>4. project \in [ProjectIds -> ProjectState] /\ run \in [Callers -> RunState] /\ Railway!Live = {}
    BY <2>1, <2>2, <2>3 DEF Railway!Live, ProjectIds
  <2>5. \A c \in Callers : RunInv(c) /\ ~IsCreate(c)
    BY <2>1, <2>3 DEF RunInv, IsCreate
  <2>6. QED
    BY <2>4, <2>5 DEF RailwayInv, Railway!OneProjectPerName
<1>2. RailwayInv /\ [Next]_vars => RailwayInv'
  <2> SUFFICES ASSUME RailwayInv, [Next]_vars PROVE RailwayInv'
    OBVIOUS
  <2>1. CASE UNCHANGED railwayVars
    BY <2>1 DEF railwayVars, RailwayInv, RunInv, AloneInv, HasMade, IsCreate, Rivals, Railway!Busy,
       Railway!Named, Railway!Live, Railway!OneProjectPerName, Railway!Idle
  <2>2. ASSUME NEW c \in Callers, NEW op \in Railway!Ops, NEW n \in Names, Railway!Start(c, op, n)
        PROVE  RailwayInv'
    BY <2>2, StartStep
  <2>3. ASSUME NEW c \in Callers, Railway!Look(c) PROVE RailwayInv'
    BY <2>3, LookStep
  <2>4. ASSUME NEW c \in Callers, Railway!Call(c) PROVE RailwayInv'
    BY <2>4, CallStep
  <2>5. ASSUME NEW c \in Callers, Railway!Fail(c) PROVE RailwayInv'
    <3>1. Changes(c)
      BY <2>5, CallChanges DEF Railway!Fail
    <3>2. QED
      BY <2>5, <3>1, EndStep DEF Railway!Fail
  <2>6. ASSUME NEW c \in Callers, Railway!Die(c) PROVE RailwayInv'
    <3>1. Changes(c)
      BY <2>6 DEF Railway!Die, Changes, Born, Aged, Spared, RailwayInv
    <3>2. QED
      BY <2>6, <3>1, EndStep DEF Railway!Die
  <2>7. QED
    BY <2>1, <2>2, <2>3, <2>4, <2>5, <2>6, RailwaySteps DEF Railway!PrNext
<1>3. QED
  BY <1>1, <1>2, PTL DEF Spec

(* The instance of a create that reported success, and that no other        *)
(* create of the name overlapped, is whole; and as long as no creates       *)
(* overlapped, no two projects share a name (provisioner.py).               *)
THEOREM InstancesAreTheirs == Spec => []CreateTells
<1>1. RailwayInv => CreateTells
  <2> SUFFICES ASSUME RailwayInv PROVE Railway!CreateTells
    BY DEF CreateTells, RailwayInv
  <2> SUFFICES ASSUME NEW c \in Callers, IsCreate(c), run[c].end = "succeeded", run[c].alone
               PROVE  project[run[c].id].state \in {"live", "forced"} /\ Railway!Up(c, run[c].id)
    BY DEF Railway!CreateTells, IsCreate
  <2>1. run[c].at = 9 /\ run[c].id # 0
    BY DEF RailwayInv, RunInv, IsCreate
  <2>2. HasMade(c)
    BY <2>1 DEF RailwayInv, AloneInv
  <2>3. run[c].id \in ProjectIds /\ project[run[c].id].services \subseteq Railway!Services
    <3>1. run[c] \in RunState /\ project \in [ProjectIds -> ProjectState]
      BY DEF RailwayInv
    <3>2. run[c].id \in ProjectIds
      BY <2>1, <3>1, RailwayAssumption DEF RunState, ProjectIds, Railway!Ids
    <3>3. QED
      BY <3>1, <3>2 DEF ProjectState
  <2>4. QED
    BY <2>1, <2>2, <2>3 DEF HasMade, Railway!Up, Railway!Services
<1>2. QED
  BY <1>1, RailwayInvariance, PTL DEF Spec

-----------------------------------------------------------------------------
(* Migrations: what a gateway has found and done stands when others go on.  *)

(* Only a step of a gateway or of its container touches the schema.         *)
LEMMA MigratingSteps == [Next]_vars => Migrating!MgNext \/ UNCHANGED migratingVars
BY DEF Next, vars, aroundVars, Picked

(* A file is in place when all the statements of its text have taken        *)
(* effect, and stands for a gateway when it is recorded as it ships it.     *)
InPlace(f, text) == Migrating!Of(f, text) \subseteq schema
Stands(g, f) == f \in recorded /\ ~Migrating!Edited(g, f)
Texts == {"none", "first", "edited"}
(* A gateway between its first statement and its last.                      *)
AtWork(g)   == gateway[g].at \in {"marker", "seeding", "reading", "script", "recording"}
WorkPlaces == [at : {"down", "up", "failed", "marker", "seeding", "reading", "script", "recording"},
         file : Nat, next : Nat, applied : SUBSET Nat]
(* What a gateway knows is so: it has applied what is in place, and what    *)
(* it found recorded is.                                                    *)
GatewayInv(g) ==
  LET w == gateway[g] IN
  /\ AtWork(g) => sqlite
  /\ w.at \in {"script", "recording"} =>
       /\ w.applied \subseteq recorded
       /\ w.file \in Migrating!Ships(g) /\ \A e \in 1..(w.file - 1) : Stands(g, e)
  /\ w.at = "script" => /\ w.next \in 1..Migrating!Length(w.file, Migrating!Text(g, w.file))
                        /\ \A s \in 1..(w.next - 1) : <<w.file, s>> \in schema
  /\ w.at = "recording" => InPlace(w.file, Migrating!Text(g, w.file))
  /\ w.at = "up" => \A f \in Migrating!Ships(g) : Stands(g, f)
  /\ ~doubtful /\ w.at = "marker" => recorded = {}
  /\ ~doubtful /\ w.at = "seeding" => w.file \in Nat /\ \A f \in 1..Seeded : InPlace(f, "first")
(* Moreover what is recorded is in place, and while nothing is doubtful      *)
(* only one gateway is at work.                                             *)
MigratingInv ==
  /\ sqlite \in BOOLEAN /\ doubtful \in BOOLEAN
  /\ release \in [Gateways -> Migrating!Releases] /\ gateway \in [Gateways -> WorkPlaces]
  /\ recorded \subseteq 1..Len(Files) /\ hashes \in [1..Len(Files) -> Texts]
  /\ <<Marker, 1>> \in schema => 1 \in recorded \/ \A f \in 1..Seeded : InPlace(f, "first")
  /\ ~doubtful => \A f \in recorded : InPlace(f, hashes[f])
  /\ ~doubtful => \A g, h \in Gateways : AtWork(g) /\ AtWork(h) => g = h
  /\ \A g \in Gateways : GatewayInv(g)

(* Where a gateway goes from file f: it is up, at the next file that was not *)
(* done, or stopped by one that was done with another text.                 *)
Turned(g, w, f, done) ==
  /\ w \in WorkPlaces /\ w.at \in {"up", "failed", "script"} /\ w.applied = done
  /\ w.at = "up" => \A e \in Migrating!Ships(g) : e <= f \/ (e \in done /\ ~Migrating!Edited(g, e))
  /\ w.at = "script" => /\ w.file \in Migrating!Ships(g) /\ w.next = 1
                        /\ \A e \in 1..(w.file - 1) : e <= f \/ (e \in done /\ ~Migrating!Edited(g, e))
LEMMA TurnGoes ==
  ASSUME NEW g \in Gateways, release[g].files \in 0..Len(Files), NEW f \in Nat, NEW done \in SUBSET Nat
  PROVE  Turned(g, Migrating!Turn(g, f, done), f, done)
<1> USE DEF Turned
<1> DEFINE todo == {e \in Migrating!Ships(g) : e > f /\ (e \notin done \/ Migrating!Edited(g, e))}
           least == CHOOSE e \in todo : \A d \in todo : e <= d
<1>1. Migrating!Ships(g) = 1..release[g].files
  BY DEF Migrating!Ships
<1>2. CASE todo = {}
  <2>1. Migrating!Turn(g, f, done) = [at |-> "up", file |-> f, next |-> 0, applied |-> done]
    BY <1>2 DEF Migrating!Turn
  <2>2. \A e \in Migrating!Ships(g) : e <= f \/ (e \in done /\ ~Migrating!Edited(g, e))
    BY <1>1, <1>2
  <2>3. QED
    BY <2>1, <2>2, <1>1 DEF WorkPlaces
<1>3. CASE todo # {}
  <2>1. least \in todo /\ \A d \in todo : least <= d
    <3>1. todo \subseteq Nat
      BY <1>1
    <3>2. \E e \in todo : \A d \in todo : e <= d
      BY <1>3, <3>1, LeastElement
    <3>3. QED
      BY <3>2
  <2>2. Migrating!Turn(g, f, done) = IF least \in done THEN [at |-> "failed", file |-> least, next |-> 0, applied |-> done]
                                     ELSE [at |-> "script", file |-> least, next |-> 1, applied |-> done]
    <3>1. Migrating!Turn(g, f, done) =
            IF todo = {} THEN [at |-> "up", file |-> f, next |-> 0, applied |-> done]
            ELSE IF least \in done THEN [at |-> "failed", file |-> least, next |-> 0, applied |-> done]
            ELSE [at |-> "script", file |-> least, next |-> 1, applied |-> done]
      BY Zenon DEF Migrating!Turn
    <3> HIDE DEF todo, least
    <3>2. QED
      BY <1>3, <3>1
  <2>4. least \in Nat /\ least \in Migrating!Ships(g)
    BY <1>1, <2>1
  <2>3. \A e \in 1..(least - 1) : e <= f \/ (e \in done /\ ~Migrating!Edited(g, e))
    <3> HIDE DEF least
    <3>1. \A e \in 1..(least - 1) : e \in Migrating!Ships(g) /\ e \in Nat /\ e < least
      BY <1>1, <2>4
    <3>2. \A e \in 1..(least - 1) : e \notin todo
      <4> HIDE DEF todo
      <4>1. QED
        BY <2>1, <2>4, <3>1
    <3>3. QED
      BY <3>1, <3>2
  <2> HIDE DEF least, todo
  <2>5. CASE least \in done
    BY <2>2, <2>4, <2>5 DEF WorkPlaces
  <2>6. CASE least \notin done
    BY <2>2, <2>3, <2>4, <2>6 DEF WorkPlaces
  <2>7. QED
    BY <2>5, <2>6
<1>4. QED
  BY <1>2, <1>3

(* Every file has statements, whatever its text.                            *)
LEMMA FilesFilled ==
  ASSUME NEW f \in 1..Len(Files), NEW text
  PROVE  /\ Migrating!Length(f, text) \in Nat \ {0}
         /\ Migrating!Of(f, text) = {<<f, s>> : s \in 1..Migrating!Length(f, text)}
<1>1. Files[f] \in Seq({"create", "alter"}) /\ Files[f] # <<>>
  BY MigrationAssumption
<1>2. Len(Files[f]) \in Nat \ {0}
  BY <1>1
<1>3. Migrating!Length(f, text) \in Nat \ {0}
  <2>1. CASE text = "edited"
    BY <1>2, <2>1 DEF Migrating!Length
  <2>2. CASE text # "edited"
    BY <1>2, <2>2 DEF Migrating!Length
  <2>3. QED
    BY <2>1, <2>2
<1>4. QED
  BY <1>3 DEF Migrating!Of

(* The releases are of so many files.                                       *)
LEMMA ReleaseTypes ==
  ASSUME NEW r \in Migrating!Releases PROVE r.files \in 0..Len(Files)
BY DEF Migrating!Releases

(* A new record, and no other, has its hash.                                *)
LEMMA RecordsOne ==
  ASSUME hashes \in [1..Len(Files) -> Texts], recorded \subseteq 1..Len(Files),
         NEW f \in 1..Len(Files), f \notin recorded, NEW text \in {"first", "edited"}, Migrating!Records(f, text)
  PROVE  /\ recorded' = recorded \cup {f} /\ hashes' \in [1..Len(Files) -> Texts] /\ hashes'[f] = text
         /\ \A e \in recorded : hashes'[e] = hashes[e]
BY DEF Migrating!Records, Texts

(* Nothing takes effect back, and nothing is unrecorded or recorded anew.   *)
LEMMA MigratingGrows ==
  ASSUME MigratingInv, Migrating!MgNext
  PROVE  /\ schema \subseteq schema' /\ recorded \subseteq recorded' /\ sqlite' = sqlite
         /\ \A e \in recorded : hashes'[e] = hashes[e]
<1> DEFINE Goal == /\ schema \subseteq schema' /\ recorded \subseteq recorded' /\ sqlite' = sqlite
                   /\ \A e \in recorded : hashes'[e] = hashes[e]
<1>1. hashes \in [1..Len(Files) -> Texts] /\ recorded \subseteq 1..Len(Files)
  BY DEF MigratingInv
<1>2. ASSUME NEW f, NEW text, f \notin recorded, Migrating!Records(f, text)
      PROVE  recorded \subseteq recorded' /\ \A e \in recorded : hashes'[e] = hashes[e]
  BY <1>1, <1>2 DEF Migrating!Records
<1>3. ASSUME NEW f, NEW text, Migrating!Contain(f, text) PROVE Goal
  BY <1>2, <1>3 DEF Migrating!Contain
<1>4. ASSUME NEW g \in Gateways, Migrating!Seed(g) \/ Migrating!Record(g) PROVE Goal
  BY <1>2, <1>4 DEF Migrating!Seed, Migrating!Record
<1>5. ASSUME NEW g \in Gateways, \/ Migrating!Compare(g) \/ Migrating!Unchecked(g) \/ Migrating!Count(g) \/ Migrating!Detect(g)
                                 \/ Migrating!Read(g) \/ Migrating!Statement(g) \/ \E r : Migrating!Restart(g, r)
      PROVE  Goal
  BY <1>5 DEF Migrating!Compare, Migrating!Unchecked, Migrating!Count, Migrating!Detect, Migrating!Read,
     Migrating!Statement, Migrating!Restart
<1> HIDE DEF Goal
<1>6. Goal
  BY <1>3, <1>4, <1>5 DEF Migrating!MgNext
<1>7. QED
  BY <1>6 DEF Goal

(* What stands for a gateway goes on standing.                              *)
LEMMA StandingStays ==
  ASSUME NEW g \in Gateways, release'[g] = release[g], recorded \subseteq recorded',
         \A e \in recorded : hashes'[e] = hashes[e], NEW f, Stands(g, f)
  PROVE  Stands(g, f)'
BY DEF Stands, Migrating!Edited, Migrating!Text

(* What a gateway has found and done stands when others go on.              *)
LEMMA OthersStand ==
  ASSUME MigratingInv,
         NEW g \in Gateways, gateway'[g] = gateway[g], release'[g] = release[g], sqlite' = sqlite,
         schema \subseteq schema', recorded \subseteq recorded', \A e \in recorded : hashes'[e] = hashes[e],
         ~doubtful' => ~doubtful /\ (gateway[g].at = "marker" => recorded' = recorded)
  PROVE  GatewayInv(g)'
<1>1. GatewayInv(g)
  BY DEF MigratingInv
<1>2. \A f : Stands(g, f) => Stands(g, f)'
  BY StandingStays
<1>3. /\ Migrating!Ships(g)' = Migrating!Ships(g) /\ \A f : Migrating!Text(g, f)' = Migrating!Text(g, f)
      /\ (AtWork(g)' <=> AtWork(g)) /\ \A f, text : InPlace(f, text) => InPlace(f, text)'
  BY DEF Migrating!Ships, Migrating!Text, AtWork, InPlace, Migrating!Of, Migrating!Length
<1>4. \A f, text : Migrating!Length(f, text)' = Migrating!Length(f, text)
  BY DEF Migrating!Length
<1>5. QED
  BY <1>1, <1>2, <1>3, <1>4 DEF GatewayInv

(* A gateway that goes on is the only one that changes.                     *)
LEMMA FileGoes ==
  ASSUME gateway \in [Gateways -> WorkPlaces], NEW g \in Gateways,
         NEW where \in {"down", "up", "failed", "marker", "seeding", "reading", "script", "recording"},
         Migrating!Goes(g, where)
  PROVE  /\ gateway' \in [Gateways -> WorkPlaces] /\ \A h \in Gateways \ {g} : gateway'[h] = gateway[h]
         /\ gateway'[g].at = where /\ gateway'[g].file = gateway[g].file /\ gateway'[g].next = gateway[g].next
         /\ gateway'[g].applied = gateway[g].applied
BY DEF WorkPlaces, Migrating!Goes

(* A step of one gateway.                                                   *)
OneMoves(g) ==
  /\ UNCHANGED release /\ gateway' \in [Gateways -> WorkPlaces] /\ doubtful' \in BOOLEAN
  /\ hashes' \in [1..Len(Files) -> Texts]
  /\ \A h \in Gateways \ {g} : gateway'[h] = gateway[h]
  /\ ~doubtful' => ~doubtful
  /\ AtWork(g)' => AtWork(g) \/ \A h \in Gateways \ {g} : ~doubtful' => ~AtWork(h)
  /\ recorded' # recorded => gateway[g].at \in {"seeding", "recording"}
(* What is recorded is in place; an old schema has its seeded files.        *)
OnlyPlaced ==
  /\ recorded \subseteq 1..Len(Files)
  /\ <<Marker, 1>> \in schema => 1 \in recorded \/ \A f \in 1..Seeded : InPlace(f, "first")
  /\ ~doubtful => \A f \in recorded : InPlace(f, hashes[f])
(* A step of a gateway keeps the invariant, ...                             *)
LEMMA GatewayStep ==
  ASSUME MigratingInv, NEW g \in Gateways, Migrating!MgNext,
         \/ Migrating!Compare(g) \/ Migrating!Unchecked(g) \/ Migrating!Count(g) \/ Migrating!Detect(g)
         \/ Migrating!Seed(g) \/ Migrating!Read(g) \/ Migrating!Statement(g) \/ Migrating!Record(g)
  PROVE  OneMoves(g) /\ OnlyPlaced' /\ GatewayInv(g)'
<1> USE DEF Migrating!At, AtWork
<1>1. /\ GatewayInv(g) /\ gateway[g] \in WorkPlaces /\ release[g].files \in 0..Len(Files)
      /\ Migrating!Ships(g) = 1..release[g].files /\ \A h \in Gateways : gateway[h] \in WorkPlaces
      /\ gateway \in [Gateways -> WorkPlaces] /\ doubtful \in BOOLEAN /\ recorded \subseteq 1..Len(Files)
      /\ hashes \in [1..Len(Files) -> Texts] /\ OnlyPlaced
  <2>1. release[g] \in Migrating!Releases
    BY DEF MigratingInv
  <2>2. QED
    BY <2>1, ReleaseTypes DEF MigratingInv, Migrating!Ships, OnlyPlaced
<1>2. schema \subseteq schema' /\ recorded \subseteq recorded' /\ sqlite' = sqlite /\ \A e \in recorded : hashes'[e] = hashes[e]
  BY MigratingGrows
<1>3. \A f, text : InPlace(f, text) => InPlace(f, text)'
  BY <1>2 DEF InPlace, Migrating!Of, Migrating!Length
<1>c. (\A f \in 1..Seeded : InPlace(f, "first")) => \A f \in 1..Seeded : InPlace(f, "first")'
  BY <1>3
<1>d. /\ release' = release => (Migrating!Ships(g))' = 1..release[g].files /\ \A f : Migrating!Text(g, f)' = Migrating!Text(g, f)
      /\ \A f, text : Migrating!Length(f, text)' = Migrating!Length(f, text)
  BY DEF Migrating!Ships, Migrating!Text, Migrating!Length
<1>s. release' = release => \A f : Stands(g, f) => Stands(g, f)'
  BY <1>2, StandingStays
<1>t. \A f : Migrating!Text(g, f) \in {"first", "edited"}
  BY DEF Migrating!Text
<1>e. UNCHANGED <<schema, recorded, hashes>> /\ (~doubtful' => ~doubtful) => OnlyPlaced'
  BY <1>1, <1>3 DEF OnlyPlaced
<1>4. CASE Migrating!Compare(g)
  <2>1. ~sqlite /\ gateway[g].at = "down" /\ UNCHANGED <<sqlite, schema, recorded, hashes, release, doubtful>>
    BY <1>4 DEF Migrating!Compare
  <2> DEFINE where == IF Migrating!Ships(g) = {} \/ (recorded = Migrating!Ships(g) /\ \A f \in recorded : ~Migrating!Edited(g, f))
                      THEN "up" ELSE "failed"
  <2>2. where \in {"up", "failed"} /\ Migrating!Goes(g, where) /\ (where = "up" => \A f \in Migrating!Ships(g) : Stands(g, f))
    BY <1>4 DEF Migrating!Compare, Stands
  <2> HIDE DEF where
  <2>3. where \in {"down", "up", "failed", "marker", "seeding", "reading", "script", "recording"}
    BY <2>2
  <2>4. gateway' \in [Gateways -> WorkPlaces] /\ gateway'[g].at = where /\ \A h \in Gateways \ {g} : gateway'[h] = gateway[h]
    BY <1>1, <2>2, <2>3, FileGoes
  <2>5. QED
    BY <1>1, <1>d, <1>e, <1>s, <2>1, <2>2, <2>4 DEF OneMoves, GatewayInv
<1>u. CASE Migrating!Unchecked(g)
  <2>1. /\ gateway[g].at = "down" /\ UNCHANGED <<sqlite, schema, recorded, hashes, release, doubtful>>
        /\ Migrating!Ships(g) = {} /\ Migrating!Goes(g, "up")
    BY <1>u DEF Migrating!Unchecked
  <2>2. gateway' \in [Gateways -> WorkPlaces] /\ gateway'[g].at = "up" /\ \A h \in Gateways \ {g} : gateway'[h] = gateway[h]
    BY <1>1, <2>1, FileGoes
  <2>3. (Migrating!Ships(g))' = {}
    BY <1>1, <1>d, <2>1
  <2>4. QED
    BY <1>1, <1>e, <2>1, <2>2, <2>3 DEF OneMoves, GatewayInv
<1>5. CASE Migrating!Count(g)
  <2>1. /\ sqlite /\ gateway[g].at = "down" /\ UNCHANGED <<schema, recorded, hashes, release>>
        /\ doubtful' = (doubtful \/ \E h \in Gateways \ {g} : Migrating!Starting(h))
    BY <1>5 DEF Migrating!Count
  <2>2. \A h \in Gateways : Migrating!Starting(h) <=> AtWork(h)
    BY <1>1 DEF Migrating!Starting, WorkPlaces
  <2> DEFINE where == IF recorded = {} THEN "marker" ELSE "reading"
  <2>3. where \in {"marker", "reading"} /\ Migrating!Goes(g, where) /\ (where = "marker" => recorded = {})
    BY <1>5 DEF Migrating!Count
  <2> HIDE DEF where
  <2>4. where \in {"down", "up", "failed", "marker", "seeding", "reading", "script", "recording"}
    BY <2>3
  <2>5. gateway' \in [Gateways -> WorkPlaces] /\ gateway'[g].at = where /\ \A h \in Gateways \ {g} : gateway'[h] = gateway[h]
    BY <1>1, <2>4, <2>3, FileGoes
  <2>6. doubtful' \in BOOLEAN /\ (~doubtful' => ~doubtful /\ \A h \in Gateways \ {g} : ~AtWork(h))
    BY <1>1, <2>1, <2>2
  <2>7. QED
    BY <1>1, <1>2, <1>d, <1>e, <2>1, <2>3, <2>5, <2>6 DEF OneMoves, GatewayInv
<1>6. CASE Migrating!Detect(g)
  <2>1. gateway[g].at = "marker" /\ UNCHANGED <<sqlite, schema, recorded, hashes, release, doubtful>>
    BY <1>6 DEF Migrating!Detect
  <2> DEFINE where == IF Migrating!IsMarked THEN "seeding" ELSE "reading"
  <2>2. where \in {"seeding", "reading"} /\ Migrating!Goes(g, where) /\ (where = "seeding" => <<Marker, 1>> \in schema)
    BY <1>6 DEF Migrating!Detect, Migrating!IsMarked
  <2> HIDE DEF where
  <2>3. where \in {"down", "up", "failed", "marker", "seeding", "reading", "script", "recording"}
    BY <2>2
  <2>4. /\ gateway' \in [Gateways -> WorkPlaces] /\ gateway'[g].at = where /\ \A h \in Gateways \ {g} : gateway'[h] = gateway[h]
        /\ gateway'[g].file = gateway[g].file
    BY <1>1, <2>3, <2>2, FileGoes
  <2>5. ~doubtful /\ where = "seeding" => \A f \in 1..Seeded : InPlace(f, "first")
    BY <1>1, <2>1, <2>2 DEF GatewayInv, OnlyPlaced
  <2>6. sqlite /\ gateway[g].file \in Nat
    BY <1>1, <2>1 DEF GatewayInv, WorkPlaces
  <2>7. QED
    BY <1>1, <1>c, <1>d, <1>e, <2>1, <2>2, <2>4, <2>5, <2>6 DEF OneMoves, GatewayInv
<1>7. CASE Migrating!Seed(g)
  <2>f. PICK f \in Nat : f = gateway[g].file + 1
    BY <1>1 DEF WorkPlaces
  <2>1. /\ gateway[g].at = "seeding" /\ UNCHANGED <<schema, release>>
        /\ \/ /\ f \in Migrating!Ships(g) /\ f <= Seeded /\ gateway' = [gateway EXCEPT ![g].file = f]
              /\ doubtful' = (doubtful \/ Migrating!Text(g, f) = "edited")
              /\ \/ f \in recorded /\ UNCHANGED <<recorded, hashes>>
                 \/ f \notin recorded /\ Migrating!Records(f, Migrating!Text(g, f))
           \/ Migrating!Goes(g, "reading") /\ UNCHANGED <<recorded, hashes, doubtful>>
    BY <1>7, <2>f DEF Migrating!Seed
  <2>2. sqlite /\ f \in Nat \ {0} /\ (~doubtful => \A e \in 1..Seeded : InPlace(e, "first"))
    BY <1>1, <2>1, <2>f DEF GatewayInv, WorkPlaces
  <2>3. CASE Migrating!Goes(g, "reading") /\ UNCHANGED <<recorded, hashes, doubtful>>
    <3>1. gateway' \in [Gateways -> WorkPlaces] /\ gateway'[g].at = "reading" /\ \A h \in Gateways \ {g} : gateway'[h] = gateway[h]
      BY <1>1, <2>3, FileGoes
    <3>2. QED
      BY <1>1, <1>2, <1>e, <2>1, <2>2, <2>3, <3>1 DEF OneMoves, GatewayInv
  <2>4. CASE /\ f \in Migrating!Ships(g) /\ f <= Seeded /\ gateway' = [gateway EXCEPT ![g].file = f]
             /\ doubtful' = (doubtful \/ Migrating!Text(g, f) = "edited")
             /\ \/ f \in recorded /\ UNCHANGED <<recorded, hashes>>
                \/ f \notin recorded /\ Migrating!Records(f, Migrating!Text(g, f))
    <3>1. /\ gateway' \in [Gateways -> WorkPlaces] /\ gateway'[g].at = "seeding" /\ \A h \in Gateways \ {g} : gateway'[h] = gateway[h]
          /\ gateway'[g].file = f
      BY <1>1, <2>1, <2>2, <2>4 DEF WorkPlaces
    <3>2. f \in 1..Seeded /\ f \in 1..Len(Files)
      BY <1>1, <2>2, <2>4, MigrationAssumption
    <3>3. /\ hashes' \in [1..Len(Files) -> Texts] /\ doubtful' \in BOOLEAN
          /\ recorded' = recorded \/ (recorded' = recorded \cup {f} /\ hashes'[f] = Migrating!Text(g, f))
      <4>1. CASE UNCHANGED <<recorded, hashes>>
        BY <1>1, <2>4, <4>1
      <4>2. CASE f \notin recorded /\ Migrating!Records(f, Migrating!Text(g, f))
        BY <1>1, <1>t, <2>4, <3>2, <4>2, RecordsOne
      <4>3. QED
        BY <2>4, <4>1, <4>2
    <3>4. ~doubtful' => ~doubtful /\ Migrating!Text(g, f) = "first"
      BY <1>t, <2>4
    <3>5. \A e \in 1..Seeded : ~doubtful' => InPlace(e, "first")'
      BY <1>c, <2>2, <3>4
    <3>6. ~doubtful' => \A e \in recorded' : InPlace(e, hashes[e])'
      <4> SUFFICES ASSUME ~doubtful', NEW e \in recorded' PROVE InPlace(e, hashes[e])'
        OBVIOUS
      <4>1. CASE e \in recorded
        <5>1. InPlace(e, hashes[e]) /\ hashes'[e] = hashes[e]
          BY <1>1, <1>2, <3>4, <4>1 DEF OnlyPlaced
        <5>2. QED
          BY <1>2, <5>1 DEF InPlace, Migrating!Of, Migrating!Length
      <4>2. CASE e \notin recorded
        <5>1. e = f /\ hashes'[e] = "first" /\ InPlace(f, "first")'
          BY <3>2, <3>3, <3>4, <3>5, <4>2
        <5>2. QED
          BY <5>1 DEF InPlace, Migrating!Of, Migrating!Length
      <4>3. QED
        BY <4>1, <4>2
    <3>7. OnlyPlaced'
      <4>1. recorded' \subseteq 1..Len(Files)
        BY <1>1, <3>2, <3>3
      <4>2. <<Marker, 1>> \in schema' => 1 \in recorded' \/ \A e \in 1..Seeded : InPlace(e, "first")'
        BY <1>1, <1>2, <1>c, <2>1 DEF OnlyPlaced
      <4>3. QED
        BY <3>6, <4>1, <4>2 DEF OnlyPlaced
    <3>8. GatewayInv(g)'
      BY <1>2, <2>2, <3>1, <3>5 DEF GatewayInv
    <3>9. QED
      BY <1>1, <2>1, <3>1, <3>3, <3>4, <3>7, <3>8 DEF OneMoves
  <2>5. QED
    BY <2>1, <2>3, <2>4
<1>8. CASE Migrating!Read(g)
  <2> DEFINE w == Migrating!Turn(g, 0, recorded)
  <2>1. /\ gateway[g].at = "reading" /\ UNCHANGED <<schema, recorded, hashes, release, doubtful>>
        /\ gateway' = [gateway EXCEPT ![g] = w]
    BY <1>8 DEF Migrating!Read
  <2>2. /\ w \in WorkPlaces /\ w.at \in {"up", "failed", "script"} /\ w.applied = recorded
        /\ w.at = "up" => \A e \in Migrating!Ships(g) : Stands(g, e)
        /\ w.at = "script" => /\ w.file \in Migrating!Ships(g) /\ w.next = 1
                              /\ \A e \in 1..(w.file - 1) : Stands(g, e)
    <3>1. release[g].files \in 0..Len(Files) /\ 0 \in Nat /\ recorded \in SUBSET Nat
      BY <1>1
    <3>2. Turned(g, w, 0, recorded)
      BY <3>1, TurnGoes
    <3>3. \A e \in Migrating!Ships(g) : ~(e <= 0)
      BY <1>1
    <3>4. \A n : \A e \in 1..n : ~(e <= 0)
      OBVIOUS
    <3> HIDE DEF w
    <3>5. QED
      BY <3>2, <3>3, <3>4 DEF Turned, Stands
  <2>3. w.at = "script" => \A text : Migrating!Length(w.file, text) \in Nat \ {0}
    BY <1>1, <2>2, FilesFilled
  <2>4. gateway'[g] = w /\ gateway' \in [Gateways -> WorkPlaces] /\ \A h \in Gateways \ {g} : gateway'[h] = gateway[h]
    BY <1>1, <2>1, <2>2
  <2> HIDE DEF w
  <2>5. sqlite
    BY <1>1, <2>1 DEF GatewayInv
  <2>6. GatewayInv(g)'
    BY <1>1, <1>2, <1>d, <1>s, <2>1, <2>2, <2>3, <2>4, <2>5 DEF GatewayInv
  <2>7. QED
    BY <1>1, <1>e, <2>1, <2>4, <2>6 DEF OneMoves
<1>9. CASE Migrating!Statement(g)
  <2>f. PICK f \in Nat : f = gateway[g].file
    BY <1>1 DEF WorkPlaces
  <2>s. PICK s \in Nat : s = gateway[g].next
    BY <1>1 DEF WorkPlaces
  <2> DEFINE last == Migrating!Length(f, Migrating!Text(g, f))
  <2>1. /\ gateway[g].at = "script" /\ UNCHANGED <<recorded, hashes, release, doubtful>>
        /\ \/ Migrating!Goes(g, "failed") /\ schema' = schema
           \/ /\ schema' = schema \cup {<<f, s>>}
              /\ gateway' = [gateway EXCEPT ![g].at = IF s = last THEN "recording" ELSE "script",
                                            ![g].next = s + 1]
    BY <1>9, <2>f, <2>s DEF Migrating!Statement
  <2>2. /\ f \in Migrating!Ships(g) /\ f \in 1..Len(Files) /\ s \in 1..last /\ \A k \in 1..(s - 1) : <<f, k>> \in schema
        /\ \A e \in 1..(f - 1) : Stands(g, e)
        /\ sqlite /\ gateway[g].applied \subseteq recorded
    BY <1>1, <2>1, <2>f, <2>s DEF GatewayInv
  <2>3. last \in Nat \ {0} /\ Migrating!Of(f, Migrating!Text(g, f)) = {<<f, k>> : k \in 1..last}
    BY <2>2, FilesFilled
  <2> HIDE DEF last
  <2>4. f = Marker => 1 \in recorded
    <3>1. f = Marker => 1 \in 1..(f - 1)
      BY MigrationAssumption
    <3>2. QED
      BY <2>2, <3>1 DEF Stands
  <2>5. <<Marker, 1>> \in schema' => <<Marker, 1>> \in schema \/ 1 \in recorded
    BY <2>1, <2>4
  <2>6. OnlyPlaced'
    BY <1>1, <1>3, <1>c, <2>1, <2>5 DEF OnlyPlaced
  <2>7. CASE Migrating!Goes(g, "failed") /\ schema' = schema
    <3>1. gateway' \in [Gateways -> WorkPlaces] /\ gateway'[g].at = "failed" /\ \A h \in Gateways \ {g} : gateway'[h] = gateway[h]
      BY <1>1, <2>7, FileGoes
    <3>2. QED
      BY <1>1, <2>1, <2>6, <3>1 DEF OneMoves, GatewayInv
  <2>8. CASE /\ schema' = schema \cup {<<f, s>>}
             /\ gateway' = [gateway EXCEPT ![g].at = IF s = last THEN "recording" ELSE "script",
                                           ![g].next = s + 1]
    <3>1. \A k \in 1..s : <<f, k>> \in schema'
      BY <2>2, <2>3, <2>8
    <3>2. s = last => InPlace(f, Migrating!Text(g, f))'
      <4>1. s = last => Migrating!Of(f, Migrating!Text(g, f)) \subseteq schema'
        BY <3>1, <2>3
      <4>2. \A x, text : (Migrating!Of(x, text) \subseteq schema') => InPlace(x, text)'
        BY DEF InPlace, Migrating!Of, Migrating!Length
      <4>3. InPlace(f, Migrating!Text(g, f))' <=> Migrating!Of(f, Migrating!Text(g, f)) \subseteq schema'
        BY <1>d, <2>1 DEF InPlace, Migrating!Of, Migrating!Length, Migrating!Text
      <4>4. QED
        BY <4>1, <4>3
    <3>3. /\ gateway'[g].at = IF s = last THEN "recording" ELSE "script"
          /\ gateway'[g].next = s + 1
          /\ gateway'[g].file = f /\ gateway'[g].applied = gateway[g].applied
      BY <1>1, <2>8, <2>f, <2>s DEF WorkPlaces
    <3>4. gateway' \in [Gateways -> WorkPlaces] /\ \A h \in Gateways \ {g} : gateway'[h] = gateway[h]
      <4>1. s + 1 \in Nat
        BY <2>2, <2>3
      <4>2. QED
        BY <1>1, <2>8, <4>1 DEF WorkPlaces
    <3>5. GatewayInv(g)'
      <4> DEFINE at == gateway'[g].at
      <4>1. at \in {"script", "recording"}
        BY <3>3
      <4>2. gateway'[g].applied \subseteq recorded' /\ f \in (Migrating!Ships(g))' /\ \A e \in 1..(f - 1) : Stands(g, e)'
        BY <1>1, <1>d, <1>s, <2>1, <2>2, <3>3
      <4>3. at = "script" => s + 1 \in 1..last /\ \A k \in 1..(s + 1 - 1) : <<f, k>> \in schema'
        BY <2>2, <2>3, <3>1, <3>3
      <4>4. at = "recording" => InPlace(f, Migrating!Text(g, f))'
        BY <3>2, <3>3
      <4>5. last = Migrating!Length(f, Migrating!Text(g, f))'
        BY <1>d, <2>1 DEF last, Migrating!Length, Migrating!Text
      <4>6. QED
        BY <1>2, <2>2, <3>3, <4>1, <4>2, <4>3, <4>4, <4>5 DEF GatewayInv
    <3>6. QED
      BY <1>1, <2>1, <2>6, <3>4, <3>5 DEF OneMoves
  <2>9. QED
    BY <2>1, <2>7, <2>8
<1>10. CASE Migrating!Record(g)
  <2>f. PICK f \in Nat : f = gateway[g].file
    BY <1>1 DEF WorkPlaces
  <2>1. /\ gateway[g].at = "recording" /\ UNCHANGED <<schema, release, doubtful>>
        /\ \/ Migrating!Goes(g, "failed") /\ UNCHANGED <<recorded, hashes>>
           \/ /\ f \notin recorded /\ Migrating!Records(f, Migrating!Text(g, f))
              /\ gateway' = [gateway EXCEPT ![g] = Migrating!Turn(g, f, gateway[g].applied)]
    BY <1>10, <2>f DEF Migrating!Record
  <2>2. /\ f \in Migrating!Ships(g) /\ f \in 1..Len(Files) /\ gateway[g].applied \subseteq recorded
        /\ InPlace(f, Migrating!Text(g, f)) /\ \A e \in 1..(f - 1) : Stands(g, e)
        /\ sqlite
    BY <1>1, <2>1, <2>f DEF GatewayInv
  <2>3. CASE Migrating!Goes(g, "failed") /\ UNCHANGED <<recorded, hashes>>
    <3>1. gateway' \in [Gateways -> WorkPlaces] /\ gateway'[g].at = "failed" /\ \A h \in Gateways \ {g} : gateway'[h] = gateway[h]
      BY <1>1, <2>3, FileGoes
    <3>2. QED
      BY <1>1, <1>e, <2>1, <2>3, <3>1 DEF OneMoves, GatewayInv
  <2>4. CASE /\ f \notin recorded /\ Migrating!Records(f, Migrating!Text(g, f))
             /\ gateway' = [gateway EXCEPT ![g] = Migrating!Turn(g, f, gateway[g].applied)]
    <3> DEFINE w == Migrating!Turn(g, f, gateway[g].applied)
    <3>1. /\ recorded' = recorded \cup {f} /\ hashes' \in [1..Len(Files) -> Texts] /\ hashes'[f] = Migrating!Text(g, f)
      BY <1>1, <1>t, <2>2, <2>4, RecordsOne
    <3>2. Stands(g, f)'
      BY <1>d, <2>1, <3>1 DEF Stands, Migrating!Edited, Migrating!Text
    <3>3. \A e \in 1..f : Stands(g, e)'
      <4>1. \A e \in 1..f : e = f \/ e \in 1..(f - 1)
        BY <2>2
      <4>2. QED
        BY <1>s, <2>1, <2>2, <3>2, <4>1
    <3>4. /\ w \in WorkPlaces /\ w.at \in {"up", "failed", "script"} /\ w.applied = gateway[g].applied
          /\ w.at = "up" => \A e \in Migrating!Ships(g) : Stands(g, e)'
          /\ w.at = "script" => /\ w.file \in Migrating!Ships(g) /\ w.next = 1
                                /\ \A e \in 1..(w.file - 1) : Stands(g, e)'
      <4>1. release[g].files \in 0..Len(Files) /\ gateway[g].applied \in SUBSET Nat
        BY <1>1, <2>2 DEF WorkPlaces
      <4>2. Turned(g, w, f, gateway[g].applied)
        BY <4>1, TurnGoes
      <4> HIDE DEF w
      <4>3. \A e \in gateway[g].applied : ~Migrating!Edited(g, e) => Stands(g, e)'
        BY <1>s, <2>1, <2>2 DEF Stands
      <4>4. \A e \in Nat \ {0} : e <= f => Stands(g, e)'
        BY <2>2, <3>3
      <4>5. w.at = "up" => \A e \in Migrating!Ships(g) : Stands(g, e)'
        <5>1. Migrating!Ships(g) \subseteq Nat \ {0}
          BY <1>1
        <5>2. QED
          BY <4>2, <4>3, <4>4, <5>1 DEF Turned
      <4>6. w.at = "script" => \A e \in 1..(w.file - 1) : Stands(g, e)'
        <5>1. \A n : \A e \in 1..n : e \in Nat \ {0}
          OBVIOUS
        <5>2. QED
          BY <4>2, <4>3, <4>4, <5>1 DEF Turned
      <4>7. QED
        BY <4>2, <4>5, <4>6 DEF Turned
    <3>5. w.at = "script" => \A text : Migrating!Length(w.file, text) \in Nat \ {0}
      BY <1>1, <3>4, FilesFilled
    <3>6. gateway'[g] = w /\ gateway' \in [Gateways -> WorkPlaces] /\ \A h \in Gateways \ {g} : gateway'[h] = gateway[h]
      BY <1>1, <2>4, <3>4
    <3> HIDE DEF w
    <3>7. ~doubtful' => \A e \in recorded' : InPlace(e, hashes[e])'
      <4> SUFFICES ASSUME ~doubtful', NEW e \in recorded' PROVE InPlace(e, hashes[e])'
        OBVIOUS
      <4>1. CASE e \in recorded
        <5>1. InPlace(e, hashes[e]) /\ hashes'[e] = hashes[e]
          BY <1>1, <1>2, <2>1, <4>1 DEF OnlyPlaced
        <5>2. QED
          BY <1>2, <5>1 DEF InPlace, Migrating!Of, Migrating!Length
      <4>2. CASE e = f
        BY <1>2, <2>2, <3>1, <4>2 DEF InPlace, Migrating!Of, Migrating!Length
      <4>3. QED
        BY <3>1, <4>1, <4>2
    <3>8. OnlyPlaced'
      <4>1. recorded' \subseteq 1..Len(Files)
        BY <1>1, <2>2, <3>1
      <4>2. <<Marker, 1>> \in schema' => 1 \in recorded' \/ \A e \in 1..Seeded : InPlace(e, "first")'
        BY <1>1, <1>2, <1>c, <2>1 DEF OnlyPlaced
      <4>3. QED
        BY <3>7, <4>1, <4>2 DEF OnlyPlaced
    <3>9. gateway[g].applied \subseteq recorded'
      BY <2>2, <3>1
    <3>10. GatewayInv(g)'
      BY <1>1, <1>2, <1>d, <2>1, <2>2, <3>4, <3>5, <3>6, <3>9 DEF GatewayInv
    <3>11. QED
      BY <1>1, <2>1, <3>1, <3>6, <3>8, <3>10 DEF OneMoves
  <2>5. QED
    BY <2>1, <2>3, <2>4
<1>11. QED
  BY <1>4, <1>u, <1>5, <1>6, <1>7, <1>8, <1>9, <1>10

(* The migrations container, which runs on Postgres alone, finds no gateway *)
(* at work.                                                                 *)
LEMMA ContainerStep ==
  ASSUME MigratingInv, NEW f \in 1..Len(Files), NEW text \in {"first", "edited"}, Migrating!Contain(f, text), Migrating!MgNext
  PROVE  MigratingInv'
<1>1. /\ ~sqlite /\ f \notin recorded /\ (\A e \in 1..(f - 1) : e \in recorded) /\ recorded' \subseteq recorded \cup {f}
      /\ schema \subseteq schema' /\ (<<Marker, 1>> \in schema' => <<Marker, 1>> \in schema \/ f = Marker)
      /\ recorded \subseteq recorded' /\ UNCHANGED <<sqlite, release, doubtful, gateway>>
      /\ hashes' \in [1..Len(Files) -> Texts] /\ \A e \in recorded : hashes'[e] = hashes[e]
      /\ f \in recorded' => hashes'[f] = text /\ Migrating!Of(f, text) \subseteq schema'
  <2>1. /\ ~sqlite /\ f \notin recorded /\ (\A e \in 1..(f - 1) : e \in recorded)
        /\ UNCHANGED <<sqlite, release, doubtful, gateway>>
        /\ hashes \in [1..Len(Files) -> Texts] /\ recorded \subseteq 1..Len(Files)
    BY DEF Migrating!Contain, MigratingInv
  <2>2. CASE schema' = schema \cup Migrating!Of(f, text) /\ Migrating!Records(f, text)
    BY <2>1, <2>2, RecordsOne DEF Migrating!Of
  <2>3. CASE /\ \E n \in 1..Migrating!Length(f, text) : schema' = schema \cup {<<f, s>> : s \in 1..n}
             /\ UNCHANGED <<recorded, hashes>>
    BY <2>1, <2>3
  <2>4. QED
    BY <2>2, <2>3 DEF Migrating!Contain
<1>2. schema \subseteq schema' /\ recorded \subseteq recorded' /\ \A g \in Gateways : ~AtWork(g)
  BY <1>1 DEF MigratingInv, GatewayInv
<1>3. \A e, x : InPlace(e, x) => InPlace(e, x)'
  BY <1>2 DEF InPlace, Migrating!Of, Migrating!Length
<1>4. f \in recorded' => InPlace(f, hashes[f])'
  BY <1>1 DEF InPlace, Migrating!Of, Migrating!Length
<1>5. ASSUME ~doubtful', NEW e \in recorded' PROVE InPlace(e, hashes[e])'
  <2>1. CASE e = f
    BY <1>4, <1>5, <2>1
  <2>2. CASE e \in recorded
    <3>1. InPlace(e, hashes[e]) /\ hashes'[e] = hashes[e]
      BY <1>1, <1>5, <2>2 DEF MigratingInv
    <3>2. QED
      BY <1>2, <3>1 DEF InPlace, Migrating!Of, Migrating!Length
  <2>3. QED
    BY <1>1, <1>5, <2>1, <2>2
<1>6. /\ recorded' \subseteq 1..Len(Files) /\ sqlite' \in BOOLEAN /\ doubtful' \in BOOLEAN
      /\ release' \in [Gateways -> Migrating!Releases] /\ gateway' \in [Gateways -> WorkPlaces]
  BY <1>1 DEF MigratingInv, Migrating!Releases
<1>7. <<Marker, 1>> \in schema' => 1 \in recorded' \/ \A e \in 1..Seeded : InPlace(e, "first")'
  <2>2. f = Marker => 1 \in recorded
    BY <1>1, MigrationAssumption
  <2>3. <<Marker, 1>> \in schema => 1 \in recorded \/ \A e \in 1..Seeded : InPlace(e, "first")
    BY DEF MigratingInv
  <2>4. QED
    BY <1>1, <1>3, <2>2, <2>3
<1>8. \A g \in Gateways : ~AtWork(g)'
  BY <1>1, <1>2 DEF AtWork
<1>9. \A g \in Gateways : GatewayInv(g)'
  <2> SUFFICES ASSUME NEW g \in Gateways PROVE GatewayInv(g)'
    OBVIOUS
  <2>1. gateway[g].at # "marker"
    BY <1>2 DEF AtWork
  <2>2. QED
    BY <1>1, <1>2, <2>1, OthersStand
<1>10. QED
  BY <1>1, <1>5, <1>6, <1>7, <1>8, <1>9 DEF MigratingInv

(* ... and so does one that starts with another release.                    *)
LEMMA RestartStep ==
  ASSUME MigratingInv, NEW g \in Gateways,
         NEW r \in Migrating!Releases, Migrating!Restart(g, r), Migrating!MgNext
  PROVE  MigratingInv'
<1>1. /\ gateway' = [gateway EXCEPT ![g] = [at |-> "down", file |-> 0, next |-> 0, applied |-> {}]]
      /\ release' = [release EXCEPT ![g] = r] /\ UNCHANGED <<sqlite, schema, recorded, hashes, doubtful>>
  BY DEF Migrating!Restart
<1>2. /\ gateway' \in [Gateways -> WorkPlaces] /\ release' \in [Gateways -> Migrating!Releases] /\ gateway'[g].at = "down"
      /\ \A h \in Gateways \ {g} : gateway'[h] = gateway[h] /\ release'[h] = release[h]
  <2>1. [at |-> "down", file |-> 0, next |-> 0, applied |-> {}] \in WorkPlaces
    BY DEF WorkPlaces
  <2>2. QED
    BY <1>1, <2>1 DEF MigratingInv
<1>3. \A e, text : InPlace(e, text)' <=> InPlace(e, text)
  BY <1>1 DEF InPlace, Migrating!Of, Migrating!Length
<1>4. ~doubtful' => \A h, i \in Gateways : AtWork(h)' /\ AtWork(i)' => h = i
  <2>1. \A h \in Gateways : AtWork(h)' => h # g /\ AtWork(h)
    BY <1>2 DEF AtWork
  <2>2. QED
    BY <1>1, <2>1 DEF MigratingInv
<1>5. \A h \in Gateways : GatewayInv(h)'
  <2> SUFFICES ASSUME NEW h \in Gateways PROVE GatewayInv(h)'
    OBVIOUS
  <2>1. CASE h = g
    BY <1>2, <2>1 DEF GatewayInv, AtWork
  <2>2. CASE h # g
    BY <1>1, <1>2, <2>2, OthersStand
  <2>3. QED
    BY <2>1, <2>2
<1>6. (\A e \in 1..Seeded : InPlace(e, "first")) => \A e \in 1..Seeded : InPlace(e, "first")'
  BY <1>3
<1>7. ~doubtful' => \A e \in recorded' : InPlace(e, hashes[e])'
  BY <1>1 DEF MigratingInv, InPlace, Migrating!Of, Migrating!Length
<1>8. QED
  BY <1>1, <1>2, <1>4, <1>5, <1>6, <1>7 DEF MigratingInv

(* What gateways know of the migrations is so, and stays so while others    *)
(* go on, crash and restart; unless two started together on one SQLite      *)
(* file.                                                                    *)
THEOREM MigratingInvariance == Spec => []MigratingInv
<1>1. Init => MigratingInv
  <2> SUFFICES ASSUME Init PROVE MigratingInv
    OBVIOUS
  <2>1. Migrating!MgInit
    BY DEF Init
  <2>2. /\ sqlite \in BOOLEAN /\ doubtful \in BOOLEAN /\ hashes = [f \in 1..Len(Files) |-> "none"] /\ release \in [Gateways -> Migrating!Releases]
        /\ gateway = [g \in Gateways |-> [at |-> "down", file |-> 0, next |-> 0, applied |-> {}]]
    BY <2>1 DEF Migrating!MgInit
  <2>3. gateway \in [Gateways -> WorkPlaces] /\ \A g \in Gateways : gateway[g].at = "down"
    BY <2>2 DEF WorkPlaces
  <2>4. <<Marker, 1>> \in schema => \A f \in 1..Seeded : InPlace(f, "first")
    <3>1. schema = {} \/ schema = UNION {Migrating!Of(f, "first") : f \in 1..Seeded}
      BY <2>1 DEF Migrating!MgInit, Migrating!Old
    <3>2. QED
      BY <3>1 DEF InPlace
  <2>6. recorded \subseteq 1..Len(Files) /\ hashes \in [1..Len(Files) -> Texts]
    <3>1. recorded = {} \/ recorded = 1..Seeded
      BY <2>1 DEF Migrating!MgInit
    <3>2. QED
      BY <2>2, <3>1, MigrationAssumption DEF Texts
  <2>7. \A f \in recorded : InPlace(f, hashes[f])
    <3> SUFFICES ASSUME NEW f \in recorded PROVE InPlace(f, hashes[f])
      OBVIOUS
    <3>1. f \in 1..Seeded /\ schema = UNION {Migrating!Of(e, "first") : e \in 1..Seeded}
      BY <2>1 DEF Migrating!MgInit, Migrating!Old
    <3>2. hashes[f] = "none"
      BY <2>2, <2>6
    <3>3. Migrating!Of(f, "none") = Migrating!Of(f, "first")
      BY DEF Migrating!Of, Migrating!Length
    <3>4. QED
      BY <3>1, <3>2, <3>3 DEF InPlace
  <2>5. \A g \in Gateways : ~AtWork(g) /\ GatewayInv(g)
    BY <2>3 DEF AtWork, GatewayInv
  <2>8. QED
    BY <2>2, <2>3, <2>4, <2>5, <2>6, <2>7 DEF MigratingInv
<1>2. MigratingInv /\ [Next]_vars => MigratingInv'
  <2> SUFFICES ASSUME MigratingInv, [Next]_vars PROVE MigratingInv'
    OBVIOUS
  <2>1. CASE UNCHANGED migratingVars
    <3>1. UNCHANGED <<sqlite, schema, recorded, hashes, release, doubtful, gateway>>
      BY <2>1 DEF migratingVars
    <3>2. (\A e \in 1..Seeded : InPlace(e, "first")) => \A e \in 1..Seeded : InPlace(e, "first")'
      BY <3>1 DEF InPlace, Migrating!Of, Migrating!Length
    <3>3. ~doubtful' => \A e \in recorded' : InPlace(e, hashes[e])'
      BY <3>1 DEF MigratingInv, InPlace, Migrating!Of, Migrating!Length
    <3>4. \A g \in Gateways : (AtWork(g)' <=> AtWork(g)) /\ GatewayInv(g)'
      <4> SUFFICES ASSUME NEW g \in Gateways PROVE (AtWork(g)' <=> AtWork(g)) /\ GatewayInv(g)'
        OBVIOUS
      <4>1. GatewayInv(g)'
        BY <3>1, OthersStand
      <4>2. QED
        BY <3>1, <4>1 DEF AtWork
    <3>5. QED
      BY <3>1, <3>2, <3>3, <3>4 DEF MigratingInv
  <2>2. CASE Migrating!MgNext
    <3>1. ASSUME NEW g \in Gateways,
                 \/ Migrating!Compare(g) \/ Migrating!Unchecked(g) \/ Migrating!Count(g) \/ Migrating!Detect(g)
                 \/ Migrating!Seed(g) \/ Migrating!Read(g) \/ Migrating!Statement(g) \/ Migrating!Record(g)
          PROVE  MigratingInv'
      <4>1. OneMoves(g) /\ OnlyPlaced' /\ GatewayInv(g)'
        BY <2>2, <3>1, GatewayStep
      <4>2. schema \subseteq schema' /\ recorded \subseteq recorded' /\ sqlite' = sqlite /\ \A e \in recorded : hashes'[e] = hashes[e]
        BY <2>2, MigratingGrows
      <4>3. \A h \in Gateways \ {g} : (AtWork(h)' <=> AtWork(h)) /\ gateway'[h] = gateway[h]
        BY <4>1 DEF OneMoves, AtWork
      <4>4. ~doubtful' => ~doubtful /\ \A h, i \in Gateways : AtWork(h)' /\ AtWork(i)' => h = i
        <5>1. ~doubtful' => ~doubtful
          BY <4>1 DEF OneMoves
        <5>2. ~doubtful => \A h, i \in Gateways : AtWork(h) /\ AtWork(i) => h = i
          BY DEF MigratingInv
        <5>3. AtWork(g)' => AtWork(g) \/ \A h \in Gateways \ {g} : ~doubtful' => ~AtWork(h)
          BY <4>1 DEF OneMoves
        <5>4. QED
          BY <4>3, <5>1, <5>2, <5>3
      <4>5. \A h \in Gateways \ {g} : GatewayInv(h)'
        <5> SUFFICES ASSUME NEW h \in Gateways \ {g} PROVE GatewayInv(h)'
          OBVIOUS
        <5>1. ~doubtful' /\ gateway[h].at = "marker" => recorded' = recorded
          <6> SUFFICES ASSUME ~doubtful', gateway[h].at = "marker", recorded' # recorded PROVE FALSE
            OBVIOUS
          <6>1. AtWork(h) /\ AtWork(g)
            BY <4>1 DEF OneMoves, AtWork
          <6>2. QED
            BY <4>4, <6>1 DEF MigratingInv
        <5>2. gateway'[h] = gateway[h] /\ release'[h] = release[h]
          BY <4>1 DEF OneMoves
        <5>3. QED
          BY <4>2, <4>4, <5>1, <5>2, OthersStand
      <4>6. QED
        <5>1. /\ release' \in [Gateways -> Migrating!Releases] /\ gateway' \in [Gateways -> WorkPlaces]
              /\ sqlite' \in BOOLEAN /\ doubtful' \in BOOLEAN /\ hashes' \in [1..Len(Files) -> Texts]
          BY <4>1, <4>2 DEF OneMoves, MigratingInv, Migrating!Releases
        <5>2. QED
          BY <4>1, <4>4, <4>5, <5>1 DEF MigratingInv, OnlyPlaced
    <3>2. CASE \E f \in 1..Len(Files), text \in {"first", "edited"} : Migrating!Contain(f, text)
      BY <2>2, <3>2, ContainerStep
    <3>3. CASE \E g \in Gateways, r \in Migrating!Releases : Migrating!Restart(g, r)
      BY <2>2, <3>3, RestartStep
    <3>4. QED
      BY <2>2, <3>1, <3>2, <3>3 DEF Migrating!MgNext
  <2>3. QED
    BY <2>1, <2>2, MigratingSteps
<1>3. QED
  BY <1>1, <1>2, PTL DEF Spec

(* A gateway that is up has the files of its release in place.              *)
LEMMA WholeSchema == MigratingInv => Migrating!UpMeansMigrated
<1> SUFFICES ASSUME MigratingInv, ~doubtful
             PROVE  /\ \A g \in Gateways : gateway[g].at = "up" =>
                         \A f \in Migrating!Ships(g) : InPlace(f, IF hashes[f] = "none" THEN "first" ELSE Migrating!Text(g, f))
                    /\ \A f \in recorded : InPlace(f, hashes[f])
  BY DEF Migrating!UpMeansMigrated, Migrating!At, InPlace
<1>1. \A f \in recorded : InPlace(f, hashes[f])
  BY DEF MigratingInv
<1>2. ASSUME NEW g \in Gateways, gateway[g].at = "up", NEW f \in Migrating!Ships(g)
      PROVE  InPlace(f, IF hashes[f] = "none" THEN "first" ELSE Migrating!Text(g, f))
  <2>1. Stands(g, f)
    BY <1>2 DEF MigratingInv, GatewayInv
  <2>2. InPlace(f, hashes[f]) /\ hashes[f] \in {"none", Migrating!Text(g, f)}
    BY <1>1, <2>1 DEF Stands, Migrating!Edited
  <2>3. Migrating!Of(f, "none") = Migrating!Of(f, "first")
    BY DEF Migrating!Of, Migrating!Length
  <2>4. QED
    BY <2>2, <2>3 DEF InPlace
<1>3. QED
  BY <1>1, <1>2

-----------------------------------------------------------------------------
(* The lifespan: parts come up in order and go down in order.               *)

(* Only a step of the process touches its parts.                            *)
LEMMA ProcessSteps == [Next]_vars => Process!LsNext \/ UNCHANGED processVars
BY DEF Next, vars, aroundVars, Picked

(* The parts brought up by the n-th, and those stopped or closed by it.     *)
BroughtBy(n) == {Process!Parts[i] : i \in 1..n} \cap Process!Wanted
(* The parts stopped, and those closed, by then.                            *)
StoppedBy(n) == {Process!Stops[i] : i \in 1..n}
ClosedBy(n)  == {Process!Closes[i] : i \in 1..n}
UpStages == {"serving", "draining", "stopping"}
(* The parts that live are those brought up so far and not yet taken down.  *)
ProcessInv ==
  /\ enabled \subseteq Process!Optional /\ requests \in Nat /\ writes \in Nat
  /\ stage \in {"starting", "closing", "ended"} \cup UpStages
  /\ failed \in BOOLEAN /\ late \in BOOLEAN
  /\ requests > 0 => stage \in {"serving", "draining"}
  /\ stage = "starting" => next \in 0..10 /\ BroughtBy(next) = live /\ writes = 0
  /\ stage \in {"serving", "draining"} => Process!Wanted \subseteq live
  /\ stage \in UpStages => "db" \in live
  /\ stage = "stopping" => next \in 0..5 /\ (~failed => live \cap StoppedBy(next) = {})
  /\ stage \in {"closing", "ended"} =>
       /\ ~failed => live \cap StoppedBy(6) = {}
       /\ next \in 0..2 /\ (stage = "ended" => next = 2)
       /\ ~failed /\ ~late => live \cap ClosedBy(next) = {}
  /\ late => failed \/ stage \in {"closing", "ended"}

(* A part comes up when those before it are, ...                            *)
LEMMA PartsInOrder ==
  /\ Len(Process!Parts) = 11 /\ Process!Parts[1] = "db" /\ Process!Parts[2] = "redis"
  /\ \A n \in 0..10 : {Process!Parts[i] : i \in 1..(n + 1)} = {Process!Parts[i] : i \in 1..n} \cup {Process!Parts[n + 1]}
  /\ "db" \in Process!Wanted /\ Process!Wanted \subseteq {Process!Parts[i] : i \in 1..11} /\ "clients" \notin Process!Wanted
<1>1. /\ Len(Process!Parts) = 11 /\ Process!Parts[1] = "db" /\ Process!Parts[2] = "redis"
  BY DEF Process!Parts
<1>2. "db" \in Process!Wanted /\ Process!Wanted \subseteq {Process!Parts[i] : i \in 1..11}
  BY <1>1 DEF Process!Wanted, Process!Optional
<1>3. "clients" \notin Process!Wanted
  <2>1. \A i \in 1..11 : Process!Parts[i] # "clients"
    BY DEF Process!Parts
  <2>2. QED
    BY <2>1, <1>2
<1>4. \A n \in 0..10 : {Process!Parts[i] : i \in 1..(n + 1)} = {Process!Parts[i] : i \in 1..n} \cup {Process!Parts[n + 1]}
  OBVIOUS
<1>5. QED
  BY <1>1, <1>2, <1>3, <1>4

(* ... and goes down in the order of the stops.                             *)
LEMMA StopsInOrder ==
  /\ Len(Process!Stops) = 6 /\ Len(Process!Closes) = 2
  /\ StoppedBy(0) = {} /\ ClosedBy(0) = {}
  /\ \A n \in 0..5 : StoppedBy(n + 1) = StoppedBy(n) \cup {Process!Stops[n + 1]}
  /\ \A n \in 0..1 : ClosedBy(n + 1) = ClosedBy(n) \cup {Process!Closes[n + 1]}
  /\ \A n \in 0..6 : "db" \notin StoppedBy(n)
  /\ ClosedBy(1) = {"db"} /\ ClosedBy(2) = {"db", "redis"}
<1>1. /\ Len(Process!Stops) = 6 /\ Len(Process!Closes) = 2
  BY DEF Process!Stops, Process!Closes
<1>2.  StoppedBy(0) = {} /\ ClosedBy(0) = {}
  BY DEF StoppedBy, ClosedBy
<1>3. /\ \A n \in 0..5 : StoppedBy(n + 1) = StoppedBy(n) \cup {Process!Stops[n + 1]}
      /\ \A n \in 0..1 : ClosedBy(n + 1) = ClosedBy(n) \cup {Process!Closes[n + 1]}
  BY DEF StoppedBy, ClosedBy
<1>4. \A n \in 0..6 : "db" \notin StoppedBy(n)
  <2>1. \A i \in 1..6 : Process!Stops[i] # "db"
    BY DEF Process!Stops
  <2>2. QED
    BY <2>1 DEF StoppedBy
<1>5. ClosedBy(1) = {"db"} /\ ClosedBy(2) = {"db", "redis"}
  <2>1. Process!Closes[1] = "db" /\ Process!Closes[2] = "redis"
    BY DEF Process!Closes
  <2>2. QED
    BY <2>1 DEF ClosedBy
<1>6. QED
  BY <1>1, <1>2, <1>3, <1>4, <1>5

(* Every step of the process keeps the invariant.                           *)
LEMMA ProcessStep == ASSUME ProcessInv, Process!LsNext PROVE ProcessInv'
<1> USE DEF ProcessInv, UpStages
<1>1. (Process!Wanted)' = Process!Wanted /\ \A n \in Nat : BroughtBy(n)' = BroughtBy(n)
  <2>1. enabled' = enabled
    BY DEF Process!LsNext, Process!Bring, Process!BringFails, Process!Request, Process!Respond,
       Process!Write, Process!Purge, Process!Signal, Process!ShutDown, Process!Stop,
       Process!StopFails, Process!Close, Process!End
  <2>2. QED
    BY <2>1 DEF Process!Wanted, BroughtBy
<1>2. CASE Process!Bring
  <2>1. BroughtBy(next + 1) = BroughtBy(next) \cup ({Process!Parts[next + 1]} \cap Process!Wanted)
    BY <1>2, PartsInOrder DEF Process!Bring, BroughtBy
  <2>2. BroughtBy(11) = Process!Wanted
    BY PartsInOrder DEF BroughtBy
  <2>3. QED
    BY <1>1, <1>2, <2>1, <2>2, PartsInOrder DEF Process!Bring
<1>3. CASE Process!BringFails
  BY <1>3, <1>1, StopsInOrder DEF Process!BringFails
<1>4. CASE Process!Request \/ Process!Respond \/ Process!Signal \/ Process!ShutDown
  BY <1>4, <1>1, StopsInOrder DEF Process!Request, Process!Respond, Process!Signal,
     Process!ShutDown, Process!Drained
<1>5. CASE Process!Write \/ Process!Purge
  <2>1. /\ stage # "ended" /\ live' = live \cup {"db"} /\ late' = (late \/ "db" \notin live)
        /\ UNCHANGED <<enabled, stage, next, failed, requests>>
        /\ writes' \in Nat /\ writes' <= writes /\ (writes > 0 \/ "purger" \in live)
    BY <1>5 DEF Process!Write, Process!Purge, Process!GetPool
  <2>2. stage = "starting" => "db" \in live
    BY <2>1, PartsInOrder DEF BroughtBy
  <2>3. "db" \in live => live' = live /\ late' = late
    BY <2>1
  <2>4. \A n \in 0..6 : (live' \cap StoppedBy(n)) = live \cap StoppedBy(n)
    BY <2>1, StopsInOrder
  <2>5. CASE "db" \in live
    BY <2>1, <2>2, <2>3, <2>5, <1>1
  <2>6. CASE "db" \notin live
    <3>1. stage = "closing" /\ late' = TRUE /\ stage' = stage /\ next' = next /\ requests' = requests /\ failed' = failed
      BY <2>1, <2>2, <2>6
    <3>2. QED
      BY <2>1, <2>4, <3>1, <1>1
  <2>7. QED
    BY <2>5, <2>6
<1>6. CASE Process!Stop
  <2>1. /\ stage = "stopping" /\ live' = live \ {Process!Stops[next + 1]} /\ next \in 0..5
        /\ IF next + 1 = 6 THEN stage' = "closing" /\ next' = 0 ELSE next' = next + 1 /\ UNCHANGED stage
        /\ UNCHANGED <<enabled, failed, requests, writes, late>>
    BY <1>6, StopsInOrder DEF Process!Stop
  <2>2. StoppedBy(next + 1) = StoppedBy(next) \cup {Process!Stops[next + 1]} /\ "db" \in live'
    BY <2>1, StopsInOrder
  <2>3. ~failed => live' \cap StoppedBy(next + 1) = {}
    BY <2>1, <2>2
  <2>4. QED
    BY <2>1, <2>2, <2>3, <1>1, StopsInOrder
<1>7. CASE Process!StopFails
  BY <1>7, <1>1, StopsInOrder DEF Process!StopFails
<1>8. CASE Process!Close
  BY <1>8, <1>1, StopsInOrder DEF Process!Close
<1>9. CASE Process!End
  BY <1>9, <1>1, StopsInOrder DEF Process!End
<1>10. QED
  BY <1>2, <1>3, <1>4, <1>5, <1>6, <1>8, <1>9, <1>7 DEF Process!LsNext

(* What the property asks.                                                  *)
LEMMA InOrder == ProcessInv => Process!LifespanOrder
BY PartsInOrder, StopsInOrder DEF ProcessInv, Process!LifespanOrder, StoppedBy, UpStages

(* Parts come up in order, go down in order, and none is used outside.      *)
THEOREM ProcessInvariance == Spec => []ProcessInv
<1>1. Init => ProcessInv
  <2>1. Init => Process!LsInit
    BY DEF Init
  <2>2. Process!LsInit => ProcessInv
    <3>1. BroughtBy(0) = {}
      BY DEF BroughtBy
    <3>2. SUFFICES ASSUME Process!LsInit PROVE ProcessInv
      OBVIOUS
    <3>3. /\ stage = "starting" /\ next = 0 /\ live = {} /\ requests = 0 /\ writes = 0
          /\ late = FALSE /\ failed = FALSE /\ enabled \subseteq Process!Optional
      BY <3>2 DEF Process!LsInit
    <3>4. BroughtBy(next) = live
      BY <3>1, <3>3
    <3>5. ~(requests > 0)
      BY <3>3
    <3>6. ~late /\ late \in BOOLEAN /\ failed \in BOOLEAN
      BY <3>3
    <3>7. QED
      BY <3>3, <3>4, <3>5, <3>6 DEF ProcessInv, UpStages
  <2>3. QED
    BY <2>1, <2>2
<1>2. ProcessInv /\ [Next]_vars => ProcessInv'
  <2>1. CASE UNCHANGED processVars
    BY <2>1 DEF processVars, ProcessInv, Process!Wanted, BroughtBy
  <2>2. QED
    BY <2>1, ProcessSteps, ProcessStep
<1>3. QED
  BY <1>1, <1>2, PTL DEF Spec

-----------------------------------------------------------------------------
(* Serving.                                                                 *)

(* However many gateways of whatever releases start, crash and migrate, one *)
(* serves only on a schema with all its files, unless two started together  *)
(* on one SQLite file; and no part of the process is used before it is up   *)
(* or after it is down (migrations, main.py).                               *)
THEOREM ServesOnTheWhole == Spec => []ServesOnlyWhole
<1>1. MigratingInv /\ ProcessInv => ServesOnlyWhole
  BY WholeSchema, InOrder DEF ServesOnlyWhole
<1>2. QED
  BY <1>1, MigratingInvariance, ProcessInvariance, PTL
-----------------------------------------------------------------------------
(* The list of sessions.                                                    *)

(* The reader counts as everyone does.                                      *)
LEMMA ReaderCounts == \A S : /\ Reader!Cardinality(S) = Cardinality(S)
                             /\ Reader!IsFiniteSet(S) <=> IsFiniteSet(S)
BY DEF Reader!Cardinality, Cardinality, Reader!IsFiniteSet, IsFiniteSet

(* Only a query, an event or a purge touches the list and the trail.        *)
LEMMA ReaderSteps == [Next]_vars => Reader!RdNext \/ UNCHANGED readerVars
BY DEF Next, vars, aroundVars, Picked

(* The image of a finite set is finite, and not larger.                     *)
LEMMA Images ==
  ASSUME NEW S, IsFiniteSet(S), NEW f, DOMAIN f = S
  PROVE  IsFiniteSet({f[x] : x \in S}) /\ Cardinality({f[x] : x \in S}) \in Nat
<1> DEFINE T == {f[x] : x \in S}
<1>1. [x \in S |-> f[x]] \in Surjection(S, T)
  BY DEF Surjection
<1>2. IsFiniteSet(T)
  BY <1>1, FS_Surjection
<1>3. QED
  BY <1>2, FS_CardinalityType

(* The sessions a list is about are finitely many, as the events are.       *)
LEMMA FewSessions ==
  ASSUME NEW q, IsFiniteSet(trail)
  PROVE  IsFiniteSet(Reader!Qualifying(q)) /\ Cardinality(Reader!Qualifying(q)) \in Nat
<1> DEFINE f == [e \in trail |-> Reader!SessionOf(e.call)]
           T == {f[e] : e \in trail}
<1>1. IsFiniteSet(T)
  BY Images
<1>2. Reader!Qualifying(q) \subseteq T
  BY DEF Reader!Qualifying, Reader!Qualifies, Reader!Of, Reader!Scoped
<1> HIDE DEF T
<1>3. IsFiniteSet(Reader!Qualifying(q))
  BY <1>1, <1>2, FS_Subset
<1>4. QED
  BY <1>3, FS_CardinalityType

(* How long a page is.                                                      *)
LEMMA PageSizes ==
  ASSUME NEW q \in Queries, NEW n \in Nat
  PROVE  /\ Reader!PageSize(n, q) \in Nat
         /\ q.offset >= n => Reader!PageSize(n, q) = 0
         /\ q.offset < n => /\ Reader!PageSize(n, q) > 0 /\ q.offset + Reader!PageSize(n, q) <= n
                            /\ q.offset + Reader!PageSize(n, q) < n <=> q.offset + Limit < n
<1>1. q.offset \in Nat /\ Limit \in Nat /\ Limit > 0
  BY ReaderAssumption
<1>2. CASE q.offset < n
  <2>1. n - q.offset \in Nat
    BY <1>1, <1>2
  <2>2. Reader!PageSize(n, q) \in {n - q.offset, Limit} /\ \A x \in {n - q.offset, Limit} : Reader!PageSize(n, q) <= x
    <3>1. \E x \in {n - q.offset, Limit} : \A y \in {n - q.offset, Limit} : x <= y
      BY <2>1, <1>1
    <3>2. QED
      BY <3>1, <1>2 DEF Reader!PageSize, Reader!Min
  <2>3. QED
    BY <1>1, <1>2, <2>1, <2>2
<1>3. QED
  BY <1>1, <1>2 DEF Reader!PageSize

(* A page holds the rows of sessions the list is about, as they stand.      *)
LEMMA PageTells ==
  ASSUME IsFiniteSet(trail), query \in Queries, NEW o \in Reader!Orders(query)
  PROVE  /\ Reader!PageSize(Cardinality(Reader!Qualifying(query)), query) \in Nat
         /\ DOMAIN Reader!Page(o, query) = 1..Reader!PageSize(Cardinality(Reader!Qualifying(query)), query)
         /\ Len(Reader!Page(o, query)) = Reader!PageSize(Cardinality(Reader!Qualifying(query)), query)
         /\ \A i \in 1..Len(Reader!Page(o, query)) : Reader!AsNow(Reader!Page(o, query)[i])
<1> DEFINE n == Cardinality(Reader!Qualifying(query))
           m == Reader!PageSize(n, query)
           Told(s) == Reader!Stats(s, Reader!Of(s, Reader!Scoped(query, trail)))
<1>1. n \in Nat
  BY FewSessions
<1>2. o \in [1..n -> Reader!Qualifying(query)]
  BY ReaderCounts DEF Reader!Orders, Reader!SetToSeqs
<1>3. Len(o) = n
  BY <1>1, <1>2
<1>4. m \in Nat /\ \A i \in 1..m : query.offset + i \in 1..n
  BY <1>1, PageSizes, ReaderAssumption
<1>5. Reader!Page(o, query) = [i \in 1..m |-> Told(o[query.offset + i])]
  BY <1>3 DEF Reader!Page
<1> HIDE DEF n, m
<1>6. DOMAIN Reader!Page(o, query) = 1..m /\ Len(Reader!Page(o, query)) = m
  BY <1>4, <1>5
<1>7. \A s : Told(s).session = s
  BY DEF Reader!Stats
<1>8. \A i \in 1..m : Reader!AsNow(Reader!Page(o, query)[i])
  BY <1>2, <1>4, <1>5, <1>7 DEF Reader!AsNow
<1>9. QED
  BY <1>4, <1>6, <1>8 DEF m, n

(* Within the scope of a user, a session has one call at most.              *)
LEMMA OneCall ==
  ASSUME trail \subseteq Events, IsFiniteSet(trail), NEW q, NEW s, q.user # Reader!None
  PROVE  Reader!Stats(s, Reader!Of(s, Reader!Scoped(q, trail))).turns <= Reader!OneTurnPer(<<s, q.user>>)
<1> DEFINE es == Reader!Of(s, Reader!Scoped(q, trail))
           calls == {e.call : e \in es}
           own == {x \in Reader!CallIds : x = <<s, q.user>>}
<1>1. \A e \in es : e.call \in Reader!CallIds /\ e.call = <<s, q.user>>
  BY ReaderAssumption DEF Reader!Of, Reader!Scoped, Reader!SessionOf, Reader!UserOf, Reader!CallIds
<1>2. calls \subseteq own /\ own \subseteq {<<s, q.user>>}
  BY <1>1
<1> HIDE DEF calls, own
<1>3. IsFiniteSet(own)
  <2>1. IsFiniteSet({<<s, q.user>>}) /\ own \in SUBSET {<<s, q.user>>}
    BY <1>2, FS_Singleton
  <2>2. QED
    BY <2>1, FS_Subset
<1>4. Cardinality(calls) <= Cardinality(own)
  BY <1>2, <1>3, FS_Subset
<1>5. QED
  BY <1>4, ReaderCounts DEF Reader!Stats, Reader!OneTurnPer, calls, own

(* What a query would give depends on the trail alone.                      *)
LEMMA SameTrail ==
  ASSUME UNCHANGED <<postgres, trail, query>>
  PROVE  /\ (Reader!Qualifying(query))' = Reader!Qualifying(query)
         /\ \A r : Reader!AsNow(r)' <=> Reader!AsNow(r)
         /\ \A s : /\ (Reader!Models(s, query))' = Reader!Models(s, query)
                  /\ (Reader!Previews(s, query))' = Reader!Previews(s, query)
<1>1. (Reader!Qualifying(query))' = Reader!Qualifying(query)
  BY DEF Reader!Qualifying, Reader!Qualifies, Reader!AtLeast, Reader!AtMost
<1>2. \A s : Reader!Of(s, Reader!Scoped(query, trail))' = Reader!Of(s, Reader!Scoped(query, trail))
  OBVIOUS
<1>3. QED
  BY <1>1, <1>2 DEF Reader!AsNow, Reader!Models, Reader!Previews, Reader!Previewable

(* An event is written or a call purged: nothing of the list changes.       *)
LEMMA TrailStep ==
  ASSUME Reader!ReaderInv, (\E e \in Events : Reader!Write(e)) \/ (\E c \in Reader!CallIds : Reader!Purge(c))
  PROVE  Reader!ReaderInv'
<1> USE DEF Reader!ReaderInv
<1>1. UNCHANGED <<query, listing>> /\ Reader!Moves
  BY DEF Reader!Write, Reader!Purge
<1>2. trail' \subseteq Events /\ IsFiniteSet(trail')
  <2>1. CASE \E e \in Events : Reader!Write(e)
    <3>1. PICK e \in Events : trail' = trail \cup {e}
      BY <2>1 DEF Reader!Write
    <3>2. QED
      BY <3>1, FS_AddElement, ReaderCounts DEF Reader!ReaderTypeOK
  <2>2. CASE \E c \in Reader!CallIds : Reader!Purge(c)
    <3>1. trail' \in SUBSET trail
      BY <2>2 DEF Reader!Purge
    <3>2. QED
      BY <3>1, FS_Subset, ReaderCounts DEF Reader!ReaderTypeOK
  <2>3. QED
    BY <2>1, <2>2
<1>3. moved' \in Nat /\ (listing.at = "idle" => moved' = 0) /\ (listing.at # "idle" => moved' # 0)
  BY <1>1 DEF Reader!Moves, Reader!ReaderTypeOK
<1>4. Reader!ReaderTypeOK'
  BY <1>1, <1>2, <1>3, ReaderCounts DEF Reader!ReaderTypeOK
<1>5. Reader!OwnInv'
  BY <1>1 DEF Reader!OwnInv, Reader!Paged, Reader!Previewed, Reader!Shown
<1>6. Reader!FreshInv'
  BY <1>1, <1>3 DEF Reader!FreshInv
<1>7. QED
  BY <1>4, <1>5, <1>6

(* A list is begun: its total is of this moment.                            *)
LEMMA CountStep ==
  ASSUME Reader!ReaderInv, NEW q \in Queries, Reader!Count(q)
  PROVE  Reader!ReaderInv'
<1>1. /\ query' = q /\ UNCHANGED <<postgres, trail, moved>> /\ moved = 0
      /\ listing' = [at |-> "page", total |-> Cardinality(Reader!Qualifying(q)), rows |-> <<>>, models |-> <<>>,
                     previews |-> <<>>, users |-> <<>>]
  BY ReaderCounts DEF Reader!Count, Reader!Unread, Reader!ReaderInv, Reader!ReaderTypeOK
<1>2. (Reader!Qualifying(query))' = Reader!Qualifying(q)
  BY <1>1 DEF Reader!Qualifying, Reader!Qualifies, Reader!AtLeast, Reader!AtMost
<1>3. Len(listing'.rows) = 0 /\ DOMAIN listing'.rows = 1..0
  BY <1>1
<1>4. Reader!ReaderTypeOK'
  BY <1>1, <1>3 DEF Reader!ReaderInv, Reader!ReaderTypeOK
<1>5. Reader!OwnInv'
  BY <1>1, <1>3 DEF Reader!OwnInv
<1>6. Reader!FreshInv'
  BY <1>1, <1>2, <1>3, ReaderCounts DEF Reader!FreshInv, Reader!Paged
<1>7. QED
  BY <1>4, <1>5, <1>6 DEF Reader!ReaderInv

(* What a preview is of.                                                    *)
LEMMA OwnPreviews ==
  ASSUME NEW s, NEW q, q.user # Reader!None, NEW p \in Reader!Previews(s, q)
  PROVE  \A c \in p : Reader!UserOf(c) = q.user
<1>1. \A e \in Reader!Previewable(s, q) : Reader!UserOf(e.call) = q.user
  BY DEF Reader!Previewable, Reader!Of, Reader!Scoped
<1>2. p = {} \/ \E e \in Reader!Previewable(s, q) : p = {e.call}
  BY DEF Reader!Previews
<1>3. QED
  BY <1>1, <1>2

(* What a list has after a query on one page.                               *)
LEMMA PageStep ==
  ASSUME Reader!ReaderInv, Reader!FetchPage
  PROVE  Reader!ReaderInv'
<1> DEFINE NextStage(page, after) == IF page = <<>> THEN "done" ELSE after
<1>0. PICK o \in Reader!Orders(query) :
        \/ \E p \in Reader!ChosenPreviews(Reader!Page(o, query)) :
             listing' = [listing EXCEPT !.at = NextStage(Reader!Page(o, query), "users"), !.rows = Reader!Page(o, query),
                                        !.models = Reader!ModelsOn(Reader!Page(o, query)), !.previews = p]
        \/ listing' = [listing EXCEPT !.at = NextStage(Reader!Page(o, query), "models"), !.rows = Reader!Page(o, query)]
  BY DEF Reader!FetchPage
<1> DEFINE page == Reader!Page(o, query)
<1> HIDE DEF page
<1>1. /\ listing'.rows = page
      /\ listing' = [at |-> listing'.at, total |-> listing.total, rows |-> listing'.rows, models |-> listing'.models,
                     previews |-> listing'.previews, users |-> listing'.users]
      /\ listing'.at \in {"done", "users", "models"} /\ (listing'.at = "done" <=> listing'.rows = <<>>)
      /\ listing'.at = "users" => /\ listing'.models = Reader!ModelsOn(listing'.rows)
                                  /\ listing'.previews \in Reader!ChosenPreviews(listing'.rows)
  <2>1. listing = [at |-> listing.at, total |-> listing.total, rows |-> listing.rows,
                   models |-> listing.models, previews |-> listing.previews, users |-> listing.users]
    BY DEF Reader!ReaderInv, Reader!ReaderTypeOK
  <2>2. CASE listing' = [listing EXCEPT !.at = NextStage(page, "models"), !.rows = page]
    BY <2>1, <2>2
  <2>3. ASSUME NEW p \in Reader!ChosenPreviews(page),
               listing' = [listing EXCEPT !.at = NextStage(page, "users"), !.rows = page, !.models = Reader!ModelsOn(page), !.previews = p]
        PROVE  /\ listing'.rows = page
               /\ listing' = [at |-> listing'.at, total |-> listing.total, rows |-> listing'.rows, models |-> listing'.models,
                              previews |-> listing'.previews, users |-> listing'.users]
               /\ listing'.at \in {"done", "users", "models"} /\ (listing'.at = "done" <=> listing'.rows = <<>>)
               /\ listing'.at = "users" => /\ listing'.models = Reader!ModelsOn(listing'.rows)
                                           /\ listing'.previews \in Reader!ChosenPreviews(listing'.rows)
    <3>1. listing' = [at |-> NextStage(page, "users"), total |-> listing.total, rows |-> page,
                      models |-> Reader!ModelsOn(page), previews |-> p, users |-> listing.users]
      BY <2>1, <2>3
    <3>2. QED
      BY <2>3, <3>1
  <2>4. QED
    BY <1>0, <2>2, <2>3 DEF page
<1>2. listing.at = "page" /\ UNCHANGED <<postgres, trail, query, moved>>
  BY DEF Reader!FetchPage
<1> DEFINE n == Reader!PageSize(Cardinality(Reader!Qualifying(query)), query)
<1>3. n \in Nat /\ Len(listing'.rows) = n /\ DOMAIN listing'.rows = 1..n
  BY <1>1, PageTells, ReaderCounts DEF Reader!ReaderInv, Reader!ReaderTypeOK, page
<1>4. \A i \in 1..n : Reader!AsNow(listing'.rows[i])
  BY <1>1, <1>3, PageTells, ReaderCounts DEF Reader!ReaderInv, Reader!ReaderTypeOK, page
<1>5. listing'.at = "done" => n = 0
  <2>1. listing'.at = "done" => Len(listing'.rows) = 0
    BY <1>1
  <2>2. QED
    BY <2>1, <1>3
<1>6. listing'.at = "users" =>
        \A i \in 1..n : /\ listing'.models[i] = Reader!Models(listing'.rows[i].session, query)
                        /\ listing'.previews[i] \in Reader!Previews(listing'.rows[i].session, query)
  BY <1>1, <1>3 DEF Reader!ModelsOn, Reader!ChosenPreviews
<1> HIDE DEF n
<1>7. Reader!ReaderTypeOK'
  BY <1>1, <1>2, <1>3 DEF Reader!ReaderInv, Reader!ReaderTypeOK
<1>8. Reader!OwnInv'
  <2> SUFFICES ASSUME query.user # Reader!None, NEW i \in 1..n
               PROVE  /\ listing'.rows[i].turns <= Reader!OneTurnPer(<<listing'.rows[i].session, query.user>>)
                      /\ listing'.at = "users" => \A c \in listing'.previews[i] : Reader!UserOf(c) = query.user
                      /\ listing'.at # "done"
    BY <1>1, <1>2, <1>3 DEF Reader!OwnInv, Reader!Previewed, Reader!Shown, Reader!OneTurnPer
  <2>1. listing'.rows[i].turns <= Reader!OneTurnPer(<<listing'.rows[i].session, query.user>>)
    BY <1>4, OneCall, ReaderCounts DEF Reader!AsNow, Reader!ReaderInv, Reader!ReaderTypeOK
  <2>2. listing'.at = "users" => \A c \in listing'.previews[i] : Reader!UserOf(c) = query.user
    BY <1>6, OwnPreviews
  <2>3. QED
    BY <1>3, <1>5, <2>1, <2>2
<1>9. Reader!FreshInv'
  <2> SUFFICES ASSUME moved = 0 PROVE Reader!FreshInv'
    BY <1>2 DEF Reader!FreshInv
  <2>1. listing.total = Cardinality(Reader!Qualifying(query))
    BY <1>2, ReaderCounts DEF Reader!ReaderInv, Reader!FreshInv
  <2>2. listing'.total = Reader!Cardinality(Reader!Qualifying(query)') /\ Len(listing'.rows) = Reader!PageSize(listing'.total, query')
    BY <1>1, <1>2, <1>3, <2>1, SameTrail, ReaderCounts DEF n
  <2>3. \A i \in 1..Len(listing'.rows) :
          /\ (Reader!AsNow(listing.rows[i]))'
          /\ listing'.at = "users" =>
               /\ listing'.models[i] = (Reader!Models(listing.rows[i].session, query))'
               /\ listing'.previews[i] \in (Reader!Previews(listing.rows[i].session, query))'
    BY <1>2, <1>3, <1>4, <1>6, SameTrail
  <2>4. listing'.at = "done" => Len(listing'.rows) = 0
    BY <1>3, <1>5
  <2>5. QED
    BY <1>1, <1>3, <2>2, <2>3, <2>4 DEF Reader!FreshInv, Reader!Previewed, Reader!Paged
<1>10. QED
  BY <1>7, <1>8, <1>9 DEF Reader!ReaderInv

(* What is looked up for the sessions on a page is of that moment.          *)
LEMMA LookupStep ==
  ASSUME Reader!ReaderInv, Reader!FetchModels \/ Reader!FetchPreviews \/ Reader!FetchUsers
  PROVE  Reader!ReaderInv'
<1>1. /\ UNCHANGED <<postgres, trail, query, moved>>
      /\ listing' = [at |-> listing'.at, total |-> listing.total, rows |-> listing.rows, models |-> listing'.models,
                     previews |-> listing'.previews, users |-> listing'.users]
      /\ <<listing.at, listing'.at>> \in {<<"models", "previews">>, <<"previews", "users">>, <<"users", "done">>}
      /\ listing.at = "models" => listing'.models = Reader!ModelsOn(listing.rows)
      /\ listing.at # "models" => listing'.models = listing.models
      /\ listing.at = "previews" => listing'.previews \in Reader!ChosenPreviews(listing.rows)
      /\ listing.at = "users" => /\ listing'.previews = listing.previews
                                 /\ listing'.users = [i \in 1..Len(listing.rows) |-> Reader!UserIds(listing.rows[i].session, query)]
  <2>1. CASE Reader!FetchModels
    BY <2>1 DEF Reader!FetchModels, Reader!ReaderInv, Reader!ReaderTypeOK
  <2>2. CASE Reader!FetchPreviews
    BY <2>2 DEF Reader!FetchPreviews, Reader!ReaderInv, Reader!ReaderTypeOK
  <2>3. CASE Reader!FetchUsers
    BY <2>3 DEF Reader!FetchUsers, Reader!ReaderInv, Reader!ReaderTypeOK
  <2>4. QED
    BY <2>1, <2>2, <2>3
<1>2. Reader!ReaderTypeOK'
  BY <1>1 DEF Reader!ReaderInv, Reader!ReaderTypeOK
<1>3. \A i \in 1..Len(listing.rows) :
        /\ listing.at = "models" => listing'.models[i] = Reader!Models(listing.rows[i].session, query)
        /\ listing.at = "previews" => listing'.previews[i] \in Reader!Previews(listing.rows[i].session, query)
        /\ listing.at = "users" => listing'.users[i] = Reader!UserIds(listing.rows[i].session, query)
  BY <1>1 DEF Reader!ModelsOn, Reader!ChosenPreviews
<1>4. Reader!OwnInv'
  <2>0. query' = query /\ listing'.rows = listing.rows
    BY <1>1
  <2> SUFFICES ASSUME query.user # Reader!None, NEW i \in 1..Len(listing.rows)
               PROVE  /\ listing.rows[i].turns <= Reader!OneTurnPer(<<listing.rows[i].session, query.user>>)
                      /\ listing'.at \in {"users", "done"} => \A c \in listing'.previews[i] : Reader!UserOf(c) = query.user
                      /\ listing'.at = "done" => listing'.users[i] \subseteq {query.user}
    BY <2>0 DEF Reader!OwnInv, Reader!Previewed, Reader!Shown, Reader!OneTurnPer, Reader!CallIds
  <2>1. listing.rows[i].turns <= Reader!OneTurnPer(<<listing.rows[i].session, query.user>>)
    BY <1>1 DEF Reader!OwnInv, Reader!Paged, Reader!ReaderInv
  <2>2. listing'.at \in {"users", "done"} => \A c \in listing'.previews[i] : Reader!UserOf(c) = query.user
    <3>1. CASE listing.at = "previews"
      BY <3>1, <1>3, OwnPreviews
    <3>2. CASE listing.at = "users"
      BY <3>2, <1>1 DEF Reader!OwnInv, Reader!Previewed, Reader!ReaderInv
    <3>3. QED
      BY <3>1, <3>2, <1>1
  <2>3. listing'.at = "done" => listing'.users[i] \subseteq {query.user}
    BY <1>1, <1>3 DEF Reader!UserIds, Reader!Of, Reader!Scoped
  <2>4. QED
    BY <2>1, <2>2, <2>3
<1>5. Reader!FreshInv'
  <2> SUFFICES ASSUME moved = 0 PROVE Reader!FreshInv'
    BY <1>1 DEF Reader!FreshInv
  <2>1. /\ listing.total = Reader!Cardinality(Reader!Qualifying(query))
        /\ Len(listing.rows) = Reader!PageSize(listing.total, query)
        /\ \A i \in 1..Len(listing.rows) :
             /\ Reader!AsNow(listing.rows[i])
             /\ listing.at # "models" => listing.models[i] = Reader!Models(listing.rows[i].session, query)
             /\ listing.at = "users" => listing.previews[i] \in Reader!Previews(listing.rows[i].session, query)
    BY <1>1 DEF Reader!ReaderInv, Reader!FreshInv, Reader!Paged, Reader!Previewed
  <2>2. listing'.total = Reader!Cardinality(Reader!Qualifying(query)') /\ Len(listing'.rows) = Reader!PageSize(listing'.total, query')
    BY <1>1, <2>1, SameTrail
  <2>3. \A i \in 1..Len(listing.rows) :
          /\ listing'.models[i] = Reader!Models(listing.rows[i].session, query)
          /\ listing'.at # "previews" => listing'.previews[i] \in Reader!Previews(listing.rows[i].session, query)
    BY <1>1, <1>3, <2>1
  <2>4. \A i \in 1..Len(listing'.rows) :
          /\ (Reader!AsNow(listing.rows[i]))'
          /\ listing'.models[i] = (Reader!Models(listing.rows[i].session, query))'
          /\ listing'.at # "previews" => listing'.previews[i] \in (Reader!Previews(listing.rows[i].session, query))'
    BY <1>1, <2>1, <2>3, SameTrail
  <2>5. QED
    BY <1>1, <2>2, <2>4 DEF Reader!FreshInv, Reader!Previewed, Reader!Paged
<1>6. QED
  BY <1>2, <1>4, <1>5 DEF Reader!ReaderInv

(* What a list has read: the total, rows, models and previews of one moment *)
(* if the trail did not change, and of no other user's if it did.           *)
THEOREM ReaderInvariance == Spec => []Reader!ReaderInv
<1>1. Init => Reader!ReaderInv
  <2> SUFFICES ASSUME Init PROVE Reader!ReaderInv
    OBVIOUS
  <2>1. Reader!RdInit
    BY DEF Init
  <2>2. /\ trail = {} /\ moved = 0 /\ listing.at = "idle" /\ Len(listing.rows) = 0 /\ DOMAIN listing.rows = 1..0
        /\ listing = [at |-> listing.at, total |-> listing.total, rows |-> listing.rows,
                      models |-> listing.models, previews |-> listing.previews, users |-> listing.users]
    BY <2>1 DEF Reader!RdInit, Reader!Unread
  <2>3. query \in Queries
    BY <2>1, ReaderAssumption DEF Reader!RdInit
  <2>4. Reader!ReaderTypeOK
    BY <2>2, <2>3, FS_EmptySet, ReaderCounts DEF Reader!ReaderTypeOK
  <2>5. QED
    BY <2>2, <2>4 DEF Reader!ReaderInv, Reader!OwnInv, Reader!FreshInv
<1>2. Reader!ReaderInv /\ [Next]_vars => Reader!ReaderInv'
  <2> SUFFICES ASSUME Reader!ReaderInv, [Next]_vars PROVE Reader!ReaderInv'
    OBVIOUS
  <2>1. CASE UNCHANGED readerVars
    <3>1. UNCHANGED <<postgres, trail, query, listing, moved>>
      BY <2>1 DEF readerVars
    <3>2. Reader!ReaderTypeOK' /\ Reader!OwnInv'
      BY <3>1 DEF Reader!ReaderInv, Reader!ReaderTypeOK, Reader!OwnInv, Reader!Paged, Reader!Previewed, Reader!Shown
    <3>3. Reader!FreshInv'
      BY <3>1, SameTrail DEF Reader!ReaderInv, Reader!FreshInv, Reader!Paged, Reader!Previewed
    <3>4. QED
      BY <3>2, <3>3 DEF Reader!ReaderInv
  <2>2. CASE Reader!Answered
    <3>1. /\ moved' = 0 /\ UNCHANGED <<trail, query>>
          /\ listing' = [at |-> "idle", total |-> 0, rows |-> <<>>, models |-> <<>>, previews |-> <<>>, users |-> <<>>]
      BY <2>2 DEF Reader!Answered, Reader!Unread
    <3>2. Len(listing'.rows) = 0 /\ DOMAIN listing'.rows = 1..0
      BY <3>1
    <3>3. QED
      BY <3>1, <3>2 DEF Reader!ReaderInv, Reader!ReaderTypeOK, Reader!OwnInv, Reader!FreshInv
  <2>3. CASE Reader!RdNext /\ ~Reader!Answered
    BY <2>3, TrailStep, CountStep, PageStep, LookupStep DEF Reader!RdNext
  <2>4. QED
    BY <2>1, <2>2, <2>3, ReaderSteps
<1>3. QED
  BY <1>1, <1>2, PTL DEF Spec

(* What a bijection is.                                                     *)
LEMMA Bijects ==
  ASSUME NEW S, NEW T, NEW f \in Bijection(S, T)
  PROVE  /\ f \in [S -> T] /\ \A i \in S : f[i] \in T
         /\ \A i, j \in S : f[i] = f[j] => i = j
         /\ \A t \in T : \E i \in S : f[i] = t
BY DEF Bijection, Injection, Surjection, IsInjective

(* Counting the events of a set call by call.                               *)
LEMMA CallByCall ==
  ASSUME NEW es, IsFiniteSet(es)
  PROVE  Cardinality(UNION {{c} \X (1..Cardinality({e \in es : e.call = c})) : c \in {e.call : e \in es}}) = Cardinality(es)
<1> DEFINE calls == {e.call : e \in es}
           part(c) == {e \in es : e.call = c}
           n(c) == Cardinality(part(c))
           b == [c \in calls |-> CHOOSE f : f \in Bijection(1..n(c), part(c))]
           pairs == UNION {{c} \X (1..n(c)) : c \in calls}
           g == [p \in pairs |-> b[p[1]][p[2]]]
<1>1. \A c \in calls : b[c] \in Bijection(1..n(c), part(c)) /\ n(c) \in Nat
  <2> SUFFICES ASSUME NEW c \in calls PROVE ExistsBijection(1..n(c), part(c)) /\ n(c) \in Nat
    BY DEF ExistsBijection
  <2>1. part(c) \in SUBSET es
    OBVIOUS
  <2>2. IsFiniteSet(part(c))
    BY <2>1, FS_Subset
  <2>3. QED
    BY <2>2, FS_CardinalityType
<1> HIDE DEF calls, part, n, b
<1>2. \A p \in pairs : p[1] \in calls /\ p[2] \in 1..n(p[1]) /\ p = <<p[1], p[2]>>
  <2> SUFFICES ASSUME NEW c \in calls, NEW p \in {c} \X (1..n(c)) PROVE p[1] = c /\ p[2] \in 1..n(c) /\ p = <<p[1], p[2]>>
    OBVIOUS
  <2>1. QED
    OBVIOUS
<1>3. \A c \in calls : /\ \A i \in 1..n(c) : b[c][i] \in part(c)
                       /\ \A i, j \in 1..n(c) : b[c][i] = b[c][j] => i = j
                       /\ \A e \in part(c) : \E i \in 1..n(c) : b[c][i] = e
  BY <1>1, Bijects
<1>4. \A c \in calls : \A i \in 1..n(c) : <<c, i>> \in pairs
  <2> SUFFICES ASSUME NEW c \in calls, NEW i \in 1..n(c) PROVE <<c, i>> \in pairs
    OBVIOUS
  <2>1. <<c, i>> \in {c} \X (1..n(c)) /\ {c} \X (1..n(c)) \in {{d} \X (1..n(d)) : d \in calls}
    OBVIOUS
  <2>2. QED
    BY <2>1
<1>5. \A p \in pairs : g[p] \in es /\ g[p].call = p[1] /\ g[p] = b[p[1]][p[2]]
  BY <1>2, <1>3 DEF part
<1>6. g \in [pairs -> es]
  BY <1>5
<1>7. \A p, q \in pairs : g[p] = g[q] => p = q
  <2> SUFFICES ASSUME NEW p \in pairs, NEW q \in pairs, g[p] = g[q] PROVE p = q
    OBVIOUS
  <2>1. p[1] = q[1]
    <3>1. g[p].call = p[1] /\ g[q].call = q[1]
      BY <1>5
    <3>2. QED
      BY <3>1
  <2>2. p[2] = q[2]
    BY <2>1, <1>2, <1>3, <1>5
  <2>3. QED
    BY <2>1, <2>2, <1>2
<1>8. \A e \in es : \E p \in pairs : g[p] = e
  <2> SUFFICES ASSUME NEW e \in es PROVE \E p \in pairs : g[p] = e
    OBVIOUS
  <2>1. e.call \in calls /\ e \in part(e.call)
    BY DEF calls, part
  <2>2. PICK i \in 1..n(e.call) : b[e.call][i] = e
    BY <2>1, <1>3
  <2>3. <<e.call, i>> \in pairs
    BY <2>1, <2>2, <1>4
  <2>4. QED
    BY <2>2, <2>3
<1> HIDE DEF g, pairs
<1>9. g \in Injection(pairs, es) /\ g \in Surjection(pairs, es)
  BY <1>6, <1>7, <1>8 DEF Injection, Surjection, IsInjective
<1>10. Cardinality(pairs) = Cardinality(es)
  BY <1>9, FS_Injection
<1>11. QED
  BY <1>10 DEF pairs, n, calls, part

(* The turns of a detail are one per call: as many, with the models,        *)
(* interventions and events of its events.                                  *)
LEMMA DetailTells ==
  ASSUME IsFiniteSet(trail), NEW s
  PROVE  LET es == Reader!Of(s, trail)
             ts == Reader!Detail(s).turns
         IN  /\ Cardinality({e.call : e \in es}) = Cardinality(ts)
             /\ {t.call : t \in ts} = {e.call : e \in es}
             /\ Cardinality({e \in es : Reader!Intervenes(e)}) = Reader!Detail(s).interventions
             /\ {e.kind[2] : e \in {x \in es : Reader!IsRequest(x)}} = Reader!Detail(s).models
             /\ Cardinality(es) = Cardinality(UNION {{t.call} \X (1..Reader!EventCount(t.call)) : t \in ts})
             /\ Reader!Detail(s).first = Reader!First(es) /\ Reader!Detail(s).last = Reader!Latest(es)
<1> DEFINE es == Reader!Of(s, trail)
           calls == {e.call : e \in es}
           ts == {Reader!Turn(c) : c \in calls}
           f == [c \in calls |-> Reader!Turn(c)]
           size(c) == Cardinality({e \in es : e.call = c})
<1>1. es \in SUBSET trail
  BY DEF Reader!Of
<1>2. IsFiniteSet(es)
  BY <1>1, FS_Subset
<1>3. \A c \in calls : {e \in trail : e.call = c} = {e \in es : e.call = c}
  BY DEF Reader!Of
<1>4. \A c : /\ Reader!Turn(c).call = c
             /\ Reader!Turn(c).model = {e.kind[2] : e \in {x \in {e \in trail : e.call = c} : Reader!IsRequest(x)}}
             /\ Reader!Turn(c).annotations = {e \in {e \in trail : e.call = c} : e.kind[1] = "blocked"}
  BY DEF Reader!Turn
<1>5. /\ Reader!Detail(s).turns = ts
      /\ Reader!Detail(s).models = UNION {t.model : t \in ts}
      /\ Reader!Detail(s).interventions = Cardinality(UNION {t.annotations : t \in ts})
      /\ Reader!Detail(s).first = Reader!First(es) /\ Reader!Detail(s).last = Reader!Latest(es)
  BY ReaderCounts DEF Reader!Detail
<1> HIDE DEF es
<1>6. IsFiniteSet(calls)
  <2>1. calls = {[x \in es |-> x.call][e] : e \in es}
    OBVIOUS
  <2>2. IsFiniteSet({[x \in es |-> x.call][e] : e \in es})
    BY <1>2, Images
  <2>3. QED
    BY <2>1, <2>2
<1>7. Cardinality(ts) = Cardinality(calls)
  <2> HIDE DEF calls
  <2>1. f \in Surjection(calls, ts)
    BY DEF Surjection
  <2>2. f \in Injection(calls, ts)
    BY <1>4 DEF Injection, IsInjective
  <2>3. QED
    BY <2>1, <2>2, <1>6, FS_Surjection
<1>8. {t.call : t \in ts} = calls
  <2> HIDE DEF calls
  <2>1. QED
    BY <1>4
<1>9. UNION {t.annotations : t \in ts} = {e \in es : Reader!Intervenes(e)}
  <2>1. \A c \in calls : Reader!Turn(c).annotations = {e \in es : e.call = c /\ Reader!Intervenes(e)}
    BY <1>3, <1>4 DEF Reader!Intervenes
  <2>2. \A e \in es : e.call \in calls
    OBVIOUS
  <2> HIDE DEF calls
  <2>3. QED
    BY <2>1, <2>2
<1>10. UNION {t.model : t \in ts} = {e.kind[2] : e \in {x \in es : Reader!IsRequest(x)}}
  <2>1. \A c \in calls : Reader!Turn(c).model = {e.kind[2] : e \in {x \in es : x.call = c /\ Reader!IsRequest(x)}}
    BY <1>3, <1>4
  <2>2. \A e \in es : e.call \in calls
    OBVIOUS
  <2> HIDE DEF calls
  <2>3. QED
    BY <2>1, <2>2
<1>11. UNION {{t.call} \X (1..Reader!EventCount(t.call)) : t \in ts} = UNION {{c} \X (1..size(c)) : c \in calls}
  <2>1. \A c \in calls : Reader!EventCount(c) = size(c)
    BY <1>3, ReaderCounts DEF Reader!EventCount
  <2> HIDE DEF calls, size
  <2>2. {{t.call} \X (1..Reader!EventCount(t.call)) : t \in ts} = {{c} \X (1..size(c)) : c \in calls}
    BY <1>4, <2>1
  <2>3. QED
    BY <2>2
<1>12. Cardinality(UNION {{c} \X (1..size(c)) : c \in calls}) = Cardinality(es)
  BY <1>2, CallByCall
<1>13. QED
  BY <1>5, <1>7, <1>8, <1>9, <1>10, <1>11, <1>12, ReaderCounts DEF es

(* What the invariant says of a list that is shown.                         *)
LEMMA ListIsTrue == Reader!ReaderInv => Reader!ListTells
<1> SUFFICES ASSUME Reader!ReaderInv PROVE Reader!OwnOnly /\ Reader!AgreesWithDetail /\ Reader!CountsPages
  BY DEF Reader!ListTells
<1>1. Reader!OwnOnly
  BY DEF Reader!ReaderInv, Reader!OwnInv, Reader!OwnOnly, Reader!OneTurnPer, Reader!Shown, Reader!Paged, Reader!Previewed
<1>2. ASSUME Reader!Shown, moved = 0
      PROVE  /\ listing.total = Cardinality(Reader!Qualifying(query)) /\ listing.total \in Nat
             /\ Len(listing.rows) = Reader!PageSize(listing.total, query) /\ DOMAIN listing.rows = 1..Len(listing.rows)
             /\ \A i \in 1..Len(listing.rows) :
                  /\ Reader!AsNow(listing.rows[i])
                  /\ listing.models[i] = Reader!Models(listing.rows[i].session, query)
                  /\ listing.previews[i] \in Reader!Previews(listing.rows[i].session, query)
  <2>1. Cardinality(Reader!Qualifying(query)) \in Nat
    BY FewSessions, ReaderCounts DEF Reader!ReaderInv, Reader!ReaderTypeOK
  <2>2. QED
    BY <1>2, <2>1, ReaderCounts DEF Reader!ReaderInv, Reader!ReaderTypeOK, Reader!FreshInv, Reader!Shown, Reader!Paged, Reader!Previewed
<1>3. Reader!AgreesWithDetail
  <2> SUFFICES ASSUME Reader!Shown, moved = 0, query.user = Reader!None, NEW i \in 1..Len(listing.rows)
               PROVE  LET r == listing.rows[i]
                          d == Reader!Detail(r.session)
                      IN  /\ r.first = d.first /\ r.last = d.last /\ r.turns = Reader!Cardinality(d.turns)
                          /\ r.interventions = d.interventions /\ listing.models[i] = d.models
                          /\ r.events = Reader!Cardinality(UNION {{t.call} \X (1..Reader!EventCount(t.call)) : t \in d.turns})
                          /\ listing.previews[i] \subseteq {t.call : t \in d.turns}
    BY DEF Reader!AgreesWithDetail
  <2> DEFINE r == listing.rows[i]
             s == r.session
             es == Reader!Of(s, trail)
  <2>1. Reader!Scoped(query, trail) = trail
    BY DEF Reader!Scoped
  <2>2. r = Reader!Stats(s, es)
    BY <1>2, <2>1 DEF Reader!AsNow
  <2>3. /\ r.first = Reader!First(es) /\ r.last = Reader!Latest(es)
        /\ r.events = Cardinality(es) /\ r.turns = Cardinality({e.call : e \in es})
        /\ r.interventions = Cardinality({e \in es : Reader!Intervenes(e)})
    <3> HIDE DEF r, s, es
    <3>1. QED
      BY <2>2, ReaderCounts DEF Reader!Stats
  <2>4. listing.models[i] = {e.kind[2] : e \in {x \in es : Reader!IsRequest(x)}}
    BY <1>2, <2>1 DEF Reader!Models
  <2>5. listing.previews[i] \subseteq {e.call : e \in es}
    <3>1. listing.previews[i] = {} \/ \E e \in Reader!Previewable(s, query) : listing.previews[i] = {e.call}
      BY <1>2 DEF Reader!Previews
    <3>2. \A e \in Reader!Previewable(s, query) : e \in es
      BY <2>1 DEF Reader!Previewable
    <3>3. QED
      BY <3>1, <3>2
  <2>6. IsFiniteSet(trail)
    BY ReaderCounts DEF Reader!ReaderInv, Reader!ReaderTypeOK
  <2> HIDE DEF s
  <2>7. /\ Cardinality({e.call : e \in es}) = Cardinality(Reader!Detail(s).turns)
        /\ {t.call : t \in Reader!Detail(s).turns} = {e.call : e \in es}
        /\ Cardinality({e \in es : Reader!Intervenes(e)}) = Reader!Detail(s).interventions
        /\ {e.kind[2] : e \in {x \in es : Reader!IsRequest(x)}} = Reader!Detail(s).models
        /\ Cardinality(es) = Cardinality(UNION {{t.call} \X (1..Reader!EventCount(t.call)) : t \in Reader!Detail(s).turns})
        /\ Reader!Detail(s).first = Reader!First(es) /\ Reader!Detail(s).last = Reader!Latest(es)
    BY <2>6, DetailTells
  <2> HIDE DEF es
  <2>8. QED
    BY <2>3, <2>4, <2>5, <2>7, ReaderCounts DEF s
<1>4. Reader!CountsPages
  <2> SUFFICES ASSUME Reader!Shown, moved = 0
               PROVE  /\ Reader!HasMore = (query.offset + Limit < listing.total)
                      /\ listing.rows = <<>> => query.offset >= listing.total
                      /\ query.by = "intervention" => \A i \in 1..Len(listing.rows) : listing.rows[i].interventions > 0
    BY DEF Reader!CountsPages
  <2> DEFINE n == listing.total
             m == Reader!PageSize(n, query)
  <2>1. query \in Queries /\ query.offset \in Nat /\ Limit \in Nat /\ Limit > 0
    BY ReaderAssumption DEF Reader!ReaderInv, Reader!ReaderTypeOK
  <2>2. n \in Nat /\ Len(listing.rows) = m /\ DOMAIN listing.rows = 1..m
    BY <1>2
  <2>3. /\ m \in Nat /\ (query.offset >= n => m = 0)
        /\ query.offset < n => /\ m > 0 /\ query.offset + m <= n
                               /\ query.offset + m < n <=> query.offset + Limit < n
    BY <2>1, <2>2, PageSizes
  <2> HIDE DEF m
  <2>4. listing.rows = <<>> => m = 0
    <3>1. Len(<<>>) = 0
      OBVIOUS
    <3>2. QED
      BY <3>1, <2>2
  <2>5. m > 0 => listing.rows # <<>>
    BY <2>4, <2>3
  <2>6. Reader!HasMore <=> query.offset + Limit < n
    <3>1. CASE query.offset < n
      BY <3>1, <2>1, <2>2, <2>3, <2>5 DEF Reader!HasMore
    <3>2. CASE query.offset >= n
      BY <3>2, <2>1, <2>2, <2>3 DEF Reader!HasMore
    <3>3. QED
      BY <3>1, <3>2, <2>1, <2>2
  <2>7. ASSUME query.by = "intervention", NEW i \in 1..Len(listing.rows) PROVE listing.rows[i].interventions > 0
    <3> DEFINE s == listing.rows[i].session
               es == Reader!Of(s, Reader!Scoped(query, trail))
               by == {e \in es : Reader!Intervenes(e)}
    <3>1. s \in Reader!Qualifying(query) /\ listing.rows[i] = Reader!Stats(s, es)
      BY <1>2 DEF Reader!AsNow
    <3>2. by # {}
      BY <2>7, <3>1 DEF Reader!Qualifying, Reader!Qualifies
    <3>3. by \in SUBSET trail
      BY DEF Reader!Of, Reader!Scoped
    <3>4. IsFiniteSet(trail)
      BY ReaderCounts DEF Reader!ReaderInv, Reader!ReaderTypeOK
    <3>5. listing.rows[i].interventions = Cardinality(by)
      <4> DEFINE r == listing.rows[i]
      <4>1. r = Reader!Stats(s, es)
        BY <3>1
      <4> HIDE DEF r, s, es
      <4>2. r.interventions = Reader!Cardinality(by)
        BY <4>1 DEF Reader!Stats
      <4>3. r.interventions = Cardinality(by)
        BY <4>2, ReaderCounts
      <4>4. QED
        BY <4>3 DEF r
    <3> HIDE DEF by
    <3>6. IsFiniteSet(by) /\ Cardinality(by) \in Nat
      <4>1. IsFiniteSet(by)
        BY <3>3, <3>4, FS_Subset
      <4>2. QED
        BY <4>1, FS_CardinalityType
    <3>7. QED
      BY <3>2, <3>5, <3>6, FS_EmptySet
  <2>8. (query.offset + Limit < n) \in BOOLEAN /\ Reader!HasMore \in BOOLEAN
    BY DEF Reader!HasMore
  <2>9. QED
    BY <2>2, <2>3, <2>4, <2>6, <2>7, <2>8, <2>1
<1>5. QED
  BY <1>1, <1>3, <1>4

(* A list of sessions tells what the details of its sessions tell, whatever *)
(* the events, the filters and the pages; and whatever is written or purged *)
(* between its queries, it shows nothing of a call of another user than the *)
(* one it is filtered by (history/service.py).                              *)
THEOREM ListsAreTrue == Spec => []ListTells
<1>1. Reader!ReaderInv => ListTells
  BY ListIsTrue DEF ListTells
<1>2. QED
  BY <1>1, ReaderInvariance, PTL
=============================================================================
