--------------------------- MODULE InferenceRegistry ---------------------------
(***************************************************************************)
(* What a judge call gets when it asks for a provider by name:              *)
(* InferenceProviderRegistry.get (inference/registry.py) over the record    *)
(* cache and its lock, then CredentialManager._get_server_key over the key  *)
(* cache, while an administrator rewrites or deletes the provider row and   *)
(* the server credential (admin/routes.py).                                 *)
(*                                                                         *)
(* One provider name and one credential name: the caches are dictionaries   *)
(* whose entries do not interact. A row or a key is a number of its write   *)
(* and its shape; a write of the shape "absent" is a delete. A read of the  *)
(* database and the step that uses it are apart: the coroutine is suspended *)
(* in between, and so is a write between its commit and its cache pop.      *)
(***************************************************************************)
EXTENDS Naturals

CONSTANTS
  Calls,     (* concurrent calls of get() *)
  Ttl,       (* cache_ttl_seconds, and _server_key_ttl: 60 s both *)
  MaxTime,   (* bound on the clock *)
  Shapes,    (* what an administrator writes into the row, "absent" for a delete *)
  MaxWrites  (* bound on the writes, of both rows together *)

VARIABLES
  now,       \* time.time()
  row,       \* the inference_providers row
  replaced,  \* replaced[v]: when the row's version v ceased to be the current one
  entry,     \* _record_cache: at most one [at, row]
  holder,    \* who holds _cache_lock: a set of at most one call
  key,       \* the server_credentials row
  keyEntry,  \* _server_key_cache: at most one [at, key]
  popping,   \* the admin writes that have committed and not popped the cache yet
  pc, call   \* where each call is, and its locals

registryVars == <<now, row, replaced, entry, holder, key, keyEntry, popping, pc, call>>

\* The backend types and whether credential_name is set.
RowShapes == {"unknown_backend", "claude_code", "claude_code_bare", "direct_api", "direct_api_bare"}
KeyShapes == {"auth_token", "api_key", "unreadable"}   \* unreadable: encrypted otherwise, or expired
NewKeys   == {"auth_token", "api_key"}                 \* what put_server_credential may store
Bare      == {"claude_code_bare", "direct_api_bare"}
Outcomes  == {"ProviderNotFoundError", "UnknownBackendTypeError", "MissingCredentialError",
              "CredentialResolutionError", "ValueError", "ClaudeCodeProvider",
              "DirectApiProvider", "NullCredentialDirectApiProvider", "cancelled", "failed"}

Version  == 0..MaxWrites
Row      == [version : Version, shape : RowShapes \cup {"absent"}]
Key      == [version : Version, shape : KeyShapes \cup {"absent"}]
NoRow    == [version |-> 0, shape |-> "absent"]
Idle     == [began |-> 0, stamp |-> 0, rec |-> NoRow, key |-> NoRow, end |-> "none"]

TypeOK ==
  /\ now \in 0..MaxTime /\ row \in Row /\ key \in Key
  /\ replaced \in [Version -> 0..MaxTime]
  /\ entry \subseteq [at : 0..MaxTime, row : Row]
  /\ keyEntry \subseteq [at : 0..MaxTime, key : Key]
  /\ holder \subseteq Calls /\ popping \subseteq {"row", "key"}
  /\ pc \in [Calls -> {"idle", "lock", "reading", "fetched", "credential",
                       "key_read", "key_fetched", "build", "done"}]
  /\ call \in [Calls -> [began : 0..MaxTime, stamp : 0..MaxTime, rec : Row, key : Key,
                         end : Outcomes \cup {"none"}]]

RgInit ==
  /\ now = 0 /\ holder = {} /\ entry = {} /\ keyEntry = {} /\ popping = {}
  /\ row \in [version : {0}, shape : RowShapes \cup {"absent"}]
  /\ key \in [version : {0}, shape : KeyShapes \cup {"absent"}]
  /\ replaced = [v \in Version |-> 0]
  /\ pc = [c \in Calls |-> "idle"] /\ call = [c \in Calls |-> Idle]

-----------------------------------------------------------------------------
(* The administrator: one write of a row is under way at a time.            *)

Valid(shape) == shape # "unknown_backend"    \* _validate_record

\* The statement has committed. An error after it, a cancelled request or a
\* crash of the connection, leaves the cache as it is.
WriteRow(shape, pops) ==
  /\ row.version + key.version < MaxWrites /\ "row" \notin popping /\ Valid(shape)
  /\ row' = [version |-> row.version + 1, shape |-> shape]
  /\ replaced' = [replaced EXCEPT ![row.version] = now]
  /\ popping' = IF pops THEN popping \cup {"row"} ELSE popping
  /\ UNCHANGED <<now, entry, holder, key, keyEntry, pc, call>>

PopRow ==
  /\ "row" \in popping
  /\ popping' = popping \ {"row"} /\ entry' = {}
  /\ UNCHANGED <<now, row, replaced, holder, key, keyEntry, pc, call>>

WriteKey(shape) ==
  /\ row.version + key.version < MaxWrites /\ "key" \notin popping
  /\ key' = [version |-> key.version + 1, shape |-> shape]
  /\ popping' = popping \cup {"key"}
  /\ UNCHANGED <<now, row, replaced, entry, holder, keyEntry, pc, call>>

PopKey ==
  /\ "key" \in popping
  /\ popping' = popping \ {"key"} /\ keyEntry' = {}
  /\ UNCHANGED <<now, row, replaced, entry, holder, key, pc, call>>

-----------------------------------------------------------------------------
(* get(name).                                                               *)
Fresh(e) == now - e.at < Ttl

Go(c, where) == pc' = [pc EXCEPT ![c] = where]
UnchangedAdmin == UNCHANGED <<now, row, replaced, key, popping>>

\* The locals of get() are gone when it is over.
End(c, why) == Go(c, "done") /\ call' = [call EXCEPT ![c] = [Idle EXCEPT !.end = why]]

\* The record is resolved. get() goes on without suspending: it looks up the
\* factory, and resolves a credential only if the record names one.
Resolved(c, r, started) ==
  IF r.shape = "unknown_backend"
    THEN End(c, "UnknownBackendTypeError")
    ELSE /\ Go(c, IF r.shape \in Bare THEN "build" ELSE "credential")
         /\ call' = [call EXCEPT ![c] = [started EXCEPT !.rec = r, !.stamp = 0]]

Start(c) ==
  LET started == [call[c] EXCEPT !.began = now] IN
  /\ pc[c] = "idle"
  /\ \/ \E e \in entry : Fresh(e) /\ Resolved(c, e.row, started)
     \/ /\ ~\E e \in entry : Fresh(e)
        /\ Go(c, "lock") /\ call' = [call EXCEPT ![c] = started]
  /\ UnchangedAdmin /\ UNCHANGED <<entry, holder, keyEntry>>

Lock(c) ==
  /\ pc[c] = "lock" /\ holder = {}
  /\ \/ \E e \in entry : Fresh(e) /\ Resolved(c, e.row, call[c]) /\ UNCHANGED holder
     \/ /\ ~\E e \in entry : Fresh(e)
        /\ holder' = {c} /\ Go(c, "reading") /\ call' = [call EXCEPT ![c].stamp = now]
  /\ UnchangedAdmin /\ UNCHANGED <<entry, keyEntry>>

ReadRow(c) ==
  /\ pc[c] = "reading"
  /\ Go(c, "fetched") /\ call' = [call EXCEPT ![c].rec = row]
  /\ UnchangedAdmin /\ UNCHANGED <<entry, holder, keyEntry>>

StampAfterRead(c) == now    \* mutant

\* The record is stored under the time taken before the read.
Stamp(c) == call[c].stamp

StoreRow(c) ==
  /\ pc[c] = "fetched" /\ holder' = {}
  /\ IF call[c].rec.shape = "absent"
       THEN entry' = {} /\ End(c, "ProviderNotFoundError")
       ELSE entry' = {[at |-> Stamp(c), row |-> call[c].rec]} /\ Resolved(c, call[c].rec, call[c])
  /\ UnchangedAdmin /\ UNCHANGED keyEntry

\* _get_server_key: a stale entry is deleted before the read.
LookupKey(c) ==
  /\ pc[c] = "credential"
  /\ \/ \E e \in keyEntry : /\ Fresh(e) /\ Go(c, "build")
                            /\ call' = [call EXCEPT ![c].key = e.key] /\ UNCHANGED keyEntry
     \/ /\ ~\E e \in keyEntry : Fresh(e)
        /\ keyEntry' = {} /\ Go(c, "key_read") /\ UNCHANGED call
  /\ UnchangedAdmin /\ UNCHANGED <<entry, holder>>

ReadKey(c) ==
  /\ pc[c] = "key_read"
  /\ Go(c, "key_fetched") /\ call' = [call EXCEPT ![c].key = key]
  /\ UnchangedAdmin /\ UNCHANGED <<entry, holder, keyEntry>>

StoreKey(c) ==
  /\ pc[c] = "key_fetched"
  /\ CASE call[c].key.shape = "absent"     -> End(c, "MissingCredentialError") /\ UNCHANGED keyEntry
       [] call[c].key.shape = "unreadable" -> End(c, "CredentialResolutionError") /\ UNCHANGED keyEntry
       [] OTHER -> /\ keyEntry' = {[at |-> now, key |-> call[c].key]}
                   /\ Go(c, "build") /\ UNCHANGED call
  /\ UnchangedAdmin /\ UNCHANGED <<entry, holder>>

\* The factories. The claude CLI takes an OAuth token only.
Built(shape, keyShape) ==
  CASE shape = "claude_code_bare" -> "MissingCredentialError"
    [] shape = "claude_code" /\ keyShape = "api_key"    -> "ValueError"
    [] shape = "claude_code" /\ keyShape # "api_key"    -> "ClaudeCodeProvider"
    [] shape = "direct_api_bare" -> "NullCredentialDirectApiProvider"
    [] OTHER -> "DirectApiProvider"

Build(c) ==
  /\ pc[c] = "build"
  /\ End(c, Built(call[c].rec.shape, call[c].key.shape))
  /\ UnchangedAdmin /\ UNCHANGED <<entry, holder, keyEntry>>

\* Mutant: the lock is not released on the way out.
InterruptKeepingLock(c) ==
  /\ pc[c] \in {"reading", "fetched"}
  /\ End(c, "cancelled") /\ UNCHANGED holder
  /\ UnchangedAdmin /\ UNCHANGED <<entry, keyEntry>>

\* The judge's request is cancelled, or the database fails, at an await.
Interrupt(c) ==
  /\ pc[c] \in {"lock", "reading", "fetched", "key_read", "key_fetched"}
  /\ \E why \in {"cancelled", "failed"} :
       /\ why = "failed" => pc[c] \in {"reading", "key_read"}
       /\ End(c, why)
  /\ holder' = holder \ {c}
  /\ UnchangedAdmin /\ UNCHANGED <<entry, keyEntry>>

\* The judge task asks again later: a call is one of many over the day.
Again(c) ==
  /\ pc[c] = "done"
  /\ Go(c, "idle") /\ call' = [call EXCEPT ![c] = Idle]
  /\ UnchangedAdmin /\ UNCHANGED <<entry, holder, keyEntry>>

Tick ==
  /\ now < MaxTime /\ now' = now + 1
  /\ UNCHANGED <<row, replaced, entry, holder, key, keyEntry, popping, pc, call>>

-----------------------------------------------------------------------------
Step(c) ==
  \/ Start(c) \/ Lock(c) \/ ReadRow(c) \/ StoreRow(c) \/ LookupKey(c)
  \/ ReadKey(c) \/ StoreKey(c) \/ Build(c)

RgNext ==
  \/ \E shape \in Shapes, pops \in BOOLEAN : WriteRow(shape, pops)
  \/ \E shape \in NewKeys \cup {"absent"} : WriteKey(shape)
  \/ PopRow \/ PopKey \/ Tick
  \/ \E c \in Calls : Step(c) \/ Interrupt(c) \/ Again(c)

-----------------------------------------------------------------------------
(* Correctness properties.                                                  *)

(* "bounded config staleness after an admin-API edit": the record a call    *)
(* works with was the stored one less than cache_ttl_seconds before the     *)
(* call began, or later, whatever write, failed invalidation or concurrent  *)
(* lookup happened in between: a record read before an edit and cached      *)
(* after it is cached under the time before its read.                       *)
BoundedStaleness ==
  \A c \in Calls : call[c].rec # NoRow =>
    \/ call[c].rec.version = row.version
    \/ replaced[call[c].rec.version] + Ttl > call[c].began

(* The cache lock comes back: a lookup that waits for it goes on, although  *)
(* the judge that holds it may fail or be cancelled at every await.         *)
LookupGoesOn == \A c \in Calls : pc[c] = "lock" ~> pc[c] # "lock"

-----------------------------------------------------------------------------
(* The inductive invariant the proofs use: what is cached, or about to be,  *)
(* was current at its stamp or later; what a call works with, within Ttl of *)
(* its begin or later.                                                      *)
CurrentSince(v, at) == v = row.version \/ replaced[v] >= at
EntryInv == \A e \in entry : e.at <= now /\ e.row.version <= row.version /\ CurrentSince(e.row.version, e.at)
CallInv(c) ==
  /\ call[c].rec.version <= row.version
  /\ call[c].began <= now /\ call[c].stamp <= now
  /\ pc[c] \in {"idle", "lock", "reading", "done"} => call[c].rec = NoRow
  /\ pc[c] \in {"reading", "fetched"} => call[c].began <= call[c].stamp
  /\ pc[c] = "fetched" => CurrentSince(call[c].rec.version, call[c].stamp)
  /\ pc[c] \in {"credential", "key_read", "key_fetched", "build"} =>
       CurrentSince(call[c].rec.version, call[c].began - Ttl + 1)
IInv == TypeOK /\ EntryInv /\ \A c \in Calls : CallInv(c)
=============================================================================
