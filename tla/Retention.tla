------------------------------- MODULE Retention -------------------------------
(***************************************************************************)
(* ConversationPurger and S3ConversationArchiver (retention/): every        *)
(* replica now and then deletes the calls older than the retention period,  *)
(* batch by batch in the order of their ids, and archives each batch first  *)
(* if it has an archiver. Their events go with them (ON DELETE CASCADE).    *)
(* Reads, upload and delete are separate awaits, no lock is held across     *)
(* them, each may fail, with or without having taken effect, and other      *)
(* replicas purge at the same time. The audit trail (EventLog) is written   *)
(* meanwhile.                                                               *)
(***************************************************************************)
EXTENDS EventLog

CONSTANTS
  Replica,      \* gateway processes
  Days,         \* the retention period
  BatchSize,    \* calls per batch
  MaxFailures   \* bound on the failures

ASSUME RetentionAssumption ==
  /\ Days \in Nat /\ CallSpan <= Days
  /\ BatchSize \in Nat \ {0} /\ MaxFailures \in Nat

VARIABLES
  archiving,  \* an archiver is configured, for good
  run,        \* run[r]: the purge run of r
  archive,    \* the events in S3
  failures

vars == <<logVars, archiving, run, archive, failures>>

Run == [phase : {"idle", "fetch", "children", "upload", "delete"},
        cutoff : Nat, last : Nat, batch : SUBSET Call, body : SUBSET Event]
Idle == [phase |-> "idle", cutoff |-> 0, last |-> 0, batch |-> {}, body |-> {}]

TypeOK ==
  /\ LogTypeOK
  /\ archiving \in BOOLEAN /\ run \in [Replica -> Run]
  /\ archive \subseteq Event /\ failures \in 0..MaxFailures

Init ==
  /\ LogInit
  /\ archiving \in BOOLEAN /\ run = [r \in Replica |-> Idle]
  /\ archive = {} /\ failures = 0

-----------------------------------------------------------------------------
At(r, phase) == run[r].phase = phase
Sets(r, new) == run' = [run EXCEPT ![r] = new]

\* purge_once.
Begin(r) ==
  /\ At(r, "idle") /\ now > Days
  /\ Sets(r, [Idle EXCEPT !.phase = "fetch", !.cutoff = now - Days])
  /\ UNCHANGED <<logVars, archiving, archive, failures>>

\* WHERE created_at < cutoff AND call_id > last ORDER BY call_id LIMIT n.
Due(r) == {c \in Call : calls[c] # 0 /\ calls[c] < run[r].cutoff}
IsBatch(b, due) ==
  /\ Cardinality(b) <= BatchSize /\ (b # due => Cardinality(b) = BatchSize)
  /\ \A c \in b, d \in due \ b : c < d

Fetch(r) ==
  LET due == {c \in Due(r) : c > run[r].last} IN
  /\ At(r, "fetch")
  /\ \E b \in SUBSET due :
       /\ IsBatch(b, due)
       /\ Sets(r, IF b = {} THEN Idle
                  ELSE [run[r] EXCEPT !.batch = b,
                                      !.phase = IF archiving THEN "children" ELSE "delete"])
  /\ UNCHANGED <<logVars, archiving, archive, failures>>

\* The child rows are read by statements of their own.
FetchChildren(r) ==
  /\ At(r, "children")
  /\ Sets(r, [run[r] EXCEPT !.body = {e \in rows : of[e] \in run[r].batch},
                            !.phase = "upload"])
  /\ UNCHANGED <<logVars, archiving, archive, failures>>

Upload(r) ==
  /\ At(r, "upload")
  /\ archive' = archive \cup run[r].body
  /\ Sets(r, [run[r] EXCEPT !.phase = "delete"])
  /\ UNCHANGED <<logVars, archiving, failures>>

DeleteCalls(batch) ==
  /\ calls' = [c \in Call |-> IF c \in batch THEN 0 ELSE calls[c]]
  /\ rows' = {e \in rows : of[e] \notin batch}
  /\ UNCHANGED <<now, count, of, kind, at, fate, summary>>

\* Mutants: the delete goes by the cutoff; a full batch is taken for the last.
DeleteByCutoff(r) ==
  /\ At(r, "delete") /\ DeleteCalls(Due(r)) /\ Sets(r, Idle)
  /\ UNCHANGED <<archiving, archive, failures>>
DeleteAndStop(r) ==
  /\ At(r, "delete") /\ DeleteCalls(run[r].batch) /\ Sets(r, Idle)
  /\ UNCHANGED <<archiving, archive, failures>>

\* DELETE by call id in one transaction; a batch that was not full is the last.
Delete(r) ==
  LET batch == run[r].batch IN
  /\ At(r, "delete")
  /\ DeleteCalls(batch)
  /\ \/ Cardinality(batch) < BatchSize /\ Sets(r, Idle)
     \/ /\ Cardinality(batch) >= BatchSize
        /\ \E c \in batch :
             /\ \A d \in batch : d <= c
             /\ Sets(r, [run[r] EXCEPT !.phase = "fetch", !.last = c,
                                       !.batch = {}, !.body = {}])
  /\ UNCHANGED <<archiving, archive, failures>>

\* An error ends the run, and so does a crash or stop(): the S3 thread of a
\* cancelled upload goes on, and an answer may be lost.
Fail(r) ==
  /\ ~At(r, "idle") /\ failures < MaxFailures /\ failures' = failures + 1
  /\ Sets(r, Idle)
  /\ UNCHANGED archive \/ (At(r, "upload") /\ archive' = archive \cup run[r].body)
  /\ UNCHANGED logVars \/ (At(r, "delete") /\ DeleteCalls(run[r].batch))
  /\ UNCHANGED archiving

Next ==
  \/ LogNext /\ UNCHANGED <<archiving, run, archive, failures>>
  \/ \E r \in Replica : \/ Begin(r) \/ Fetch(r) \/ FetchChildren(r) \/ Upload(r)
                         \/ Delete(r) \/ Fail(r)

Spec == Init /\ [][Next]_vars

-----------------------------------------------------------------------------
(* Correctness properties.                                                  *)

Expired(c) == calls[c] # 0 /\ calls[c] + Days < now

(* A call is deleted only when it is older than the retention period, and   *)
(* with an archiver only once every event stored for it is in S3, whatever  *)
(* failed before and whatever other replicas and the writers do meanwhile.  *)
RetentionKept ==
  [][\A c \in Call : calls[c] # 0 /\ calls'[c] = 0 =>
       /\ Expired(c)
       /\ archiving => \A e \in rows : of[e] = c => e \in archive]_vars

(* So with an archiver no stored event is ever lost.                        *)
NothingLost == archiving => \A e \in Event : fate[e] = "stored" => e \in rows \cup archive

(* A run that was not cut short leaves no call that was due when it began,  *)
(* although its cursor never goes back and the writers insert meanwhile     *)
(* ("The codebase has no backdated-insert path").                           *)
SweepComplete ==
  [][\A r \in Replica : ~At(r, "idle") /\ At(r, "idle")' /\ failures' = failures =>
       \A c \in Call : ~(calls'[c] # 0 /\ calls'[c] < run[r].cutoff)]_vars

-----------------------------------------------------------------------------
(* The inductive invariant the proofs use.                                  *)

\* Events, rows and call rows are in step, and only young calls wait.
EventInv(e) ==
  /\ fate[e] = "none" <=> e > count
  /\ fate[e] # "none" => 0 < at[e] /\ at[e] <= now
  /\ fate[e] = "pending" => Young(of[e], now)
  /\ e \in rows => fate[e] = "stored" /\ calls[of[e]] # 0
OneRequest ==
  \A d, e \in 1..count :
    of[d] = of[e] /\ kind[d] = "request" /\ kind[e] = "request" => d = e
CreatedBy(c) == \E e \in Event : fate[e] = "stored" /\ of[e] = c /\ at[e] = calls[c]
LogInv ==
  /\ \A e \in Event : EventInv(e)
  /\ OneRequest
  /\ \A c \in Call : calls[c] # 0 => CreatedBy(c)

\* The calls of a batch are old ...
OldInv(r) ==
  /\ ~At(r, "idle") => run[r].cutoff + Days <= now
  /\ \A c \in run[r].batch : ~Young(c, now) /\ (calls[c] # 0 => Expired(c))

\* ... their events were copied before they are deleted ...
CopyInv(r) ==
  LET mine == {e \in rows : of[e] \in run[r].batch} IN
  /\ At(r, "upload") => mine \subseteq run[r].body
  /\ At(r, "delete") /\ archiving => mine \subseteq archive

\* ... and the calls that are due are those of the batch and those after it.
DueInv(r) ==
  /\ At(r, "fetch") => \A c \in Due(r) : c > run[r].last
  /\ run[r].phase \in {"children", "upload", "delete"} =>
       \/ Due(r) \subseteq run[r].batch
       \/ /\ Cardinality(run[r].batch) = BatchSize
          /\ \A c \in run[r].batch, d \in Due(r) \ run[r].batch : c < d

(* The audit trail is in step, whatever commits; no stored event is missing *)
(* from both the database and S3; and every run knows what it deletes,      *)
(* whatever the writers and the other replicas do between its awaits.       *)
IInv ==
  /\ LogInv /\ NothingLost
  /\ \A r \in Replica : OldInv(r) /\ CopyInv(r) /\ DueInv(r)
IndInv == TypeOK /\ IInv
=============================================================================
