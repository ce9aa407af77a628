-------------------------------- MODULE EventLog --------------------------------
(***************************************************************************)
(* The audit trail: EventEmitter (observability/emitter.py) writes every    *)
(* recorded event to the database in a background task of its own, in one   *)
(* transaction with its call's row and its session's summary                *)
(* (observability/session_summary.py). Tasks commit in any order, fail, or   *)
(* are abandoned: nothing waits for them.                                   *)
(***************************************************************************)
EXTENDS Naturals, FiniteSets

CONSTANTS
  Call,       \* call ids: numbers, for they are ordered
  Session,    \* session ids
  About,      \* About[c]: the session of call c or "none", whether its user is
              \* known, whether its request is a probe (max_tokens <= 1)
  MaxEvents,  \* bound on the events recorded
  CallSpan,   \* age of a call after which none of its events is written
  MaxTime     \* bound on the clock

ASSUME EventLogAssumption ==
  /\ Call \subseteq Nat \ {0} /\ Call # {} /\ "none" \notin Session
  /\ About \in [Call -> [session : Session \cup {"none"}, known : BOOLEAN, probe : BOOLEAN]]
  /\ MaxEvents \in Nat /\ CallSpan \in Nat /\ MaxTime \in Nat

VARIABLES
  now,                \* the clock
  count,              \* events recorded so far
  of, kind, at, fate, \* of an event: call, type, timestamp, what became of it
  calls,              \* conversation_calls: created_at, or 0 for no row
  rows,               \* conversation_events
  summary             \* session_summaries

logVars == <<now, count, of, kind, at, fate, calls, rows, summary>>

Event == 1..MaxEvents
Kinds == {"request", "policy", "other"}  \* transaction.request_recorded, policy.*
Fates == {"none", "pending", "stored", "lost"}

\* A user or a preview is named by the call it came from; 0 is NULL.
Summary == [events : Nat, calls : Nat, policies : Nat, first : Nat, last : Nat,
            user : Call \cup {0}, preview : Call \cup {0}]
NoSummary == [events |-> 0, calls |-> 0, policies |-> 0, first |-> 0, last |-> 0,
              user |-> 0, preview |-> 0]

LogTypeOK ==
  /\ now \in Nat \ {0}
  /\ count \in 0..MaxEvents
  /\ of \in [Event -> Call] /\ kind \in [Event -> Kinds]
  /\ at \in [Event -> Nat] /\ fate \in [Event -> Fates]
  /\ calls \in [Call -> Nat] /\ rows \subseteq Event
  /\ summary \in [Session -> Summary]

LogInit ==
  /\ now = 1
  /\ count = 0
  /\ of = [e \in Event |-> CHOOSE c \in Call : TRUE]
  /\ kind = [e \in Event |-> "other"]
  /\ at = [e \in Event |-> 0] /\ fate = [e \in Event |-> "none"]
  /\ calls = [c \in Call |-> 0] /\ rows = {}
  /\ summary = [s \in Session |-> NoSummary]

-----------------------------------------------------------------------------
(* A call is young at time t: events of it may still be recorded, or wait   *)
(* for the database. Calls last minutes, retention is counted in days.      *)
Young(c, t) == \A e \in Event : fate[e] # "none" /\ of[e] = c => t <= at[e] + CallSpan

(* record, and emit up to its first await: the task takes the timestamp.    *)
(* The pipeline records a call's request once.                              *)
Record(c, k) ==
  LET e == count + 1 IN
  /\ count < MaxEvents /\ count' = e
  /\ Young(c, now)
  /\ k = "request" => \A d \in 1..count : ~(of[d] = c /\ kind[d] = "request")
  /\ of' = [of EXCEPT ![e] = c] /\ kind' = [kind EXCEPT ![e] = k]
  /\ at' = [at EXCEPT ![e] = now] /\ fate' = [fate EXCEPT ![e] = "pending"]
  /\ UNCHANGED <<now, calls, rows, summary>>

-----------------------------------------------------------------------------
(* _write_db.                                                               *)

Becomes(e, f) == fate[e] = "pending" /\ fate' = [fate EXCEPT ![e] = f]

(* update_session_summary: one event's contribution.                        *)
Upsert(old, e) ==
  LET c == of[e]
      Coalesce(a, set) == IF a # 0 THEN a ELSE IF set THEN c ELSE 0
  IN [events   |-> old.events + 1,
      calls    |-> old.calls + IF kind[e] = "request" THEN 1 ELSE 0,
      policies |-> old.policies + IF kind[e] = "policy" THEN 1 ELSE 0,
      first    |-> IF old.events > 0 /\ old.first <= at[e] THEN old.first ELSE at[e],
      last     |-> IF at[e] > old.last THEN at[e] ELSE old.last,
      user     |-> Coalesce(old.user, About[c].known),
      preview  |-> Coalesce(old.preview, kind[e] = "request" /\ ~About[c].probe)]

CallAndEventRows(e) ==
  /\ calls' = IF calls[of[e]] = 0 THEN [calls EXCEPT ![of[e]] = at[e]] ELSE calls
  /\ rows' = rows \cup {e}

SummaryRow(e) ==
  summary' = IF About[of[e]].session = "none" THEN summary
             ELSE [summary EXCEPT ![About[of[e]].session] = Upsert(@, e)]

\* The transaction commits, whether or not its answer is lost.
Commit(e) ==
  /\ Becomes(e, "stored")
  /\ CallAndEventRows(e) /\ SummaryRow(e)
  /\ UNCHANGED <<now, count, of, kind, at>>

\* Mutant: without the transaction the rows stay when the summary fails.
LoseHalf(e) ==
  /\ Becomes(e, "stored") /\ CallAndEventRows(e)
  /\ UNCHANGED <<now, count, of, kind, at, summary>>

\* It rolls back on an error, counted or swallowed by gather; or the process
\* stops.
Lose(e) ==
  /\ Becomes(e, "lost")
  /\ UNCHANGED <<now, count, of, kind, at, calls, rows, summary>>

Tick ==
  /\ now < MaxTime /\ now' = now + 1
  /\ \A e \in Event : fate[e] = "pending" => Young(of[e], now')
  /\ UNCHANGED <<count, of, kind, at, fate, calls, rows, summary>>

LogNext ==
  \/ \E c \in Call, k \in Kinds : Record(c, k)
  \/ \E e \in Event : Commit(e) \/ Lose(e)
  \/ Tick

-----------------------------------------------------------------------------
(* Correctness properties.                                                  *)

Stored(s) == {e \in Event : fate[e] = "stored" /\ About[of[e]].session = s}
Requests(s) == {e \in Stored(s) : kind[e] = "request"}

CountsTell(s) ==
  /\ summary[s].events = Cardinality(Stored(s))
  /\ summary[s].calls = Cardinality({of[e] : e \in Requests(s)})
  /\ summary[s].policies = Cardinality({e \in Stored(s) : kind[e] = "policy"})

TimesTell(s) ==
  /\ Stored(s) # {} => /\ \E e \in Stored(s) : summary[s].first = at[e]
                       /\ \E e \in Stored(s) : summary[s].last = at[e]
  /\ \A e \in Stored(s) : summary[s].first <= at[e] /\ at[e] <= summary[s].last

\* The value comes from one of the calls that have one, if any does.
TakenFrom(value, some) == IF some = {} THEN value = 0 ELSE value \in some
NamesTell(s) ==
  /\ TakenFrom(summary[s].user, {of[e] : e \in {d \in Stored(s) : About[of[d]].known}})
  /\ TakenFrom(summary[s].preview, {of[e] : e \in {d \in Requests(s) : ~About[of[d]].probe}})

(* The summary of a session is what migration 021 would compute from every  *)
(* event that was ever stored for it, whatever the order of the commits:    *)
(* counts, first and last timestamp, and as user and preview those of one   *)
(* of its calls, if any has them.                                           *)
SummariesTell == \A s \in Session : CountsTell(s) /\ TimesTell(s) /\ NamesTell(s)
=============================================================================
