------------------------------ MODULE PolicyCache ------------------------------
(***************************************************************************)
(* PolicyCache (utils/policy_cache.py): the entries of one policy in the    *)
(* policy_cache table, capped by every put(). A put is a transaction of     *)
(* four statements: upsert, count, select the oldest excess, delete them.   *)
(*                                                                         *)
(* The database is external. On Postgres a transaction reads at READ        *)
(* COMMITTED: a statement sees the committed rows and its own changes, a    *)
(* row changed by one transaction is not changed by another before the      *)
(* first ends, and created_at is the transaction's start. On SQLite one     *)
(* connection, behind a lock, serialises the puts and created_at has a      *)
(* resolution of a second: several starts within one tick of the clock.     *)
(*                                                                         *)
(* That connection (db_sqlite.py) rolls a transaction back on an Exception  *)
(* only: a cancelled put leaves its transaction open, where every statement *)
(* of the process sees it, BEGIN fails, and any execute() commits it.       *)
(***************************************************************************)
EXTENDS Integers, Sequences, FiniteSets, FiniteSetsExt, Functions

CONSTANTS
  Writers,     (* the puts that may be under way together *)
  CacheKeys,   (* cache keys: numbers, in the order cache_key sorts by *)
  MaxEntries,  (* max_entries *)
  MaxClock,    (* bound on the clock *)
  MaxLeaks     (* bound on the puts abandoned in a row *)

VARIABLES
  clock,    \* NOW()
  serial,   \* whether the database is SQLite
  rows,     \* the rows every statement sees, by key: [created]. On Postgres they are
            \* the committed ones, on SQLite those of the connection.
  put,      \* put[w]: the transaction of writer w
  left,     \* a cancelled put left its transaction open on SQLite's connection
  leaks     \* history: the puts so abandoned since one last committed

NoPut == [at |-> "idle", key |-> 0, created |-> 0, excess |-> 0, victims |-> {}]

PcInit ==
  /\ clock = 0 /\ serial \in BOOLEAN /\ rows = <<>> /\ left = FALSE /\ leaks = 0
  /\ put = [w \in Writers |-> NoPut]

InPut(w)  == put[w].at # "idle"
\* The rows a statement of w sees: those committed, its own, less what it deleted.
Upserted(w) ==
  IF put[w].key \in DOMAIN rows THEN rows
  ELSE [k \in DOMAIN rows \cup {put[w].key} |-> IF k = put[w].key THEN [created |-> put[w].created] ELSE rows[k]]

\* Another transaction has changed the row of k and has not ended.
Touches(x, k) == put[x].key = k \/ (put[x].at = "deleted" /\ k \in put[x].victims)
Taken(w, k)   == \E x \in Writers \ {w} : InPut(x) /\ Touches(x, k)

\* SqlitePool's lock: whoever holds the connection has it alone.
Alone == serial => \A x \in Writers : ~InPut(x)
\* In a transaction that was left open BEGIN fails, and the put with it.
Begin(w, k) ==
  /\ ~InPut(w) /\ Alone /\ ~left /\ ~Taken(w, k)
  /\ put' = [put EXCEPT ![w] = [NoPut EXCEPT !.at = "upserted", !.key = k, !.created = clock]]
  /\ UNCHANGED <<clock, serial, rows, left, leaks>>

Older(f, k, n) ==
  \/ f[k].created < f[n].created
  \/ f[k].created = f[n].created /\ k < n

\* ORDER BY created_at, cache_key LIMIT n
Oldest(f, n) ==
  {k \in DOMAIN f : Cardinality({x \in DOMAIN f : Older(f, x, k)}) < n}

\* Mutant: the count misses the row just put.
ExcessBefore(w) == Cardinality(DOMAIN rows) - MaxEntries
Excess(w) == Cardinality(DOMAIN Upserted(w)) - MaxEntries

Count(w) ==
  /\ put[w].at = "upserted"
  /\ put' = [put EXCEPT ![w].at = "counted", ![w].excess = Excess(w)]
  /\ UNCHANGED <<clock, serial, rows, left, leaks>>

Select(w) ==
  /\ put[w].at = "counted"
  /\ put' = [put EXCEPT ![w].at = "selected",
               ![w].victims = IF put[w].excess > 0 THEN Oldest(Upserted(w), put[w].excess) ELSE {}]
  /\ UNCHANGED <<clock, serial, rows, left, leaks>>

\* The deletes wait for the rows; one that another put has deleted is gone.
Delete(w) ==
  /\ put[w].at = "selected" /\ \A k \in put[w].victims : ~Taken(w, k)
  /\ put' = [put EXCEPT ![w].at = "deleted"]
  /\ UNCHANGED <<clock, serial, rows, left, leaks>>

Commit(w) ==
  /\ put[w].at = "deleted"
  /\ rows' = Restrict(Upserted(w), DOMAIN Upserted(w) \ put[w].victims)
  /\ put' = [put EXCEPT ![w] = NoPut] /\ leaks' = 0
  /\ UNCHANGED <<clock, serial, left>>

\* A deadlock of two puts is broken by the database; an exception rolls back
\* too, and on Postgres so does a cancelled request.
Rollback(w) ==
  /\ InPut(w) /\ put' = [put EXCEPT ![w] = NoPut]
  /\ UNCHANGED <<clock, serial, rows, left, leaks>>

\* A put cancelled on SQLite, at any of its awaits: the statement it waits for
\* still runs, so that BEGIN alone, the upsert or a part of the deletions stays
\* behind. (A COMMIT that is waited for still commits: Commit.)
Abandon(w) ==
  /\ serial /\ InPut(w) /\ leaks < MaxLeaks
  /\ \/ put[w].at = "upserted" /\ UNCHANGED rows
     \/ \E gone \in SUBSET put[w].victims :
          /\ put[w].at = "deleted" => gone = put[w].victims
          /\ rows' = Restrict(Upserted(w), DOMAIN Upserted(w) \ gone)
  /\ put' = [put EXCEPT ![w] = NoPut] /\ left' = TRUE /\ leaks' = leaks + 1
  /\ UNCHANGED <<clock, serial>>

\* execute() outside a transaction, of anything in the process: it commits.
Flush ==
  /\ left /\ left' = FALSE
  /\ UNCHANGED <<clock, serial, rows, put, leaks>>

\* delete(), an execute() on SQLite; and cleanup_expired(), a transaction: any of
\* the rows may be past expires_at.
Remove(keys) ==
  /\ keys # {} /\ keys \subseteq DOMAIN rows /\ Alone
  /\ left => Cardinality(keys) = 1
  /\ \A k \in keys : ~\E w \in Writers : InPut(w) /\ Touches(w, k)
  /\ rows' = Restrict(rows, DOMAIN rows \ keys) /\ left' = FALSE
  /\ UNCHANGED <<clock, serial, put, leaks>>

Moment == clock < MaxClock /\ clock' = clock + 1 /\ UNCHANGED <<serial, rows, put, left, leaks>>

PcNext ==
  \/ Moment \/ Flush
  \/ \E w \in Writers : \/ Count(w) \/ Select(w) \/ Delete(w) \/ Commit(w) \/ Rollback(w) \/ Abandon(w)
                       \/ \E k \in CacheKeys : Begin(w, k)
  \/ \E keys \in SUBSET CacheKeys : Remove(keys)

-----------------------------------------------------------------------------
(* The cap. On Postgres it is exceeded by at most the other puts under way, *)
(* "up to (concurrent_writers - 1) entries": the excess of one race does    *)
(* not add to the excess of the next. On SQLite it is exceeded by one entry *)
(* for each put that was cancelled, and the next put that commits trims     *)
(* them all.                                                                *)
CapHolds ==
  Cardinality(DOMAIN rows) <= MaxEntries + IF serial THEN leaks ELSE Cardinality(Writers) - 1
=============================================================================
