--------------------------------- MODULE Reading ---------------------------------
(***************************************************************************)
(* What the history and debug pages make of the audit trail: the list of    *)
(* sessions with its filters and pages, which takes several queries, each   *)
(* on what is committed at that moment, and the detail of a session and the *)
(* list of calls, which take one. Meanwhile events are written, in any      *)
(* order, and calls are purged. Both databases are modelled.                *)
(***************************************************************************)
EXTENDS Naturals, FiniteSets, SequencesExt

CONSTANTS
  Events,    \* the events that may be written: [call, kind, at]
  Queries,   \* the lists that are asked for: [user, by, value, offset]
  Limit,     \* sessions on a page
  MaxEvents, \* bound on the events stored
  MaxMoves   \* bound on the changes during a list

VARIABLES
  postgres,  \* which database
  trail,     \* conversation_events
  query,     \* the list being read
  listing,   \* what has been read of it
  moved      \* how often the trail has changed since it was begun

(* A call is a pair of a session and a user.                                *)
CallIds == {e.call : e \in Events}
SessionOf(c) == c[1]
UserOf(c) == c[2]
None == "none"

(* Requests carry the model; a probe is a request with max_tokens = 1. The  *)
(* word that is searched for is in the requests that are no probes.         *)
(* A kind is a pair of "request", "probe", "response", "blocked" (a policy  *)
(* intervention) or "evaluated" (by a judge) and the model of a request.    *)
IsRequest(e) == e.kind[1] \in {"request", "probe"}
Hit(e) == e.kind[1] = "request"

(* _INTERVENTION_PREDICATE, for the count of a session and for the filter.  *)
IntervenesAny(e) == e.kind[1] \in {"blocked", "evaluated"}
Intervenes(e) == e.kind[1] = "blocked"

(* The stored text has a blank where isoformat() puts a T: on SQLite a time *)
(* of the bound's day is before the bound, whatever the hour.               *)
Day(t) == (t + 1) \div 2
AtLeast(t, bound) == IF postgres THEN t >= bound ELSE Day(t) > Day(bound)
AtMost(t, bound)  == IF postgres THEN t <= bound ELSE Day(t) <= Day(bound)

Latest(es) == CHOOSE t \in {e.at : e \in es} : \A e \in es : e.at <= t
First(es)  == CHOOSE t \in {e.at : e \in es} : \A e \in es : t <= e.at
Of(s, es)  == {e \in es : SessionOf(e.call) = s}

(* The user filter of every query.                                          *)
AllScoped(q, es) == es
Scoped(q, es) == {e \in es : q.user = None \/ UserOf(e.call) = q.user}

(* _build_session_filter_sql: gates ask for one event of the session within *)
(* the scope, having clauses for the session's scoped events as a whole.    *)
Qualifies(q, es) ==
  /\ es # {}
  /\ q.by = "model" => \E e \in es : IsRequest(e) /\ e.kind[2] = q.value
  /\ q.by = "word"  => \E e \in es : Hit(e)
  /\ q.by = "from"  => AtLeast(Latest(es), q.value)
  /\ q.by = "to"    => AtMost(Latest(es), q.value)
  /\ q.by = "intervention" => \E e \in es : Intervenes(e)
Qualifying(q) == {s \in {SessionOf(c) : c \in CallIds} : Qualifies(q, Of(s, Scoped(q, trail)))}

(* The row of a session: its scoped events, all of them.                    *)
Stats(s, es) ==
  [session |-> s, first |-> First(es), last |-> Latest(es), events |-> Cardinality(es),
   turns |-> Cardinality({e.call : e \in es}), interventions |-> Cardinality({e \in es : Intervenes(e)})]
Models(s, q) == {e.kind[2] : e \in {x \in Of(s, Scoped(q, trail)) : IsRequest(x)}}
Previewable(s, q) == {e \in Of(s, Scoped(q, trail)) : e.kind[1] = "request"}
(* The first request that is no probe; the database picks among those of    *)
(* one moment.                                                              *)
Previews(s, q) ==
  LET es == Previewable(s, q) IN IF es = {} THEN {{}} ELSE {{e.call} : e \in {x \in es : x.at = First(es)}}
UserIds(s, q) == {UserOf(e.call) : e \in Of(s, Scoped(q, trail))}

(* ORDER BY last_ts DESC: sessions that ended in one moment come in any     *)
(* order.                                                                   *)
Orders(q) ==
  {o \in SetToSeqs(Qualifying(q)) :
     \A i, j \in 1..Len(o) : i < j => Latest(Of(o[i], Scoped(q, trail))) >= Latest(Of(o[j], Scoped(q, trail)))}
\* LIMIT and OFFSET.
PageSize(n, q) == IF q.offset < n THEN Min({n - q.offset, Limit}) ELSE 0
Page(o, q) == [i \in 1..PageSize(Len(o), q) |-> Stats(o[q.offset + i], Of(o[q.offset + i], Scoped(q, trail)))]

Unread == [at |-> "idle", total |-> 0, rows |-> <<>>, models |-> <<>>, previews |-> <<>>, users |-> <<>>]
RdInit == /\ postgres \in BOOLEAN /\ trail = {} /\ moved = 0
          /\ query = CHOOSE q \in Queries : TRUE
          /\ listing = Unread

(* The event writer and the purger, a transaction each.                     *)
Moves == IF listing.at = "idle" THEN UNCHANGED moved ELSE moved < MaxMoves /\ moved' = moved + 1
Write(e) ==
  /\ e \notin trail /\ Cardinality(trail) < MaxEvents
  /\ trail' = trail \cup {e}
  /\ Moves /\ UNCHANGED <<postgres, query, listing>>
Purge(c) ==
  /\ \E e \in trail : e.call = c
  /\ trail' = {e \in trail : e.call # c}
  /\ Moves /\ UNCHANGED <<postgres, query, listing>>

(* fetch_session_list: the total, the page, and what is looked up for the   *)
(* sessions on it; Postgres gets all but the users with the page.           *)
Count(q) ==
  /\ listing.at = "idle"
  /\ query' = q
  /\ listing' = [Unread EXCEPT !.at = "page", !.total = Cardinality(Qualifying(q))]
  /\ UNCHANGED <<postgres, trail, moved>>
ModelsOn(page) == [i \in 1..Len(page) |-> Models(page[i].session, query)]
ChosenPreviews(page) == {p \in [1..Len(page) -> SUBSET CallIds] : \A i \in 1..Len(page) : p[i] \in Previews(page[i].session, query)}
FetchPage ==
  /\ listing.at = "page"
  /\ \E o \in Orders(query) :
       LET page == Page(o, query)
       IN  IF postgres
             THEN \E p \in ChosenPreviews(page) :
                    listing' = [listing EXCEPT !.at = IF page = <<>> THEN "done" ELSE "users", !.rows = page,
                                               !.models = ModelsOn(page), !.previews = p]
             ELSE listing' = [listing EXCEPT !.at = IF page = <<>> THEN "done" ELSE "models", !.rows = page]
  /\ UNCHANGED <<postgres, trail, query, moved>>
FetchModels ==
  /\ listing.at = "models"
  /\ listing' = [listing EXCEPT !.at = "previews", !.models = ModelsOn(listing.rows)]
  /\ UNCHANGED <<postgres, trail, query, moved>>
FetchPreviews ==
  /\ listing.at = "previews"
  /\ \E p \in ChosenPreviews(listing.rows) : listing' = [listing EXCEPT !.at = "users", !.previews = p]
  /\ UNCHANGED <<postgres, trail, query, moved>>
FetchUsers ==
  /\ listing.at = "users"
  /\ listing' = [listing EXCEPT !.at = "done",
                               !.users = [i \in 1..Len(listing.rows) |-> UserIds(listing.rows[i].session, query)]]
  /\ UNCHANGED <<postgres, trail, query, moved>>
Answered == listing.at = "done" /\ listing' = Unread /\ moved' = 0 /\ UNCHANGED <<postgres, trail, query>>

RdNext == \/ \E e \in Events : Write(e)
          \/ \E c \in CallIds : Purge(c)
          \/ \E q \in Queries : Count(q)
          \/ FetchPage \/ FetchModels \/ FetchPreviews \/ FetchUsers \/ Answered

HasMore == (postgres \/ listing.rows # <<>>) /\ query.offset + Len(listing.rows) < listing.total

-----------------------------------------------------------------------------
(* fetch_session_detail: a turn per call, in the order of their first       *)
(* events, with the model of its request and an annotation per policy event *)
(* that is not an evaluation.                                               *)
Turn(c) ==
  LET es == {e \in trail : e.call = c}
  IN  [call |-> c, timestamp |-> First(es), model |-> {e.kind[2] : e \in {x \in es : IsRequest(x)}},
       annotations |-> {e \in es : e.kind[1] = "blocked"}]
Detail(s) ==
  LET es == Of(s, trail)
      turns == {Turn(c) : c \in {e.call : e \in es}}
  IN  [first |-> First(es), last |-> Latest(es), turns |-> turns,
       interventions |-> Cardinality(UNION {t.annotations : t \in turns}),
       models |-> UNION {t.model : t \in turns}]
(* fetch_recent_calls: the number of events of a call.                      *)
EventCount(c) == Cardinality({e \in trail : e.call = c})

(* A list tells what the pages of its sessions tell: the row of a session   *)
(* has the times, turns, models and interventions of its detail and as many *)
(* events as its calls together; a filter by user shows nothing of a call of another *)
(* user, not even while events are written and purged between the queries,  *)
(* and counts that user's part alone; the total and has_more are those of   *)
(* the sessions the filter is about.                                        *)
Shown == listing.at = "done"
OwnOnly ==
  Shown /\ query.user # None =>
    \A i \in 1..Len(listing.rows) :
      /\ listing.users[i] \subseteq {query.user}
      /\ \A c \in listing.previews[i] : UserOf(c) = query.user
      /\ listing.rows[i].turns <= Cardinality({c \in CallIds : c = <<listing.rows[i].session, query.user>>})
AgreesWithDetail ==
  Shown /\ moved = 0 /\ query.user = None =>
    \A i \in 1..Len(listing.rows) :
      LET r == listing.rows[i]
          d == Detail(r.session)
      IN  /\ r.first = d.first /\ r.last = d.last /\ r.turns = Cardinality(d.turns)
          /\ r.interventions = d.interventions /\ listing.models[i] = d.models
          /\ r.events = Cardinality(UNION {{t.call} \X (1..EventCount(t.call)) : t \in d.turns})
          /\ listing.previews[i] \subseteq {t.call : t \in d.turns}
CountsPages ==
  Shown /\ moved = 0 =>
    /\ HasMore = (query.offset + Limit < listing.total)
    /\ listing.rows = <<>> => query.offset >= listing.total
    /\ query.by = "intervention" => \A i \in 1..Len(listing.rows) : listing.rows[i].interventions > 0
ListTells == OwnOnly /\ AgreesWithDetail /\ CountsPages

(* What has been read at each point of a list, whether or not the trail has *)
(* changed: no row and no preview of another user's.                        *)
Paged == listing.at \notin {"idle", "page"}
Previewed == listing.at \in {"users", "done"}
OneTurnPer(c) == Cardinality({x \in CallIds : x = c})
OwnInv ==
  query.user # None =>
    \A i \in 1..Len(listing.rows) :
      /\ Paged     => listing.rows[i].turns <= OneTurnPer(<<listing.rows[i].session, query.user>>)
      /\ Previewed => \A c \in listing.previews[i] : UserOf(c) = query.user
      /\ Shown     => listing.users[i] \subseteq {query.user}
(* While it has not, the total, the rows, the models and the previews are   *)
(* those a query would give now.                                            *)
AsNow(r) == r.session \in Qualifying(query) /\ r = Stats(r.session, Of(r.session, Scoped(query, trail)))
FreshInv ==
  moved = 0 /\ listing.at # "idle" =>
    /\ listing.total = Cardinality(Qualifying(query))
    /\ Paged => Len(listing.rows) = PageSize(listing.total, query)
    /\ \A i \in 1..Len(listing.rows) :
         /\ Paged => AsNow(listing.rows[i])
         /\ Paged /\ listing.at # "models" => listing.models[i] = Models(listing.rows[i].session, query)
         /\ Previewed => listing.previews[i] \in Previews(listing.rows[i].session, query)
ReaderTypeOK ==
  /\ trail \subseteq Events /\ IsFiniteSet(trail) /\ moved \in Nat /\ query \in Queries
  /\ listing = [at |-> listing.at, total |-> listing.total, rows |-> listing.rows,
                models |-> listing.models, previews |-> listing.previews, users |-> listing.users]
  /\ listing.at \in {"idle", "page", "models", "previews", "users", "done"}
  /\ Len(listing.rows) \in Nat /\ DOMAIN listing.rows = 1..Len(listing.rows)
  /\ listing.at = "idle" => moved = 0
ReaderInv == ReaderTypeOK /\ OwnInv /\ FreshInv

(* "the session's *last activity* (the max event timestamp) falls within    *)
(* [from_time, to_time], inclusive" (history/models.py).                    *)
TimeFilterTrue ==
  Shown => \A i \in 1..Len(listing.rows) :
    /\ query.by = "from" => listing.rows[i].last >= query.value
    /\ query.by = "to"   => listing.rows[i].last <= query.value
=============================================================================
