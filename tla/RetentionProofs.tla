---------------------------- MODULE RetentionProofs ----------------------------
(***************************************************************************)
(* Proofs about the audit trail and its retention, for any calls, events,   *)
(* replicas, batch size and retention period.                               *)
(***************************************************************************)
EXTENDS Retention, FiniteSetTheorems, TLAPS

USE EventLogAssumption, RetentionAssumption

-----------------------------------------------------------------------------
(* Initial states and types.                                                *)

LEMMA InitHolds == Init => IndInv
<1> SUFFICES ASSUME Init PROVE IndInv
  OBVIOUS
<1> USE DEF Init, LogInit
<1>1. LogTypeOK
  <2>1. (CHOOSE c \in Call : TRUE) \in Call
    OBVIOUS
  <2>2. QED
    BY <2>1 DEF LogTypeOK, Kinds, Fates, Summary, NoSummary
<1>2. TypeOK
  BY <1>1 DEF TypeOK, Run, Idle
<1>3. LogInv
  BY DEF LogInv, EventInv, OneRequest, CreatedBy, Event
<1>4. NothingLost
  BY DEF NothingLost
<1>5. \A r \in Replica : OldInv(r) /\ CopyInv(r) /\ DueInv(r)
  BY DEF OldInv, CopyInv, DueInv, At, Idle
<1>6. QED
  BY <1>2, <1>3, <1>4, <1>5 DEF IndInv, IInv

LEMMA UpsertType ==
  ASSUME TypeOK, NEW e \in Event, NEW old \in Summary
  PROVE  Upsert(old, e) \in Summary
BY DEF TypeOK, LogTypeOK, Upsert, Summary, Kinds

LEMMA DeleteType ==
  ASSUME TypeOK, NEW r \in Replica, DeleteCalls(run[r].batch)
  PROVE  LogTypeOK'
BY DEF TypeOK, LogTypeOK, DeleteCalls

LEMMA SetsType ==
  ASSUME TypeOK, NEW r \in Replica, NEW new \in Run, Sets(r, new)
  PROVE  run' \in [Replica -> Run]
<1>1. run \in [Replica -> Run] /\ run' = [run EXCEPT ![r] = new]
  BY DEF TypeOK, Sets
<1> HIDE DEF Run
<1>2. QED
  BY <1>1

LEMMA IdleType == Idle \in Run
BY DEF Idle, Run

\* What a run is changed to, field by field.
LEMMA RunType ==
  ASSUME NEW old \in Run, NEW phase \in {"fetch", "children", "upload", "delete"},
         NEW last \in Nat, NEW batch \in SUBSET Call, NEW body \in SUBSET Event
  PROVE  /\ [old EXCEPT !.phase = phase] \in Run
         /\ [old EXCEPT !.batch = batch, !.phase = phase] \in Run
         /\ [old EXCEPT !.body = body, !.phase = phase] \in Run
         /\ [old EXCEPT !.phase = phase, !.last = last, !.batch = batch, !.body = body] \in Run
<1> DEFINE R == [phase : {"idle", "fetch", "children", "upload", "delete"},
                 cutoff : Nat, last : Nat, batch : SUBSET Call, body : SUBSET Event]
<1>0. old \in R
  BY DEF Run
<1>1. [old EXCEPT !.phase = phase] \in R
  BY <1>0
<1>2. [old EXCEPT !.batch = batch, !.phase = phase] \in R
  BY <1>0
<1>3. [old EXCEPT !.body = body, !.phase = phase] \in R
  BY <1>0
<1>4. [old EXCEPT !.phase = phase, !.last = last, !.batch = batch, !.body = body] \in R
  BY <1>0
<1>5. QED
  BY <1>1, <1>2, <1>3, <1>4 DEF Run

LEMMA TypeNext == TypeOK /\ [Next]_vars => TypeOK'
<1> SUFFICES ASSUME TypeOK, [Next]_vars PROVE TypeOK'
  OBVIOUS
<1> USE DEF TypeOK
<1>1. ASSUME NEW c \in Call, NEW k \in Kinds, Record(c, k),
             UNCHANGED <<archiving, run, archive, failures>>
      PROVE  TypeOK'
  BY <1>1 DEF Record, LogTypeOK, Event, Fates
<1>2. ASSUME NEW e \in Event, Commit(e), UNCHANGED <<archiving, run, archive, failures>>
      PROVE  TypeOK'
  <2>1. summary' \in [Session -> Summary]
    <3>1. CASE About[of[e]].session = "none"
      BY <1>2, <3>1 DEF Commit, SummaryRow, LogTypeOK
    <3>2. CASE About[of[e]].session # "none"
      <4> DEFINE s == About[of[e]].session
      <4>1. s \in Session
        BY <3>2 DEF LogTypeOK
      <4>2. summary' = [summary EXCEPT ![s] = Upsert(summary[s], e)]
        BY <1>2, <3>2 DEF Commit, SummaryRow
      <4>3. Upsert(summary[s], e) \in Summary
        BY <4>1, UpsertType DEF LogTypeOK
      <4> HIDE DEF s
      <4>4. QED
        BY <4>1, <4>2, <4>3 DEF LogTypeOK
    <3>3. QED
      BY <3>1, <3>2
  <2>2. QED
    BY <1>2, <2>1 DEF Commit, Becomes, CallAndEventRows, LogTypeOK, Fates
<1>3. ASSUME NEW e \in Event, Lose(e), UNCHANGED <<archiving, run, archive, failures>>
      PROVE  TypeOK'
  BY <1>3 DEF Lose, Becomes, LogTypeOK, Fates
<1>4. ASSUME Tick, UNCHANGED <<archiving, run, archive, failures>>
      PROVE  TypeOK'
  BY <1>4 DEF Tick, LogTypeOK
<1>5. ASSUME NEW r \in Replica, Begin(r)
      PROVE  TypeOK'
  <2>1. now - Days \in Nat
    BY <1>5 DEF Begin, LogTypeOK
  <2>2. [Idle EXCEPT !.phase = "fetch", !.cutoff = now - Days] \in Run
    BY <2>1 DEF Idle, Run
  <2>3. QED
    <3>1. run' \in [Replica -> Run]
      BY <1>5, <2>2, SetsType DEF Begin
    <3>2. QED
      BY <1>5, <3>1 DEF Begin, LogTypeOK, logVars
<1>6. ASSUME NEW r \in Replica, Fetch(r)
      PROVE  TypeOK'
  <2>1. PICK b \in SUBSET Call : Sets(r, IF b = {} THEN Idle
             ELSE [run[r] EXCEPT !.batch = b,
                                 !.phase = IF archiving THEN "children" ELSE "delete"])
    BY <1>6 DEF Fetch, Due
  <2>2. run' \in [Replica -> Run]
    <3> DEFINE phase == IF archiving THEN "children" ELSE "delete"
    <3>1. run[r] \in Run /\ phase \in {"fetch", "children", "upload", "delete"}
      OBVIOUS
    <3> HIDE DEF phase
    <3>2. [run[r] EXCEPT !.batch = b, !.phase = phase] \in Run
      BY <3>1, RunType
    <3>3. (IF b = {} THEN Idle ELSE [run[r] EXCEPT !.batch = b, !.phase = phase]) \in Run
      BY <3>2, IdleType
    <3> HIDE DEF TypeOK
    <3>4. QED
      BY <2>1, <3>3, SetsType DEF phase
  <2>3. QED
    BY <1>6, <2>2 DEF Fetch, LogTypeOK, logVars
<1>7. ASSUME NEW r \in Replica, FetchChildren(r)
      PROVE  TypeOK'
  <2>1. {e \in rows : of[e] \in run[r].batch} \in SUBSET Event
    BY DEF LogTypeOK
  <2>2. run' \in [Replica -> Run]
    <3>1. [run[r] EXCEPT !.body = {e \in rows : of[e] \in run[r].batch}, !.phase = "upload"] \in Run
      <4> DEFINE body == {e \in rows : of[e] \in run[r].batch}
      <4>1. body \in SUBSET Event /\ run[r] \in Run
        BY <2>1
      <4> HIDE DEF body
      <4>2. [run[r] EXCEPT !.body = body, !.phase = "upload"] \in Run
        BY <4>1, RunType
      <4>3. QED
        BY <4>2 DEF body
    <3>2. QED
      BY <1>7, <3>1, SetsType DEF FetchChildren
  <2>3. QED
    BY <1>7, <2>2 DEF FetchChildren, LogTypeOK, logVars
<1>8. ASSUME NEW r \in Replica, Upload(r)
      PROVE  TypeOK'
  <2>1. run[r].body \subseteq Event /\ run' \in [Replica -> Run]
    <3>1. run[r] \in Run /\ run[r].body \subseteq Event
      BY DEF Run
    <3>2. [run[r] EXCEPT !.phase = "delete"] \in Run
      BY <3>1, RunType
    <3>3. QED
      BY <1>8, <3>1, <3>2, SetsType DEF Upload
  <2>2. QED
    BY <1>8, <2>1 DEF Upload, LogTypeOK, logVars
<1>9. ASSUME NEW r \in Replica, Delete(r)
      PROVE  TypeOK'
  <2>1. LogTypeOK'
    BY <1>9, DeleteType DEF Delete
  <2>2. CASE Sets(r, Idle)
    <3>1. run' \in [Replica -> Run]
      BY <2>2, IdleType, SetsType
    <3>2. QED
      BY <1>9, <2>1, <3>1 DEF Delete
  <2>3. ASSUME NEW c \in run[r].batch,
               Sets(r, [run[r] EXCEPT !.phase = "fetch", !.last = c,
                                      !.batch = {}, !.body = {}])
        PROVE  TypeOK'
    <3>1. c \in Nat
      BY DEF Run
    <3>2. run[r] \in Run /\ {} \in SUBSET Call /\ {} \in SUBSET Event
      OBVIOUS
    <3>3. [run[r] EXCEPT !.phase = "fetch", !.last = c, !.batch = {}, !.body = {}] \in Run
      BY <3>1, <3>2, RunType
    <3>4. run' \in [Replica -> Run]
      BY <2>3, <3>3, SetsType
    <3>5. QED
      BY <1>9, <2>1, <3>4 DEF Delete
  <2>4. QED
    BY <1>9, <2>2, <2>3 DEF Delete
<1>10. ASSUME NEW r \in Replica, Fail(r)
       PROVE  TypeOK'
  <2>1. LogTypeOK'
    BY <1>10, DeleteType DEF Fail, LogTypeOK, logVars
  <2>2. /\ run' \in [Replica -> Run] /\ failures' \in 0..MaxFailures
        /\ archive' \subseteq Event
    <3>1. run' \in [Replica -> Run]
      BY <1>10, IdleType, SetsType DEF Fail
    <3>2. run[r].body \subseteq Event
      BY DEF Run
    <3>3. QED
      BY <1>10, <3>1, <3>2 DEF Fail
  <2>3. QED
    BY <1>10, <2>1, <2>2 DEF Fail
<1>11. ASSUME UNCHANGED vars
       PROVE  TypeOK'
  BY <1>11 DEF vars, logVars, LogTypeOK
<1>12. QED
  BY <1>1, <1>2, <1>3, <1>4, <1>5, <1>6, <1>7, <1>8, <1>9, <1>10, <1>11 DEF Next, LogNext

-----------------------------------------------------------------------------
(* What the steps have in common.                                           *)

\* A step that at most removes calls and their events.
Shrinks ==
  /\ UNCHANGED <<now, count, of, kind, at, fate>>
  /\ \A c \in Call : calls'[c] \in {0, calls[c]}
  /\ rows' \subseteq rows

LEMMA DeleteShrinks ==
  ASSUME TypeOK, NEW b \in SUBSET Call, DeleteCalls(b)
  PROVE  Shrinks
BY DEF TypeOK, LogTypeOK, DeleteCalls, Shrinks

LEMMA SameShrinks ==
  ASSUME TypeOK, UNCHANGED logVars
  PROVE  Shrinks
BY DEF logVars, Shrinks

\* Every step of a replica at most shrinks the log, and adds to the archive.
LEMMA RunStep ==
  ASSUME IndInv, NEW r \in Replica,
         Begin(r) \/ Fetch(r) \/ FetchChildren(r) \/ Upload(r) \/ Delete(r) \/ Fail(r)
  PROVE  /\ Shrinks
         /\ UNCHANGED logVars \/ (At(r, "delete") /\ DeleteCalls(run[r].batch))
         /\ archive \subseteq archive' /\ archiving' = archiving
         /\ \A q \in Replica \ {r} : run'[q] = run[q]
<1> run[r].batch \in SUBSET Call /\ TypeOK
  BY DEF IndInv, TypeOK, Run
<1>1. UNCHANGED logVars \/ (At(r, "delete") /\ DeleteCalls(run[r].batch))
  BY DEF Begin, Fetch, FetchChildren, Upload, Delete, Fail
<1>2. archive \subseteq archive' /\ archiving' = archiving
  BY DEF Begin, Fetch, FetchChildren, Upload, Delete, Fail
<1>3. \A q \in Replica \ {r} : run'[q] = run[q]
  <2>1. \E new : Sets(r, new)
    BY DEF Begin, Fetch, FetchChildren, Upload, Delete, Fail
  <2>2. QED
    BY <2>1 DEF Sets, TypeOK
<1>4. QED
  BY <1>1, <1>2, <1>3, DeleteShrinks, SameShrinks

\* An old call stays old, for its events are not forgotten.
LEMMA OldStays ==
  ASSUME IndInv, [Next]_vars, NEW c \in Call, ~Young(c, now)
  PROVE  ~Young(c, now)'
<1> USE DEF IndInv
<1>1. PICK e \in Event : fate[e] # "none" /\ of[e] = c /\ now > at[e] + CallSpan
  BY DEF Young, TypeOK, LogTypeOK
<1>2. fate'[e] # "none" /\ of'[e] = c /\ at'[e] = at[e] /\ now <= now' /\ now' \in Nat
  <2>1. ASSUME NEW d \in Call, NEW k \in Kinds, Record(d, k)
        PROVE  fate'[e] # "none" /\ of'[e] = c /\ at'[e] = at[e] /\ now' = now
    <3>1. e # count + 1
      BY <1>1 DEF IInv, LogInv, EventInv, TypeOK, LogTypeOK
    <3>2. QED
      BY <2>1, <3>1, <1>1 DEF Record, TypeOK, LogTypeOK
  <2>2. ASSUME NEW d \in Event, Commit(d) \/ Lose(d)
        PROVE  fate'[e] # "none" /\ of'[e] = c /\ at'[e] = at[e] /\ now' = now
    BY <2>2, <1>1 DEF Commit, Lose, Becomes, TypeOK, LogTypeOK
  <2>3. ASSUME Tick
        PROVE  fate'[e] # "none" /\ of'[e] = c /\ at'[e] = at[e] /\ now' = now + 1
    BY <2>3, <1>1 DEF Tick
  <2>4. ASSUME NEW r \in Replica,
               Begin(r) \/ Fetch(r) \/ FetchChildren(r) \/ Upload(r) \/ Delete(r) \/ Fail(r)
        PROVE  fate'[e] # "none" /\ of'[e] = c /\ at'[e] = at[e] /\ now' = now
    <3>1. Shrinks
      BY <2>4, RunStep
    <3>2. QED
      BY <3>1, <1>1 DEF Shrinks
  <2>5. ASSUME UNCHANGED vars
        PROVE  fate'[e] # "none" /\ of'[e] = c /\ at'[e] = at[e] /\ now' = now
    BY <2>5, <1>1 DEF vars, logVars
  <2>6. now \in Nat
    BY DEF TypeOK, LogTypeOK
  <2>7. QED
    BY <2>1, <2>2, <2>3, <2>4, <2>5, <2>6 DEF Next, LogNext
<1>3. at[e] \in Nat /\ now \in Nat
  BY DEF TypeOK, LogTypeOK
<1>4. ~(now' <= at'[e] + CallSpan)
  BY <1>1, <1>2, <1>3
<1>5. QED
  BY <1>2, <1>4 DEF Young

-----------------------------------------------------------------------------
(* The log stays in step.                                                   *)

LEMMA ShrinkLog ==
  ASSUME IndInv, NEW b \in SUBSET Call, DeleteCalls(b)
  PROVE  LogInv'
<1> USE DEF IndInv, IInv, LogInv
<1>0. calls' \in [Call -> Nat] /\ of \in [Event -> Call]
  BY DEF DeleteCalls, TypeOK, LogTypeOK
<1>1. ASSUME NEW e \in Event PROVE EventInv(e)'
  <2>1. EventInv(e)
    OBVIOUS
  <2>2. Young(of[e], now)' <=> Young(of[e], now)
    BY DEF DeleteCalls, Young
  <2>3. e \in rows' => e \in rows /\ calls'[of[e]] = calls[of[e]]
    BY <1>0 DEF DeleteCalls
  <2>4. QED
    BY <2>1, <2>2, <2>3 DEF DeleteCalls, EventInv
<1>2. OneRequest'
  BY DEF DeleteCalls, OneRequest
<1>3. ASSUME NEW c \in Call, calls'[c] # 0 PROVE CreatedBy(c)'
  <2>1. calls'[c] = calls[c]
    BY <1>3 DEF DeleteCalls
  <2>2. QED
    BY <1>3, <2>1 DEF DeleteCalls, CreatedBy
<1>4. QED
  BY <1>1, <1>2, <1>3

LEMMA RecordLog ==
  ASSUME IndInv, NEW c \in Call, NEW k \in Kinds, Record(c, k)
  PROVE  LogInv'
<1> USE DEF IndInv, IInv, LogInv
<1> DEFINE new == count + 1
<1>0. TypeOK /\ count \in Nat /\ new \in Event /\ fate[new] = "none"
  BY DEF TypeOK, LogTypeOK, Record, Event, EventInv
<1>1. /\ of'[new] = c /\ kind'[new] = k /\ at'[new] = now /\ fate'[new] = "pending"
      /\ \A e \in Event \ {new} : /\ of'[e] = of[e] /\ kind'[e] = kind[e]
                                  /\ at'[e] = at[e] /\ fate'[e] = fate[e]
      /\ count' = new /\ UNCHANGED <<now, calls, rows>>
  BY <1>0 DEF Record, TypeOK, LogTypeOK
<1>2. \A d \in Call : Young(d, now) => Young(d, now)'
  <2>1. now \in Nat /\ now <= now + CallSpan
    BY DEF TypeOK, LogTypeOK
  <2>2. QED
    BY <1>0, <1>1, <2>1 DEF Young
<1>3. Young(c, now)
  BY DEF Record
<1>4. ASSUME NEW e \in Event PROVE EventInv(e)'
  <2>1. CASE e = new
    <3>1. new \notin rows /\ 0 < now /\ now <= now /\ ~(new > new)
      BY <1>0 DEF EventInv, TypeOK, LogTypeOK
    <3>2. Young(c, now)'
      BY <1>2, <1>3
    <3>3. Young(of[e], now)'
      BY <1>1, <2>1, <3>2 DEF Young
    <3> HIDE DEF new
    <3>4. QED
      BY <1>1, <2>1, <3>1, <3>3 DEF EventInv
  <2>2. CASE e # new
    <3>1. EventInv(e) /\ of[e] \in Call
      BY <1>0 DEF TypeOK, LogTypeOK
    <3>2. e > count <=> e > new
      BY <1>0, <2>2 DEF Event
    <3> HIDE DEF new
    <3>3. QED
      BY <1>1, <1>2, <2>2, <3>1, <3>2 DEF EventInv
  <2>3. QED
    BY <2>1, <2>2
<1>5. OneRequest'
  <2> SUFFICES ASSUME NEW d \in 1..new, NEW e \in 1..new, of'[d] = of'[e],
                      kind'[d] = "request", kind'[e] = "request"
               PROVE  d = e
    BY <1>1 DEF OneRequest
  <2>1. d \in Event /\ e \in Event
    BY <1>0 DEF Event
  <2>2. CASE d # new /\ e # new
    BY <1>0, <1>1, <2>1, <2>2 DEF OneRequest
  <2>3. CASE d = new /\ e # new
    BY <1>0, <1>1, <2>1, <2>3 DEF Record
  <2>4. CASE d # new /\ e = new
    BY <1>0, <1>1, <2>1, <2>4 DEF Record
  <2>5. QED
    BY <2>2, <2>3, <2>4
<1>6. ASSUME NEW d \in Call, calls'[d] # 0 PROVE CreatedBy(d)'
  <2>1. PICK e \in Event : fate[e] = "stored" /\ of[e] = d /\ at[e] = calls[d]
    BY <1>1, <1>6 DEF CreatedBy
  <2>2. e # new
    BY <2>1, <1>0
  <2>3. QED
    BY <1>1, <2>1, <2>2 DEF CreatedBy
<1>7. QED
  BY <1>4, <1>5, <1>6

LEMMA CommitLog ==
  ASSUME IndInv, NEW x \in Event, Commit(x)
  PROVE  LogInv'
<1> USE DEF IndInv, IInv, LogInv
<1>0. TypeOK /\ fate[x] = "pending" /\ of[x] \in Call /\ at[x] \in Nat /\ 0 < at[x]
  BY DEF TypeOK, LogTypeOK, Commit, Becomes, EventInv
<1>1. /\ fate'[x] = "stored" /\ \A e \in Event \ {x} : fate'[e] = fate[e]
      /\ UNCHANGED <<now, count, of, kind, at>> /\ rows' = rows \cup {x}
  BY DEF Commit, Becomes, CallAndEventRows, TypeOK, LogTypeOK
<1>2. /\ calls'[of[x]] = IF calls[of[x]] = 0 THEN at[x] ELSE calls[of[x]]
      /\ \A c \in Call \ {of[x]} : calls'[c] = calls[c]
  BY <1>0 DEF Commit, CallAndEventRows, TypeOK, LogTypeOK
<1>3. \A c \in Call : Young(c, now) => Young(c, now)'
  BY <1>0, <1>1 DEF Young
<1>4. \A c \in Call : calls[c] # 0 => calls'[c] # 0
  BY <1>0, <1>2
<1>5. ASSUME NEW e \in Event PROVE EventInv(e)'
  <2>1. EventInv(e) /\ of[e] \in Call /\ EventInv(x)
    BY DEF TypeOK, LogTypeOK
  <2>2. calls'[of[x]] # 0
    BY <1>0, <1>2
  <2>3. CASE e = x
    BY <1>0, <1>1, <2>1, <2>2, <2>3 DEF EventInv
  <2>4. CASE e # x
    BY <1>1, <1>3, <1>4, <2>1, <2>4 DEF EventInv
  <2>5. QED
    BY <2>3, <2>4
<1>6. OneRequest'
  BY <1>1 DEF OneRequest
<1>7. ASSUME NEW c \in Call, calls'[c] # 0 PROVE CreatedBy(c)'
  <2>1. CASE calls[c] = 0
    BY <1>0, <1>1, <1>2, <1>7, <2>1 DEF CreatedBy
  <2>2. CASE calls[c] # 0
    <3>1. PICK e \in Event : fate[e] = "stored" /\ of[e] = c /\ at[e] = calls[c]
      BY <2>2 DEF CreatedBy
    <3>2. e # x /\ calls'[c] = calls[c]
      BY <1>0, <1>2, <2>2, <3>1
    <3>3. QED
      BY <1>1, <3>1, <3>2 DEF CreatedBy
  <2>3. QED
    BY <2>1, <2>2
<1>8. QED
  BY <1>5, <1>6, <1>7

LEMMA LogNextStep == IndInv /\ [Next]_vars => LogInv'
<1> SUFFICES ASSUME IndInv, [Next]_vars PROVE LogInv'
  OBVIOUS
<1> USE DEF IndInv, IInv
<1>0. UNCHANGED logVars => LogInv'
  BY DEF logVars, LogInv, EventInv, OneRequest, CreatedBy, Young
<1>1. ASSUME NEW e \in Event, Lose(e)
      PROVE  LogInv'
  <2>1. /\ fate[e] = "pending" /\ fate'[e] = "lost"
        /\ \A d \in Event \ {e} : fate'[d] = fate[d]
        /\ UNCHANGED <<now, count, of, kind, at, calls, rows>>
    BY <1>1 DEF Lose, Becomes, TypeOK, LogTypeOK
  <2>2. \A c \in Call : Young(c, now) => Young(c, now)'
    BY <2>1 DEF Young
  <2>3. ASSUME NEW d \in Event PROVE EventInv(d)'
    BY <2>1, <2>2 DEF LogInv, EventInv, TypeOK, LogTypeOK
  <2>4. ASSUME NEW c \in Call, calls'[c] # 0 PROVE CreatedBy(c)'
    BY <2>1, <2>4 DEF LogInv, CreatedBy
  <2>5. OneRequest'
    BY <2>1 DEF LogInv, OneRequest
  <2>6. QED
    BY <2>3, <2>4, <2>5 DEF LogInv
<1>2. ASSUME Tick
      PROVE  LogInv'
  <2>1. now' = now + 1 /\ UNCHANGED <<count, of, kind, at, fate, calls, rows>> /\ now \in Nat
    BY <1>2 DEF Tick, TypeOK, LogTypeOK
  <2>2. ASSUME NEW e \in Event PROVE EventInv(e)'
    <3>1. fate[e] = "pending" => Young(of[e], now)'
      BY <1>2 DEF Tick, Young
    <3>2. at[e] \in Nat /\ EventInv(e)
      BY DEF TypeOK, LogTypeOK, LogInv
    <3>3. QED
      BY <2>1, <3>1, <3>2 DEF EventInv
  <2>3. OneRequest' /\ \A c \in Call : calls'[c] # 0 => CreatedBy(c)'
    BY <2>1 DEF LogInv, OneRequest, CreatedBy
  <2>4. QED
    BY <2>2, <2>3 DEF LogInv
<1>3. ASSUME NEW r \in Replica,
             Begin(r) \/ Fetch(r) \/ FetchChildren(r) \/ Upload(r) \/ Delete(r) \/ Fail(r)
      PROVE  LogInv'
  <2>1. run[r].batch \in SUBSET Call
    BY DEF TypeOK, Run
  <2>2. QED
    BY <1>0, <1>3, <2>1, RunStep, ShrinkLog
<1>4. UNCHANGED vars => LogInv'
  BY <1>0 DEF vars
<1>5. QED
  BY <1>1, <1>2, <1>3, <1>4, RecordLog, CommitLog DEF Next, LogNext

-----------------------------------------------------------------------------
(* What a run knows stays true while others act.                            *)

Knows(r) == OldInv(r) /\ CopyInv(r) /\ DueInv(r)

\* A replica that only looks on while calls are removed.
LEMMA Bystander ==
  ASSUME IndInv, [Next]_vars, Shrinks, NEW q \in Replica, run'[q] = run[q],
         archive \subseteq archive', archiving' = archiving
  PROVE  Knows(q)'
<1> USE DEF IndInv, Shrinks, At
<1>0. /\ now' = now /\ of' = of /\ calls \in [Call -> Nat] /\ run[q] \in Run
      /\ run[q].batch \subseteq Call
  BY DEF TypeOK, LogTypeOK, Run
<1>1. OldInv(q)'
  BY <1>0, OldStays DEF IInv, OldInv, Expired
<1>2. CopyInv(q)'
  BY <1>0 DEF IInv, CopyInv
<1>3. Due(q)' \subseteq Due(q)
  BY <1>0 DEF Due
<1>4. DueInv(q)'
  BY <1>0, <1>3 DEF IInv, DueInv
<1>5. QED
  BY <1>1, <1>2, <1>4 DEF Knows

\* A commit touches no call of a batch, and makes no call due: its call is young.
LEMMA CommitIsYoung ==
  ASSUME IndInv, NEW e \in Event, Commit(e), NEW r \in Replica
  PROVE  /\ of[e] \notin run[r].batch
         /\ ~At(r, "idle") => ~(at[e] < run[r].cutoff)
<1> USE DEF IndInv
<1>1. Young(of[e], now) /\ fate[e] = "pending"
  BY DEF IInv, LogInv, EventInv, Commit, Becomes
<1>2. of[e] \notin run[r].batch
  BY <1>1 DEF IInv, OldInv
<1>3. now \in Nat /\ at[e] \in Nat /\ run[r].cutoff \in Nat /\ now <= at[e] + CallSpan
  BY <1>1 DEF TypeOK, LogTypeOK, Run, Young
<1>4. ~At(r, "idle") => run[r].cutoff + Days <= now
  BY DEF IInv, OldInv
<1>5. QED
  BY <1>2, <1>3, <1>4

LEMMA CommitKnows ==
  ASSUME IndInv, [Next]_vars, NEW e \in Event, Commit(e), NEW r \in Replica,
         UNCHANGED <<archiving, run, archive, failures>>
  PROVE  Knows(r)'
<1> USE DEF IndInv, At
<1>0. TypeOK /\ of[e] \in Call /\ run[r] \in Run /\ run[r].batch \subseteq Call
  BY DEF TypeOK, LogTypeOK, Run
<1>1. /\ UNCHANGED <<now, of, at>> /\ rows' = rows \cup {e}
      /\ calls' = IF calls[of[e]] = 0 THEN [calls EXCEPT ![of[e]] = at[e]] ELSE calls
  BY DEF Commit, CallAndEventRows
<1>2. \A c \in Call : c # of[e] => calls'[c] = calls[c]
  BY <1>0, <1>1 DEF TypeOK, LogTypeOK
<1>3. OldInv(r)'
  <2>1. ASSUME NEW c \in run[r].batch PROVE calls'[c] = calls[c] /\ ~Young(c, now)'
    <3>1. c \in Call /\ ~Young(c, now) /\ c # of[e]
      BY <1>0, CommitIsYoung DEF IInv, OldInv
    <3>2. QED
      BY <1>2, <3>1, OldStays
  <2>2. QED
    BY <1>1, <2>1 DEF IInv, OldInv, Expired
<1>4. CopyInv(r)'
  BY <1>1, CommitIsYoung DEF IInv, CopyInv
<1>5. ~At(r, "idle") => Due(r)' = Due(r)
  <2>1. calls'[of[e]] \in {calls[of[e]], at[e]} /\ (calls[of[e]] # 0 => calls' = calls)
    BY <1>0, <1>1 DEF TypeOK, LogTypeOK
  <2>2. QED
    BY <1>0, <1>1, <1>2, <2>1, CommitIsYoung DEF Due
<1>6. DueInv(r)'
  BY <1>5 DEF IInv, DueInv
<1>7. QED
  BY <1>3, <1>4, <1>6 DEF Knows

\* Nor does a step that leaves the rows alone.
LEMMA StillKnows ==
  ASSUME IndInv, [Next]_vars, NEW r \in Replica,
         UNCHANGED <<archiving, run, archive, of, calls, rows>>, now <= now'
  PROVE  Knows(r)'
<1> USE DEF IndInv, At
<1>0. now \in Nat /\ now' \in Nat /\ calls \in [Call -> Nat] /\ run[r] \in Run
      /\ run[r].batch \subseteq Call
  BY TypeNext DEF TypeOK, LogTypeOK, Run
<1>1. OldInv(r)'
  <2>1. run[r].cutoff + Days <= now => run[r].cutoff + Days <= now'
    BY <1>0 DEF Run
  <2>2. \A c \in Call : Expired(c) => Expired(c)'
    BY <1>0 DEF Expired
  <2>3. QED
    BY <1>0, <2>1, <2>2, OldStays DEF IInv, OldInv
<1>2. CopyInv(r)' /\ DueInv(r)'
  BY DEF IInv, CopyInv, DueInv, Due
<1>3. QED
  BY <1>1, <1>2 DEF Knows

-----------------------------------------------------------------------------
(* ... and what it does itself.                                             *)

\* A batch is taken from the calls that are due, so they are old.
LEMMA FetchedAreOld ==
  ASSUME IndInv, NEW r \in Replica, At(r, "fetch"), NEW c \in Due(r)
  PROVE  ~Young(c, now) /\ Expired(c)
<1> USE DEF IndInv, At
<1>1. c \in Call /\ calls[c] # 0 /\ calls[c] < run[r].cutoff
  BY DEF Due
<1>2. run[r].cutoff + Days <= now
  BY DEF IInv, OldInv
<1>3. PICK e \in Event : fate[e] = "stored" /\ of[e] = c /\ at[e] = calls[c]
  BY <1>1 DEF IInv, LogInv, CreatedBy
<1>4. now \in Nat /\ calls[c] \in Nat /\ run[r].cutoff \in Nat
  BY <1>1 DEF TypeOK, LogTypeOK, Run
<1>5. ~(now <= at[e] + CallSpan)
  BY <1>1, <1>2, <1>3, <1>4
<1>6. QED
  BY <1>1, <1>2, <1>3, <1>4, <1>5 DEF Young, Expired

LEMMA FetchKnows ==
  ASSUME IndInv, NEW r \in Replica, Fetch(r)
  PROVE  Knows(r)'
<1> USE DEF IndInv, At
<1> DEFINE due == {c \in Due(r) : c > run[r].last}
<1>0. run[r] \in Run /\ run \in [Replica -> Run] /\ UNCHANGED <<logVars, archiving, archive, failures>>
  BY DEF TypeOK, Fetch
<1>1. PICK b \in SUBSET due :
        /\ IsBatch(b, due)
        /\ Sets(r, IF b = {} THEN Idle
                   ELSE [run[r] EXCEPT !.batch = b,
                                       !.phase = IF archiving THEN "children" ELSE "delete"])
  BY DEF Fetch
<1>2. CASE b = {}
  BY <1>0, <1>1, <1>2 DEF Sets, Idle, Knows, OldInv, CopyInv, DueInv
<1>3. CASE b # {}
  <2>1. /\ run'[r].batch = b /\ run'[r].cutoff = run[r].cutoff
        /\ run'[r].phase = IF archiving THEN "children" ELSE "delete"
    BY <1>0, <1>1, <1>3 DEF Sets, Run
  <2>2. At(r, "fetch") /\ due = Due(r)
    BY DEF Fetch, IInv, DueInv
  <2>3. UNCHANGED <<now, of, at, fate, calls, rows, archiving>>
    BY <1>0 DEF logVars
  <2>4. Due(r)' = Due(r)
    BY <2>1, <2>3 DEF Due
  <2>5. OldInv(r)'
    <3>1. run[r].cutoff + Days <= now
      BY <2>2 DEF IInv, OldInv
    <3>2. \A c \in b : ~Young(c, now) /\ Expired(c)
      BY <2>2, FetchedAreOld
    <3>3. \A c \in b : ~Young(c, now)' /\ Expired(c)'
      BY <2>3, <3>2 DEF Young, Expired
    <3>4. QED
      BY <2>1, <2>3, <3>1, <3>3 DEF OldInv
  <2>6. CopyInv(r)'
    BY <2>1, <2>3 DEF CopyInv
  <2>7. DueInv(r)'
    <3>1. b \subseteq Call /\ b \subseteq Due(r)
      BY <2>2 DEF Due
    <3>2. IsBatch(b, Due(r))
      BY <1>1, <2>2
    <3>3. QED
      BY <2>1, <2>4, <3>1, <3>2 DEF DueInv, IsBatch
  <2>8. QED
    BY <2>5, <2>6, <2>7 DEF Knows
<1>4. QED
  BY <1>2, <1>3

\* After a delete, the calls that are due come after the cursor.
LEMMA DeleteKnows ==
  ASSUME IndInv, [Next]_vars, NEW r \in Replica, Delete(r)
  PROVE  Knows(r)'
<1> USE DEF IndInv, At
<1>0. /\ run[r] \in Run /\ run \in [Replica -> Run] /\ calls \in [Call -> Nat]
      /\ At(r, "delete") /\ DeleteCalls(run[r].batch) /\ now' = now
  BY DEF TypeOK, LogTypeOK, Delete, DeleteCalls
<1>1. CASE Sets(r, Idle)
  BY <1>0, <1>1 DEF Sets, Idle, Knows, OldInv, CopyInv, DueInv
<1>2. ASSUME NEW c \in run[r].batch, \A d \in run[r].batch : d <= c,
             Sets(r, [run[r] EXCEPT !.phase = "fetch", !.last = c,
                                    !.batch = {}, !.body = {}])
      PROVE  Knows(r)'
  <2>1. /\ run'[r].batch = {} /\ run'[r].cutoff = run[r].cutoff
        /\ run'[r].phase = "fetch" /\ run'[r].last = c
    BY <1>0, <1>2 DEF Sets, Run
  <2>2. OldInv(r)' /\ CopyInv(r)'
    BY <1>0, <2>1 DEF IInv, OldInv, CopyInv
  <2>3. ASSUME NEW d \in Due(r)' PROVE d > c
    <3>1. d \in Due(r) \ run[r].batch
      BY <1>0, <2>1 DEF Due, DeleteCalls
    <3>2. d > c
      BY <1>0, <3>1 DEF IInv, DueInv
    <3>3. QED
      BY <3>2
  <2>4. DueInv(r)'
    BY <2>1, <2>3 DEF DueInv
  <2>5. QED
    BY <2>2, <2>4 DEF Knows
<1>3. QED
  BY <1>1, <1>2 DEF Delete

LEMMA KnowsNext == IndInv /\ [Next]_vars => \A r \in Replica : Knows(r)'
<1> SUFFICES ASSUME IndInv, [Next]_vars, NEW q \in Replica PROVE Knows(q)'
  OBVIOUS
<1> USE DEF IndInv
<1>0. now \in Nat /\ TypeOK
  BY DEF TypeOK, LogTypeOK
<1>1. ASSUME UNCHANGED <<archiving, run, archive, failures>>,
             \/ \E c \in Call, k \in Kinds : Record(c, k)
             \/ \E e \in Event : Lose(e)
             \/ Tick
             \/ UNCHANGED vars
      PROVE  Knows(q)'
  <2>1. ASSUME NEW c \in Call, NEW k \in Kinds, Record(c, k)
        PROVE  Knows(q)'
    \* Recording names the call of an event not recorded before.
    <3>1. \A d \in rows : of'[d] = of[d]
      BY <1>0, <2>1 DEF Record, IInv, LogInv, EventInv, TypeOK, LogTypeOK
    <3>2. UNCHANGED <<now, calls, rows>>
      BY <2>1 DEF Record
    <3>3. run[q].batch \subseteq Call
      BY DEF TypeOK, Run
    <3>4. OldInv(q)'
      BY <1>1, <3>2, <3>3, OldStays DEF IInv, OldInv, At, Expired
    <3>5. CopyInv(q)' /\ DueInv(q)'
      BY <1>1, <3>1, <3>2 DEF IInv, CopyInv, DueInv, Due, At
    <3>6. QED
      BY <3>4, <3>5 DEF Knows
  <2>2. CASE (\E e \in Event : Lose(e)) \/ Tick \/ UNCHANGED vars
    <3>1. UNCHANGED <<of, calls, rows>> /\ now <= now'
      BY <1>0, <2>2 DEF Lose, Tick, vars, logVars
    <3>2. QED
      BY <1>1, <3>1, StillKnows
  <2>3. QED
    BY <1>1, <2>1, <2>2
<1>2. ASSUME NEW r \in Replica,
             Begin(r) \/ Fetch(r) \/ FetchChildren(r) \/ Upload(r) \/ Delete(r) \/ Fail(r)
      PROVE  Knows(q)'
  <2>1. CASE q # r
    BY <1>2, <2>1, RunStep, Bystander
  <2>2. CASE q = r
    <3> USE DEF At, Sets, Knows
    <3>0. run \in [Replica -> Run] /\ run[r] \in Run /\ run[r].batch \subseteq Call
      BY DEF TypeOK, Run
    <3>1. CASE Begin(r)
      BY <1>0, <2>2, <3>0, <3>1 DEF Begin, Idle, OldInv, CopyInv, DueInv, Due, logVars
    <3>2. CASE FetchChildren(r)
      <4>1. /\ run'[r].batch = run[r].batch /\ run'[r].cutoff = run[r].cutoff
            /\ run'[r].phase = "upload" /\ run[r].phase = "children"
            /\ run'[r].body = {e \in rows : of[e] \in run[r].batch}
            /\ UNCHANGED <<now, of, calls, rows>>
        BY <3>0, <3>2 DEF FetchChildren, logVars, Run
      <4>2. OldInv(r)' /\ CopyInv(r)'
        BY <3>0, <4>1, OldStays DEF IInv, OldInv, CopyInv, Expired
      <4>3. Due(r)' = Due(r)
        BY <4>1 DEF Due
      <4>4. DueInv(r)'
        BY <4>1, <4>3 DEF IInv, DueInv
      <4>5. QED
        BY <2>2, <4>2, <4>4
    <3>3. CASE Upload(r)
      <4>1. /\ run'[r].batch = run[r].batch /\ run'[r].cutoff = run[r].cutoff
            /\ run'[r].phase = "delete" /\ run[r].phase = "upload"
            /\ archive' = archive \cup run[r].body
            /\ UNCHANGED <<now, of, calls, rows>>
        BY <3>0, <3>3 DEF Upload, logVars, Run
      <4>2. OldInv(r)'
        BY <3>0, <4>1, OldStays DEF IInv, OldInv, Expired
      <4>3. CopyInv(r)'
        BY <4>1 DEF IInv, CopyInv
      <4>4. Due(r)' = Due(r)
        BY <4>1 DEF Due
      <4>5. DueInv(r)'
        BY <4>1, <4>4 DEF IInv, DueInv
      <4>6. QED
        BY <2>2, <4>2, <4>3, <4>5
    <3>4. CASE Fail(r)
      BY <2>2, <3>0, <3>4 DEF Fail, Idle, OldInv, CopyInv, DueInv
    <3>5. QED
      BY <1>2, <2>2, <3>1, <3>2, <3>3, <3>4, FetchKnows, DeleteKnows
  <2>3. QED
    BY <2>1, <2>2
<1>3. ASSUME NEW e \in Event, Commit(e), UNCHANGED <<archiving, run, archive, failures>>
      PROVE  Knows(q)'
  BY <1>3, CommitKnows
<1>4. UNCHANGED vars => UNCHANGED <<archiving, run, archive, failures>>
  BY DEF vars
<1>5. QED
  BY <1>1, <1>2, <1>3, <1>4 DEF Next, LogNext

-----------------------------------------------------------------------------
(* No stored event is lost.                                                 *)

LEMMA NothingLostNext == IndInv /\ [Next]_vars => NothingLost'
<1> SUFFICES ASSUME IndInv, [Next]_vars, archiving', NEW e \in Event, fate'[e] = "stored"
             PROVE  e \in rows' \cup archive'
  BY DEF NothingLost
<1> USE DEF IndInv
<1>1. archiving /\ archive \subseteq archive'
  <2>1. archiving' = archiving /\ archive \subseteq archive'
    BY RunStep DEF Next, LogNext, vars
  <2>2. QED
    BY <2>1
<1>2. ASSUME NEW c \in Call, NEW k \in Kinds, Record(c, k)
      PROVE  fate[e] = "stored" /\ rows' = rows
  BY <1>2 DEF Record, TypeOK, LogTypeOK
<1>3. ASSUME NEW d \in Event, Commit(d)
      PROVE  (e = d /\ d \in rows') \/ (fate[e] = "stored" /\ rows \subseteq rows')
  BY <1>3 DEF Commit, Becomes, CallAndEventRows, TypeOK, LogTypeOK
<1>4. ASSUME NEW d \in Event, Lose(d)
      PROVE  fate[e] = "stored" /\ rows' = rows
  BY <1>4 DEF Lose, Becomes, TypeOK, LogTypeOK
<1>5. ASSUME Tick \/ UNCHANGED vars \/ UNCHANGED logVars
      PROVE  fate[e] = "stored" /\ rows' = rows
  BY <1>5 DEF Tick, vars, logVars
<1>6. ASSUME NEW r \in Replica, At(r, "delete"), DeleteCalls(run[r].batch)
      PROVE  fate[e] = "stored" /\ \A d \in rows \ rows' : d \in archive
  BY <1>1, <1>6 DEF DeleteCalls, IInv, CopyInv, At
<1>7. e \in rows' \/ (fate[e] = "stored" /\ \A d \in rows \ rows' : d \in archive)
  BY <1>2, <1>3, <1>4, <1>5, <1>6, RunStep DEF Next, LogNext
<1>8. QED
  BY <1>1, <1>7 DEF IInv, NothingLost

(* The audit trail is in step, no stored event is missing from both the     *)
(* database and S3, and every run knows what it deletes.                    *)
THEOREM Invariance == Spec => []IndInv
<1>1. IndInv /\ [Next]_vars => IndInv'
  BY TypeNext, LogNextStep, NothingLostNext, KnowsNext DEF IndInv, IInv, Knows
<1>2. QED
  BY <1>1, InitHolds, PTL DEF Spec

(* A call is deleted only past its retention, and with an archiver only     *)
(* once every event stored for it is in S3 (purge_once).                    *)
THEOREM KeepsRetention == Spec => RetentionKept
<1> DEFINE Kept(c) == calls[c] # 0 /\ calls'[c] = 0 =>
                        /\ Expired(c)
                        /\ archiving => \A e \in rows : of[e] = c => e \in archive
<1>1. ASSUME IndInv, [Next]_vars
      PROVE  \A c \in Call : Kept(c)
  <2> IndInv /\ [Next]_vars
    BY <1>1
  <2> SUFFICES ASSUME NEW c \in Call, calls[c] # 0, calls'[c] = 0
               PROVE  /\ Expired(c)
                      /\ archiving => \A e \in rows : of[e] = c => e \in archive
    OBVIOUS
  <2> USE DEF IndInv
  <2>1. UNCHANGED calls => FALSE
    OBVIOUS
  <2>2. \A e \in Event : ~Commit(e)
    <3> SUFFICES ASSUME NEW e \in Event, Commit(e) PROVE FALSE
      OBVIOUS
    <3>1. CASE calls[of[e]] = 0
      <4>1. of[e] # c /\ of[e] \in Call
        BY <3>1 DEF TypeOK, LogTypeOK
      <4>2. calls'[c] = calls[c]
        BY <3>1, <4>1 DEF Commit, CallAndEventRows, TypeOK, LogTypeOK
      <4>3. QED
        BY <4>2
    <3>2. CASE calls[of[e]] # 0
      BY <2>1, <3>2 DEF Commit, CallAndEventRows
    <3>3. QED
      BY <3>1, <3>2
  <2>3. ~LogNext /\ ~UNCHANGED vars /\ ~UNCHANGED logVars
    BY <2>1, <2>2 DEF LogNext, Record, Lose, Tick, vars, logVars
  <2>4. PICK r \in Replica : At(r, "delete") /\ DeleteCalls(run[r].batch)
    BY <2>3, RunStep DEF Next
  <2>5. c \in run[r].batch
    BY <2>4 DEF DeleteCalls
  <2>6. QED
    BY <2>4, <2>5 DEF IInv, OldInv, CopyInv, At
<1>2. IndInv /\ [Next]_vars => [\A c \in Call : Kept(c)]_vars
  BY <1>1
<1>3. QED
  BY <1>2, Invariance, PTL DEF Spec, RetentionKept

(* A run that was not cut short leaves no call that was due (purge_once).   *)
THEOREM SweepsAll == Spec => SweepComplete
<1> DEFINE Swept(r) == ~At(r, "idle") /\ At(r, "idle")' /\ failures' = failures =>
                         \A c \in Call : ~(calls'[c] # 0 /\ calls'[c] < run[r].cutoff)
<1>1. ASSUME IndInv, [Next]_vars
      PROVE  \A r \in Replica : Swept(r)
  <2> IndInv /\ [Next]_vars
    BY <1>1
  <2> SUFFICES ASSUME NEW r \in Replica, ~At(r, "idle"), At(r, "idle")', failures' = failures,
                      NEW c \in Call, calls'[c] # 0, calls'[c] < run[r].cutoff
               PROVE  FALSE
    OBVIOUS
  <2> USE DEF IndInv, At
  <2>0. run \in [Replica -> Run] /\ run[r] \in Run /\ failures \in Nat
    BY DEF TypeOK
  <2>1. run'[r] # run[r]
    OBVIOUS
  <2>2. Begin(r) \/ Fetch(r) \/ FetchChildren(r) \/ Upload(r) \/ Delete(r) \/ Fail(r)
    BY <2>1, RunStep DEF Next, vars
  <2>3. ~Begin(r) /\ ~FetchChildren(r) /\ ~Upload(r) /\ ~Fail(r)
    <3>1. ~Begin(r)
      BY DEF Begin
    <3>2. ~FetchChildren(r) /\ ~Upload(r)
      <4>1. \A x : Sets(r, [run[r] EXCEPT !.body = x, !.phase = "upload"]) => run'[r].phase = "upload"
        BY <2>0 DEF Sets, Run
      <4>2. Sets(r, [run[r] EXCEPT !.phase = "delete"]) => run'[r].phase = "delete"
        BY <2>0 DEF Sets, Run
      <4>3. ~FetchChildren(r)
        BY <4>1 DEF FetchChildren
      <4>4. ~Upload(r)
        BY <4>2 DEF Upload
      <4>5. QED
        BY <4>3, <4>4
    <3>3. ~Fail(r)
      BY <2>0 DEF Fail
    <3>4. QED
      BY <3>1, <3>2, <3>3
  <2>4. CASE Fetch(r)
    <3> DEFINE due == {d \in Due(r) : d > run[r].last}
    <3>1. PICK b \in SUBSET due :
            /\ IsBatch(b, due)
            /\ Sets(r, IF b = {} THEN Idle
                       ELSE [run[r] EXCEPT !.batch = b,
                                           !.phase = IF archiving THEN "children" ELSE "delete"])
      BY <2>4 DEF Fetch
    <3>2. b = {}
      BY <2>0, <3>1 DEF Sets, Run
    <3>3. due = {}
      <4>1. Cardinality(b) # BatchSize
        BY <3>2, FS_EmptySet
      <4>2. QED
        BY <3>1, <3>2, <4>1 DEF IsBatch
    <3>4. due = Due(r) /\ calls' = calls
      BY <2>4 DEF Fetch, IInv, DueInv, logVars
    <3>5. c \in Due(r)
      BY <3>4 DEF Due
    <3>6. QED
      BY <3>3, <3>4, <3>5
  <2>5. CASE Delete(r)
    <3>1. run[r].phase = "delete" /\ DeleteCalls(run[r].batch)
      BY <2>5 DEF Delete
    <3>2. Cardinality(run[r].batch) < BatchSize
      <4>1. \A x : Sets(r, [run[r] EXCEPT !.phase = "fetch", !.last = x, !.batch = {}, !.body = {}])
                     => run'[r].phase = "fetch"
        BY <2>0 DEF Sets, Run
      <4>2. QED
        BY <2>5, <4>1 DEF Delete
    <3>3. Cardinality(run[r].batch) # BatchSize
      BY <3>2
    <3>4. Due(r) \subseteq run[r].batch
      BY <3>1, <3>3 DEF IInv, DueInv
    <3>5. c \in Due(r) \ run[r].batch
      BY <3>1 DEF DeleteCalls, Due
    <3>6. QED
      BY <3>4, <3>5
  <2>6. QED
    BY <2>2, <2>3, <2>4, <2>5
<1>2. IndInv /\ [Next]_vars => [\A r \in Replica : Swept(r)]_vars
  BY <1>1
<1>3. QED
  BY <1>2, Invariance, PTL DEF Spec, SweepComplete

-----------------------------------------------------------------------------
(* The summaries tell what was stored.                                      *)

\* What they are proved with: a session without events has no last timestamp.
SummaryInv == SummariesTell /\ \A s \in Session : Stored(s) = {} => summary[s].last = 0

\* The stored events of a session, as they were.
SameStored(s) ==
  /\ Stored(s)' = Stored(s) /\ summary'[s] = summary[s]
  /\ \A e \in Stored(s) : of'[e] = of[e] /\ kind'[e] = kind[e] /\ at'[e] = at[e]

LEMMA StoredFinite ==
  ASSUME NEW s \in Session
  PROVE  IsFiniteSet(Stored(s)) /\ Cardinality(Stored(s)) \in Nat
<1>1. IsFiniteSet(Event) /\ Stored(s) \subseteq Event
  BY FS_Interval DEF Event, Stored
<1>2. QED
  BY <1>1, FS_Subset, FS_CardinalityType

LEMMA SameTell ==
  ASSUME NEW s \in Session, SameStored(s), CountsTell(s), TimesTell(s), NamesTell(s)
  PROVE  CountsTell(s)' /\ TimesTell(s)' /\ NamesTell(s)'
<1> USE DEF SameStored
<1>1. /\ Requests(s)' = Requests(s) /\ Requests(s) \subseteq Stored(s)
      /\ {e \in Stored(s) : kind[e] = "policy"}' = {e \in Stored(s) : kind[e] = "policy"}
  BY DEF Requests
<1>2. {of[e] : e \in Requests(s)}' = {of[e] : e \in Requests(s)}
  BY <1>1
<1>3. {d \in Stored(s) : About[of[d]].known}' = {d \in Stored(s) : About[of[d]].known}
  OBVIOUS
<1>4. {of[e] : e \in {d \in Stored(s) : About[of[d]].known}}'
        = {of[e] : e \in {d \in Stored(s) : About[of[d]].known}}
  BY <1>3
<1>5. {d \in Requests(s) : ~About[of[d]].probe}' = {d \in Requests(s) : ~About[of[d]].probe}
  BY <1>1
<1>6. {of[e] : e \in {d \in Requests(s) : ~About[of[d]].probe}}'
        = {of[e] : e \in {d \in Requests(s) : ~About[of[d]].probe}}
  BY <1>1, <1>5
<1>7. CountsTell(s)'
  BY <1>1, <1>2 DEF CountsTell
<1>8. TimesTell(s)'
  BY DEF TimesTell
<1>9. NamesTell(s)'
  BY <1>4, <1>6 DEF NamesTell, TakenFrom
<1>10. QED
  BY <1>7, <1>8, <1>9

\* The session of a committed event.
LEMMA AddedTells ==
  ASSUME IndInv, SummaryInv, NEW x \in Event, Commit(x),
         NEW s \in Session, s = About[of[x]].session
  PROVE  CountsTell(s)' /\ TimesTell(s)' /\ NamesTell(s)' /\ Stored(s)' # {}
<1> USE DEF IndInv
<1> DEFINE old == summary[s]
           c == of[x]
<1>0. /\ TypeOK /\ LogTypeOK /\ c \in Call /\ c # 0 /\ fate[x] = "pending"
      /\ at[x] \in Nat /\ 0 < at[x] /\ old \in Summary
      /\ CountsTell(s) /\ TimesTell(s) /\ NamesTell(s)
  <2>1. of[x] \in Call /\ at[x] \in Nat /\ old \in Summary /\ TypeOK /\ LogTypeOK
    BY DEF TypeOK, LogTypeOK
  <2>2. fate[x] = "pending" /\ 0 < at[x]
    BY DEF Commit, Becomes, IInv, LogInv, EventInv
  <2>3. QED
    BY <2>1, <2>2 DEF SummaryInv, SummariesTell
<1>1. UNCHANGED <<count, of, kind, at>>
  BY DEF Commit
<1>2. Stored(s)' = Stored(s) \cup {x} /\ x \notin Stored(s)
  BY <1>0, <1>1 DEF Commit, Becomes, Stored, LogTypeOK
<1>3. summary'[s] = Upsert(old, x)
  BY <1>0 DEF Commit, SummaryRow, EventLogAssumption, LogTypeOK
<1>4. IsFiniteSet(Stored(s)) /\ Cardinality(Stored(s)) \in Nat
  BY StoredFinite
<1>5. CountsTell(s)'
  <2>1. summary'[s].events = Cardinality(Stored(s)')
    <3>1. Cardinality(Stored(s) \cup {x}) = Cardinality(Stored(s)) + 1
      BY <1>2, <1>4, FS_AddElement
    <3>2. old.events = Cardinality(Stored(s))
      BY <1>0 DEF CountsTell
    <3>3. summary'[s].events = old.events + 1
      BY <1>3 DEF Upsert
    <3>4. QED
      BY <1>2, <3>1, <3>2, <3>3
  <2>2. summary'[s].policies = Cardinality({e \in Stored(s) : kind[e] = "policy"}')
    <3> DEFINE P == {e \in Stored(s) : kind[e] = "policy"}
    <3>1. IsFiniteSet(P) /\ x \notin P /\ old.policies = Cardinality(P)
      BY <1>0, <1>2, <1>4, FS_Subset DEF CountsTell
    <3>2. Cardinality(P \cup {x}) = Cardinality(P) + 1 /\ Cardinality(P) \in Nat
      BY <3>1, FS_AddElement, FS_CardinalityType
    <3>3. P' = IF kind[x] = "policy" THEN P \cup {x} ELSE P
      BY <1>1, <1>2
    <3>4. summary'[s].policies = old.policies + IF kind[x] = "policy" THEN 1 ELSE 0
      BY <1>3 DEF Upsert
    <3> HIDE DEF P
    <3>5. summary'[s].policies = Cardinality(P')
      BY <3>1, <3>2, <3>3, <3>4
    <3>6. QED
      BY <3>5 DEF P
  <2>3. summary'[s].calls = Cardinality({of[e] : e \in Requests(s)}')
    <3> DEFINE Q == {of[e] : e \in Requests(s)}
    <3>1. IsFiniteSet(Q) /\ old.calls = Cardinality(Q)
      <4> DEFINE f == [e \in Requests(s) |-> of[e]]
      <4>1. IsFiniteSet(Requests(s))
        BY <1>4, FS_Subset DEF Requests
      <4>2. f \in Surjection(Requests(s), Q)
        BY DEF Surjection
      <4>3. old.calls = Cardinality(Q)
        BY <1>0 DEF CountsTell
      <4> HIDE DEF f, Q
      <4>4. QED
        BY <4>1, <4>2, <4>3, FS_Surjection
    <3>2. Cardinality(Q) \in Nat /\ (c \notin Q => Cardinality(Q \cup {c}) = Cardinality(Q) + 1)
      BY <3>1, FS_AddElement, FS_CardinalityType
    <3>3. kind[x] = "request" => c \notin Q
      <4> SUFFICES ASSUME kind[x] = "request", NEW e \in Requests(s), of[e] = c PROVE FALSE
        OBVIOUS
      <4>1. /\ e \in Event /\ fate[e] = "stored" /\ kind[e] = "request"
        BY DEF Requests, Stored
      <4>2. e \in 1..count /\ x \in 1..count
        BY <1>0, <4>1 DEF IInv, LogInv, EventInv, Event, LogTypeOK
      <4>3. QED
        BY <1>0, <4>1, <4>2 DEF IInv, LogInv, OneRequest
    <3>4. Requests(s)' = IF kind[x] = "request" THEN Requests(s) \cup {x} ELSE Requests(s)
      BY <1>1, <1>2 DEF Requests
    <3>5. Q' = IF kind[x] = "request" THEN Q \cup {c} ELSE Q
      BY <1>1, <3>4
    <3>6. summary'[s].calls = old.calls + IF kind[x] = "request" THEN 1 ELSE 0
      BY <1>3 DEF Upsert
    <3> HIDE DEF Q
    <3>7. summary'[s].calls = Cardinality(Q')
      BY <3>1, <3>2, <3>3, <3>5, <3>6
    <3>8. QED
      BY <3>7 DEF Q
  <2>4. QED
    BY <2>1, <2>2, <2>3 DEF CountsTell
<1>6. TimesTell(s)'
  <2>1. old.events > 0 <=> Stored(s) # {}
    BY <1>0, <1>4, FS_EmptySet DEF CountsTell
  <2>2. old.first \in Nat /\ old.last \in Nat /\ \A e \in Stored(s) : at[e] \in Nat
    BY <1>0 DEF Summary, LogTypeOK, Stored
  <2>3. /\ summary'[s].first = IF old.events > 0 /\ old.first <= at[x] THEN old.first ELSE at[x]
        /\ summary'[s].last = IF at[x] > old.last THEN at[x] ELSE old.last
    BY <1>3 DEF Upsert
  <2>4. CASE Stored(s) = {}
    <3>1. old.last = 0
      BY <2>4 DEF SummaryInv
    <3>2. summary'[s].first = at[x] /\ summary'[s].last = at[x] /\ Stored(s)' = {x}
      BY <1>0, <1>2, <2>1, <2>3, <2>4, <3>1
    <3>3. QED
      BY <1>0, <1>1, <3>2 DEF TimesTell
  <2>5. CASE Stored(s) # {}
    <3>1. PICK i \in Stored(s), j \in Stored(s) : old.first = at[i] /\ old.last = at[j]
      BY <1>0, <2>5 DEF TimesTell
    <3>2. \A e \in Stored(s) : old.first <= at[e] /\ at[e] <= old.last
      BY <1>0 DEF TimesTell
    <3>3. \E e \in Stored(s)' : summary'[s].first = at'[e]
      BY <1>1, <1>2, <2>3, <3>1
    <3>4. \E e \in Stored(s)' : summary'[s].last = at'[e]
      BY <1>1, <1>2, <2>3, <3>1
    <3>5. \A e \in Stored(s) \cup {x} : summary'[s].first <= at[e] /\ at[e] <= summary'[s].last
      <4>1. /\ summary'[s].first <= old.first /\ summary'[s].first <= at[x]
            /\ old.last <= summary'[s].last /\ at[x] <= summary'[s].last
            /\ summary'[s].first \in Nat /\ summary'[s].last \in Nat
        <5>1. at[x] \in Nat
          BY <1>0
        <5>2. summary'[s].first = IF old.first <= at[x] THEN old.first ELSE at[x]
          BY <2>1, <2>3, <2>5
        <5>3. summary'[s].last = IF at[x] > old.last THEN at[x] ELSE old.last
          BY <2>3
        <5> HIDE DEF old
        <5>4. /\ summary'[s].first <= old.first /\ summary'[s].first <= at[x]
              /\ summary'[s].first \in Nat
          BY <2>2, <5>1, <5>2
        <5>5. /\ old.last <= summary'[s].last /\ at[x] <= summary'[s].last
              /\ summary'[s].last \in Nat
          BY <2>2, <5>1, <5>3
        <5>6. QED
          BY <5>4, <5>5
      <4>2. ASSUME NEW e \in Stored(s)
            PROVE  summary'[s].first <= at[e] /\ at[e] <= summary'[s].last
        <5>1. /\ at[e] \in Nat /\ old.first <= at[e] /\ at[e] <= old.last
              /\ old.first \in Nat /\ old.last \in Nat
          BY <2>2, <3>2
        <5> HIDE DEF old
        <5>2. QED
          BY <4>1, <5>1
      <4>3. QED
        BY <4>1, <4>2
    <3>6. QED
      BY <1>1, <1>2, <3>3, <3>4, <3>5 DEF TimesTell
  <2>6. QED
    BY <2>4, <2>5
<1>7. NamesTell(s)'
  <2>1. /\ summary'[s].user = IF old.user # 0 THEN old.user ELSE IF About[c].known THEN c ELSE 0
        /\ summary'[s].preview =
             IF old.preview # 0 THEN old.preview
             ELSE IF kind[x] = "request" /\ ~About[c].probe THEN c ELSE 0
    BY <1>3 DEF Upsert
  <2>2. TakenFrom(summary[s].user, {of[e] : e \in {d \in Stored(s) : About[of[d]].known}})'
    <3> DEFINE U == {of[e] : e \in {d \in Stored(s) : About[of[d]].known}}
    <3>1. TakenFrom(old.user, U)
      BY <1>0 DEF NamesTell
    <3>2. U' = IF About[c].known THEN U \cup {c} ELSE U
      BY <1>1, <1>2
    <3>3. 0 \notin U
      BY <1>0 DEF Stored, LogTypeOK
    <3> HIDE DEF U
    <3>4. TakenFrom(summary'[s].user, U')
      BY <1>0, <2>1, <3>1, <3>2, <3>3 DEF TakenFrom
    <3>5. QED
      BY <3>4 DEF TakenFrom, U
  <2>3. TakenFrom(summary[s].preview, {of[e] : e \in {d \in Requests(s) : ~About[of[d]].probe}})'
    <3> DEFINE V == {of[e] : e \in {d \in Requests(s) : ~About[of[d]].probe}}
    <3>1. TakenFrom(old.preview, V)
      BY <1>0 DEF NamesTell
    <3>2. Requests(s)' = IF kind[x] = "request" THEN Requests(s) \cup {x} ELSE Requests(s)
      BY <1>1, <1>2 DEF Requests
    <3>3. V' = IF kind[x] = "request" /\ ~About[c].probe THEN V \cup {c} ELSE V
      BY <1>1, <3>2
    <3>4. 0 \notin V
      BY <1>0 DEF Requests, Stored, LogTypeOK
    <3> HIDE DEF V
    <3>5. TakenFrom(summary'[s].preview, V')
      BY <1>0, <2>1, <3>1, <3>3, <3>4 DEF TakenFrom
    <3>6. QED
      BY <3>5 DEF TakenFrom, V
  <2>4. QED
    BY <2>2, <2>3 DEF NamesTell
<1>8. QED
  BY <1>2, <1>5, <1>6, <1>7

LEMMA OthersSame ==
  ASSUME IndInv, [Next]_vars, NEW s \in Session,
         \A x \in Event : Commit(x) => s # About[of[x]].session
  PROVE  SameStored(s)
<1> USE DEF IndInv
<1>1. ASSUME NEW c \in Call, NEW k \in Kinds, Record(c, k)
      PROVE  SameStored(s)
  <2>1. /\ fate[count + 1] = "none" /\ count + 1 \in Event /\ fate'[count + 1] = "pending"
        /\ \A e \in Event : e # count + 1 => /\ fate'[e] = fate[e] /\ of'[e] = of[e]
                                            /\ kind'[e] = kind[e] /\ at'[e] = at[e]
    BY <1>1 DEF Record, Event, IInv, LogInv, EventInv, TypeOK, LogTypeOK
  <2>2. QED
    BY <1>1, <2>1 DEF Record, SameStored, Stored
<1>2. ASSUME NEW x \in Event, Commit(x)
      PROVE  SameStored(s)
  <2>1. summary'[s] = summary[s]
    <3>1. CASE About[of[x]].session = "none"
      BY <1>2, <3>1 DEF Commit, SummaryRow
    <3>2. CASE About[of[x]].session # "none"
      BY <1>2, <3>2 DEF Commit, SummaryRow, TypeOK, LogTypeOK
    <3>3. QED
      BY <3>1, <3>2
  <2>2. s # About[of[x]].session
    BY <1>2
  <2>3. QED
    BY <1>2, <2>1, <2>2 DEF Commit, Becomes, SameStored, Stored, TypeOK, LogTypeOK
<1>3. ASSUME NEW x \in Event, Lose(x)
      PROVE  SameStored(s)
  BY <1>3 DEF Lose, Becomes, SameStored, Stored, TypeOK, LogTypeOK
<1>4. ASSUME UNCHANGED <<of, kind, at, fate, summary>>
      PROVE  SameStored(s)
  BY <1>4 DEF SameStored, Stored
<1>5. ASSUME NEW b, DeleteCalls(b)
      PROVE  SameStored(s)
  BY <1>4, <1>5 DEF DeleteCalls
<1>6. Tick \/ UNCHANGED vars \/ UNCHANGED logVars => SameStored(s)
  BY <1>4 DEF Tick, vars, logVars
<1>7. QED
  BY <1>1, <1>2, <1>3, <1>5, <1>6, RunStep DEF Next, LogNext

(* The summary of a session is what migration 021 would compute from the    *)
(* events ever stored for it (update_session_summary).                      *)
THEOREM SummariesHold == Spec => []SummariesTell
<1>1. Init => SummaryInv
  <2> SUFFICES ASSUME Init, NEW s \in Session
               PROVE  /\ CountsTell(s) /\ TimesTell(s) /\ NamesTell(s)
                      /\ Stored(s) = {} => summary[s].last = 0
    BY DEF SummaryInv, SummariesTell
  <2>1. Stored(s) = {} /\ Requests(s) = {} /\ summary[s] = NoSummary
    BY DEF Init, LogInit, Stored, Requests
  <2>2. Cardinality({}) = 0
    BY FS_EmptySet
  <2>3. {of[e] : e \in Requests(s)} = {} /\ {e \in Stored(s) : kind[e] = "policy"} = {}
    BY <2>1
  <2>4. CountsTell(s)
    BY <2>1, <2>2, <2>3 DEF CountsTell, NoSummary
  <2>5. TimesTell(s) /\ NamesTell(s)
    BY <2>1 DEF TimesTell, NamesTell, TakenFrom, NoSummary
  <2>6. QED
    BY <2>1, <2>4, <2>5 DEF NoSummary
<1>2. IndInv /\ SummaryInv /\ [Next]_vars => SummaryInv'
  <2> SUFFICES ASSUME IndInv, SummaryInv, [Next]_vars, NEW s \in Session
               PROVE  /\ CountsTell(s)' /\ TimesTell(s)' /\ NamesTell(s)'
                      /\ Stored(s)' = {} => summary'[s].last = 0
    BY DEF SummaryInv, SummariesTell
  <2>1. CASE \E x \in Event : Commit(x) /\ s = About[of[x]].session
    BY <2>1, AddedTells
  <2>2. CASE \A x \in Event : Commit(x) => s # About[of[x]].session
    <3>1. SameStored(s)
      BY <2>2, OthersSame
    <3>2. QED
      BY <3>1, SameTell DEF SummaryInv, SummariesTell, SameStored
  <2>3. QED
    BY <2>1, <2>2
<1>3. SummaryInv => SummariesTell
  BY DEF SummaryInv
<1>4. QED
  BY <1>1, <1>2, <1>3, Invariance, PTL DEF Spec
=============================================================================
