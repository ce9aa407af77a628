------------------------ MODULE RequestPipelineProofs ------------------------
(***************************************************************************)
(* Proofs about RequestPipeline for any set of calls and any number of     *)
(* events: the type invariant, and the invariant HandlersInv from which the       *)
(* safety properties follow. Every action changes one call, so the         *)
(* induction is done on the record of that call (lemma OneCall).           *)
(***************************************************************************)
EXTENDS RequestPipeline, TLAPS

USE MaxEventsAssumption

(* A call as the handlers can leave it: well typed, and in step with its    *)
(* phase.                                                                   *)
Good(r) == r \in CallState /\ HandlerInv(r)

-----------------------------------------------------------------------------
(* The records. A handler's assignments are taken one field at a time.      *)

LEMMA Fields ==
  ASSUME NEW r \in CallState
  PROVE  /\ r.phase \in Phases /\ r.exit \in Exits
         /\ r.stream \in BOOLEAN /\ r.hasStart \in BOOLEAN /\ r.completed \in BOOLEAN
         /\ r.caught \in BOOLEAN /\ r.cancelled \in BOOLEAN /\ r.success \in BOOLEAN
         /\ r.resume \in {"upstream", "tail_hook"} /\ r.shape \in Shapes
         /\ r.sent \in 0..MaxEvents /\ r.sent \in Nat
         /\ r.status \in Status /\ r.http \in Status \cup {NoStatus}
         /\ r.logged \in Status \cup {NoStatus}
         /\ r.taken \in Nat /\ r.errors \in Nat /\ r.upstream \in Nat
         /\ r.requests \in Nat /\ r.responses \in Nat /\ r.usage \in Nat
         /\ r.fires \in Nat
BY DEF CallState

LEMMA InitGood == Good(InitCall)
BY DEF Good, InitCall, CallState, HandlerInv, BeforeCleanup, Delivery, Ending,
       Status, NoStatus, Phases, Shapes, Exits, StreamErrors, CompleteErrors

(* The invariant survives a step that leaves the call it changes good.      *)
LEMMA OneCall ==
  ASSUME PipelineTypeOK, HandlersInv, NEW c \in Call, NEW from, NEW next,
         Step(c, from, next), Good(next)
  PROVE  PipelineTypeOK' /\ HandlersInv'
BY DEF PipelineTypeOK, HandlersInv, Step, Good

-----------------------------------------------------------------------------
(* The helpers.                                                             *)

LEMMA EnsureRecorded ==
  ASSUME NEW r \in CallState
  PROVE  LET f == EnsureRequestRecorded(r)
         IN /\ f \in CallState
            /\ f = [r EXCEPT !.requests = IF r.requests = 0 THEN 1 ELSE r.requests]
BY DEF EnsureRequestRecorded, CallState

LEMMA Fired ==
  ASSUME NEW r \in CallState, NEW success \in BOOLEAN, NEW status \in Status
  PROVE  LET f == FireWebhook(r, success, status)
         IN /\ f \in CallState
            /\ f = [r EXCEPT !.fires = r.fires + 1, !.success = success, !.http = status]
<1> DEFINE f1 == [r EXCEPT !.fires = r.fires + 1]
           f2 == [f1 EXCEPT !.success = success]
           f3 == [f2 EXCEPT !.http = status]
<1>1. f1 \in CallState
  BY DEF CallState
<1>2. FireWebhook(r, success, status) = f3
  BY DEF FireWebhook
<1> HIDE DEF f1
<1>3. f2 \in CallState
  BY <1>1 DEF CallState
<1> HIDE DEF f2
<1>4. f3 \in CallState
  BY <1>3 DEF CallState
<1>5. QED
  BY <1>2, <1>4 DEF FireWebhook

LEMMA Recorded ==
  ASSUME NEW r \in CallState, r.requests <= 1
  PROVE  LET f == CompleteRecords(r)
         IN /\ f \in CallState
            /\ f = [r EXCEPT !.requests = 1, !.responses = r.responses + 1,
                             !.logged = 200, !.usage = r.usage + 1]
<1> DEFINE f1 == EnsureRequestRecorded(r)
           f2 == [f1 EXCEPT !.responses = f1.responses + 1]
           f3 == [f2 EXCEPT !.logged = 200]
           f4 == [f3 EXCEPT !.usage = f3.usage + 1]
<1>1. f1 \in CallState
  BY EnsureRecorded
<1>2. f1 = [r EXCEPT !.requests = 1]
  BY EnsureRecorded, Fields
<1>8. CompleteRecords(r) = f4
  BY <1>1 DEF CompleteRecords, CallState
<1>3. f4 = [r EXCEPT !.requests = 1, !.responses = r.responses + 1,
                     !.logged = 200, !.usage = r.usage + 1]
  BY <1>2 DEF CallState
<1> HIDE DEF f1
<1>4. f2 \in CallState
  BY <1>1 DEF CallState
<1> HIDE DEF f2
<1>5. f3 \in CallState
  <2>1. 200 \in Status
    BY DEF Status, StreamErrors
  <2>2. QED
    BY <1>4, <2>1 DEF CallState
<1> HIDE DEF f3
<1>6. f4 \in CallState
  BY <1>5 DEF CallState
<1>7. QED
  BY <1>8, <1>3, <1>6

(* What the cleanup of a stream does, field by field.                       *)
LEMMA FinallyFields ==
  ASSUME NEW r \in CallState, NEW exit \in Exits
  PROVE  LET f     == StreamFinally(r, exit)
             empty == IsEmptyStream(r)
             gate  == WebhookGate(r)
         IN /\ f \in CallState
            /\ f.stream = r.stream /\ f.sent = r.sent /\ f.taken = r.taken
            /\ f.hasStart = r.hasStart /\ f.upstream = r.upstream
            /\ f.completed = r.completed /\ f.caught = r.caught
            /\ f.cancelled = r.cancelled
            /\ f.status = IF empty THEN 500 ELSE r.status
            /\ f.requests = IF empty /\ r.requests = 0 THEN 1 ELSE r.requests
            /\ f.fires = IF gate THEN r.fires + 1 ELSE r.fires
            /\ gate => f.success = (r.completed /\ f.status = 200) /\ f.http = f.status
            /\ ~gate => f.success = r.success
            /\ f.responses = IF r.hasStart THEN r.responses + 1 ELSE r.responses
            /\ f.logged = f.status
            /\ f.usage = IF f.status = 200 THEN r.usage + 1 ELSE r.usage
            /\ f.errors = IF empty THEN r.errors + 1 ELSE r.errors
            /\ f.phase = IF empty THEN "sending_empty" ELSE "done"
            /\ f.exit = exit
<1> DEFINE empty     == IsEmptyStream(r)
           status    == IF empty THEN 500 ELSE r.status
           recorded  == IF empty THEN EnsureRequestRecorded(r) ELSE r
           fired     == IF WebhookGate(r)
                          THEN FireWebhook(recorded, r.completed /\ status = 200, status)
                          ELSE recorded
           validated == CASE r.sent = 0 \/ status # 200 -> "no"
                          [] r.shape = "closed"         -> "valid"
                          [] OTHER                      -> "violation"
           f1 == [fired EXCEPT !.status = status]
           f2 == [f1 EXCEPT !.validated = validated]
           f3 == [f2 EXCEPT !.responses = IF r.hasStart THEN f2.responses + 1 ELSE f2.responses]
           f4 == [f3 EXCEPT !.logged = status]
           f5 == [f4 EXCEPT !.usage = IF status = 200 THEN f4.usage + 1 ELSE f4.usage]
           f6 == [f5 EXCEPT !.errors = IF empty THEN f5.errors + 1 ELSE f5.errors]
           f7 == [f6 EXCEPT !.phase = IF empty THEN "sending_empty" ELSE "done"]
           f8 == [f7 EXCEPT !.exit = exit]
<1>1. recorded \in CallState
  BY EnsureRecorded
<1>2. recorded = [r EXCEPT !.requests = IF empty /\ r.requests = 0 THEN 1 ELSE r.requests]
  BY EnsureRecorded DEF CallState
<1>3. status \in Status
  BY Fields DEF Status, StreamErrors
<1>4. validated \in {"no", "valid", "violation"}
  OBVIOUS
<1>5. fired \in CallState
  <2>1. (r.completed /\ status = 200) \in BOOLEAN
    OBVIOUS
  <2> HIDE DEF recorded, status
  <2>2. QED
    BY <1>1, <1>3, <2>1, Fired
<1> HIDE DEF fired, status, validated
<1>6. f1 \in CallState
  BY <1>3, <1>5 DEF CallState
<1> HIDE DEF f1
<1>7. f2 \in CallState
  BY <1>4, <1>6 DEF CallState
<1> HIDE DEF f2
<1>8. f3 \in CallState
  BY <1>7 DEF CallState
<1> HIDE DEF f3
<1>9. f4 \in CallState
  BY <1>3, <1>8 DEF CallState
<1> HIDE DEF f4
<1>10. f5 \in CallState
  BY <1>9 DEF CallState
<1> HIDE DEF f5
<1>11. f6 \in CallState
  BY <1>10 DEF CallState
<1> HIDE DEF f6
<1>12. f7 \in CallState
  BY <1>11 DEF CallState, Phases
<1> HIDE DEF f7
<1>13. f8 \in CallState
  BY <1>12 DEF CallState
<1>14. StreamFinally(r, exit) = f8
  <2>1. StreamFinally(r, exit) =
          [fired EXCEPT !.status    = status,
                        !.validated = validated,
                        !.responses = IF r.hasStart THEN fired.responses + 1 ELSE fired.responses,
                        !.logged    = status,
                        !.usage     = IF status = 200 THEN fired.usage + 1 ELSE fired.usage,
                        !.errors    = IF empty THEN fired.errors + 1 ELSE fired.errors,
                        !.phase     = IF empty THEN "sending_empty" ELSE "done",
                        !.exit      = exit]
    BY DEF StreamFinally, fired, status, validated
  <2>2. QED
    BY <1>5, <2>1 DEF CallState, f1, f2, f3, f4, f5, f6, f7
<1>15. /\ f8.stream = fired.stream /\ f8.sent = fired.sent /\ f8.taken = fired.taken
       /\ f8.hasStart = fired.hasStart /\ f8.upstream = fired.upstream
       /\ f8.completed = fired.completed /\ f8.caught = fired.caught
       /\ f8.cancelled = fired.cancelled /\ f8.requests = fired.requests
       /\ f8.fires = fired.fires /\ f8.success = fired.success /\ f8.http = fired.http
  BY <1>5 DEF CallState, f1, f2, f3, f4, f5, f6, f7
<1>16. /\ f8.status = status /\ f8.logged = status
       /\ f8.responses = IF r.hasStart THEN fired.responses + 1 ELSE fired.responses
       /\ f8.usage = IF status = 200 THEN fired.usage + 1 ELSE fired.usage
       /\ f8.errors = IF empty THEN fired.errors + 1 ELSE fired.errors
       /\ f8.phase = IF empty THEN "sending_empty" ELSE "done"
       /\ f8.exit = exit
  BY <1>5 DEF CallState, f1, f2, f3, f4, f5, f6, f7
<1>17. /\ fired.stream = r.stream /\ fired.sent = r.sent /\ fired.taken = r.taken
       /\ fired.hasStart = r.hasStart /\ fired.upstream = r.upstream
       /\ fired.completed = r.completed /\ fired.caught = r.caught
       /\ fired.cancelled = r.cancelled /\ fired.responses = r.responses
       /\ fired.usage = r.usage /\ fired.errors = r.errors
       /\ fired.requests = IF empty /\ r.requests = 0 THEN 1 ELSE r.requests
  BY <1>2 DEF fired, FireWebhook, CallState
<1>18. CASE WebhookGate(r)
  <2>1. /\ fired.fires = r.fires + 1 /\ fired.http = status
        /\ fired.success = (r.completed /\ status = 200)
    BY <1>2, <1>18 DEF fired, FireWebhook, CallState
  <2>2. QED
    BY <1>13, <1>14, <1>15, <1>16, <1>17, <1>18, <2>1 DEF status
<1>19. CASE ~WebhookGate(r)
  <2>1. fired.fires = r.fires /\ fired.success = r.success
    BY <1>2, <1>19 DEF fired, CallState
  <2>2. QED
    BY <1>13, <1>14, <1>15, <1>16, <1>17, <1>19, <2>1 DEF status
<1>20. QED
  BY <1>18, <1>19

(* The cleanup of a stream leaves a good call, however the stream ended.    *)
LEMMA FinallyGood ==
  ASSUME NEW r \in CallState, NEW exit \in {"returned", "failed", "cancelled", "closed"},
         r.stream, r.fires = 0, r.usage = 0, r.responses = 0, ~r.success,
         r.requests <= 1, r.sent = 0 => r.taken = 0 /\ ~r.hasStart,
         r.upstream + r.sent > 0 => r.requests = 1,
         exit = "returned" =>
           /\ r.completed /\ ~r.caught /\ ~r.cancelled /\ r.status = 200
           /\ r.errors = 0 /\ r.taken = r.sent,
         exit = "failed" =>
           r.caught /\ ~r.completed /\ r.status \in StreamErrors /\ r.errors = 1,
         exit = "cancelled" =>
           r.cancelled /\ ~r.caught /\ ~r.completed /\ r.status = 499 /\ r.errors = 0,
         exit = "closed" =>
           /\ ~r.completed
           /\ \/ ~r.caught /\ r.sent > 0 /\ r.errors = 0 /\ r.status = 200
              \/ r.caught /\ r.errors = 1 /\ r.status \in StreamErrors
  PROVE  Good(StreamFinally(r, exit))
<1> DEFINE f == StreamFinally(r, exit)
<1>1. exit \in Exits
  BY DEF Exits
<1>2. f \in CallState
  BY <1>1, FinallyFields
<1>3. BeforeCleanup(f)
  BY <1>1, FinallyFields DEF BeforeCleanup, Ending
<1>4. Delivery(f)
  BY <1>1, FinallyFields, Fields DEF Delivery, IsEmptyStream
<1>5. StreamEnded(f)
  <2>1. CASE exit = "returned"
    BY <1>1, <2>1, FinallyFields, Fields DEF StreamEnded, IsEmptyStream, WebhookGate, ErrorSays200
  <2>2. CASE exit = "failed"
    BY <1>1, <2>2, FinallyFields, Fields DEF StreamEnded, IsEmptyStream, WebhookGate, ErrorSays200, StreamErrors
  <2>3. CASE exit = "cancelled"
    BY <1>1, <2>3, FinallyFields, Fields DEF StreamEnded, IsEmptyStream, WebhookGate, ErrorSays200
  <2>4. CASE exit = "closed"
    BY <1>1, <2>4, FinallyFields, Fields DEF StreamEnded, IsEmptyStream, WebhookGate, ErrorSays200, StreamErrors
  <2>5. QED
    BY <2>1, <2>2, <2>3, <2>4
<1>6. QED
  BY <1>2, <1>3, <1>4, <1>5 DEF Good, HandlerInv

(* A non-streaming call that fails, before or after it was recorded.        *)
LEMMA FailsGood ==
  ASSUME NEW r \in CallState, NEW status \in CompleteErrors \cup {499},
         NEW exit \in {"failed", "cancelled"},
         ~r.stream, r.fires = 0, r.errors = 0, r.sent = 0, r.taken = 0, ~r.hasStart,
         r.requests <= 1, r.upstream > 0 => r.requests = 1,
         exit = "cancelled" => status = 499
  PROVE  Good(CompleteFails(r, status, exit))
<1> DEFINE fired == FireWebhook(r, FALSE, status)
           f1 == [fired EXCEPT !.status = status]
           f2 == [f1 EXCEPT !.phase = "done"]
           f3 == [f2 EXCEPT !.exit = exit]
<1>1. status \in Status
  BY DEF Status
<1>2. fired \in CallState
  BY <1>1, Fired
<1>3. fired = [r EXCEPT !.fires = r.fires + 1, !.success = FALSE, !.http = status]
  BY DEF FireWebhook
<1> HIDE DEF fired
<1>4. CompleteFails(r, status, exit) = f3
  BY <1>2 DEF CompleteFails, CallState, fired
<1>5. f1 \in CallState
  BY <1>1, <1>2 DEF CallState
<1> HIDE DEF f1
<1>6. f2 \in CallState
  BY <1>5 DEF CallState, Phases
<1> HIDE DEF f2
<1>7. f3 \in CallState
  BY <1>6 DEF CallState, Exits
<1>8. /\ ~f3.stream /\ f3.phase = "done" /\ f3.exit = exit /\ f3.fires = 1
      /\ ~f3.success /\ f3.http = status /\ f3.status = status /\ f3.errors = 0 /\ f3.sent = 0
      /\ f3.taken = 0 /\ ~f3.hasStart /\ f3.requests = r.requests
      /\ f3.upstream = r.upstream
  BY <1>3 DEF CallState, f1, f2
<1> HIDE DEF f3
<1>9. CompleteEnded(f3)
  BY <1>8 DEF CompleteEnded, CompleteErrors
<1>10. BeforeCleanup(f3) /\ Delivery(f3)
  BY <1>8, Fields DEF BeforeCleanup, Delivery, Ending
<1>11. QED
  BY <1>4, <1>7, <1>9, <1>10 DEF Good, HandlerInv

-----------------------------------------------------------------------------
(* The actions.                                                             *)

LEMMA InvNext ==
  ASSUME PipelineTypeOK, HandlersInv, NEW c \in Call, Accept(c) \/ HandlerStep(c) \/ Disconnect(c)
  PROVE  PipelineTypeOK' /\ HandlersInv'
<1> DEFINE r == call[c]
<1>1. r \in CallState
  BY DEF PipelineTypeOK
<1>2. BeforeCleanup(r) /\ Delivery(r)
      /\ (r.phase \in Ending => TurnedAway(r) \/ CompleteEnded(r) \/ StreamEnded(r))
  BY DEF HandlersInv, HandlerInv
<1>3. SUFFICES \E from, next : Step(c, from, next) /\ Good(next)
  BY OneCall
<1>4. CASE Accept(c)
  <2> DEFINE next == [r EXCEPT !.phase = "reading"]
  <2>1. next \in CallState
    BY <1>1 DEF CallState, Phases
  <2>2. r.phase = "new"
    BY <1>4 DEF Accept, Step
  <2>3. HandlerInv(next)
    BY <1>1, <1>2, <2>2 DEF HandlerInv, BeforeCleanup, Delivery, Ending, CallState
  <2>4. QED
    BY <1>4, <2>1, <2>3 DEF Accept, Good
<1>5. CASE Reject(c)
  <2> DEFINE n1 == [r EXCEPT !.phase = "done"]
             next == [n1 EXCEPT !.exit = "rejected"]
  <2>1. n1 \in CallState
    BY <1>1 DEF CallState, Phases
  <2>2. next = [r EXCEPT !.phase = "done", !.exit = "rejected"]
    BY <1>1 DEF CallState
  <2>3. r.phase = "reading"
    BY <1>5 DEF Reject, Step
  <2>4. HandlerInv(next)
    BY <1>1, <1>2, <2>3 DEF HandlerInv, BeforeCleanup, Delivery, TurnedAway, Turned, Ending, CallState
  <2> HIDE DEF n1
  <2>5. next \in CallState
    BY <2>1 DEF CallState, Exits
  <2>6. QED
    BY <1>5, <2>2, <2>4, <2>5 DEF Reject, Good, n1
<1>6. CASE \E stream \in BOOLEAN : Parse(c, stream)
  <2>1. PICK stream \in BOOLEAN : Parse(c, stream)
    BY <1>6
  <2> DEFINE phase == IF stream THEN "headers" ELSE "request_hook"
             n1   == [r EXCEPT !.stream = stream]
             next == [n1 EXCEPT !.phase = phase]
  <2>2. r.phase = "reading"
    BY <2>1 DEF Parse, Step
  <2>3. next = [r EXCEPT !.stream = stream, !.phase = phase]
    BY <1>1 DEF CallState
  <2>4. HandlerInv(next)
    BY <1>1, <1>2, <2>2 DEF HandlerInv, BeforeCleanup, Delivery, Ending, CallState
  <2>5. n1 \in CallState /\ phase \in Phases
    BY <1>1 DEF CallState, Phases
  <2> HIDE DEF n1, phase
  <2>6. next \in CallState
    BY <2>5 DEF CallState
  <2>7. QED
    BY <2>1, <2>3, <2>4, <2>6 DEF Parse, Good, phase
<1>7. CASE StartStream(c)
  <2> DEFINE next == [r EXCEPT !.phase = "request_hook"]
  <2>1. r.phase = "headers"
    BY <1>7 DEF StartStream, Step
  <2>2. next \in CallState
    BY <1>1 DEF CallState, Phases
  <2>3. HandlerInv(next)
    BY <1>1, <1>2, <2>1 DEF HandlerInv, BeforeCleanup, Delivery, Ending, CallState
  <2>4. QED
    BY <1>7, <2>2, <2>3 DEF StartStream, Good
<1>8. CASE AbandonStream(c)
  <2> DEFINE n1 == [r EXCEPT !.phase = "done"]
             next == [n1 EXCEPT !.exit = "abandoned"]
  <2>1. r.phase = "headers"
    BY <1>8 DEF AbandonStream, Step
  <2>2. next = [r EXCEPT !.phase = "done", !.exit = "abandoned"]
    BY <1>1 DEF CallState
  <2>3. HandlerInv(next)
    BY <1>1, <1>2, <2>1 DEF HandlerInv, BeforeCleanup, Delivery, TurnedAway, Turned, Ending, CallState
  <2>4. n1 \in CallState
    BY <1>1 DEF CallState, Phases
  <2> HIDE DEF n1
  <2>5. next \in CallState
    BY <2>4 DEF CallState, Exits
  <2>6. QED
    BY <1>8, <2>2, <2>3, <2>5 DEF AbandonStream, Good, n1
<1>9. CASE SendUpstream(c)
  <2> DEFINE n1 == EnsureRequestRecorded(r)
             n2 == [n1 EXCEPT !.upstream = n1.upstream + 1]
             next == [n2 EXCEPT !.phase = "upstream"]
  <2>1. r.phase = "request_hook"
    BY <1>9 DEF SendUpstream, Step
  <2>2. n1 \in CallState
    BY <1>1, EnsureRecorded
  <2>3. n1 = [r EXCEPT !.requests = 1]
    BY <1>1, <1>2, <2>1 DEF EnsureRequestRecorded, Delivery
  <2>4. next = [n1 EXCEPT !.upstream = n1.upstream + 1, !.phase = "upstream"]
    BY <2>2 DEF CallState
  <2>5. HandlerInv(next)
    BY <1>1, <1>2, <2>1, <2>3 DEF HandlerInv, BeforeCleanup, Delivery, Ending, CallState
  <2> HIDE DEF n1
  <2>6. n2 \in CallState
    BY <2>2 DEF CallState
  <2> HIDE DEF n2
  <2>7. next \in CallState
    BY <2>6 DEF CallState, Phases
  <2>8. QED
    BY <1>9, <2>4, <2>5, <2>7 DEF SendUpstream, Good, n1
<1>10. CASE ClientTakes(c)
  <2> DEFINE n1 == [r EXCEPT !.taken = r.taken + 1]
             next == [n1 EXCEPT !.phase = r.resume]
  <2>1. r.phase = "sending"
    BY <1>10 DEF ClientTakes, Step
  <2>2. next = [r EXCEPT !.taken = r.taken + 1, !.phase = r.resume]
    BY <1>1 DEF CallState
  <2>3. r.resume \in {"upstream", "tail_hook"} /\ r.taken \in Nat /\ r.sent \in Nat
        /\ r.upstream \in Nat /\ r.requests \in Nat
    BY <1>1, Fields
  <2>4. HandlerInv(next)
    BY <1>1, <1>2, <2>1, <2>3 DEF HandlerInv, BeforeCleanup, Delivery, Ending, CallState
  <2>5. n1 \in CallState
    BY <1>1 DEF CallState
  <2> HIDE DEF n1
  <2>6. next \in CallState
    BY <2>3, <2>5 DEF CallState, Phases
  <2>7. QED
    BY <1>10, <2>2, <2>4, <2>6 DEF ClientTakes, Good, n1
<1>11. CASE UpstreamEnds(c)
  <2> DEFINE next == [r EXCEPT !.phase = "tail_hook"]
  <2>1. r.phase = "upstream" /\ r.stream
    BY <1>11 DEF UpstreamEnds, Step
  <2>2. next \in CallState
    BY <1>1 DEF CallState, Phases
  <2>3. HandlerInv(next)
    BY <1>1, <1>2, <2>1 DEF HandlerInv, BeforeCleanup, Delivery, Ending, CallState
  <2>4. QED
    BY <1>11, <2>2, <2>3 DEF UpstreamEnds, Good
<1>12. CASE UpstreamResponds(c)
  <2> DEFINE next == [r EXCEPT !.phase = "response_hook"]
  <2>1. r.phase = "upstream" /\ ~r.stream
    BY <1>12 DEF UpstreamResponds, Step
  <2>2. next \in CallState
    BY <1>1 DEF CallState, Phases
  <2>3. HandlerInv(next)
    BY <1>1, <1>2, <2>1 DEF HandlerInv, BeforeCleanup, Delivery, Ending, CallState
  <2>4. QED
    BY <1>12, <2>2, <2>3 DEF UpstreamResponds, Good
<1>13. CASE EmptyErrorTaken(c)
  <2> DEFINE next == [r EXCEPT !.phase = "done"]
  <2>1. r.phase = "sending_empty"
    BY <1>13 DEF EmptyErrorTaken, Step
  <2>2. next \in CallState
    BY <1>1 DEF CallState, Phases
  <2>3. StreamEnded(r)
    BY <1>2, <2>1 DEF TurnedAway, CompleteEnded, Ending
  <2>4. HandlerInv(next)
    BY <1>1, <1>2, <2>1, <2>3 DEF HandlerInv, BeforeCleanup, Delivery, StreamEnded, ErrorSays200, Ending, CallState
  <2>5. QED
    BY <1>13, <2>2, <2>4 DEF EmptyErrorTaken, Good
<1>14. CASE \E kind \in Kinds : Emit(c, kind)
  <2>1. PICK kind \in Kinds : Emit(c, kind)
    BY <1>14
  <2> DEFINE shape    == NextShape(r.shape, kind)
             hasStart == r.hasStart \/ kind = "start"
             n0 == EnsureRequestRecorded(r)
             n1 == [n0 EXCEPT !.sent = n0.sent + 1]
             n2 == [n1 EXCEPT !.shape = shape]
             n3 == [n2 EXCEPT !.hasStart = hasStart]
             n4 == [n3 EXCEPT !.resume = r.phase]
             next == [n4 EXCEPT !.phase = "sending"]
  <2>2. r.phase \in {"upstream", "tail_hook"} /\ r.stream /\ r.sent < MaxEvents
    BY <2>1 DEF Emit, Step
  <2>3. shape \in Shapes /\ hasStart \in BOOLEAN /\ r.sent + 1 \in 0..MaxEvents
    BY <1>1, <2>2, Fields DEF NextShape, Shapes
  <2>4. n0 \in CallState
    BY <1>1, EnsureRecorded
  <2>5. n0 = r
    BY <1>1, <1>2, <2>2 DEF EnsureRequestRecorded, Delivery, CallState
  <2>6. next = [n0 EXCEPT !.sent = n0.sent + 1, !.shape = shape, !.hasStart = hasStart,
                          !.resume = r.phase, !.phase = "sending"]
    BY <2>4 DEF CallState
  <2>7. next = [n0 EXCEPT !.sent = @ + 1, !.shape = NextShape(@, kind),
                          !.hasStart = @ \/ kind = "start",
                          !.resume = r.phase, !.phase = "sending"]
    BY <2>4, <2>5, <2>6 DEF CallState
  <2>8. HandlerInv(next)
    BY <1>1, <1>2, <2>2, <2>5, Fields
       DEF HandlerInv, BeforeCleanup, Delivery, Ending, CallState
  <2> HIDE DEF n0, shape, hasStart
  <2>9. n1 \in CallState
    BY <2>3, <2>4, <2>5 DEF CallState
  <2> HIDE DEF n1
  <2>10. n2 \in CallState
    BY <2>3, <2>9 DEF CallState
  <2> HIDE DEF n2
  <2>11. n3 \in CallState
    BY <2>3, <2>10 DEF CallState
  <2> HIDE DEF n3
  <2>12. n4 \in CallState
    BY <2>2, <2>11 DEF CallState
  <2> HIDE DEF n4
  <2>13. next \in CallState
    BY <2>12 DEF CallState, Phases
  <2> HIDE DEF next
  <2>14. Step(c, {"upstream", "tail_hook"}, next)
    BY <2>1, <2>7 DEF Emit, n0
  <2>15. QED
    BY <2>8, <2>13, <2>14 DEF Good
<1>15. CASE \E kind \in Kinds : EmitUnformattable(c, kind)
  <2>1. PICK kind \in Kinds : EmitUnformattable(c, kind)
    BY <1>15
  <2> DEFINE shape    == NextShape(r.shape, kind)
             hasStart == r.hasStart \/ kind = "start"
             n0 == EnsureRequestRecorded(r)
             n1 == [n0 EXCEPT !.sent = n0.sent + 1]
             n2 == [n1 EXCEPT !.shape = shape]
             n3 == [n2 EXCEPT !.hasStart = hasStart]
             n4 == [n3 EXCEPT !.caught = TRUE]
             n5 == [n4 EXCEPT !.status = 500]
             n6 == [n5 EXCEPT !.errors = n5.errors + 1]
             next == [n6 EXCEPT !.phase = "sending_error"]
  <2>2. r.phase \in {"upstream", "tail_hook"} /\ r.stream /\ r.sent < MaxEvents
    BY <2>1 DEF EmitUnformattable, Step
  <2>3. shape \in Shapes /\ hasStart \in BOOLEAN /\ r.sent + 1 \in 0..MaxEvents
    BY <1>1, <2>2, Fields DEF NextShape, Shapes
  <2>4. n0 \in CallState
    BY <1>1, EnsureRecorded
  <2>5. n0 = r
    BY <1>1, <1>2, <2>2 DEF EnsureRequestRecorded, Delivery, CallState
  <2>6. next = [n0 EXCEPT !.sent = n0.sent + 1, !.shape = shape, !.hasStart = hasStart,
                          !.caught = TRUE, !.status = 500, !.errors = n0.errors + 1,
                          !.phase = "sending_error"]
    BY <2>4 DEF CallState
  <2>7. next = [n0 EXCEPT !.sent = @ + 1, !.shape = NextShape(@, kind),
                          !.hasStart = @ \/ kind = "start",
                          !.caught = TRUE, !.status = 500, !.errors = @ + 1,
                          !.phase = "sending_error"]
    BY <2>4, <2>5, <2>6 DEF CallState
  <2>8. HandlerInv(next)
    BY <1>1, <1>2, <2>2, <2>5, Fields
       DEF HandlerInv, BeforeCleanup, Delivery, Ending, CallState, StreamErrors
  <2> HIDE DEF n0, shape, hasStart
  <2>9. n1 \in CallState
    BY <2>3, <2>4, <2>5 DEF CallState
  <2> HIDE DEF n1
  <2>10. n2 \in CallState
    BY <2>3, <2>9 DEF CallState
  <2> HIDE DEF n2
  <2>11. n3 \in CallState
    BY <2>3, <2>10 DEF CallState
  <2> HIDE DEF n3
  <2>12. n4 \in CallState
    BY <2>11 DEF CallState
  <2> HIDE DEF n4
  <2>13. n5 \in CallState
    <3>1. 500 \in Status
      BY DEF Status, StreamErrors
    <3>2. QED
      BY <2>12, <3>1 DEF CallState
  <2> HIDE DEF n5
  <2>14. n6 \in CallState
    BY <2>13 DEF CallState
  <2> HIDE DEF n6
  <2>15. next \in CallState
    BY <2>14 DEF CallState, Phases
  <2> HIDE DEF next
  <2>16. Step(c, {"upstream", "tail_hook"}, next)
    BY <2>1, <2>7 DEF EmitUnformattable, n0
  <2>17. QED
    BY <2>8, <2>15, <2>16 DEF Good
<1>16. CASE StreamCompletes(c)
  <2> DEFINE n1 == [r EXCEPT !.completed = TRUE]
  <2>1. r.phase = "tail_hook"
    BY <1>16 DEF StreamCompletes, Step
  <2>2. n1 \in CallState
    BY <1>1 DEF CallState
  <2>3. /\ n1.stream /\ n1.fires = 0 /\ n1.usage = 0 /\ n1.responses = 0 /\ ~n1.success
        /\ n1.requests <= 1 /\ (n1.sent = 0 => n1.taken = 0 /\ ~n1.hasStart)
        /\ (n1.upstream + n1.sent > 0 => n1.requests = 1)
        /\ n1.completed /\ ~n1.caught /\ ~n1.cancelled /\ n1.status = 200
        /\ n1.errors = 0 /\ n1.taken = n1.sent
    BY <1>1, <1>2, <2>1 DEF BeforeCleanup, Delivery, Ending, CallState
  <2> HIDE DEF n1
  <2>4. Good(StreamFinally(n1, "returned"))
    BY <2>2, <2>3, FinallyGood
  <2>5. QED
    BY <1>16, <2>4 DEF StreamCompletes, n1
<1>17. CASE \E status \in StreamErrors : StreamFails(c, status)
  <2>1. PICK status \in StreamErrors : StreamFails(c, status)
    BY <1>17
  <2> DEFINE n1 == [r EXCEPT !.caught = TRUE]
             n2 == [n1 EXCEPT !.status = status]
             n3 == [n2 EXCEPT !.errors = n2.errors + 1]
             next == [n3 EXCEPT !.phase = "sending_error"]
  <2>2. r.phase \in {"request_hook", "upstream", "tail_hook"} /\ r.stream
    BY <2>1 DEF StreamFails, Step
  <2>3. next = [r EXCEPT !.caught = TRUE, !.status = status, !.errors = r.errors + 1,
                         !.phase = "sending_error"]
    BY <1>1 DEF CallState
  <2>4. HandlerInv(next)
    BY <1>1, <1>2, <2>2, Fields DEF HandlerInv, BeforeCleanup, Delivery, Ending, CallState
  <2>5. status \in Status
    BY DEF Status
  <2>6. n1 \in CallState
    BY <1>1 DEF CallState
  <2> HIDE DEF n1
  <2>7. n2 \in CallState
    BY <2>5, <2>6 DEF CallState
  <2> HIDE DEF n2
  <2>8. n3 \in CallState
    BY <2>7 DEF CallState
  <2> HIDE DEF n3
  <2>9. next \in CallState
    BY <2>8 DEF CallState, Phases
  <2> HIDE DEF next
  <2>10. QED
    BY <2>1, <2>3, <2>4, <2>9 DEF StreamFails, Good
<1>18. CASE ErrorTaken(c)
  <2>1. r.phase = "sending_error"
    BY <1>18 DEF ErrorTaken, Step
  <2>2. /\ r.stream /\ r.fires = 0 /\ r.usage = 0 /\ r.responses = 0 /\ ~r.success
        /\ r.requests <= 1 /\ (r.sent = 0 => r.taken = 0 /\ ~r.hasStart)
        /\ (r.upstream + r.sent > 0 => r.requests = 1)
        /\ r.caught /\ ~r.completed /\ r.status \in StreamErrors /\ r.errors = 1
    BY <1>2, <2>1 DEF BeforeCleanup, Delivery, Ending
  <2> HIDE DEF r
  <2>3. Good(StreamFinally(r, "failed"))
    BY <1>1, <2>2, FinallyGood
  <2>4. QED
    BY <1>18, <2>3 DEF ErrorTaken, r
<1>19. CASE StreamCancelled(c)
  <2> DEFINE n1 == [r EXCEPT !.cancelled = TRUE]
             n2 == [n1 EXCEPT !.status = 499]
  <2>1. r.phase \in {"request_hook", "upstream", "tail_hook"} /\ r.stream
    BY <1>19 DEF StreamCancelled, Step
  <2>2. n2 = [r EXCEPT !.cancelled = TRUE, !.status = 499]
    BY <1>1 DEF CallState
  <2>3. /\ n2.stream /\ n2.fires = 0 /\ n2.usage = 0 /\ n2.responses = 0 /\ ~n2.success
        /\ n2.requests <= 1 /\ (n2.sent = 0 => n2.taken = 0 /\ ~n2.hasStart)
        /\ (n2.upstream + n2.sent > 0 => n2.requests = 1)
        /\ n2.cancelled /\ ~n2.caught /\ ~n2.completed /\ n2.status = 499 /\ n2.errors = 0
    BY <1>1, <1>2, <2>1 DEF BeforeCleanup, Delivery, Ending, CallState
  <2>4. n1 \in CallState
    BY <1>1 DEF CallState
  <2> HIDE DEF n1
  <2>5. n2 \in CallState
    <3>1. 499 \in Status
      BY DEF Status
    <3>2. QED
      BY <2>4, <3>1 DEF CallState
  <2> HIDE DEF n2
  <2>6. Good(StreamFinally(n2, "cancelled"))
    BY <2>3, <2>5, FinallyGood
  <2>7. QED
    BY <1>19, <2>2, <2>6 DEF StreamCancelled
<1>20. CASE StreamClosed(c)
  <2>1. CASE Step(c, {"sending", "sending_error"}, StreamFinally(r, "closed"))
    <3>1. r.phase \in {"sending", "sending_error"}
      BY <2>1 DEF Step
    <3>2. /\ r.stream /\ r.fires = 0 /\ r.usage = 0 /\ r.responses = 0 /\ ~r.success
          /\ r.requests <= 1 /\ (r.sent = 0 => r.taken = 0 /\ ~r.hasStart)
          /\ (r.upstream + r.sent > 0 => r.requests = 1) /\ ~r.completed
          /\ \/ ~r.caught /\ r.sent > 0 /\ r.errors = 0 /\ r.status = 200
             \/ r.caught /\ r.errors = 1 /\ r.status \in StreamErrors
      BY <1>1, <1>2, <3>1, Fields DEF BeforeCleanup, Delivery, Ending
    <3> HIDE DEF r
    <3>3. Good(StreamFinally(r, "closed"))
      BY <1>1, <3>2, FinallyGood
    <3>4. QED
      BY <2>1, <3>3
  <2>2. CASE Step(c, {"sending_empty"}, [r EXCEPT !.phase = "done", !.exit = "closed"])
    <3> DEFINE n1 == [r EXCEPT !.phase = "done"]
               next == [n1 EXCEPT !.exit = "closed"]
    <3>1. r.phase = "sending_empty"
      BY <2>2 DEF Step
    <3>2. next = [r EXCEPT !.phase = "done", !.exit = "closed"]
      BY <1>1 DEF CallState
    <3>3. StreamEnded(r)
      BY <1>2, <3>1 DEF TurnedAway, CompleteEnded, Ending
    <3>4. HandlerInv(next)
      BY <1>1, <1>2, <3>1, <3>3, Fields
         DEF HandlerInv, BeforeCleanup, Delivery, StreamEnded, ErrorSays200, Ending, CallState
    <3>5. n1 \in CallState
      BY <1>1 DEF CallState, Phases
    <3> HIDE DEF n1
    <3>6. next \in CallState
      BY <3>5 DEF CallState, Exits
    <3> HIDE DEF next
    <3>7. QED
      BY <2>2, <3>2, <3>4, <3>6 DEF Good
  <2>3. QED
    BY <1>20, <2>1, <2>2 DEF StreamClosed
<1>21. CASE CompleteReturns(c)
  <2> DEFINE rec   == CompleteRecords(r)
             fired == FireWebhook(rec, TRUE, 200)
             n1    == [fired EXCEPT !.phase = "done"]
             next  == [n1 EXCEPT !.exit = "returned"]
  <2>1. r.phase = "response_hook" /\ ~r.stream /\ r.requests = 1
    BY <1>2, <1>21 DEF CompleteReturns, Step, Delivery
  <2>2. /\ rec \in CallState
        /\ rec = [r EXCEPT !.requests = 1, !.responses = r.responses + 1,
                           !.logged = 200, !.usage = r.usage + 1]
    <3>1. r.requests <= 1
      BY <2>1
    <3> HIDE DEF r
    <3>2. QED
      BY <1>1, <3>1, Recorded
  <2> HIDE DEF rec
  <2>3. fired \in CallState
    <3>1. 200 \in Status
      BY DEF Status, StreamErrors
    <3>2. QED
      BY <2>2, <3>1, Fired
  <2>4. fired = [rec EXCEPT !.fires = rec.fires + 1, !.success = TRUE, !.http = 200]
    BY DEF FireWebhook
  <2> HIDE DEF fired
  <2>5. next = [fired EXCEPT !.phase = "done", !.exit = "returned"]
    BY <2>3 DEF CallState
  <2>6. HandlerInv(next)
    <3>1. /\ next.phase = "done" /\ next.exit = "returned" /\ next.success /\ next.http = 200
          /\ next.status = rec.status
          /\ next.fires = rec.fires + 1 /\ next.logged = rec.logged
          /\ next.requests = rec.requests /\ next.usage = rec.usage
          /\ next.responses = rec.responses /\ next.sent = rec.sent /\ next.taken = rec.taken
          /\ next.errors = rec.errors /\ next.stream = rec.stream
          /\ next.hasStart = rec.hasStart /\ next.upstream = rec.upstream
      BY <2>2, <2>4 DEF CallState
    <3>2. /\ rec.fires = 0 /\ rec.status = 200 /\ rec.logged = 200 /\ rec.requests = 1 /\ rec.usage = 1
          /\ rec.responses = 1 /\ rec.sent = 0 /\ rec.taken = 0 /\ rec.errors = 0
          /\ ~rec.stream /\ ~rec.hasStart
      BY <1>1, <1>2, <2>1, <2>2 DEF BeforeCleanup, Delivery, Ending, CallState
    <3>3. BeforeCleanup(next) /\ Delivery(next)
      BY <3>1, <3>2 DEF BeforeCleanup, Delivery, Ending
    <3>4. CompleteEnded(next)
      BY <3>1, <3>2 DEF CompleteEnded
    <3>5. QED
      BY <3>1, <3>3, <3>4 DEF HandlerInv, Ending
  <2>7. n1 \in CallState
    BY <2>3 DEF CallState, Phases
  <2> HIDE DEF n1
  <2>8. next \in CallState
    BY <2>7 DEF CallState, Exits
  <2> HIDE DEF next
  <2>9. QED
    BY <1>21, <2>5, <2>6, <2>8 DEF CompleteReturns, Good, fired, rec
<1>22. CASE CompleteRenderFails(c)
  <2> DEFINE rec == CompleteRecords(r)
  <2>1. r.phase = "response_hook" /\ ~r.stream /\ r.requests = 1
    BY <1>2, <1>22 DEF CompleteRenderFails, Step, Delivery
  <2>2. /\ rec \in CallState
        /\ rec = [r EXCEPT !.requests = 1, !.responses = r.responses + 1,
                           !.logged = 200, !.usage = r.usage + 1]
    <3>1. r.requests <= 1
      BY <2>1
    <3> HIDE DEF r
    <3>2. QED
      BY <1>1, <3>1, Recorded
  <2> HIDE DEF rec
  <2>3. /\ ~rec.stream /\ rec.fires = 0 /\ rec.errors = 0 /\ rec.sent = 0
        /\ rec.taken = 0 /\ ~rec.hasStart /\ rec.requests = 1
    BY <1>1, <1>2, <2>1, <2>2 DEF BeforeCleanup, Delivery, Ending, CallState
  <2>4. Good(CompleteFails(rec, 500, "failed"))
    <3>1. 500 \in CompleteErrors \cup {499}
      BY DEF CompleteErrors
    <3>2. rec.requests <= 1 /\ rec \in CallState
      BY <2>2, <2>3
    <3>3. QED
      BY <2>3, <3>1, <3>2, FailsGood
  <2>5. QED
    BY <1>22, <2>4 DEF CompleteRenderFails, rec
<1>23. ASSUME NEW status \in CompleteErrors \cup {499}, NEW exit \in {"failed", "cancelled"},
              ~r.stream, r.phase \in {"request_hook", "upstream", "response_hook"},
              exit = "cancelled" => status = 499
       PROVE  Good(CompleteFails(r, status, exit))
  <2>1. /\ r.fires = 0 /\ r.errors = 0 /\ r.sent = 0 /\ r.taken = 0 /\ ~r.hasStart
        /\ r.requests <= 1 /\ (r.upstream > 0 => r.requests = 1)
    BY <1>1, <1>2, <1>23, Fields DEF BeforeCleanup, Delivery, Ending
  <2> HIDE DEF r
  <2>2. QED
    BY <1>1, <1>23, <2>1, FailsGood
<1>24. CASE \E status \in CompleteErrors : CompleteRaises(c, status)
  <2>1. PICK status \in CompleteErrors : CompleteRaises(c, status)
    BY <1>24
  <2>2. /\ ~r.stream
        /\ Step(c, {"request_hook", "upstream", "response_hook"},
                CompleteFails(r, status, "failed"))
    BY <2>1 DEF CompleteRaises
  <2>3. r.phase \in {"request_hook", "upstream", "response_hook"}
    BY <2>2 DEF Step
  <2> HIDE DEF r
  <2>4. Good(CompleteFails(r, status, "failed"))
    BY <1>23, <2>2, <2>3
  <2>5. QED
    BY <2>2, <2>4
<1>25. CASE CompleteCancelled(c)
  <2>1. /\ ~r.stream
        /\ Step(c, {"request_hook", "upstream", "response_hook"},
                CompleteFails(r, 499, "cancelled"))
    BY <1>25 DEF CompleteCancelled
  <2>2. r.phase \in {"request_hook", "upstream", "response_hook"}
    BY <2>1 DEF Step
  <2> HIDE DEF r
  <2>3. Good(CompleteFails(r, 499, "cancelled"))
    BY <1>23, <2>1, <2>2
  <2>4. QED
    BY <2>1, <2>3
<1>26. QED
  BY <1>4, <1>5, <1>6, <1>7, <1>8, <1>9, <1>10, <1>11, <1>12, <1>13, <1>14, <1>15,
     <1>16, <1>17, <1>18, <1>19, <1>20, <1>21, <1>22, <1>24, <1>25
     DEF HandlerStep, Disconnect

-----------------------------------------------------------------------------
(* The theorems.                                                            *)

(* Every reachable state is well typed and satisfies the phase invariant:   *)
(* the except/finally ladders leave each call in one of the listed ends.    *)
THEOREM Invariance == PipelineSpec => []PipelineIndInv
<1>1. PipelineInit => PipelineTypeOK /\ HandlersInv
  BY InitGood DEF PipelineInit, PipelineTypeOK, HandlersInv, Good
<1>2. PipelineTypeOK /\ HandlersInv /\ [PipelineNext]_pipelineVars => PipelineTypeOK' /\ HandlersInv'
  <2>1. ASSUME PipelineTypeOK, HandlersInv, PipelineNext PROVE PipelineTypeOK' /\ HandlersInv'
    BY <2>1, InvNext DEF PipelineNext
  <2>2. ASSUME PipelineTypeOK, HandlersInv, UNCHANGED pipelineVars PROVE PipelineTypeOK' /\ HandlersInv'
    BY <2>2 DEF pipelineVars, PipelineTypeOK, HandlersInv
  <2>3. QED
    BY <2>1, <2>2
<1>3. QED
  BY <1>1, <1>2, PTL DEF PipelineSpec, PipelineIndInv

(* Every call that entered execution is reported exactly once, except a     *)
(* stream its client left half-way (the gate of _fire_webhook_for_completion).*)
THEOREM ReportedOnce == PipelineSpec => []WebhookExactlyOnce
<1>1. ASSUME PipelineTypeOK, HandlersInv, NEW c \in Call
      PROVE  /\ Done(c) => call[c].fires =
                  IF call[c].exit \in {"rejected", "abandoned"} \/ PartialStream(c)
                    THEN 0 ELSE 1
             /\ Reported(c) => call[c].phase \in {"done", "sending_empty"}
  <2> DEFINE r == call[c]
  <2>1. r \in CallState /\ HandlerInv(r)
    BY <1>1 DEF PipelineTypeOK, HandlersInv
  <2>2. Reported(c) => r.phase \in {"done", "sending_empty"}
    BY <2>1 DEF Reported, HandlerInv, BeforeCleanup, Ending
  <2>3. CASE r.phase = "done" /\ TurnedAway(r)
    BY <2>2, <2>3 DEF Done, TurnedAway, Turned
  <2>4. CASE r.phase = "done" /\ CompleteEnded(r)
    BY <2>2, <2>4 DEF Done, CompleteEnded, PartialStream
  <2>5. CASE r.phase = "done" /\ StreamEnded(r)
    BY <2>1, <2>2, <2>5, Fields DEF Done, StreamEnded, PartialStream
  <2>6. QED
    BY <2>1, <2>2, <2>3, <2>4, <2>5 DEF Done, HandlerInv, Ending
<1>2. QED
  <2>1. PipelineTypeOK /\ HandlersInv => WebhookExactlyOnce
    BY <1>1 DEF WebhookExactlyOnce
  <2>2. QED
    BY <2>1, Invariance, PTL DEF PipelineIndInv

(* The webhook carries the final status, and the pair (False, 200) only for  *)
(* an error that carried 200.                                               *)
LEMMA ReportTells == PipelineSpec => []WebhookTells
<1>1. ASSUME PipelineTypeOK, HandlersInv, NEW c \in Call, Reported(c)
      PROVE  /\ call[c].http = call[c].status
             /\ call[c].success => call[c].http = 200
             /\ call[c].http = 200 => call[c].success \/ ErrorSays200(call[c])
  <2> DEFINE r == call[c]
  <2>1. r \in CallState /\ HandlerInv(r) /\ r.fires > 0
    BY <1>1 DEF PipelineTypeOK, HandlersInv, Reported
  <2>2. r.phase \in Ending /\ ~TurnedAway(r)
    BY <2>1 DEF HandlerInv, BeforeCleanup, TurnedAway
  <2>3. CASE CompleteEnded(r)
    BY <2>3 DEF CompleteEnded, ErrorSays200
  <2>4. CASE StreamEnded(r)
    BY <2>1, <2>4 DEF StreamEnded, ErrorSays200
  <2>5. QED
    BY <2>1, <2>2, <2>3, <2>4 DEF HandlerInv
<1>2. QED
  <2>1. PipelineTypeOK /\ HandlersInv => WebhookTells
    BY <1>1 DEF WebhookTells
  <2>2. QED
    BY <2>1, Invariance, PTL DEF PipelineIndInv

(* A stream reported successful was taken whole by the client's connection. *)
THEOREM SuccessDelivered == PipelineSpec => []SuccessMeansDelivered
<1>1. PipelineTypeOK /\ HandlersInv => SuccessMeansDelivered
  BY DEF PipelineTypeOK, HandlersInv, HandlerInv, SuccessMeansDelivered, Reported,
         BeforeCleanup, TurnedAway, CompleteEnded, StreamEnded, Ending, CallState
<1>2. QED
  BY <1>1, Invariance, PTL DEF PipelineIndInv

(* A client still connected saw a completed stream or one error event.      *)
THEOREM NeverSilent == PipelineSpec => []NoSilentEnd
<1>1. PipelineTypeOK /\ HandlersInv => NoSilentEnd
  BY DEF PipelineTypeOK, HandlersInv, HandlerInv, NoSilentEnd, Done,
         TurnedAway, Turned, CompleteEnded, StreamEnded, Ending
<1>2. QED
  BY <1>1, Invariance, PTL DEF PipelineIndInv

(* Nothing reaches the backend or the client before its audit record.       *)
THEOREM RecordedFirst == PipelineSpec => []RequestRecordedFirst
<1>1. PipelineTypeOK /\ HandlersInv => RequestRecordedFirst
  BY DEF PipelineTypeOK, HandlersInv, HandlerInv, RequestRecordedFirst, Delivery
<1>2. QED
  BY <1>1, Invariance, PTL DEF PipelineIndInv

(* A reported success left its whole trail; an error event no usage count,  *)
(* but for an error that carried 200.                                       *)
LEMMA TrailComplete == PipelineSpec => []SuccessLeavesTrail
<1>1. ASSUME PipelineTypeOK, HandlersInv, NEW c \in Call
      PROVE  /\ Reported(c) /\ call[c].success =>
                  /\ call[c].requests = 1 /\ call[c].logged = 200 /\ call[c].usage = 1
                  /\ call[c].responses =
                       IF call[c].stream /\ ~call[c].hasStart THEN 0 ELSE 1
             /\ call[c].errors > 0 => call[c].usage = 0 \/ ErrorSays200(call[c])
  <2> DEFINE r == call[c]
  <2>1. r \in CallState /\ HandlerInv(r)
    BY <1>1 DEF PipelineTypeOK, HandlersInv
  <2>2. CASE r.phase \notin Ending
    BY <2>1, <2>2 DEF Reported, HandlerInv, BeforeCleanup
  <2>3. CASE TurnedAway(r)
    BY <2>3 DEF Reported, TurnedAway
  <2>4. CASE CompleteEnded(r)
    BY <2>1, <2>4 DEF Reported, CompleteEnded, HandlerInv, Delivery
  <2>5. CASE StreamEnded(r)
    BY <2>1, <2>5, Fields DEF Reported, StreamEnded, Status, StreamErrors, CompleteErrors, NoStatus
  <2>6. QED
    BY <2>1, <2>2, <2>3, <2>4, <2>5 DEF HandlerInv
<1>2. QED
  <2>1. PipelineTypeOK /\ HandlersInv => SuccessLeavesTrail
    BY <1>1 DEF SuccessLeavesTrail
  <2>2. QED
    BY <2>1, Invariance, PTL DEF PipelineIndInv

(* The request log, the usage count and the webhook of a stream agree.      *)
LEMMA LogAgrees == PipelineSpec => []LogAgreesWithWebhook
<1>1. PipelineTypeOK /\ HandlersInv => LogAgreesWithWebhook
  BY DEF PipelineTypeOK, HandlersInv, HandlerInv, LogAgreesWithWebhook, Reported,
         BeforeCleanup, TurnedAway, CompleteEnded, StreamEnded, Ending, CallState
<1>2. QED
  BY <1>1, Invariance, PTL DEF PipelineIndInv

(* What the sinks say of a call agrees, the exception spelt out: an error   *)
(* that carried 200 is reported (False, 200) and counted as completed.      *)
THEOREM SinksTell == PipelineSpec => []SinksAgree
BY ReportTells, TrailComplete, LogAgrees, PTL DEF SinksAgree
=============================================================================
