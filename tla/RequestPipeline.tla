--------------------------- MODULE RequestPipeline ---------------------------
(***************************************************************************)
(* The life of one /v1/messages call inside the gateway                    *)
(* (pipeline/anthropic_processor.py), from the moment                      *)
(* process_anthropic_request accepts it until its handler has run its      *)
(* cleanup: request parsing, the policy hooks around the upstream call,    *)
(* the streaming generator with its except/finally ladder, and the         *)
(* non-streaming handler with its own.                                     *)
(*                                                                         *)
(* The handlers are asyncio coroutines.  A step of the model is the code   *)
(* between two suspension points (an await on the policy or the upstream,  *)
(* a yield to the client), so the cleanup, which contains no await, is     *)
(* part of the step that enters it.  What can interrupt a suspended        *)
(* coroutine depends on where it is suspended: CancelledError is thrown    *)
(* at an await, GeneratorExit at a yield, and a generator that was never   *)
(* started is dropped without running any of its code.                     *)
(***************************************************************************)
EXTENDS Naturals

CONSTANTS
  Call,       (* the calls (transaction ids) *)
  MaxEvents   (* bound on the events a policy emits in one stream *)

ASSUME MaxEventsAssumption == MaxEvents \in Nat

VARIABLE call \* call[c]: the locals of the handler of c, and what it recorded

pipelineVars == <<call>>

-----------------------------------------------------------------------------
(* HTTP statuses the handlers tell apart. 529 stands for whatever error     *)
(* code an AnthropicStatusError carries; 200 is one of its codes too: the   *)
(* SDK raises an error event of a stream with the status of the stream      *)
(* (status_code or 500), and complete() reads a stream as well.             *)
StreamErrors   == {200, 500, 503, 529}
CompleteErrors == {200, 500, 502, 529}
Status         == {499} \cup StreamErrors \cup CompleteErrors
NoStatus       == 0

Kinds  == {"start", "body", "stop"}             \* message_start .. message_stop
Shapes == {"empty", "open", "closed", "broken"} \* of the events emitted so far

Phases == {"new", "reading", "headers", "request_hook", "upstream",
           "tail_hook", "response_hook", "sending", "sending_error",
           "sending_empty", "done"}
Exits  == {"none", "rejected", "abandoned", "returned", "failed",
           "cancelled", "closed"}

CallState == [
  phase     : Phases,
  stream    : BOOLEAN,                  \* is_streaming
  resume    : {"upstream", "tail_hook"}, \* where the suspended yield resumes
  sent      : 0..MaxEvents,             \* len(accumulated_events)
  shape     : Shapes,                   \* what the protocol validator would say
  hasStart  : BOOLEAN,                  \* a message_start was emitted
  completed : BOOLEAN,                  \* stream_completed
  caught    : BOOLEAN,                  \* caught_exception
  cancelled : BOOLEAN,
  status    : Status,                   \* final_status
  taken     : Nat,                      \* events the client's connection took
  errors    : Nat,                      \* error events yielded to the client
  upstream  : Nat,                      \* requests sent to the backend
  requests  : Nat,                      \* transaction.request_recorded events
  responses : Nat,                      \* transaction.*_response_recorded events
  validated : {"no", "valid", "violation"},
  logged    : Status \cup {NoStatus},   \* status of the request_log row
  usage     : Nat,                      \* record_completed calls
  fires     : Nat,                      \* webhook fires
  success   : BOOLEAN,                  \* payload of the last fire
  http      : Status \cup {NoStatus},
  exit      : Exits ]                   \* how the handler ended

PipelineTypeOK == call \in [Call -> CallState]

InitCall == [
  phase |-> "new", stream |-> FALSE, resume |-> "upstream", sent |-> 0,
  shape |-> "empty", hasStart |-> FALSE, completed |-> FALSE,
  caught |-> FALSE, cancelled |-> FALSE, status |-> 200, taken |-> 0,
  errors |-> 0, upstream |-> 0, requests |-> 0, responses |-> 0,
  validated |-> "no", logged |-> NoStatus, usage |-> 0, fires |-> 0,
  success |-> FALSE, http |-> NoStatus, exit |-> "none" ]

PipelineInit == call = [c \in Call |-> InitCall]

-----------------------------------------------------------------------------
(* Helpers of the handlers.                                                 *)

EnsureRequestRecorded(r) ==
  [r EXCEPT !.requests = IF @ = 0 THEN 1 ELSE @]

\* Mutant: the status is read before the empty-stream branch coerced it.
FireStaleStatus(r, success, status) ==
  [r EXCEPT !.fires = @ + 1, !.success = success, !.http = r.status]

FireWebhook(r, success, status) ==
  [r EXCEPT !.fires = @ + 1, !.success = success, !.http = status]

NextShape(shape, kind) ==
  CASE shape = "empty" /\ kind = "start" -> "open"
    [] shape = "open"  /\ kind = "body"  -> "open"
    [] shape = "open"  /\ kind = "stop"  -> "closed"
    [] OTHER                             -> "broken"

\* Mutants: the empty stream is not recognised, or only when it did not end.
NeverEmpty(r) == FALSE
EmptyUnlessCompleted(r) == r.sent = 0 /\ ~r.caught /\ ~r.cancelled /\ ~r.completed

IsEmptyStream(r) == r.sent = 0 /\ ~r.caught /\ ~r.cancelled

WebhookGate(r) == r.completed \/ r.caught \/ r.sent = 0

(* The finally block of the streaming generator: classify, fire the        *)
(* webhook, validate, record the response, flush the request log, count.   *)
(* Only the error event of an empty stream is left to yield.               *)
StreamFinally(r, exit) ==
  LET empty    == IsEmptyStream(r)
      status   == IF empty THEN 500 ELSE r.status
      recorded == IF empty THEN EnsureRequestRecorded(r) ELSE r
      fired    == IF WebhookGate(r)
                    THEN FireWebhook(recorded, r.completed /\ status = 200, status)
                    ELSE recorded
  IN [fired EXCEPT
        !.status    = status,
        !.validated = CASE r.sent = 0 \/ status # 200 -> "no"
                        [] r.shape = "closed"         -> "valid"
                        [] OTHER                      -> "violation",
        !.responses = IF r.hasStart THEN @ + 1 ELSE @,
        !.logged    = status,
        !.usage     = IF status = 200 THEN @ + 1 ELSE @,
        !.errors    = IF empty THEN @ + 1 ELSE @,
        !.phase     = IF empty THEN "sending_empty" ELSE "done",
        !.exit      = exit]

(* The except clauses and the finally of the non-streaming handler, for a  *)
(* call that ends without returning a response.                            *)
CompleteFails(r, status, exit) ==
  [FireWebhook(r, FALSE, status) EXCEPT
     !.status = status, !.phase = "done", !.exit = exit]

(* The success path: record, log 200, count, return the JSONResponse.      *)
CompleteRecords(r) ==
  [EnsureRequestRecorded(r) EXCEPT
     !.responses = @ + 1, !.logged = 200, !.usage = @ + 1]

Step(c, from, next) ==
  /\ call[c].phase \in from
  /\ call' = [call EXCEPT ![c] = next]

-----------------------------------------------------------------------------
(* Accepting and parsing (process_anthropic_request, _process_request).    *)

Accept(c) ==
  Step(c, {"new"}, [call[c] EXCEPT !.phase = "reading"])

\* 413, 400, or the body never arrives: nothing but the accepted counter moves.
Reject(c) ==
  Step(c, {"reading"}, [call[c] EXCEPT !.phase = "done", !.exit = "rejected"])

\* A streaming call returns its StreamingResponse with the generator unstarted.
Parse(c, stream) ==
  Step(c, {"reading"},
       [call[c] EXCEPT !.stream = stream,
                       !.phase  = IF stream THEN "headers" ELSE "request_hook"])

StartStream(c) ==
  Step(c, {"headers"}, [call[c] EXCEPT !.phase = "request_hook"])

\* The client left before the first iteration: the generator never runs.
AbandonStream(c) ==
  Step(c, {"headers"}, [call[c] EXCEPT !.phase = "done", !.exit = "abandoned"])

(* on_anthropic_request returned: the request is recorded and sent.        *)
SendUpstream(c) ==
  Step(c, {"request_hook"},
       [EnsureRequestRecorded(call[c]) EXCEPT !.upstream = @ + 1,
                                              !.phase = "upstream"])

-----------------------------------------------------------------------------
(* The streaming generator.                                                *)

Emit(c, kind) ==
  LET r == call[c] IN
  /\ r.stream /\ r.sent < MaxEvents
  /\ Step(c, {"upstream", "tail_hook"},
          [EnsureRequestRecorded(r) EXCEPT
             !.sent     = @ + 1,
             !.shape    = NextShape(@, kind),
             !.hasStart = @ \/ kind = "start",
             !.resume   = r.phase,
             !.phase    = "sending"])

\* The event is accumulated, but it has no JSON form: the yield is not reached.
EmitUnformattable(c, kind) ==
  LET r == call[c] IN
  /\ r.stream /\ r.sent < MaxEvents
  /\ Step(c, {"upstream", "tail_hook"},
          [EnsureRequestRecorded(r) EXCEPT
             !.sent     = @ + 1,
             !.shape    = NextShape(@, kind),
             !.hasStart = @ \/ kind = "start",
             !.caught   = TRUE,
             !.status   = 500,
             !.errors   = @ + 1,
             !.phase    = "sending_error"])

\* The chunk was written to the client and the generator is resumed.
ClientTakes(c) ==
  Step(c, {"sending"},
       [call[c] EXCEPT !.taken = @ + 1, !.phase = call[c].resume])

\* The upstream iterator is exhausted; on_anthropic_stream_complete runs.
UpstreamEnds(c) ==
  /\ call[c].stream
  /\ Step(c, {"upstream"}, [call[c] EXCEPT !.phase = "tail_hook"])

StreamCompletes(c) ==
  Step(c, {"tail_hook"},
       StreamFinally([call[c] EXCEPT !.completed = TRUE], "returned"))

\* Mutants: the except clause also fires the webhook, or swallows the error.
StreamFailsFires(c, status) ==
  /\ call[c].stream
  /\ Step(c, {"request_hook", "upstream", "tail_hook"},
          [FireWebhook(call[c], FALSE, status) EXCEPT
             !.caught = TRUE, !.status = status, !.errors = @ + 1,
             !.phase = "sending_error"])
StreamFailsOn(c, status) ==
  /\ call[c].stream
  /\ Step(c, {"request_hook", "upstream", "tail_hook"},
          [call[c] EXCEPT !.caught = TRUE, !.status = status])

\* A hook or the upstream raised: an error event is yielded in the stream.
StreamFails(c, status) ==
  /\ call[c].stream
  /\ Step(c, {"request_hook", "upstream", "tail_hook"},
          [call[c] EXCEPT !.caught = TRUE, !.status = status,
                          !.errors = @ + 1, !.phase = "sending_error"])

ErrorTaken(c) ==
  Step(c, {"sending_error"}, StreamFinally(call[c], "failed"))

EmptyErrorTaken(c) ==
  Step(c, {"sending_empty"}, [call[c] EXCEPT !.phase = "done"])

\* Disconnect while the generator awaits the policy or the upstream.
StreamCancelled(c) ==
  /\ call[c].stream
  /\ Step(c, {"request_hook", "upstream", "tail_hook"},
          StreamFinally([call[c] EXCEPT !.cancelled = TRUE, !.status = 499],
                        "cancelled"))

\* Disconnect while the generator is suspended at a yield: GeneratorExit.
StreamClosed(c) ==
  \/ Step(c, {"sending", "sending_error"}, StreamFinally(call[c], "closed"))
  \/ Step(c, {"sending_empty"}, [call[c] EXCEPT !.phase = "done", !.exit = "closed"])

-----------------------------------------------------------------------------
(* The non-streaming handler.                                              *)

UpstreamResponds(c) ==
  /\ ~call[c].stream
  /\ Step(c, {"upstream"}, [call[c] EXCEPT !.phase = "response_hook"])

CompleteReturns(c) ==
  Step(c, {"response_hook"},
       [FireWebhook(CompleteRecords(call[c]), TRUE, 200) EXCEPT
          !.phase = "done", !.exit = "returned"])

\* Building the JSONResponse raises on content json cannot render.
CompleteRenderFails(c) ==
  Step(c, {"response_hook"},
       CompleteFails(CompleteRecords(call[c]), 500, "failed"))

CompleteRaises(c, status) ==
  /\ ~call[c].stream
  /\ Step(c, {"request_hook", "upstream", "response_hook"},
          CompleteFails(call[c], status, "failed"))

CompleteCancelled(c) ==
  /\ ~call[c].stream
  /\ Step(c, {"request_hook", "upstream", "response_hook"},
          CompleteFails(call[c], 499, "cancelled"))

-----------------------------------------------------------------------------
(* What the handler does when every await returns or raises, and what a     *)
(* departing client does to it.                                             *)
HandlerStep(c) ==
  \/ Reject(c)
  \/ \E stream \in BOOLEAN : Parse(c, stream)
  \/ StartStream(c) \/ SendUpstream(c)
  \/ \E kind \in Kinds : Emit(c, kind) \/ EmitUnformattable(c, kind)
  \/ ClientTakes(c) \/ UpstreamEnds(c) \/ StreamCompletes(c)
  \/ \E status \in StreamErrors : StreamFails(c, status)
  \/ ErrorTaken(c) \/ EmptyErrorTaken(c)
  \/ UpstreamResponds(c) \/ CompleteReturns(c) \/ CompleteRenderFails(c)
  \/ \E status \in CompleteErrors : CompleteRaises(c, status)

Disconnect(c) ==
  \/ AbandonStream(c) \/ StreamCancelled(c) \/ StreamClosed(c)
  \/ CompleteCancelled(c)

PipelineNext == \E c \in Call : Accept(c) \/ HandlerStep(c) \/ Disconnect(c)

PipelineSpec == PipelineInit /\ [][PipelineNext]_pipelineVars

(* Every await of an accepted call returns or raises: the upstream and      *)
(* judge clients have timeouts, and the server raises on a client that is   *)
(* gone.  Nothing obliges a client to call, or to leave.                    *)
FairPipelineSpec == PipelineSpec /\ \A c \in Call : WF_pipelineVars(HandlerStep(c))

-----------------------------------------------------------------------------
(* Correctness properties.                                                  *)

Done(c)     == call[c].phase = "done"
Reported(c) == call[c].fires > 0
\* The client of a stream left after it was sent something, before the end.
PartialStream(c) ==
  /\ call[c].stream /\ call[c].sent > 0 /\ ~call[c].caught
  /\ call[c].exit \in {"cancelled", "closed"}

(* A call that entered execution is reported to the webhook exactly once,   *)
(* whatever ends it, except a stream its client left half-way, which is     *)
(* never reported; a call still running has not been reported               *)
(* (anthropic_processor.py, the gate before _fire_webhook_for_completion).  *)
WebhookExactlyOnce ==
  \A c \in Call :
    /\ Done(c) => call[c].fires =
         IF call[c].exit \in {"rejected", "abandoned"} \/ PartialStream(c) THEN 0 ELSE 1
    /\ Reported(c) => call[c].phase \in {"done", "sending_empty"}

(* The handler caught an error whose status code is 200.                    *)
ErrorSays200(r) ==
  r.status = 200 /\ IF r.stream THEN r.caught ELSE r.exit = "failed"

(* The webhook carries the status the handler ended with; a success has 200,*)
(* and 200 without success is sent only for an error that carried 200.      *)
WebhookTells ==
  \A c \in Call : Reported(c) =>
    /\ call[c].http = call[c].status
    /\ call[c].success => call[c].http = 200
    /\ call[c].http = 200 => call[c].success \/ ErrorSays200(call[c])

(* What the comments say of it: a failure carries an error status, never    *)
(* the contradictory pair (False, 200). The code keeps it for its own       *)
(* cancellations and failures, and not for an error that carries 200.       *)
WebhookCoherent ==
  \A c \in Call : Reported(c) => (call[c].success <=> call[c].http = 200)

(* A success reported for a stream means the client's connection took every *)
(* event the policy emitted, at least one, and no error event.              *)
SuccessMeansDelivered ==
  \A c \in Call : Reported(c) /\ call[c].success /\ call[c].stream =>
    /\ call[c].sent > 0 /\ call[c].taken = call[c].sent
    /\ call[c].errors = 0

(* A client still connected when its stream ends has seen a completed       *)
(* non-empty stream or exactly one error event, never a silent end.         *)
NoSilentEnd ==
  \A c \in Call : Done(c) /\ call[c].stream /\ call[c].exit \in {"returned", "failed"} =>
    call[c].errors = IF call[c].completed /\ call[c].sent > 0 THEN 0 ELSE 1

(* Nothing reaches the backend, and nothing the client, before the request  *)
(* is in the audit trail, and it is never recorded twice                    *)
(* (_AnthropicPolicyIO.ensure_request_recorded).                            *)
RequestRecordedFirst ==
  \A c \in Call :
    /\ call[c].requests <= 1
    /\ call[c].upstream + call[c].sent > 0 => call[c].requests = 1

(* A reported success left its whole trail: request, response (when the     *)
(* stream has a message to reconstruct), request log, usage; and a call     *)
(* that put an error event in its stream is not counted as completed, but   *)
(* for an error that carried 200.                                           *)
SuccessLeavesTrail ==
  \A c \in Call :
    /\ Reported(c) /\ call[c].success =>
         /\ call[c].requests = 1 /\ call[c].logged = 200 /\ call[c].usage = 1
         /\ call[c].responses = IF call[c].stream /\ ~call[c].hasStart THEN 0 ELSE 1
    /\ call[c].errors > 0 => call[c].usage = 0 \/ ErrorSays200(call[c])

(* The request log, the usage count and the webhook of a stream never       *)
(* disagree on the status, although one is coerced (empty stream) after the *)
(* others could be set.                                                     *)
LogAgreesWithWebhook ==
  \A c \in Call : call[c].stream /\ Reported(c) =>
    /\ call[c].logged = call[c].http
    /\ call[c].usage = IF call[c].http = 200 THEN 1 ELSE 0

(* So what webhook, request log, usage and audit trail say of a call agree.  *)
SinksAgree == WebhookTells /\ SuccessLeavesTrail /\ LogAgreesWithWebhook

(* Every accepted call ends, and with it its webhook gate is passed.        *)
EveryCallEnds == \A c \in Call : call[c].phase = "reading" ~> Done(c)

-----------------------------------------------------------------------------
(* The inductive invariant the proofs use, by the phase of one call.        *)

Ending == {"sending_empty", "done"}
Turned == {"rejected", "abandoned"}

\* Until its cleanup a call has reported nothing, and is not failed either
\* until its error event.
BeforeCleanup(r) ==
  /\ r.phase \notin Ending =>
       /\ r.fires = 0 /\ r.usage = 0 /\ r.logged = NoStatus /\ r.responses = 0
       /\ r.exit = "none" /\ ~r.completed /\ ~r.cancelled /\ ~r.success
  /\ r.phase \notin Ending \cup {"sending_error"} =>
       ~r.caught /\ r.status = 200 /\ r.errors = 0
  /\ r.phase = "sending_error" =>
       r.caught /\ r.status \in StreamErrors /\ r.errors = 1

\* What the client's connection took, and what was recorded before it.
Delivery(r) ==
  /\ r.phase \in {"new", "reading", "headers", "request_hook"} =>
       r.sent = 0 /\ r.upstream = 0 /\ r.requests = 0
  /\ r.phase \in {"upstream", "tail_hook", "response_hook"} =>
       r.taken = r.sent /\ r.requests = 1
  /\ r.phase = "sending" => r.sent = r.taken + 1
  /\ r.phase \in {"headers", "sending", "sending_error", "tail_hook"} => r.stream
  /\ r.phase \in {"new", "reading", "response_hook"} => ~r.stream
  /\ r.sent = 0 => r.taken = 0 /\ ~r.hasStart
  /\ ~r.stream => r.sent = 0 /\ r.errors = 0
  /\ r.requests <= 1
  /\ r.upstream + r.sent > 0 => r.requests = 1

\* What the cleanup left, by the way the call ended.
TurnedAway(r) ==
  /\ r.phase = "done" /\ r.exit \in Turned
  /\ r.fires = 0 /\ r.errors = 0 /\ r.usage = 0

CompleteEnded(r) ==
  /\ ~r.stream /\ r.phase = "done" /\ r.exit \in {"returned", "failed", "cancelled"}
  /\ r.fires = 1 /\ r.http = r.status
  /\ r.success => r.http = 200
  /\ r.http = 200 => r.success \/ r.exit = "failed"
  /\ r.success => r.requests = 1 /\ r.logged = 200 /\ r.usage = 1 /\ r.responses = 1

StreamEnded(r) ==
  /\ r.stream /\ r.exit \in {"returned", "failed", "cancelled", "closed"}
  /\ r.fires = IF r.sent > 0 /\ ~r.caught /\ r.exit \in {"cancelled", "closed"}
                 THEN 0 ELSE 1
  /\ r.fires = 1 =>
       /\ r.http = r.status /\ r.logged = r.http
       /\ r.usage = IF r.http = 200 THEN 1 ELSE 0
       /\ r.success => r.http = 200
       /\ r.http = 200 => r.success \/ r.caught
  /\ r.fires = 1 /\ r.success =>
       /\ r.sent > 0 /\ r.taken = r.sent /\ r.errors = 0
       /\ r.requests = 1 /\ r.usage = 1
       /\ r.responses = IF r.hasStart THEN 1 ELSE 0
  /\ r.exit \in {"returned", "failed"} =>
       r.errors = IF r.completed /\ r.sent > 0 THEN 0 ELSE 1
  /\ r.errors > 0 => r.usage = 0 \/ ErrorSays200(r)
  /\ r.phase = "sending_empty" => r.exit = "returned" /\ r.sent = 0

HandlerInv(r) ==
  /\ BeforeCleanup(r) /\ Delivery(r)
  /\ r.phase \in Ending => TurnedAway(r) \/ CompleteEnded(r) \/ StreamEnded(r)

(* At every step each call's locals and records fit the phase it is in, and *)
(* its final records fit the way it ended (the except/finally ladders).     *)
HandlersInv == \A c \in Call : HandlerInv(call[c])
PipelineIndInv == PipelineTypeOK /\ HandlersInv

=============================================================================
