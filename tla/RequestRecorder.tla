---------------------------- MODULE RequestRecorder ----------------------------
(***************************************************************************)
(* RequestLogRecorder (request_log/recorder.py): what a request did at the  *)
(* two sides of the gateway is gathered in memory and written by flush(),   *)
(* a background task that inserts the inbound row and then the outbound row *)
(* without a transaction.                                                   *)
(***************************************************************************)
EXTENDS Naturals, FiniteSets

CONSTANTS Calls   (* the requests whose recorders write *)

VARIABLES
  sides,    \* sides[c]: what the recorder holds, of the inbound and outbound request and response
  task,     \* task[c]: the write of c
  stored,   \* stored[c]: the rows of c in request_logs, with what they held
  dropped,  \* dropped_writes
  failures  \* failures[c]: how the write of c ended

Parts  == {"inbound_request", "outbound_request", "inbound_response", "outbound_response"}
Row(c, direction) ==
  [direction |-> direction,
   parts |-> sides[c] \cap IF direction = "inbound" THEN {"inbound_request", "inbound_response"}
                           ELSE {"outbound_request", "outbound_response"}]

\* create_recorder: a recorder that does nothing when logging is off.
RrInit ==
  /\ sides = [c \in Calls |-> {}] /\ stored = [c \in Calls |-> {}]
  /\ task \in [Calls -> {"recording", "noop"}]
  /\ dropped = 0 /\ failures = [c \in Calls |-> "none"]

\* The pipeline records the inbound request, and the outbound one if it comes
\* to it.
Record(c, part) ==
  /\ task[c] = "recording"
  /\ \/ part = "inbound_request" /\ sides[c] = {}
     \/ part = "outbound_request" /\ sides[c] = {"inbound_request"}
  /\ sides' = [sides EXCEPT ![c] = @ \cup {part}]
  /\ UNCHANGED <<task, stored, dropped, failures>>

\* At its end it records both responses and flushes, in one step.
Flush(c) ==
  /\ task[c] = "recording" /\ "inbound_request" \in sides[c]
  /\ sides' = [sides EXCEPT ![c] = @ \cup {"inbound_response", "outbound_response"}]
  /\ task' = [task EXCEPT ![c] = "connecting"]
  /\ UNCHANGED <<stored, dropped, failures>>

Connect(c) ==
  /\ task[c] = "connecting"
  /\ \/ task' = [task EXCEPT ![c] = "inbound"] /\ UNCHANGED failures
     \/ task' = [task EXCEPT ![c] = "ended"] /\ failures' = [failures EXCEPT ![c] = "no_connection"]
  /\ UNCHANGED <<sides, stored, dropped>>

\* Mutant: a failed row is skipped and the write goes on.
AfterFailureNextRow(direction) == IF direction = "inbound" THEN "outbound" ELSE "ended"
AfterFailure(direction) == "ended"
NextRow(direction) == IF direction = "inbound" THEN "outbound" ELSE "ended"

Insert(c) ==
  LET direction == task[c] IN
  /\ direction \in {"inbound", "outbound"}
  /\ stored' = [stored EXCEPT ![c] = @ \cup {Row(c, direction)}]
  /\ task' = [task EXCEPT ![c] = NextRow(direction)]
  /\ UNCHANGED <<sides, dropped, failures>>

\* DatabaseWriteError: both rows count for one dropped write.
InsertFails(c) ==
  LET direction == task[c] IN
  /\ direction \in {"inbound", "outbound"}
  /\ task' = [task EXCEPT ![c] = AfterFailure(direction)]
  /\ dropped' = dropped + 1
  /\ failures' = [failures EXCEPT ![c] = "insert"]
  /\ UNCHANGED <<sides, stored>>

\* The loop ends, and the task with it.
Lost(c) ==
  /\ task[c] \in {"connecting", "inbound", "outbound"}
  /\ task' = [task EXCEPT ![c] = "ended"] /\ failures' = [failures EXCEPT ![c] = "cancelled"]
  /\ UNCHANGED <<sides, stored, dropped>>

RrNext == \E c \in Calls :
  (\E part \in Parts : Record(c, part)) \/ Flush(c) \/ Connect(c) \/ Insert(c) \/ InsertFails(c) \/ Lost(c)

-----------------------------------------------------------------------------
(* A request's rows are consistent whatever fails between them: an outbound *)
(* row comes with its inbound row, which has both sides of its exchange,    *)
(* and a write that ended short of two rows ended with a failure, which     *)
(* dropped_writes counts when it was an insert that failed.                 *)
LogConsistent ==
  /\ \A c \in Calls :
       /\ \A row \in stored[c] : row.direction = "outbound" => Row(c, "inbound") \in stored[c]
       /\ \A row \in stored[c] : row.direction = "inbound" => Cardinality(row.parts) = 2
       /\ task[c] = "ended" /\ Cardinality(stored[c]) < 2 => failures[c] # "none"
       /\ task[c] = "noop" => stored[c] = {}
  /\ dropped = Cardinality({c \in Calls : failures[c] = "insert"})
=============================================================================
