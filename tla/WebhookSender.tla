---------------------------- MODULE WebhookSender ----------------------------
(***************************************************************************)
(* The completion webhook (webhook/sender.py): fire_and_forget hands each   *)
(* transaction's event to a background task in a bounded pool, the task     *)
(* POSTs it with retries, and stop() drains the pool for a while, cancels   *)
(* what is left and closes the HTTP client.                                 *)
(*                                                                         *)
(* The network and the receiver are the environment: a POST put on the     *)
(* wire may be received late (after its attempt timed out, or its task was  *)
(* cancelled) or never, and the answer to a received POST may be lost.      *)
(* Each transaction is fired at most once (RequestPipeline shows it).       *)
(***************************************************************************)
EXTENDS Naturals, FiniteSets

CONSTANTS
  Tx,          (* transactions that fire a webhook *)
  MaxRetries,  (* WEBHOOK_MAX_RETRIES *)
  MaxPending   (* WEBHOOK_MAX_PENDING_TASKS *)

ASSUME RetriesAssumption == MaxRetries \in Nat
ASSUME PendingAssumption == MaxPending \in Nat \ {0}

VARIABLES
  task,      \* task[t]: where the delivery task of t is
  attempt,   \* attempt[t]: index of its current attempt
  fate,      \* fate[t]: how the event of t ended (history)
  pending,   \* _pending_tasks
  dropped, gaveUp, permanent, unbuilt,  \* the four failure counters
  wire,      \* POSTs <<t, n>> sent and not received; a lost one stays
  received,  \* POSTs <<t, n>> the receiver got
  shutdown,  \* progress of stop()
  draining   \* the tasks stop() snapshot

counters  == <<dropped, gaveUp, permanent, unbuilt>>
network   == <<wire, received>>
stopVars  == <<shutdown, draining>>
vars == <<task, attempt, fate, pending, counters, network, stopVars>>

TaskStates == {"none", "starting", "posting", "sleeping", "finished"}
Fates == {"none", "ignored", "dropped", "unbuilt", "acked", "permanent",
          "gaveup", "cancelled"}
Post == Tx \X Nat

TypeOK ==
  /\ task \in [Tx -> TaskStates]
  /\ attempt \in [Tx -> Nat]
  /\ fate \in [Tx -> Fates]
  /\ pending \subseteq Tx /\ draining \subseteq Tx
  /\ dropped \in Nat /\ gaveUp \in Nat /\ permanent \in Nat /\ unbuilt \in Nat
  /\ wire \subseteq Post /\ received \subseteq Post
  /\ shutdown \in {"running", "draining", "cancelling", "closed"}

Init ==
  /\ task = [t \in Tx |-> "none"]
  /\ attempt = [t \in Tx |-> 0]
  /\ fate = [t \in Tx |-> "none"]
  /\ pending = {} /\ draining = {}
  /\ dropped = 0 /\ gaveUp = 0 /\ permanent = 0 /\ unbuilt = 0
  /\ wire = {} /\ received = {}
  /\ shutdown = "running"

Live(t) == task[t] \in {"starting", "posting", "sleeping"}
\* stop() has called task.cancel(): the task only wakes to be cancelled.
CancelRequested(t) == shutdown = "cancelling" /\ t \in draining

-----------------------------------------------------------------------------
(* fire_and_forget: synchronous, so the cap check, create_task and add are  *)
(* one step.                                                                *)

FireIgnored(t) ==
  /\ shutdown # "running"
  /\ fate' = [fate EXCEPT ![t] = "ignored"]
  /\ UNCHANGED <<task, pending, counters>>

\* Mutant: the drop is not counted.
FireDroppedSilently(t) ==
  /\ shutdown = "running" /\ Cardinality(pending) >= MaxPending
  /\ fate' = [fate EXCEPT ![t] = "dropped"]
  /\ UNCHANGED <<task, pending, counters>>

FireDropped(t) ==
  /\ shutdown = "running" /\ Cardinality(pending) >= MaxPending
  /\ fate' = [fate EXCEPT ![t] = "dropped"]
  /\ dropped' = dropped + 1
  /\ UNCHANGED <<task, pending, gaveUp, permanent, unbuilt>>

\* build_payload raised; the pipeline's wrapper counts it.
FireUnbuilt(t) ==
  /\ shutdown = "running" /\ Cardinality(pending) < MaxPending
  /\ fate' = [fate EXCEPT ![t] = "unbuilt"]
  /\ unbuilt' = unbuilt + 1
  /\ UNCHANGED <<task, pending, dropped, gaveUp, permanent>>

FireAccepted(t) ==
  /\ shutdown = "running" /\ Cardinality(pending) < MaxPending
  /\ task' = [task EXCEPT ![t] = "starting"]
  /\ pending' = pending \cup {t}
  /\ UNCHANGED <<fate, counters>>

Fire(t) ==
  /\ task[t] = "none" /\ fate[t] = "none"
  /\ FireIgnored(t) \/ FireDropped(t) \/ FireUnbuilt(t) \/ FireAccepted(t)
  /\ UNCHANGED <<attempt, network, stopVars>>

-----------------------------------------------------------------------------
(* The delivery task: _send_with_retries around _attempt_send.              *)

Running(t, state) == task[t] = state /\ ~CancelRequested(t)

Finish(t, end) ==
  /\ task' = [task EXCEPT ![t] = "finished"]
  /\ fate' = [fate EXCEPT ![t] = end]

SendPost(t) ==
  /\ Running(t, "starting")
  /\ task' = [task EXCEPT ![t] = "posting"]
  /\ wire' = wire \cup {<<t, attempt[t]>>}
  /\ UNCHANGED <<attempt, fate, pending, counters, received, stopVars>>

\* Mutant: a timed-out POST is taken for delivered.
AckedUnseen(t) ==
  /\ Running(t, "posting")
  /\ Finish(t, "acked")
  /\ UNCHANGED <<attempt, pending, counters, network, stopVars>>

Acked(t) ==
  /\ Running(t, "posting") /\ <<t, attempt[t]>> \in received
  /\ Finish(t, "acked")
  /\ UNCHANGED <<attempt, pending, counters, network, stopVars>>

\* A status that is not worth retrying, or an exception post() does not expect.
FailPermanently(t) ==
  /\ \/ Running(t, "posting") /\ <<t, attempt[t]>> \in received
     \/ Running(t, "starting")
  /\ Finish(t, "permanent")
  /\ permanent' = permanent + 1
  /\ UNCHANGED <<attempt, pending, dropped, gaveUp, unbuilt, network, stopVars>>

\* 5xx, 408, 425, 429, a network error or the send timeout: back off ...
BackOff(t) ==
  /\ Running(t, "posting") /\ attempt[t] < MaxRetries
  /\ task' = [task EXCEPT ![t] = "sleeping"]
  /\ UNCHANGED <<attempt, fate, pending, counters, network, stopVars>>

Retry(t) ==
  /\ Running(t, "sleeping")
  /\ task' = [task EXCEPT ![t] = "starting"]
  /\ attempt' = [attempt EXCEPT ![t] = @ + 1]
  /\ UNCHANGED <<fate, pending, counters, network, stopVars>>

\* ... until the budget is spent.
GiveUp(t) ==
  /\ Running(t, "posting") /\ attempt[t] >= MaxRetries
  /\ Finish(t, "gaveup")
  /\ gaveUp' = gaveUp + 1
  /\ UNCHANGED <<attempt, pending, dropped, permanent, unbuilt, network, stopVars>>

\* The done callback: a finished task holds its slot until it runs.
Discard(t) ==
  /\ task[t] = "finished" /\ t \in pending
  /\ pending' = pending \ {t}
  /\ UNCHANGED <<task, attempt, fate, counters, network, stopVars>>

-----------------------------------------------------------------------------
(* stop().                                                                  *)

BeginStop ==
  /\ shutdown = "running"
  /\ shutdown' = IF pending = {} THEN "closed" ELSE "draining"
  /\ draining' = pending
  /\ UNCHANGED <<task, attempt, fate, pending, counters, network>>

\* asyncio.wait returned, by completion or by the drain window: cancel the rest.
EndDrain ==
  /\ shutdown = "draining"
  /\ shutdown' = "cancelling"
  /\ UNCHANGED <<task, attempt, fate, pending, counters, network, draining>>

\* Mutant: only a task in its POST notices the cancellation.
CancelLandsInPost(t) ==
  /\ CancelRequested(t) /\ task[t] = "posting"
  /\ Finish(t, "cancelled")
  /\ UNCHANGED <<attempt, pending, counters, network, stopVars>>

CancelLands(t) ==
  /\ CancelRequested(t) /\ Live(t)
  /\ Finish(t, "cancelled")
  /\ UNCHANGED <<attempt, pending, counters, network, stopVars>>

\* Mutant: the client is closed without waiting for the cancelled tasks.
FinishStopAtOnce ==
  /\ shutdown = "cancelling"
  /\ shutdown' = "closed"
  /\ pending' = {}
  /\ UNCHANGED <<task, attempt, fate, counters, network, draining>>

\* gather returned: forget the tasks and close the client.
FinishStop ==
  /\ shutdown = "cancelling" /\ \A t \in draining : ~Live(t)
  /\ shutdown' = "closed"
  /\ pending' = {}
  /\ UNCHANGED <<task, attempt, fate, counters, network, draining>>

-----------------------------------------------------------------------------
(* The network.                                                             *)

Receive(p) ==
  /\ p \in wire
  /\ wire' = wire \ {p}
  /\ received' = received \cup {p}
  /\ UNCHANGED <<task, attempt, fate, pending, counters, stopVars>>

-----------------------------------------------------------------------------
TaskStep(t) ==
  \/ SendPost(t) \/ Acked(t) \/ FailPermanently(t) \/ BackOff(t) \/ Retry(t)
  \/ GiveUp(t) \/ CancelLands(t)

Next ==
  \/ \E t \in Tx : Fire(t) \/ TaskStep(t) \/ Discard(t)
  \/ BeginStop \/ EndDrain \/ FinishStop
  \/ \E p \in wire : Receive(p)

Spec == Init /\ [][Next]_vars

(* A task is never starved: a POST ends within the send timeout, a backoff  *)
(* within its delay, a requested cancellation lands; the drain is a timed   *)
(* wait.  Nothing is assumed of the network, nor that stop() is ever called.*)
Fairness ==
  /\ \A t \in Tx : WF_vars(TaskStep(t)) /\ WF_vars(Discard(t))
  /\ WF_vars(EndDrain) /\ WF_vars(FinishStop)

FairSpec == Spec /\ Fairness

-----------------------------------------------------------------------------
(* Correctness properties.                                                  *)

Fired(t)  == task[t] # "none" \/ fate[t] # "none"
Ended(f)  == {t \in Tx : fate[t] = f}
Reached(t) == \E p \in received : p[1] = t
Unseen == {t \in Tx : fate[t] # "none" /\ ~Reached(t)}
Lost == dropped + gaveUp + permanent + unbuilt

(* The pool never exceeds its cap, and no delivery runs outside it: what    *)
(* stop() drains and cancels is everything that is running.                 *)
PoolBounded ==
  /\ Cardinality(pending) <= MaxPending
  /\ \A t \in Tx : Live(t) => t \in pending /\ (shutdown # "running" => t \in draining)

(* Once stop() has closed the HTTP client no task is left that could use it.*)
QuietAfterStop == shutdown = "closed" => pending = {} /\ \A t \in Tx : ~Live(t)

(* Each counter counts exactly the transactions that ended that way, once   *)
(* each, whatever the retries and the shutdown did.                         *)
CountersExact ==
  /\ dropped = Cardinality(Ended("dropped"))
  /\ unbuilt = Cardinality(Ended("unbuilt"))
  /\ gaveUp = Cardinality(Ended("gaveup"))
  /\ permanent = Cardinality(Ended("permanent"))

(* Until stop() the counters never under-report: an event that ended        *)
(* without reaching the receiver is in one of them.                         *)
LossesCounted == shutdown = "running" => Cardinality(Unseen) <= Lost

(* So the counters tell every loss, and each once.                          *)
CountersTellLosses == CountersExact /\ LossesCounted

(* A delivery is given up only after 1 + max_retries POSTs, and no delivery *)
(* makes more.                                                              *)
RetryBudget ==
  /\ \A p \in wire \cup received : p[2] <= attempt[p[1]] /\ p[2] <= MaxRetries
  /\ \A t \in Ended("gaveup") : attempt[t] = MaxRetries

(* After its verdict (2xx, permanent failure, exhausted retries, a          *)
(* cancellation) a transaction is never POSTed again.                       *)
NoPostAfterVerdict ==
  [][\A p \in wire' \ wire : fate[p[1]] = "none" /\ shutdown # "closed"]_vars

(* So the POSTs of an event end, by budget or by verdict.                   *)
PostsEnd == []RetryBudget /\ NoPostAfterVerdict

(* A delivery task comes to an end, and stop() returns.                     *)
DeliveryEnds == \A t \in Tx : Live(t) ~> fate[t] # "none"
StopReturns  == shutdown = "draining" ~> shutdown = "closed"
SenderSettles == DeliveryEnds /\ StopReturns

(* The sender keeps the promise of BestEffortDelivery.                      *)
Verdict ==
  [t \in Tx |->
    CASE fate[t] \in {"ignored", "dropped", "unbuilt"}        -> "turned_away"
      [] fate[t] = "acked"                                    -> "acknowledged"
      [] fate[t] \in {"permanent", "gaveup", "cancelled"}     -> "lost"
      [] OTHER -> IF task[t] = "none" THEN "unfired" ELSE "owed"]
Got == {t \in Tx : Reached(t)}

Promise == INSTANCE BestEffortDelivery WITH verdict <- Verdict, got <- Got
KeepsPromise == Promise!Spec

-----------------------------------------------------------------------------
(* The inductive invariant the proofs use.                                  *)

\* A task, its pool slot, its verdict and its attempts are in step.
TaskInv(t) ==
  /\ task[t] = "none" => fate[t] \in {"none", "ignored", "dropped", "unbuilt"}
  /\ task[t] = "finished" => fate[t] \in {"acked", "permanent", "gaveup", "cancelled"}
  /\ Live(t) => /\ fate[t] = "none" /\ t \in pending
                /\ shutdown # "running" => t \in draining
  /\ t \in pending => task[t] # "none"
  /\ attempt[t] <= MaxRetries
  /\ task[t] = "sleeping" => attempt[t] < MaxRetries
  /\ fate[t] = "acked" => Reached(t)
  /\ fate[t] = "gaveup" => attempt[t] = MaxRetries
  /\ fate[t] \in {"ignored", "cancelled"} => shutdown # "running"

\* Only a delivery that was handed over is POSTed, one attempt at a time.
PostInv(p) == p[2] <= attempt[p[1]] /\ task[p[1]] # "none"

PoolInv ==
  /\ IsFiniteSet(pending) /\ Cardinality(pending) <= MaxPending
  /\ shutdown = "closed" => pending = {}

Countable == {"dropped", "unbuilt", "gaveup", "permanent"}
CountInv ==
  /\ \A f \in Countable : IsFiniteSet(Ended(f))
  /\ CountersExact

(* Every task, every POST, the pool and the counters are in step whatever   *)
(* the interleaving of deliveries, the network and stop().                  *)
IInv ==
  /\ \A t \in Tx : TaskInv(t)
  /\ \A p \in wire \cup received : PostInv(p)
  /\ PoolInv /\ CountInv
IndInv == TypeOK /\ IInv
=============================================================================
