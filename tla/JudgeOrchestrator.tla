--------------------------- MODULE JudgeOrchestrator ---------------------------
(***************************************************************************)
(* JudgeOrchestrator (policy_core/judge_orchestrator.py): one per request.  *)
(* submit starts a judge as a task; collect waits for the tasks as they     *)
(* finish, cancels those still pending as soon as a result matches the bail *)
(* predicate, and returns one result per item in submission order.          *)
(*                                                                         *)
(* An item is its index in _items. A task runs between any two steps of the *)
(* collecting coroutine, which sees at each wake-up every task that has     *)
(* finished by then, and runs to its next asyncio.wait without suspending.  *)
(***************************************************************************)
EXTENDS Naturals

CONSTANTS
  MaxItems,  (* bound on the items submitted *)
  Result,    (* what a judge may return *)
  Bails      (* the results bail_predicate is true of *)

\* The last conjunct: no result is taken for a task state or an absent result.
ASSUME JudgeAssumption ==
  /\ MaxItems \in Nat /\ Bails \subseteq Result
  /\ Result \cap {"none", "running", "cancelling", "cancelled", "raised",
                  "bailed", "missing"} = {}

VARIABLES
  count,   \* len(_items)
  task,    \* task[i]: the state of the task of item i, its result once it has one
  result,  \* result[i]: results[i] of collect
  bailed,  \* the local of collect
  mode     \* "open" until collect is called; how collect ended

vars == <<count, task, result, bailed, mode>>

Item      == 1..MaxItems
Unfinished == {"none", "running", "cancelling"}
NoResult  == {"cancelled", "raised"}
Modes     == {"open", "waiting", "returned", "abandoned"}

TypeOK ==
  /\ count \in 0..MaxItems
  /\ task \in [Item -> Unfinished \cup NoResult \cup Result]
  /\ result \in [Item -> Result \cup {"missing", "bailed"}]
  /\ bailed \in BOOLEAN /\ mode \in Modes

Init ==
  /\ count = 0 /\ task = [i \in Item |-> "none"]
  /\ result = [i \in Item |-> "missing"]
  /\ bailed = FALSE /\ mode = "open"

Submitted == 1..count
Pending   == {i \in Submitted : result[i] = "missing"}
Finished(i) == task[i] \notin Unfinished

-----------------------------------------------------------------------------
(* submit() after collect() raises: the policies never do it.               *)
Submit ==
  /\ mode = "open" /\ count < MaxItems
  /\ count' = count + 1
  /\ task' = [task EXCEPT ![count + 1] = "running"]
  /\ UNCHANGED <<result, bailed, mode>>

(* The judges. A coroutine may swallow the CancelledError of task.cancel()  *)
(* and answer all the same (JudgeCalls shows one that does).                *)
(* Raise stands for every end without a result that collect did not cause.  *)
Return(i, r) ==
  /\ task[i] \in {"running", "cancelling"}
  /\ task' = [task EXCEPT ![i] = r]
  /\ UNCHANGED <<count, result, bailed, mode>>

Raise(i) ==
  /\ task[i] = "running"
  /\ task' = [task EXCEPT ![i] = "raised"]
  /\ UNCHANGED <<count, result, bailed, mode>>

EndCancelled(i) ==
  /\ task[i] = "cancelling"
  /\ task' = [task EXCEPT ![i] = "cancelled"]
  /\ UNCHANGED <<count, result, bailed, mode>>

(* collect().                                                               *)
Collect ==
  /\ mode = "open"
  /\ mode' = IF count = 0 THEN "returned" ELSE "waiting"
  /\ UNCHANGED <<count, task, result, bailed>>

\* Mutant: a judge that raised is logged, and its item gets no result.
RecordUnlessRaised(done) ==
  [i \in Item |-> IF i \notin done \/ task[i] = "raised" THEN result[i]
                  ELSE IF task[i] \in NoResult THEN "bailed" ELSE task[i]]

Record(done) ==
  [i \in Item |-> IF i \notin done THEN result[i]
                  ELSE IF task[i] \in NoResult THEN "bailed" ELSE task[i]]

Cancel(items) ==
  [i \in Item |-> IF i \in items /\ task[i] = "running" THEN "cancelling" ELSE task[i]]

\* Mutant: collect never returns after a bail.
WakeNeverReturns ==
  LET done == {i \in Pending : Finished(i)} IN
  /\ mode = "waiting" /\ done # {}
  /\ result' = Record(done)
  /\ bailed' = (bailed \/ \E i \in done : task[i] \in Bails)
  /\ task' = IF bailed' /\ ~bailed THEN Cancel(Pending \ done) ELSE task
  /\ mode' = IF done = Pending /\ ~bailed THEN "returned" ELSE "waiting"
  /\ UNCHANGED count

\* asyncio.wait returned: done holds every task that has finished by now.
Wake ==
  LET done == {i \in Pending : Finished(i)}
      left == Pending \ done
      triggered == ~bailed /\ \E i \in done : task[i] \in Bails IN
  /\ mode = "waiting" /\ done # {}
  /\ result' = Record(done)
  /\ bailed' = (bailed \/ triggered)
  /\ task' = IF triggered THEN Cancel(left) ELSE task
  /\ mode' = IF left = {} THEN "returned" ELSE "waiting"
  /\ UNCHANGED count

\* The request is cancelled: collect, or the policy that would have called it,
\* goes away, and nobody cancels the tasks.
Abandon ==
  /\ mode \in {"open", "waiting"}
  /\ mode' = "abandoned"
  /\ UNCHANGED <<count, task, result, bailed>>

-----------------------------------------------------------------------------
JudgeStep(i) ==
  \/ \E r \in Result : Return(i, r)
  \/ Raise(i) \/ EndCancelled(i)

Next ==
  \/ Submit \/ Collect \/ Wake \/ Abandon
  \/ \E i \in Item : JudgeStep(i)

Spec == Init /\ [][Next]_vars

(* A judge answers or times out (its provider has a timeout), a cancelled   *)
(* task ends, and the event loop resumes collect when a task it waits for   *)
(* is done. Nobody has to call collect.                                     *)
FairSpec == Spec /\ WF_vars(Wake) /\ \A i \in Item : WF_vars(JudgeStep(i))

-----------------------------------------------------------------------------
(* Correctness properties.                                                  *)

(* collect returns one result per item, and what its judge said: an item    *)
(* whose task produced a result keeps it, whatever another item's bail did  *)
(* meanwhile ("results already in hand keep their real value", says the     *)
(* class; the module's header says otherwise, see LaterBailed); any other   *)
(* is Bailed.                                                               *)
ResultsFaithful ==
  \A i \in Submitted :
    /\ result[i] # "missing" => result[i] = IF task[i] \in Result THEN task[i] ELSE "bailed"
    /\ mode = "returned" => result[i] # "missing"

(* What the module's header says of a bail: the items submitted after the   *)
(* one that matched collect as Bailed "regardless of completion state".     *)
LaterBailed ==
  mode = "returned" =>
    \A i, j \in Submitted : i < j /\ result[i] \in Bails => result[j] = "bailed"

(* A judge is cancelled only because a peer's recorded result matched the   *)
(* bail predicate, and the first such result cancels every judge that is    *)
(* still running.                                                           *)
BailOnlyOnMatch ==
  LET matched == \E j \in Submitted : result[j] \in Bails IN
  \A i \in Submitted :
    /\ task[i] \in {"cancelling", "cancelled"} => matched
    /\ matched => task[i] # "running"

(* When collect returns every judge is over, so no decision is still coming,*)
(* and there is one result per item.                                        *)
NothingLeftBehind ==
  mode = "returned" => \A i \in Submitted : Finished(i) /\ result[i] # "missing"

(* collect returns unless its caller goes away.                             *)
CollectReturns == mode = "waiting" ~> mode \in {"returned", "abandoned"}

-----------------------------------------------------------------------------
(* The inductive invariant the proofs use: the local flag of collect agrees *)
(* with the recorded results, and tasks, results and mode are in step.      *)
IInv ==
  /\ bailed <=> \E j \in Submitted : result[j] \in Bails
  /\ mode = "open" => \A i \in Item : result[i] = "missing"
  /\ mode = "returned" => Pending = {}
  /\ \A i \in Item :
       /\ task[i] = "none" <=> i > count
       /\ i > count => result[i] = "missing"
       /\ task[i] \in {"cancelling", "cancelled"} => bailed
       /\ bailed => task[i] # "running"
       /\ result[i] # "missing" =>
            Finished(i) /\ result[i] = IF task[i] \in Result THEN task[i] ELSE "bailed"
IndInv == TypeOK /\ IInv

=============================================================================
