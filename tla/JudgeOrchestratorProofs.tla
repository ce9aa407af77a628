------------------------ MODULE JudgeOrchestratorProofs ------------------------
(***************************************************************************)
(* Proofs about JudgeOrchestrator for any number of items, any results and *)
(* any bail predicate, and about JudgeCalls, which implements it, for any  *)
(* number of attempts, credentials and cached clients.                     *)
(***************************************************************************)
EXTENDS JudgeCalls, SequenceTheorems, TLAPS

USE JudgeAssumption

LEMMA InitHolds == Init => TypeOK /\ IInv
<1> SUFFICES ASSUME Init PROVE TypeOK /\ IInv
  OBVIOUS
<1>1. TypeOK
  <2>1. count \in 0..MaxItems /\ mode \in Modes
    BY DEF Init, Modes
  <2>2. /\ task \in [Item -> Unfinished \cup NoResult \cup Result]
        /\ result \in [Item -> Result \cup {"missing", "bailed"}]
    BY DEF Init, Unfinished
  <2>3. bailed \in BOOLEAN
    BY DEF Init
  <2>4. QED
    BY <2>1, <2>2, <2>3 DEF TypeOK
<1>2. Submitted = {}
  BY DEF Init, Submitted
<1>3. IInv
  BY <1>2 DEF Init, IInv, Item
<1>4. QED
  BY <1>1, <1>3

LEMMA TypeNext == TypeOK /\ [Next]_vars => TypeOK'
<1> SUFFICES ASSUME TypeOK, [Next]_vars PROVE TypeOK'
  OBVIOUS
<1> USE DEF TypeOK, Item, Unfinished, NoResult, Modes
<1>1. CASE Submit
  BY <1>1 DEF Submit
<1>2. CASE Collect
  BY <1>2 DEF Collect
<1>3. CASE Abandon
  BY <1>3 DEF Abandon
<1>4. CASE Wake
  <2> DEFINE done == {i \in Pending : Finished(i)}
  <2>1. \A i \in Item : Record(done)[i] \in Result \cup {"missing", "bailed"}
    BY DEF Record, Finished
  <2>2. Cancel(Pending \ done) \in [Item -> Unfinished \cup NoResult \cup Result]
    BY DEF Cancel
  <2>3. result' = Record(done) /\ bailed' \in BOOLEAN /\ mode' \in Modes /\ UNCHANGED count
    BY <1>4 DEF Wake
  <2>4. task' \in [Item -> Unfinished \cup NoResult \cup Result]
    BY <1>4, <2>2 DEF Wake
  <2>5. result' \in [Item -> Result \cup {"missing", "bailed"}]
    BY <2>1, <2>3 DEF Record
  <2>6. QED
    BY <2>3, <2>4, <2>5
<1>5. ASSUME NEW i \in Item, JudgeStep(i) PROVE TypeOK'
  BY <1>5 DEF JudgeStep, Return, Raise, EndCancelled
<1>6. CASE UNCHANGED vars
  BY <1>6 DEF vars
<1>7. QED
  BY <1>1, <1>2, <1>3, <1>4, <1>5, <1>6 DEF Next

(* A step of a judge, which touches nothing but its task.                   *)
LEMMA JudgeNext ==
  ASSUME TypeOK, IInv, NEW i \in Item, JudgeStep(i)
  PROVE  IInv'
<1> USE DEF TypeOK, Item, Unfinished, NoResult, Submitted, Pending, Finished
<1>1. /\ UNCHANGED <<count, result, bailed, mode>>
      /\ task[i] \in {"running", "cancelling"} /\ result[i] = "missing"
      /\ task' = [task EXCEPT ![i] = task'[i]]
      /\ task'[i] \in Result \cup {"raised", "cancelled"}
      /\ task'[i] = "cancelled" => task[i] = "cancelling"
  BY DEF JudgeStep, Return, Raise, EndCancelled, IInv
<1>2. ASSUME NEW j \in Item PROVE task'[j] = IF j = i THEN task'[i] ELSE task[j]
  BY <1>1
<1>3. QED
  BY <1>1, <1>2 DEF IInv

(* A wake-up of collect: what it records, and whom it cancels.              *)
LEMMA WakeNext ==
  ASSUME TypeOK, IInv, Wake
  PROVE  IInv'
<1> USE DEF TypeOK, Item, Unfinished, NoResult, Submitted, Finished
<1> DEFINE done == {i \in Pending : Finished(i)}
           triggered == ~bailed /\ \E i \in done : task[i] \in Bails
<1>1. /\ mode = "waiting" /\ count' = count
      /\ result' = Record(done) /\ bailed' = (bailed \/ triggered)
      /\ task' = IF triggered THEN Cancel(Pending \ done) ELSE task
      /\ mode' = IF Pending \ done = {} THEN "returned" ELSE "waiting"
  BY DEF Wake
<1>2. done \subseteq Pending /\ Pending \subseteq 1..count /\ 1..count \subseteq Item
  BY DEF Pending
<1> HIDE DEF done
<1>3. ASSUME NEW i \in Item
      PROVE  /\ result'[i] = IF i \notin done THEN result[i]
                             ELSE IF task[i] \in Result THEN task[i] ELSE "bailed"
             /\ i \in done => result[i] = "missing" /\ Finished(i) /\ i \in 1..count
  <2>1. result'[i] = IF i \notin done THEN result[i]
                     ELSE IF task[i] \in NoResult THEN "bailed" ELSE task[i]
    BY <1>1 DEF Record
  <2>2. i \in done => result[i] = "missing" /\ Finished(i) /\ i \in 1..count
    BY <1>2 DEF Pending, done
  <2>3. i \in done => task[i] \in NoResult \cup Result
    BY <2>2
  <2>4. QED
    BY <2>1, <2>2, <2>3
<1>4. ASSUME NEW i \in Item
      PROVE  task'[i] = IF triggered /\ i \in Pending \ done /\ task[i] = "running"
                        THEN "cancelling" ELSE task[i]
  BY <1>1 DEF Cancel
<1>5. ASSUME NEW i \in Item PROVE task[i] = "running" => i \in Pending \ done
  BY <1>3 DEF IInv, Pending
<1> HIDE DEF triggered
<1>6. bailed' <=> \E j \in 1..count : result'[j] \in Bails
  <2>1. ASSUME NEW j \in 1..count, result'[j] \in Bails PROVE bailed'
    <3>1. j \in Item
      BY <1>2
    <3>2. CASE j \in done
      BY <1>1, <1>3, <2>1, <3>1, <3>2 DEF triggered
    <3>3. CASE j \notin done
      BY <1>1, <1>3, <2>1, <3>1, <3>3 DEF IInv
    <3>4. QED
      BY <3>2, <3>3
  <2>2. ASSUME bailed PROVE \E j \in 1..count : result'[j] \in Bails
    <3>1. PICK j \in 1..count : result[j] \in Bails
      BY <2>2 DEF IInv
    <3>2. result'[j] = result[j]
      BY <1>2, <1>3, <3>1
    <3>3. QED
      BY <3>1, <3>2
  <2>3. ASSUME triggered PROVE \E j \in 1..count : result'[j] \in Bails
    <3>1. PICK j \in done : task[j] \in Bails
      BY <2>3 DEF triggered
    <3>2. j \in Item /\ j \in 1..count /\ result'[j] = task[j]
      BY <1>2, <1>3, <3>1
    <3>3. QED
      BY <3>1, <3>2
  <2>4. QED
    BY <1>1, <2>1, <2>2, <2>3
<1>7. mode' # "open" /\ (mode' = "returned" => Pending' = {})
  <2>1. ASSUME mode' = "returned", NEW i \in 1..count PROVE result'[i] # "missing"
    <3>1. i \in Item /\ (result[i] = "missing" => i \in done)
      BY <1>1, <1>2, <2>1 DEF Pending
    <3>2. i \in done => result'[i] # "missing"
      BY <1>3, <3>1
    <3>3. QED
      BY <1>3, <3>1, <3>2
  <2>2. QED
    BY <1>1, <2>1 DEF Pending
<1>8. ASSUME NEW i \in Item
      PROVE  /\ task'[i] = "none" <=> i > count
             /\ i > count => result'[i] = "missing"
             /\ task'[i] \in {"cancelling", "cancelled"} => bailed'
             /\ bailed' => task'[i] # "running"
             /\ result'[i] # "missing" =>
                  Finished(i)' /\ result'[i] = IF task'[i] \in Result THEN task'[i] ELSE "bailed"
  <2>1. task'[i] = "none" <=> i > count
    BY <1>4 DEF IInv
  <2>2. i > count => result'[i] = "missing"
    BY <1>3 DEF IInv
  <2>3. task'[i] \in {"cancelling", "cancelled"} => bailed'
    BY <1>1, <1>4 DEF IInv
  <2>4. bailed' => task'[i] # "running"
    BY <1>1, <1>4, <1>5 DEF IInv
  <2>5. ASSUME result'[i] # "missing"
        PROVE  Finished(i)' /\ result'[i] = IF task'[i] \in Result THEN task'[i] ELSE "bailed"
    <3>1. Finished(i) /\ result'[i] = IF task[i] \in Result THEN task[i] ELSE "bailed"
      BY <1>3, <2>5 DEF IInv
    <3>2. task'[i] = task[i]
      BY <1>4, <3>1
    <3>3. QED
      BY <3>1, <3>2
  <2>6. QED
    BY <2>1, <2>2, <2>3, <2>4, <2>5
<1>9. QED
  BY <1>1, <1>6, <1>7, <1>8 DEF IInv

LEMMA InvNext == TypeOK /\ IInv /\ [Next]_vars => IInv'
<1> SUFFICES ASSUME TypeOK, IInv, [Next]_vars PROVE IInv'
  OBVIOUS
<1> USE DEF TypeOK, Item, Unfinished, NoResult, Submitted, Pending, Finished
<1>1. CASE Submit
  <2>1. /\ count + 1 \in Item /\ task[count + 1] = "none" /\ result[count + 1] = "missing"
        /\ ~bailed
    BY <1>1 DEF Submit, IInv
  <2>2. \A i \in Item : task'[i] = IF i = count + 1 THEN "running" ELSE task[i]
    BY <1>1 DEF Submit
  <2>3. QED
    BY <1>1, <2>1, <2>2 DEF Submit, IInv
<1>2. CASE Collect
  BY <1>2 DEF Collect, IInv
<1>3. CASE Abandon
  BY <1>3 DEF Abandon, IInv
<1>4. CASE Wake
  BY <1>4, WakeNext
<1>5. ASSUME NEW i \in Item, JudgeStep(i) PROVE IInv'
  BY <1>5, JudgeNext
<1>6. CASE UNCHANGED vars
  BY <1>6 DEF vars, IInv
<1>7. QED
  BY <1>1, <1>2, <1>3, <1>4, <1>5, <1>6 DEF Next

(* Tasks, results, the bail flag and the progress of collect are in step.   *)
THEOREM Invariance == Spec => []IndInv
<1>1. Init => TypeOK /\ IInv
  BY InitHolds
<1>2. (TypeOK /\ IInv) /\ [Next]_vars => (TypeOK /\ IInv)'
  BY TypeNext, InvNext
<1>3. QED
  BY <1>1, <1>2, PTL DEF Spec, IndInv

(* collect returns what each judge said, or Bailed when it said nothing.    *)
THEOREM Faithful == Spec => []ResultsFaithful
<1>1. TypeOK /\ IInv => ResultsFaithful
  BY DEF TypeOK, IInv, ResultsFaithful, Submitted, Pending, Item
<1>2. QED
  BY <1>1, Invariance, PTL DEF IndInv

(* Judges are cancelled because, and as soon as, a result matched.          *)
THEOREM BailsOnMatch == Spec => []BailOnlyOnMatch
<1>1. TypeOK /\ IInv => BailOnlyOnMatch
  BY DEF TypeOK, IInv, BailOnlyOnMatch, Submitted, Item
<1>2. QED
  BY <1>1, Invariance, PTL DEF IndInv

(* When collect returns no judge is running and no item has no result.      *)
THEOREM LeavesNothing == Spec => []NothingLeftBehind
<1>1. TypeOK /\ IInv => NothingLeftBehind
  BY DEF TypeOK, IInv, NothingLeftBehind, Submitted, Pending, Item
<1>2. QED
  BY <1>1, Invariance, PTL DEF IndInv

-----------------------------------------------------------------------------
(* JudgeCalls.                                                             *)

(* What ends a judge, or sends it on, is a step of its task or none.       *)
LEMMA EndsAsExpected ==
  ASSUME NEW i \in Item
  PROVE  /\ GiveUp(i) => JudgeStep(i) /\ Over(i)
         /\ Fail(i) => (JudgeStep(i) /\ Over(i)) \/ (tries[i] # MaxAttempts /\ UNCHANGED vars /\ Go(i, "sleeping"))
         /\ Unwind(i) => JudgeStep(i) /\ Over(i)
         /\ Raise(i) => JudgeStep(i)
         /\ EndCancelled(i) => JudgeStep(i)
<1>1. OnError \in Result
  BY CallAssumption
<1>2. GiveUp(i) => JudgeStep(i) /\ Over(i)
  BY <1>1 DEF GiveUp, JudgeStep
<1>3. QED
  BY <1>2 DEF Fail, Unwind, JudgeStep

LEMMA OutcomeExpected ==
  ASSUME NEW i \in Item, Outcome(i)
  PROVE  (JudgeStep(i) /\ Over(i)) \/ (tries[i] # MaxAttempts /\ UNCHANGED vars /\ Go(i, "sleeping"))
BY EndsAsExpected DEF Outcome, JudgeStep

(* A step of a call is a step of its judge in JudgeOrchestrator, or none;  *)
(* in the first case, but for a cancellation, the judge is over.           *)
LEMMA StepImplements ==
  ASSUME CallTypeOK, \A j \in Item : Holds(j), NEW i \in Item, CallStep(i) \/ Killed(i)
  PROVE  (JudgeStep(i) /\ Over(i)) \/ (UNCHANGED vars /\ pc'[i] # "over")
<1> USE EndsAsExpected DEF CallTypeOK, Go
<1>1. CASE Dispatch(i)
  BY <1>1 DEF Dispatch
<1>2. CASE RegistryAnswers(i)
  BY <1>2 DEF RegistryAnswers
<1>3. CASE Refuse(i)
  BY <1>3 DEF Refuse
<1>4. CASE CallPassthrough(i) \/ CallDirect(i) \/ CallClaude(i)
  BY <1>4 DEF CallPassthrough, CallDirect, CallClaude
<1>5. CASE RequestEnds(i)
  BY <1>5, OutcomeExpected DEF RequestEnds
<1>6. CASE Spawned(i)
  BY <1>6 DEF Spawned
<1>7. CASE ChildAnswers(i)
  BY <1>7, OutcomeExpected DEF ChildAnswers
<1>8. CASE TimesOut(i) \/ TalkingCancelled(i)
  BY <1>8 DEF TimesOut, TalkingCancelled, Reap
<1>9. CASE Reaped(i)
  <2>1. why[i] \in {"timeout", "cancelled", "killed"}
    BY <1>9 DEF Reaped, At, Holds
  <2>2. QED
    BY <1>9, <2>1 DEF Reaped
<1>10. CASE ChildExits(i)
  BY <1>10 DEF ChildExits, At
<1>11. CASE Slept(i)
  BY <1>11 DEF Slept
<1>12. CASE CancelledAtAwait(i)
  BY <1>12 DEF CancelledAtAwait, Ends
<1>13. CASE Killed(i)
  BY <1>13 DEF Killed, Ends, Reap, HangUp, HangUpCut
<1>14. CASE Answered(i) \/ RequestCancelled(i)
  BY <1>14 DEF Answered, RequestCancelled, HangUp
<1>15. CASE HungUp(i)
  <2>1. why[i] \in {"none", "cancelled", "killed"}
    BY <1>15 DEF HungUp, At, Holds
  <2>2. QED
    BY <1>15, <2>1, OutcomeExpected DEF HungUp
<1>16. CASE HangUpCancelled(i) \/ HangUpFails(i)
  BY <1>16 DEF HangUpCancelled, HangUpFails, HangUpCut
<1>17. QED
  BY <1>1, <1>2, <1>3, <1>4, <1>5, <1>6, <1>7, <1>8, <1>9, <1>10, <1>11, <1>12, <1>13,
     <1>14, <1>15, <1>16 DEF CallStep

(* What ends an attempt touches one task and where its coroutine is.       *)
LEMMA Ending ==
  ASSUME TypeOK, CallTypeOK, NEW i \in Item,
         Outcome(i) \/ Fail(i) \/ GiveUp(i) \/ Unwind(i) \/ ((Raise(i) \/ EndCancelled(i)) /\ Over(i))
  PROVE  /\ count' = count
         /\ task' = [task EXCEPT ![i] = task'[i]] /\ pc' = [pc EXCEPT ![i] = pc'[i]]
         /\ \/ pc'[i] = "over" /\ Finished(i)'
            \/ pc'[i] = "sleeping" /\ task'[i] = task[i] /\ tries[i] # MaxAttempts
         /\ GiveUp(i) => pc'[i] = "over"
<1> USE CallAssumption DEF TypeOK, CallTypeOK, Finished, Unfinished, Over, Go
<1>1. CASE \E r \in Result : Return(i, r) /\ Over(i)
  BY <1>1 DEF Return
<1>2. CASE GiveUp(i)
  BY <1>2, <1>1 DEF GiveUp
<1>3. CASE Fail(i)
  BY <1>2, <1>3 DEF Fail, vars
<1>4. CASE (Raise(i) \/ EndCancelled(i)) /\ Over(i)
  BY <1>4 DEF Raise, EndCancelled, GiveUp
<1>5. GiveUp(i) => pc'[i] = "over"
  BY DEF GiveUp
<1>6. QED
  BY <1>1, <1>2, <1>3, <1>4, <1>5 DEF Outcome, Unwind

(* What a step of a call does: it leaves the judges of the other items     *)
(* alone, and its own in order.                                            *)
Typed(i) ==
  /\ pc[i] \in {"start", "registry", "call", "request", "hanging_up", "spawning", "talking",
                "reaping", "sleeping", "over"}
  /\ kind[i] \in {"none", "claude", "direct", "null", "passthrough"}
  /\ tries[i] \in 0..MaxAttempts
  /\ why[i] \in {"none", "timeout", "cancelled", "killed"}
  /\ lost[i] \in BOOLEAN
  /\ child[i] \in {"none", "running", "dead"}
  /\ scratch[i] \in BOOLEAN /\ private[i] \in {"none", "open", "cut"}

Local(i) ==
  /\ count' = count /\ route' = route
  /\ task' = [task EXCEPT ![i] = task'[i]] /\ pc' = [pc EXCEPT ![i] = pc'[i]]
  /\ kind' = [kind EXCEPT ![i] = kind'[i]] /\ tries' = [tries EXCEPT ![i] = tries'[i]]
  /\ why' = [why EXCEPT ![i] = why'[i]] /\ lost' = [lost EXCEPT ![i] = lost'[i]]
  /\ child' = [child EXCEPT ![i] = child'[i]] /\ scratch' = [scratch EXCEPT ![i] = scratch'[i]]
  /\ private' = [private EXCEPT ![i] = private'[i]]

LEMMA StepHolds ==
  ASSUME TypeOK, CallTypeOK, NEW i \in Item, Holds(i), CallStep(i) \/ Killed(i)
  PROVE  Local(i) /\ Typed(i)' /\ Holds(i)' /\ tries'[i] >= tries[i]
<1>0. /\ i \in Nat \ {0} /\ count \in Nat /\ (i \in Submitted <=> i <= count)
      /\ DOMAIN task = Item /\ task = [task EXCEPT ![i] = task[i]]
      /\ DOMAIN pc = Item /\ pc = [pc EXCEPT ![i] = pc[i]]
      /\ DOMAIN kind = Item /\ kind = [kind EXCEPT ![i] = kind[i]]
      /\ DOMAIN tries = Item /\ tries = [tries EXCEPT ![i] = tries[i]]
      /\ DOMAIN why = Item /\ why = [why EXCEPT ![i] = why[i]]
      /\ DOMAIN lost = Item /\ lost = [lost EXCEPT ![i] = lost[i]]
      /\ DOMAIN child = Item /\ child = [child EXCEPT ![i] = child[i]]
      /\ DOMAIN scratch = Item /\ scratch = [scratch EXCEPT ![i] = scratch[i]]
      /\ DOMAIN private = Item /\ private = [private EXCEPT ![i] = private[i]]
  BY DEF TypeOK, CallTypeOK, Item, Submitted
<1>00. Typed(i) /\ MaxAttempts \in Nat \ {0}
  BY CallAssumption DEF CallTypeOK, Typed
<1>1. CASE Dispatch(i)
  <2>0. route \in {"error", "registry", "passthrough"}
    BY DEF CallTypeOK
  <2>1. CASE route = "error"
    <3>1. Local(i) /\ Typed(i)' /\ tries'[i] >= tries[i]
      BY <1>0, <1>00, <1>1, <2>1, Ending DEF Dispatch, Local, Typed, Go, vars
    <3>2. Holds(i)'
      BY <1>0, <1>00, <1>1, <2>1, Ending DEF Dispatch, Typed, vars, Holds, Finished, Unfinished, Go, At, Runs, Live
    <3>3. QED
      BY <3>1, <3>2
  <2>2. CASE route = "registry"
    <3>1. Local(i) /\ Typed(i)' /\ tries'[i] >= tries[i]
      BY <1>0, <1>00, <1>1, <2>2 DEF Dispatch, Local, Typed, Go, vars
    <3>2. Holds(i)'
      BY <1>0, <1>00, <1>1, <2>2 DEF Dispatch, Typed, vars, Holds, Finished, Unfinished, Go, At, Runs, Live
    <3>3. QED
      BY <3>1, <3>2
  <2>3. CASE route = "passthrough"
    <3>1. Local(i) /\ Typed(i)' /\ tries'[i] >= tries[i]
      BY <1>0, <1>00, <1>1, <2>3 DEF Dispatch, Local, Typed, Go, vars
    <3>2. Holds(i)'
      BY <1>0, <1>00, <1>1, <2>3 DEF Dispatch, Typed, vars, Holds, Finished, Unfinished, Go, At, Runs, Live
    <3>3. QED
      BY <3>1, <3>2
  <2>4. QED
    BY <1>1, <1>00, <2>1, <2>2, <2>3, <2>0 DEF Dispatch, Typed
<1>2. CASE RegistryAnswers(i)
  <2>1. Local(i) /\ Typed(i)' /\ tries'[i] >= tries[i]
    BY <1>0, <1>00, <1>2, Ending DEF RegistryAnswers, Local, Typed, Go, vars
  <2>2. Holds(i)'
    BY <1>0, <1>00, <1>2, Ending DEF RegistryAnswers, Typed, vars, Holds, Finished, Unfinished, Go, At, Runs, Live
  <2>3. QED
    BY <2>1, <2>2
<1>3. CASE Refuse(i)
  <2>0. tries[i] < MaxAttempts
    BY <1>3 DEF Refuse, Attempt, Holds
  <2>1. CASE tries[i] + 1 = MaxAttempts
    <3>1. Local(i) /\ Typed(i)' /\ tries'[i] >= tries[i]
      BY <1>0, <1>00, <1>3, <2>1, <2>0, Ending DEF Refuse, Attempt, Local, Typed, Go, vars
    <3>2. Holds(i)'
      BY <1>0, <1>00, <1>3, <2>1, <2>0, Ending DEF Refuse, Attempt, Typed, vars, Holds, Finished, Unfinished, Go, At, Runs, Live
    <3>3. QED
      BY <3>1, <3>2
  <2>2. CASE tries[i] + 1 # MaxAttempts
    <3>1. Local(i) /\ Typed(i)' /\ tries'[i] >= tries[i]
      BY <1>0, <1>00, <1>3, <2>2, <2>0 DEF Refuse, Attempt, Local, Typed, Go, vars
    <3>2. Holds(i)'
      BY <1>0, <1>00, <1>3, <2>2, <2>0 DEF Refuse, Attempt, Typed, vars, Holds, Finished, Unfinished, Go, At, Runs, Live
    <3>3. QED
      BY <3>1, <3>2
  <2>3. QED
    BY <1>3, <1>00, <2>1, <2>2, <2>0 DEF Refuse, Attempt, Typed
<1>4. CASE CallPassthrough(i)
  <2>0. tries[i] < MaxAttempts
    BY <1>4 DEF CallPassthrough, Attempt, Holds
  <2>1. Local(i) /\ Typed(i)' /\ tries'[i] >= tries[i]
    BY <1>0, <1>00, <1>4, <2>0 DEF CallPassthrough, Attempt, Local, Typed, Go, vars
  <2>2. Holds(i)'
    BY <1>0, <1>00, <1>4 DEF CallPassthrough, Attempt, Typed, vars, Holds, Finished, Unfinished, Go, At, Runs, Live
  <2>3. QED
    BY <2>1, <2>2
<1>5. CASE CallDirect(i)
  <2>0. tries[i] < MaxAttempts
    BY <1>5 DEF CallDirect, Attempt, Holds
  <2>1. Local(i) /\ Typed(i)' /\ tries'[i] >= tries[i]
    BY <1>0, <1>00, <1>5, <2>0 DEF CallDirect, Attempt, Local, Typed, Go, vars
  <2>2. Holds(i)'
    BY <1>0, <1>00, <1>5 DEF CallDirect, Attempt, Typed, vars, Holds, Finished, Unfinished, Go, At, Runs, Live
  <2>3. QED
    BY <2>1, <2>2
<1>6. CASE CallClaude(i)
  <2>0. tries[i] < MaxAttempts
    BY <1>6 DEF CallClaude, Attempt, Holds
  <2>1. Local(i) /\ Typed(i)' /\ tries'[i] >= tries[i]
    BY <1>0, <1>00, <1>6, <2>0 DEF CallClaude, Attempt, Local, Typed, Go, vars
  <2>2. Holds(i)'
    BY <1>0, <1>00, <1>6 DEF CallClaude, Attempt, Typed, vars, Holds, Finished, Unfinished, Go, At, Runs, Live
  <2>3. QED
    BY <2>1, <2>2
<1>7. CASE RequestEnds(i)
  <2>1. Local(i) /\ Typed(i)' /\ tries'[i] >= tries[i]
    BY <1>0, <1>00, <1>7, Ending DEF RequestEnds, Local, Typed, Go, vars
  <2>2. Holds(i)'
    BY <1>0, <1>00, <1>7, Ending DEF RequestEnds, Typed, vars, Holds, Finished, Unfinished, Go, At, Runs, Live
  <2>3. QED
    BY <2>1, <2>2
<1>8. CASE Spawned(i)
  <2>1. CASE Fail(i) /\ scratch' = [scratch EXCEPT ![i] = FALSE] /\ UNCHANGED child
    <3>1. Local(i) /\ Typed(i)' /\ tries'[i] >= tries[i]
      BY <1>0, <1>00, <1>8, <2>1, Ending DEF Spawned, Local, Typed, Go, vars
    <3>2. Holds(i)'
      BY <1>0, <1>00, <1>8, <2>1, Ending DEF Spawned, Typed, vars, Holds, Finished, Unfinished, Go, At, Runs, Live
    <3>3. QED
      BY <3>1, <3>2
  <2>2. CASE Go(i, "talking") /\ child' = [child EXCEPT ![i] = "running"] /\ UNCHANGED <<vars, scratch>>
    <3>1. Local(i) /\ Typed(i)' /\ tries'[i] >= tries[i]
      BY <1>0, <1>00, <1>8, <2>2 DEF Spawned, Local, Typed, Go, vars
    <3>2. Holds(i)'
      BY <1>0, <1>00, <1>8, <2>2 DEF Spawned, Typed, vars, Holds, Finished, Unfinished, Go, At, Runs, Live
    <3>3. QED
      BY <3>1, <3>2
  <2>3. QED
    BY <1>8, <1>00, <2>1, <2>2 DEF Spawned, Typed
<1>9. CASE ChildAnswers(i)
  <2>1. Local(i) /\ Typed(i)' /\ tries'[i] >= tries[i]
    BY <1>0, <1>00, <1>9, Ending DEF ChildAnswers, Local, Typed, Go, vars
  <2>2. Holds(i)'
    BY <1>0, <1>00, <1>9, Ending DEF ChildAnswers, Typed, vars, Holds, Finished, Unfinished, Go, At, Runs, Live
  <2>3. QED
    BY <2>1, <2>2
<1>10. CASE TimesOut(i)
  <2>1. Local(i) /\ Typed(i)' /\ tries'[i] >= tries[i]
    BY <1>0, <1>00, <1>10 DEF TimesOut, Reap, Local, Typed, Go, vars
  <2>2. Holds(i)'
    BY <1>0, <1>00, <1>10 DEF TimesOut, Reap, Typed, vars, Holds, Finished, Unfinished, Go, At, Runs, Live
  <2>3. QED
    BY <2>1, <2>2
<1>11. CASE TalkingCancelled(i)
  <2>1. Local(i) /\ Typed(i)' /\ tries'[i] >= tries[i]
    BY <1>0, <1>00, <1>11 DEF TalkingCancelled, Reap, Local, Typed, Go, vars
  <2>2. Holds(i)'
    BY <1>0, <1>00, <1>11 DEF TalkingCancelled, Reap, Typed, vars, Holds, Finished, Unfinished, Go, At, Runs, Live
  <2>3. QED
    BY <2>1, <2>2
<1>12. CASE Reaped(i)
  <2>0. why[i] \in {"timeout", "cancelled", "killed"}
    BY <1>00, <1>12 DEF Reaped, At, Holds, Typed
  <2>1. CASE why[i] = "timeout"
    <3>1. Local(i) /\ Typed(i)' /\ tries'[i] >= tries[i]
      BY <1>0, <1>00, <1>12, <2>1, <2>0, Ending DEF Reaped, Local, Typed, Go, vars
    <3>2. Holds(i)'
      BY <1>0, <1>00, <1>12, <2>1, <2>0, Ending DEF Reaped, Typed, vars, Holds, Finished, Unfinished, Go, At, Runs, Live
    <3>3. QED
      BY <3>1, <3>2
  <2>2. CASE why[i] = "cancelled"
    <3>1. Local(i) /\ Typed(i)' /\ tries'[i] >= tries[i]
      BY <1>0, <1>00, <1>12, <2>2, <2>0, Ending DEF Reaped, Local, Typed, Go, vars
    <3>2. Holds(i)'
      BY <1>0, <1>00, <1>12, <2>2, <2>0, Ending DEF Reaped, Typed, vars, Holds, Finished, Unfinished, Go, At, Runs, Live
    <3>3. QED
      BY <3>1, <3>2
  <2>3. CASE why[i] = "killed"
    <3>1. Local(i) /\ Typed(i)' /\ tries'[i] >= tries[i]
      BY <1>0, <1>00, <1>12, <2>3, <2>0, Ending DEF Reaped, Local, Typed, Go, vars
    <3>2. Holds(i)'
      BY <1>0, <1>00, <1>12, <2>3, <2>0, Ending DEF Reaped, Typed, vars, Holds, Finished, Unfinished, Go, At, Runs, Live
    <3>3. QED
      BY <3>1, <3>2
  <2>4. QED
    BY <1>12, <1>00, <2>1, <2>2, <2>3, <2>0 DEF Reaped, Typed
<1>13. CASE ChildExits(i)
  <2>1. Local(i) /\ Typed(i)' /\ tries'[i] >= tries[i]
    BY <1>0, <1>00, <1>13 DEF ChildExits, Local, Typed, Go, vars
  <2>2. Holds(i)'
    BY <1>0, <1>00, <1>13 DEF ChildExits, Typed, vars, Holds, Finished, Unfinished, Go, At, Runs, Live
  <2>3. QED
    BY <2>1, <2>2
<1>14. CASE Slept(i)
  <2>1. Local(i) /\ Typed(i)' /\ tries'[i] >= tries[i]
    BY <1>0, <1>00, <1>14 DEF Slept, Local, Typed, Go, vars
  <2>2. Holds(i)'
    BY <1>0, <1>00, <1>14 DEF Slept, Typed, vars, Holds, Finished, Unfinished, Go, At, Runs, Live
  <2>3. QED
    BY <2>1, <2>2
<1>15. CASE CancelledAtAwait(i)
  <2>1. Local(i) /\ Typed(i)' /\ tries'[i] >= tries[i]
    BY <1>0, <1>00, <1>15, Ending DEF CancelledAtAwait, Ends, Local, Typed, Go, vars
  <2>2. Holds(i)'
    BY <1>0, <1>00, <1>15, Ending DEF CancelledAtAwait, Ends, Typed, vars, Holds, Finished, Unfinished, Go, At, Runs, Live
  <2>3. QED
    BY <2>1, <2>2
<1>16. CASE Killed(i)
  <2>1. CASE Ends(i, Raise(i))
    <3>1. Local(i) /\ Typed(i)' /\ tries'[i] >= tries[i]
      BY <1>0, <1>00, <1>16, <2>1, Ending DEF Killed, Ends, Reap, Local, Typed, Go, vars
    <3>2. Holds(i)'
      BY <1>0, <1>00, <1>16, <2>1, Ending DEF Killed, Ends, Reap, Typed, vars, Holds, Finished, Unfinished, Go, At, Runs, Live
    <3>3. QED
      BY <3>1, <3>2
  <2>2. CASE At(i, "talking") /\ ~Hit(i) /\ Reap(i, "killed")
    <3>1. Local(i) /\ Typed(i)' /\ tries'[i] >= tries[i]
      BY <1>0, <1>00, <1>16, <2>2, Ending DEF Killed, Ends, Reap, Local, Typed, Go, vars
    <3>2. Holds(i)'
      BY <1>0, <1>00, <1>16, <2>2, Ending DEF Killed, Ends, Reap, Typed, vars, Holds, Finished, Unfinished, Go, At, Runs, Live
    <3>3. QED
      BY <3>1, <3>2
  <2>3. CASE At(i, "request") /\ ~Hit(i) /\ HangUp(i, "killed")
    <3>1. Local(i) /\ Typed(i)' /\ tries'[i] >= tries[i]
      BY <1>0, <1>00, <1>16, <2>3 DEF Killed, HangUp, Local, Typed, Go, vars
    <3>2. Holds(i)'
      BY <1>0, <1>00, <1>16, <2>3 DEF Killed, HangUp, Typed, vars, Holds, Finished, Unfinished, Go, At, Runs, Live
    <3>3. QED
      BY <3>1, <3>2
  <2>4. CASE HangUpCut(i, Raise(i) /\ Over(i)) /\ UNCHANGED lost
    <3>1. Local(i) /\ Typed(i)' /\ tries'[i] >= tries[i]
      BY <1>0, <1>00, <1>16, <2>4, Ending DEF Killed, HangUpCut, Local, Typed, Go, vars
    <3>2. Holds(i)'
      BY <1>0, <1>00, <1>16, <2>4, Ending DEF Killed, HangUpCut, Typed, vars, Holds, Finished, Unfinished, Go, At, Runs, Live
    <3>3. QED
      BY <3>1, <3>2
  <2>5. QED
    BY <1>16, <1>00, <2>1, <2>2, <2>3, <2>4 DEF Killed, Typed
<1>17. CASE Answered(i)
  <2>1. Local(i) /\ Typed(i)' /\ tries'[i] >= tries[i]
    BY <1>0, <1>00, <1>17 DEF Answered, HangUp, Local, Typed, Go, vars
  <2>2. Holds(i)'
    BY <1>0, <1>00, <1>17 DEF Answered, HangUp, Typed, vars, Holds, Finished, Unfinished, Go, At, Runs, Live
  <2>3. QED
    BY <2>1, <2>2
<1>18. CASE RequestCancelled(i)
  <2>1. Local(i) /\ Typed(i)' /\ tries'[i] >= tries[i]
    BY <1>0, <1>00, <1>18 DEF RequestCancelled, HangUp, Local, Typed, Go, vars
  <2>2. Holds(i)'
    BY <1>0, <1>00, <1>18 DEF RequestCancelled, HangUp, Typed, vars, Holds, Finished, Unfinished, Go, At, Runs, Live
  <2>3. QED
    BY <2>1, <2>2
<1>19. CASE HungUp(i)
  <2>0. why[i] \in {"none", "cancelled", "killed"}
    BY <1>00, <1>19 DEF HungUp, At, Holds, Typed
  <2>1. CASE why[i] = "none"
    <3>1. Local(i) /\ Typed(i)' /\ tries'[i] >= tries[i]
      BY <1>0, <1>00, <1>19, <2>1, <2>0, Ending DEF HungUp, Local, Typed, Go, vars
    <3>2. Holds(i)'
      BY <1>0, <1>00, <1>19, <2>1, <2>0, Ending DEF HungUp, Typed, vars, Holds, Finished, Unfinished, Go, At, Runs, Live
    <3>3. QED
      BY <3>1, <3>2
  <2>2. CASE why[i] = "cancelled"
    <3>1. Local(i) /\ Typed(i)' /\ tries'[i] >= tries[i]
      BY <1>0, <1>00, <1>19, <2>2, <2>0, Ending DEF HungUp, Local, Typed, Go, vars
    <3>2. Holds(i)'
      BY <1>0, <1>00, <1>19, <2>2, <2>0, Ending DEF HungUp, Typed, vars, Holds, Finished, Unfinished, Go, At, Runs, Live
    <3>3. QED
      BY <3>1, <3>2
  <2>3. CASE why[i] = "killed"
    <3>1. Local(i) /\ Typed(i)' /\ tries'[i] >= tries[i]
      BY <1>0, <1>00, <1>19, <2>3, <2>0, Ending DEF HungUp, Local, Typed, Go, vars
    <3>2. Holds(i)'
      BY <1>0, <1>00, <1>19, <2>3, <2>0, Ending DEF HungUp, Typed, vars, Holds, Finished, Unfinished, Go, At, Runs, Live
    <3>3. QED
      BY <3>1, <3>2
  <2>4. QED
    BY <2>0, <2>1, <2>2, <2>3
<1>20. CASE HangUpCancelled(i)
  <2>1. Local(i) /\ Typed(i)' /\ tries'[i] >= tries[i]
    BY <1>0, <1>00, <1>20, Ending DEF HangUpCancelled, HangUpCut, Local, Typed, Go, vars
  <2>2. Holds(i)'
    BY <1>0, <1>00, <1>20, Ending DEF HangUpCancelled, HangUpCut, Typed, vars, Holds, Finished, Unfinished, Go, At, Runs, Live
  <2>3. QED
    BY <2>1, <2>2
<1>21. CASE HangUpFails(i)
  <2>1. Local(i) /\ Typed(i)' /\ tries'[i] >= tries[i]
    BY <1>0, <1>00, <1>21, Ending DEF HangUpFails, HangUpCut, Local, Typed, Go, vars
  <2>2. Holds(i)'
    BY <1>0, <1>00, <1>21, Ending DEF HangUpFails, HangUpCut, Typed, vars, Holds, Finished, Unfinished, Go, At, Runs, Live
  <2>3. QED
    BY <2>1, <2>2
<1>22. QED
  BY <1>1, <1>2, <1>3, <1>4, <1>5, <1>6, <1>7, <1>8, <1>9, <1>10, <1>11, <1>12, <1>13, <1>14, <1>15, <1>16,
     <1>17, <1>18, <1>19, <1>20, <1>21 DEF CallStep

(***************************************************************************)
(* The cache of shared clients.                                            *)
(***************************************************************************)

(* The sequence without its i-th element. *)
LEMMA Removed ==
  ASSUME NEW S, NEW s \in Seq(S), NEW i \in 1..Len(s)
  PROVE  LET r == RemoveAt(s, i) IN
         /\ r \in Seq(S) /\ Len(r) = Len(s) - 1
         /\ \A m \in 1..Len(s) - 1 : r[m] = IF m < i THEN s[m] ELSE s[m + 1]
<1> DEFINE a == SubSeq(s, 1, i - 1)  b == SubSeq(s, i + 1, Len(s))
<1>1. Len(s) \in Nat /\ \A m \in 1..Len(s) : s[m] \in S
  BY LenProperties
<1>2. a \in Seq(S) /\ Len(a) = i - 1 /\ \A m \in 1..i - 1 : a[m] = s[m]
  <2>1. /\ SubSeq(s, 1, i - 1) \in Seq(S) /\ Len(SubSeq(s, 1, i - 1)) = IF 1 <= i - 1 THEN i - 1 - 1 + 1 ELSE 0
        /\ \A m \in 1..i - 1 - 1 + 1 : SubSeq(s, 1, i - 1)[m] = s[1 + m - 1]
    <3>1. \A m \in 1..i - 1 : s[m] \in S
      BY <1>1
    <3>2. QED
      BY <3>1, SubSeqProperties
  <2>2. QED
    BY <1>1, <2>1
<1>3. b \in Seq(S) /\ Len(b) = Len(s) - i /\ \A m \in 1..Len(s) - i : b[m] = s[i + m]
  <2>1. /\ SubSeq(s, i + 1, Len(s)) \in Seq(S) /\ Len(SubSeq(s, i + 1, Len(s))) = IF i + 1 <= Len(s) THEN Len(s) - (i + 1) + 1 ELSE 0
        /\ \A m \in 1..Len(s) - (i + 1) + 1 : SubSeq(s, i + 1, Len(s))[m] = s[i + 1 + m - 1]
    <3>1. \A m \in i + 1..Len(s) : s[m] \in S
      BY <1>1
    <3>2. i + 1 \in Int /\ Len(s) \in Int
      BY <1>1
    <3>3. QED
      BY <3>1, <3>2, SubSeqProperties
  <2>2. QED
    BY <1>1, <2>1
<1> HIDE DEF a, b
<1>4. a \o b \in Seq(S) /\ Len(a \o b) = Len(a) + Len(b) /\ \A m \in 1..Len(a) + Len(b) : (a \o b)[m] = IF m <= Len(a) THEN a[m] ELSE b[m - Len(a)]
  <2>1. a \in Seq(S) /\ b \in Seq(S)
    BY <1>2, <1>3
  <2>2. QED
    BY <2>1, ConcatProperties
<1>5. \A m \in 1..Len(s) - 1 : (a \o b)[m] = IF m < i THEN s[m] ELSE s[m + 1]
  <2> SUFFICES ASSUME NEW m \in 1..Len(s) - 1 PROVE (a \o b)[m] = IF m < i THEN s[m] ELSE s[m + 1]
    OBVIOUS
  <2>1. CASE m < i
    BY <1>1, <1>2, <1>3, <1>4, <2>1
  <2>2. CASE ~(m < i)
    <3>1. m - Len(a) \in 1..Len(s) - i /\ (a \o b)[m] = b[m - Len(a)] /\ i + (m - Len(a)) = m + 1
      BY <1>1, <1>2, <1>3, <1>4, <2>2
    <3>2. QED
      BY <1>3, <2>2, <3>1
  <2>3. QED
    BY <2>1, <2>2
<1>6. RemoveAt(s, i) = a \o b
  BY DEF RemoveAt, a, b
<1>7. Len(a) + Len(b) = Len(s) - 1
  BY <1>1, <1>2, <1>3
<1>8. QED
  BY <1>4, <1>5, <1>6, <1>7

(* A look-up keeps the cache and the clients to close in order: a hit only *)
(* moves a client to the end, a miss adds one nobody has, in the place of  *)
(* the oldest when the cache is full.                                      *)
InOrder(l, cl) ==
  /\ l \in Seq(Client) /\ cl \subseteq Client
  /\ ToSet(l) \cap cl = {} /\ Len(l) <= CacheSize
  /\ \A m, n \in DOMAIN l : m # n => l[m][1] # l[n][1]

LEMMA HitKeepsOrder ==
  ASSUME CallTypeOK, Shared, NEW hit \in DOMAIN lru
  PROVE  LET l == Append(RemoveAt(lru, hit), lru[hit]) IN InOrder(l, closing) /\ ToSet(l) = ToSet(lru)
<1> DEFINE r == RemoveAt(lru, hit)  l == Append(r, lru[hit])  L == Len(lru)
           from(m) == IF m = L THEN hit ELSE IF m < hit THEN m ELSE m + 1
           to(n) == IF n = hit THEN L ELSE IF n < hit THEN n ELSE n - 1
<1>1. lru \in Seq(Client) /\ L \in Nat /\ DOMAIN lru = 1..L /\ hit \in 1..L /\ lru[hit] \in Client
  BY LenProperties DEF CallTypeOK
<1>2. r \in Seq(Client) /\ Len(r) = L - 1 /\ \A m \in 1..L - 1 : r[m] = IF m < hit THEN lru[m] ELSE lru[m + 1]
  BY <1>1, Removed
<1> HIDE DEF r
<1>3. l \in Seq(Client) /\ Len(l) = L /\ DOMAIN l = 1..L /\ l[L] = lru[hit] /\ \A m \in 1..L - 1 : l[m] = r[m]
  <2>1. /\ Append(r, lru[hit]) \in Seq(Client) /\ Len(Append(r, lru[hit])) = Len(r) + 1
        /\ \A m \in 1..Len(r) : Append(r, lru[hit])[m] = r[m]
        /\ Append(r, lru[hit])[Len(r) + 1] = lru[hit]
    <3>1. r \in Seq(Client) /\ lru[hit] \in Client
      BY <1>1, <1>2
    <3>2. QED
      BY <3>1, AppendProperties
  <2>2. Append(r, lru[hit]) \in Seq(Client) /\ Len(Append(r, lru[hit])) = L
    BY <1>1, <1>2, <2>1
  <2>3. DOMAIN Append(r, lru[hit]) = 1..L
    BY <2>2, LenProperties
  <2>4. QED
    BY <1>1, <1>2, <2>1, <2>2, <2>3
<1> HIDE DEF l, L
<1>4. \A m \in 1..L : from(m) \in 1..L /\ l[m] = lru[from(m)]
  <2> SUFFICES ASSUME NEW m \in 1..L PROVE from(m) \in 1..L /\ l[m] = lru[from(m)]
    OBVIOUS
  <2>1. CASE m = L
    BY <1>1, <1>3, <2>1
  <2>2. CASE m # L
    <3>1. m \in 1..L - 1 /\ from(m) \in 1..L
      BY <1>1, <2>2
    <3>2. l[m] = IF m < hit THEN lru[m] ELSE lru[m + 1]
      BY <1>2, <1>3, <3>1
    <3>3. QED
      BY <2>2, <3>1, <3>2
  <2>3. QED
    BY <2>1, <2>2
<1>5. \A n \in 1..L : to(n) \in 1..L /\ from(to(n)) = n
  BY <1>1
<1>6. \A m, n \in 1..L : m # n => from(m) # from(n)
  BY <1>1
<1> HIDE DEF from, to
<1>7. ToSet(l) = ToSet(lru)
  <2>1. ASSUME NEW n \in 1..L PROVE lru[n] \in ToSet(l)
    <3>1. to(n) \in 1..L /\ l[to(n)] = lru[n]
      BY <1>4, <1>5
    <3>2. QED
      BY <1>3, <3>1 DEF ToSet
  <2>2. ASSUME NEW m \in 1..L PROVE l[m] \in ToSet(lru)
    BY <1>1, <1>4 DEF ToSet
  <2>3. QED
    BY <1>1, <1>3, <2>1, <2>2 DEF ToSet
<1>8. \A m, n \in 1..L : m # n => l[m][1] # l[n][1]
  <2>1. \A m, n \in 1..L : m # n => lru[m][1] # lru[n][1]
    BY <1>1 DEF Shared
  <2>2. QED
    BY <1>4, <1>6, <2>1
<1>9. QED
  BY <1>1, <1>3, <1>7, <1>8 DEF InOrder, Shared, CallTypeOK, L, l, r

LEMMA MissKeepsOrder ==
  ASSUME CallTypeOK, Shared, NEW fresh \in Client, fresh \notin open,
         \A n \in DOMAIN lru : lru[n][1] # fresh[1]
  PROVE  LET full == Len(lru) >= CacheSize
             l    == Append(IF full THEN Tail(lru) ELSE lru, fresh)
             cl   == IF full THEN closing \cup {Head(lru)} ELSE closing IN
         InOrder(l, cl) /\ ToSet(l) \cup cl = open \cup {fresh}
<1> DEFINE L == Len(lru)  full == L >= CacheSize
           kept == IF full THEN Tail(lru) ELSE lru
           l == Append(kept, fresh)
           cl == IF full THEN closing \cup {Head(lru)} ELSE closing
           off == IF full THEN 1 ELSE 0
<1>1. /\ lru \in Seq(Client) /\ L \in Nat /\ DOMAIN lru = 1..L /\ \A n \in 1..L : lru[n] \in Client
      /\ L <= CacheSize /\ CacheSize \in Nat \ {0}
  BY LenProperties, CallAssumption DEF CallTypeOK, Shared
<1>2. kept \in Seq(Client) /\ Len(kept) = L - off /\ \A m \in 1..L - off : kept[m] = lru[m + off]
  <2>1. CASE full
    <3>1. lru # <<>>
      BY <1>1, <2>1
    <3>2. Tail(lru) \in Seq(Client) /\ Len(Tail(lru)) = L - 1 /\ \A m \in 1..L - 1 : Tail(lru)[m] = lru[m + 1]
      BY <1>1, <3>1, HeadTailProperties
    <3>3. QED
      BY <2>1, <3>2
  <2>2. CASE ~full
    BY <1>1, <2>2
  <2>3. QED
    BY <2>1, <2>2
<1> DEFINE K == Len(kept)
<1>3. full => cl = closing \cup {lru[1]} /\ L = CacheSize /\ L >= 1
  <2>1. ASSUME full PROVE Head(lru) = lru[1] /\ L = CacheSize /\ L >= 1
    <3>1. L \in Nat /\ L <= CacheSize /\ CacheSize \in Nat \ {0} /\ L >= CacheSize
      BY <1>1, <2>1
    <3>2. L >= 1 /\ L = CacheSize
      <4> HIDE DEF L
      <4>1. QED
        BY <3>1
    <3>3. lru # <<>>
      BY <3>2
    <3>4. QED
      BY <1>1, <3>2, <3>3
  <2>2. QED
    BY <2>1
<1>4. ~full => cl = closing
  OBVIOUS
<1>5. off \in {0, 1} /\ (off = 1 <=> full) /\ K = L - off /\ K \in Nat /\ K + 1 <= CacheSize
  BY <1>1, <1>2
<1> HIDE DEF kept, cl, off, full
<1>6. l \in Seq(Client) /\ Len(l) = K + 1 /\ DOMAIN l = 1..K + 1 /\ l[K + 1] = fresh /\ \A m \in 1..K : l[m] = kept[m]
  BY <1>2, AppendProperties
<1> HIDE DEF l, L, K
<1>7. \A m \in 1..K : m + off \in 1..L /\ l[m] = lru[m + off]
  BY <1>1, <1>2, <1>5, <1>6
<1>8. \A m, n \in 1..L : m # n => lru[m][1] # lru[n][1]
  BY <1>1 DEF Shared
<1>9. \A m, n \in 1..K + 1 : m # n => l[m][1] # l[n][1]
  <2>1. ASSUME NEW m \in 1..K, NEW n \in 1..K, m # n PROVE l[m][1] # l[n][1]
    <3>1. m + off # n + off
      BY <1>5, <2>1
    <3>2. QED
      BY <1>7, <1>8, <3>1
  <2>2. ASSUME NEW m \in 1..K PROVE l[m][1] # fresh[1]
    BY <1>1, <1>7
  <2>3. \A m \in 1..K + 1 : m \in 1..K \/ m = K + 1
    BY <1>5
  <2>4. QED
    BY <1>6, <2>1, <2>2, <2>3
<1>10. ToSet(l) = {lru[n] : n \in 1 + off..L} \cup {fresh}
  <2>1. ASSUME NEW x \in ToSet(l) PROVE x \in {lru[n] : n \in 1 + off..L} \cup {fresh}
    <3>1. PICK m \in 1..K + 1 : x = l[m]
      BY <1>6 DEF ToSet
    <3>2. CASE m = K + 1
      BY <1>6, <3>1, <3>2
    <3>3. CASE m # K + 1
      <4>1. m \in 1..K /\ m + off \in 1 + off..L
        BY <1>5, <1>1, <3>3
      <4>2. QED
        BY <1>7, <3>1, <4>1
    <3>4. QED
      BY <3>2, <3>3
  <2>2. ASSUME NEW n \in 1 + off..L PROVE lru[n] \in ToSet(l)
    <3>1. n - off \in 1..K /\ (n - off) + off = n /\ n - off \in 1..K + 1
      BY <1>1, <1>5
    <3>2. lru[n] = l[n - off]
      BY <1>7, <3>1
    <3>3. QED
      BY <1>6, <3>1, <3>2 DEF ToSet
  <2>3. fresh \in ToSet(l)
    <3>1. K + 1 \in 1..K + 1
      BY <1>5
    <3>2. QED
      BY <1>6, <3>1 DEF ToSet
  <2>4. QED
    BY <2>1, <2>2, <2>3
<1>11. /\ open = ToSet(lru) \cup closing /\ ToSet(lru) \cap closing = {} /\ closing \subseteq Client
       /\ ToSet(lru) = {lru[n] : n \in 1..L}
  BY <1>1 DEF Shared, CallTypeOK, ToSet
<1>12. CASE full
  <2>1. 1..L = {1} \cup 2..L /\ 1 \in 1..L /\ off = 1 /\ 1 + off = 2
    BY <1>1, <1>3, <1>5, <1>12
  <2>2. \A n \in 2..L : n \in 1..L /\ lru[n] # lru[1]
    BY <1>1, <1>8, <2>1
  <2>3. ToSet(lru) = {lru[n] : n \in 2..L} \cup {lru[1]}
    BY <1>11, <2>1
  <2>4. ToSet(l) \cap cl = {} /\ ToSet(l) \cup cl = open \cup {fresh} /\ cl \subseteq Client
    <3>1. lru[1] \in Client /\ lru[1] # fresh
      BY <1>1, <1>11, <2>1
    <3>2. QED
      BY <1>3, <1>10, <1>11, <1>12, <2>1, <2>2, <2>3, <3>1
  <2>5. QED
    BY <1>5, <1>6, <1>9, <2>4 DEF InOrder, l, kept, cl, full, L
<1>13. CASE ~full
  <2>1. off = 0 /\ 1 + off = 1
    BY <1>5, <1>13
  <2>2. ToSet(l) \cap cl = {} /\ ToSet(l) \cup cl = open \cup {fresh} /\ cl \subseteq Client
    BY <1>4, <1>10, <1>11, <1>13, <2>1
  <2>3. QED
    BY <1>5, <1>6, <1>9, <2>2 DEF InOrder, l, kept, cl, full, L
<1>14. QED
  BY <1>12, <1>13

(* A direct call: the client it gets is cached, and is new or was open.    *)
LEMMA DirectShared ==
  ASSUME CallTypeOK, Shared, NEW i \in Item, Holds(i), CallDirect(i)
  PROVE  /\ client' \in [Item -> Client \cup {NoClient}] /\ open' \subseteq Client
         /\ InOrder(lru', closing') /\ open' = ToSet(lru') \cup closing'
         /\ \A c \in open' : c[3] <= tries'[c[2]]
<1>1. PICK cred \in Creds :
        LET got == GetClient(cred, <<cred, i, tries[i] + 1>>) IN
        /\ client' = [client EXCEPT ![i] = got.client]
        /\ lru' = got.lru /\ closing' = got.closing /\ open' = open \cup {got.client}
  BY DEF CallDirect
<1> DEFINE fresh == <<cred, i, tries[i] + 1>>
           held == {n \in DOMAIN lru : lru[n][1] = cred}
           hit  == CHOOSE n \in held : TRUE
           full == Len(lru) >= CacheSize
           got  == GetClient(cred, fresh)
<1>2. /\ tries[i] \in Nat /\ tries[i] + 1 \in 1..MaxAttempts
      /\ tries' = [tries EXCEPT ![i] = tries[i] + 1] /\ DOMAIN tries = Item
  BY CallAssumption DEF CallDirect, Attempt, Holds, CallTypeOK
<1>3. fresh \in Client /\ fresh[1] = cred /\ fresh[2] = i /\ fresh[3] = tries[i] + 1
  BY <1>2 DEF Client
<1>4. /\ client' = [client EXCEPT ![i] = got.client]
      /\ lru' = got.lru /\ closing' = got.closing /\ open' = open \cup {got.client}
  BY <1>1
<1>5. \A c \in Client : c[2] \in Item /\ tries[c[2]] \in Nat /\ c[3] \in Nat
  BY CallAssumption DEF Client, CallTypeOK
<1>6. /\ open \subseteq Client /\ closing \subseteq Client /\ open = ToSet(lru) \cup closing
      /\ client \in [Item -> Client \cup {NoClient}]
      /\ \A c \in open : c[3] <= tries[c[2]]
  BY DEF CallTypeOK, Shared
<1>7. \A c \in open : c[3] <= tries'[c[2]]
  BY <1>2, <1>5, <1>6
<1>8. CASE held # {}
  <2>1. /\ got.lru = Append(RemoveAt(lru, hit), lru[hit]) /\ got.closing = closing
        /\ got.client = lru[hit]
    BY <1>8 DEF GetClient
  <2>2. hit \in DOMAIN lru
    BY <1>8
  <2> HIDE DEF got, hit
  <2>3. InOrder(lru', closing') /\ ToSet(lru') = ToSet(lru)
    BY <1>4, <2>1, <2>2, HitKeepsOrder
  <2>4. lru[hit] \in ToSet(lru)
    BY <2>2 DEF ToSet
  <2>5. open' = open
    BY <1>4, <1>6, <2>1, <2>4
  <2>6. closing' = closing /\ client' \in [Item -> Client \cup {NoClient}]
    BY <1>4, <1>6, <2>1, <2>4
  <2>7. QED
    BY <1>6, <1>7, <2>3, <2>5, <2>6
<1>9. CASE held = {}
  <2>1. /\ got.lru = Append(IF full THEN Tail(lru) ELSE lru, fresh)
        /\ got.closing = IF full THEN closing \cup {Head(lru)} ELSE closing
        /\ got.client = fresh
    BY <1>9 DEF GetClient
  <2>2. \A n \in DOMAIN lru : lru[n][1] # fresh[1]
    BY <1>3, <1>9
  <2> HIDE DEF got, fresh
  <2>3. fresh \notin open
    BY <1>2, <1>3, <1>6
  <2>4. InOrder(lru', closing') /\ ToSet(lru') \cup closing' = open \cup {fresh}
    BY <1>3, <1>4, <2>1, <2>2, <2>3, MissKeepsOrder
  <2>5. client' \in [Item -> Client \cup {NoClient}]
    BY <1>3, <1>4, <1>6, <2>1
  <2>6. open' = open \cup {fresh} /\ fresh[3] <= tries'[fresh[2]]
    BY <1>2, <1>3, <1>4, <2>1
  <2>7. QED
    BY <1>3, <1>6, <1>7, <2>4, <2>5, <2>6
<1>10. QED
  BY <1>8, <1>9

(* A closed client was evicted before, so it is not cached.                *)
LEMMA CloseShared ==
  ASSUME CallTypeOK, Shared, NEW c \in closing, SafeClose(c)
  PROVE  /\ lru' = lru /\ closing' \subseteq closing /\ open' \subseteq open
         /\ open' = ToSet(lru) \cup closing' /\ ToSet(lru) \cap closing' = {}
BY DEF SafeClose, Shared

-----------------------------------------------------------------------------
(* Every step of JudgeCalls is one of JudgeOrchestrator or changes nothing *)
(* it sees.                                                                *)
LEMMA CallImplements ==
  ASSUME CallInv, [CallNext]_allVars
  PROVE  [Next]_vars
<1>1. CASE (Submit \/ Collect \/ Wake \/ Abandon) /\ UNCHANGED callVars
  BY <1>1 DEF Next
<1>2. ASSUME NEW i \in Item, CallStep(i) \/ Killed(i) PROVE [Next]_vars
  BY <1>2, StepImplements DEF Next, CallInv
<1>3. ASSUME NEW c \in closing, SafeClose(c) PROVE [Next]_vars
  BY <1>3 DEF SafeClose
<1>4. CASE UNCHANGED allVars
  BY <1>4 DEF allVars
<1>5. QED
  BY <1>1, <1>2, <1>3, <1>4 DEF CallNext

LEMMA CallInitHolds == CallInit => CallInv
<1> SUFFICES ASSUME CallInit PROVE CallInv
  OBVIOUS
<1>1. 0 \in 0..MaxAttempts /\ 0 < MaxAttempts /\ Len(<<>>) <= CacheSize
  BY CallAssumption
<1>2. CallTypeOK
  <2>1. PICK ref \in Refs, user \in BOOLEAN, reg \in BOOLEAN : route = Dispatched(ref, user, reg)
    BY DEF CallInit
  <2>2. route \in {"error", "registry", "passthrough"}
    <3>1. CASE ref = "user_credentials"
      BY <2>1, <3>1 DEF Dispatched
    <3>2. CASE ref = "provider"
      BY <2>1, <3>2 DEF Dispatched
    <3>3. CASE ref = "user_then_provider"
      BY <2>1, <3>3 DEF Dispatched
    <3>4. CASE ref = "user_then_fail"
      BY <2>1, <3>4 DEF Dispatched
    <3>5. QED
      BY <2>1, <3>1, <3>2, <3>3, <3>4 DEF Refs
  <2>3. QED
    BY <1>1, <2>2 DEF CallInit, CallTypeOK
<1>3. ASSUME NEW i \in Item PROVE Holds(i)
  BY <1>1 DEF CallInit, Init, Holds, Item
<1>4. Shared
  BY <1>1 DEF CallInit, Shared, ToSet
<1>5. QED
  BY <1>2, <1>3, <1>4 DEF CallInv

(* collect and submit, which the calls do not see.                         *)
LEMMA CollectHolds ==
  ASSUME IndInv, CallInv, Submit \/ Collect \/ Wake \/ Abandon, UNCHANGED callVars
  PROVE  CallInv'
<1>1. CallTypeOK' /\ Shared'
  BY DEF callVars, CallInv, CallTypeOK, Shared
<1>2. ASSUME NEW i \in Item
      PROVE  Holds(i)'
  <2>1. Holds(i) /\ i \in Nat /\ count \in Nat /\ i > 0
    BY DEF CallInv, IndInv, TypeOK, Item
  <2>2. /\ i > count' => i > count
        /\ i <= count' => (Finished(i)' <=> pc[i] = "over")
    <3> USE DEF Finished, Unfinished
    <3>1. CASE Submit
      <4>1. count' = count + 1 /\ count + 1 \in Item /\ DOMAIN task = Item
            /\ task' = [task EXCEPT ![count + 1] = "running"]
        BY <3>1 DEF Submit, IndInv, TypeOK, Item
      <4>2. CASE i = count + 1
        BY <2>1, <4>1, <4>2 DEF Holds
      <4>3. CASE i # count + 1
        BY <2>1, <4>1, <4>3 DEF Holds
      <4>4. QED
        BY <4>2, <4>3
    <3>2. CASE Collect \/ Abandon
      BY <2>1, <3>2 DEF Collect, Abandon, Holds
    <3>3. CASE Wake
      <4>1. count' = count /\ (task'[i] = task[i] \/ (task[i] = "running" /\ task'[i] = "cancelling"))
        <5> DEFINE left == Pending \ {j \in Pending : Finished(j)}
        <5>1. count' = count /\ (task' = task \/ task' = Cancel(left))
          BY <3>3 DEF Wake
        <5> HIDE DEF left
        <5>2. QED
          BY <5>1 DEF Cancel
      <4>2. QED
        BY <2>1, <4>1 DEF Holds
    <3>4. QED
      BY <3>1, <3>2, <3>3
  <2>3. QED
    BY <2>1, <2>2 DEF callVars, Holds
<1>3. QED
  BY <1>1, <1>2 DEF CallInv

LEMMA CallNextHolds ==
  ASSUME IndInv, CallInv, [CallNext]_allVars
  PROVE  CallInv'
<1>1. CASE (Submit \/ Collect \/ Wake \/ Abandon) /\ UNCHANGED callVars
  BY <1>1, CollectHolds
<1>2. ASSUME NEW i \in Item, CallStep(i) \/ Killed(i) PROVE CallInv'
  <2>1. Local(i) /\ Typed(i)' /\ Holds(i)' /\ tries'[i] >= tries[i]
    BY <1>2, StepHolds DEF CallInv, IndInv
  <2>2. ASSUME NEW j \in Item PROVE Holds(j)'
    <3>1. CASE j = i
      BY <2>1, <3>1
    <3>2. CASE j # i
      <4>1. /\ task'[j] = task[j] /\ pc'[j] = pc[j] /\ tries'[j] = tries[j] /\ why'[j] = why[j]
            /\ child'[j] = child[j] /\ scratch'[j] = scratch[j] /\ private'[j] = private[j]
            /\ kind'[j] = kind[j]
            /\ count' = count
        BY <2>1, <3>2 DEF Local, CallInv, CallTypeOK, IndInv, TypeOK
      <4>2. Holds(j)
        BY DEF CallInv
      <4>3. QED
        BY <4>1, <4>2 DEF Holds, Finished
    <3>3. QED
      BY <3>1, <3>2
  <2>3. \A j \in Item : tries'[j] >= tries[j] /\ tries[j] \in Nat /\ tries'[j] \in Nat
    <3> SUFFICES ASSUME NEW j \in Item
                 PROVE  tries'[j] >= tries[j] /\ tries[j] \in Nat /\ tries'[j] \in Nat
      OBVIOUS
    <3>1. tries[j] \in Nat /\ tries[i] \in Nat /\ tries'[i] \in Nat /\ DOMAIN tries = Item
      BY <2>1, CallAssumption DEF Typed, CallInv, CallTypeOK
    <3>2. tries'[j] = IF j = i THEN tries'[i] ELSE tries[j]
      BY <2>1, <3>1 DEF Local
    <3>3. QED
      BY <2>1, <3>1, <3>2
  <2>4. \A c \in Client : c[2] \in Item /\ c[3] \in Nat
    BY CallAssumption DEF Client
  <2>5. CASE CallDirect(i)
    <3>1. /\ client' \in [Item -> Client \cup {NoClient}] /\ open' \subseteq Client
          /\ InOrder(lru', closing') /\ open' = ToSet(lru') \cup closing'
          /\ \A c \in open' : c[3] <= tries'[c[2]]
      BY <2>5, DirectShared DEF CallInv
    <3>2. CallTypeOK'
      BY <2>1, <3>1 DEF CallInv, CallTypeOK, Local, Typed, InOrder
    <3>3. Shared'
      BY <3>1 DEF Shared, InOrder
    <3>4. QED
      BY <2>2, <3>2, <3>3 DEF CallInv
  <2>6. CASE ~CallDirect(i)
    <3>1. UNCHANGED <<lru, closing, open>> /\ client' \in [Item -> Client \cup {NoClient}]
      <4> USE DEF CallInv, CallTypeOK
      <4>1. CASE Dispatch(i) \/ RegistryAnswers(i) \/ Refuse(i) \/ CallPassthrough(i) \/ CallClaude(i) \/ RequestEnds(i)
        BY <4>1 DEF Dispatch, RegistryAnswers, Refuse, CallPassthrough, CallClaude, RequestEnds
      <4>2. CASE Spawned(i) \/ ChildAnswers(i) \/ TimesOut(i) \/ TalkingCancelled(i) \/ Reaped(i)
        BY <4>2 DEF Spawned, ChildAnswers, TimesOut, TalkingCancelled, Reaped, Reap
      <4>3. CASE ChildExits(i) \/ Slept(i) \/ CancelledAtAwait(i) \/ Killed(i)
        BY <4>3 DEF ChildExits, Slept, CancelledAtAwait, Killed, Ends, Reap, HangUp, HangUpCut
      <4>4. CASE Answered(i) \/ RequestCancelled(i) \/ HungUp(i) \/ HangUpCancelled(i) \/ HangUpFails(i)
        BY <4>4 DEF Answered, RequestCancelled, HangUp, HungUp, HangUpCancelled, HangUpFails, HangUpCut
      <4>5. QED
        BY <1>2, <2>6, <4>1, <4>2, <4>3, <4>4 DEF CallStep
    <3>2. CallTypeOK'
      BY <2>1, <3>1 DEF CallInv, CallTypeOK, Local, Typed
    <3>3. Shared'
      BY <2>3, <2>4, <3>1 DEF CallInv, CallTypeOK, Shared
    <3>4. QED
      BY <2>2, <3>2, <3>3 DEF CallInv
  <2>7. QED
    BY <2>5, <2>6
<1>3. ASSUME NEW c \in closing, SafeClose(c) PROVE CallInv'
  <2>1. /\ lru' = lru /\ closing' \subseteq closing /\ open' \subseteq open
        /\ open' = ToSet(lru) \cup closing' /\ ToSet(lru) \cap closing' = {}
    BY <1>3, CloseShared DEF CallInv
  <2>2. UNCHANGED <<vars, route, pc, kind, tries, why, lost, child, scratch, private, client>>
    BY <1>3 DEF SafeClose
  <2>3. CallTypeOK' /\ Shared'
    BY <2>1, <2>2 DEF CallInv, CallTypeOK, Shared
  <2>4. \A i \in Item : Holds(i)'
    BY <2>2 DEF CallInv, Holds, Finished, vars
  <2>5. QED
    BY <2>3, <2>4 DEF CallInv
<1>4. CASE UNCHANGED allVars
  <2>1. CallTypeOK' /\ Shared'
    BY <1>4 DEF allVars, callVars, CallInv, CallTypeOK, Shared
  <2>2. \A i \in Item : Holds(i)'
    BY <1>4 DEF allVars, callVars, vars, CallInv, Holds, Finished
  <2>3. QED
    BY <2>1, <2>2 DEF CallInv
<1>5. QED
  BY <1>1, <1>2, <1>3, <1>4 DEF CallNext

(* Where the coroutine of a judge is, what it holds there, and the shared  *)
(* clients are in step, together with the state of the orchestrator.       *)
THEOREM CallInvariance == CallSpec => [](IndInv /\ CallInv)
<1>1. CallInit => IndInv /\ CallInv
  BY InitHolds, CallInitHolds DEF CallInit, IndInv
<1>2. (IndInv /\ CallInv) /\ [CallNext]_allVars => (IndInv /\ CallInv)'
  BY CallImplements, TypeNext, InvNext, CallNextHolds DEF IndInv
<1>3. QED
  BY <1>1, <1>2, PTL DEF CallSpec

(* The calls implement the orchestrator: whatever a provider does, and     *)
(* whenever a call is cancelled, a task only ends as JudgeOrchestrator     *)
(* expects, so what is proved of it holds of them.                         *)
THEOREM CallsImplement == CallSpec => Spec
<1>1. CallInit => Init
  BY DEF CallInit
<1>2. (IndInv /\ CallInv) /\ [CallNext]_allVars => [Next]_vars
  BY CallImplements
<1>3. QED
  BY <1>1, <1>2, CallInvariance, PTL DEF CallSpec, Spec

(* collect returns what each judge said, whatever its provider does.       *)
THEOREM CallsFaithful == CallSpec => []ResultsFaithful
BY CallsImplement, Faithful, PTL

(* A judge that is over leaves no child or directory behind, and a client  *)
(* only if its close was cut short; the shared clients that are open are   *)
(* those cached and those evicted.                                         *)
THEOREM LeakFree == CallSpec => []NothingLeaks
<1>1. IndInv /\ CallInv => NothingLeaks
  <2> SUFFICES ASSUME IndInv, CallInv PROVE NothingLeaks
    OBVIOUS
  <2>1. ASSUME NEW i \in Submitted
        PROVE  /\ child[i] = "running" => scratch[i] /\ ~Finished(i)
               /\ Finished(i) => ~scratch[i] /\ private[i] # "open"
    <3>1. i \in Item /\ i <= count
      BY DEF IndInv, TypeOK, Submitted, Item
    <3>2. Holds(i)
      BY <3>1 DEF CallInv
    <3>3. QED
      BY <3>1, <3>2 DEF Holds
  <2>2. QED
    BY <2>1 DEF CallInv, Shared, NothingLeaks
<1>2. QED
  BY <1>1, CallInvariance, PTL
=============================================================================
