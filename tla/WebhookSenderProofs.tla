------------------------- MODULE WebhookSenderProofs -------------------------
(***************************************************************************)
(* Proofs about WebhookSender for any set of transactions (it need not be  *)
(* finite: only the pool and the counted verdicts are), any retry budget   *)
(* and any cap: the inductive invariant IInv, the safety properties that   *)
(* follow from it, and the refinement of BestEffortDelivery.               *)
(***************************************************************************)
EXTENDS WebhookSender, FiniteSetTheorems, TLAPS

USE RetriesAssumption, PendingAssumption

-----------------------------------------------------------------------------
(* The parts of the invariant, one by one.                                  *)

LEMMA InitHolds == Init => TypeOK /\ IInv
<1>1. Init => TypeOK
  BY DEF Init, TypeOK, TaskStates, Fates, Post
<1>2. ASSUME Init PROVE IInv
  <2>1. \A t \in Tx : TaskInv(t)
    BY <1>2 DEF Init, TaskInv, Live
  <2>2. \A p \in wire \cup received : PostInv(p)
    BY <1>2 DEF Init
  <2>3. PoolInv
    BY <1>2, FS_EmptySet DEF Init, PoolInv
  <2>4. CountInv
    <3>1. \A f \in Countable : Ended(f) = {}
      BY <1>2 DEF Init, Ended, Countable
    <3>2. QED
      BY <1>2, <3>1, FS_EmptySet DEF Init, CountInv, CountersExact, Countable
  <2>5. QED
    BY <2>1, <2>2, <2>3, <2>4 DEF IInv
<1>3. QED
  BY <1>1, <1>2

(* The events of one transaction: everything else is left alone.            *)
LEMMA TypeNext == TypeOK /\ [Next]_vars => TypeOK'
<1> SUFFICES ASSUME TypeOK, [Next]_vars PROVE TypeOK'
  OBVIOUS
<1> USE DEF TypeOK, counters, network, stopVars
<1>1. ASSUME NEW t \in Tx, Fire(t) PROVE TypeOK'
  BY <1>1 DEF Fire, FireIgnored, FireDropped, FireUnbuilt, FireAccepted, TaskStates, Fates
<1>2. ASSUME NEW t \in Tx, SendPost(t) PROVE TypeOK'
  BY <1>2 DEF SendPost, TaskStates, Post
<1>3. ASSUME NEW t \in Tx, Acked(t) \/ FailPermanently(t) \/ GiveUp(t) \/ CancelLands(t)
      PROVE TypeOK'
  BY <1>3 DEF Acked, FailPermanently, GiveUp, CancelLands, Finish, TaskStates, Fates
<1>4. ASSUME NEW t \in Tx, BackOff(t) \/ Retry(t) \/ Discard(t) PROVE TypeOK'
  BY <1>4 DEF BackOff, Retry, Discard, TaskStates
<1>5. CASE BeginStop \/ EndDrain \/ FinishStop
  BY <1>5 DEF BeginStop, EndDrain, FinishStop
<1>6. ASSUME NEW p \in wire, Receive(p) PROVE TypeOK'
  BY <1>6 DEF Receive
<1>7. CASE UNCHANGED vars
  BY <1>7 DEF vars
<1>8. QED
  BY <1>1, <1>2, <1>3, <1>4, <1>5, <1>6, <1>7 DEF Next, TaskStep

LEMMA TaskNext ==
  ASSUME TypeOK, \A t \in Tx : TaskInv(t), PoolInv, [Next]_vars, NEW u \in Tx
  PROVE  TaskInv(u)'
<1> USE DEF TypeOK, TaskInv, Live, Reached, counters, network, stopVars
<1>1. ASSUME NEW t \in Tx, Fire(t) PROVE TaskInv(u)'
  BY <1>1 DEF Fire, FireIgnored, FireDropped, FireUnbuilt, FireAccepted
<1>2. ASSUME NEW t \in Tx, SendPost(t) PROVE TaskInv(u)'
  BY <1>2 DEF SendPost, Running
<1>3. ASSUME NEW t \in Tx, Acked(t) PROVE TaskInv(u)'
  BY <1>3 DEF Acked, Running, Finish
<1>4. ASSUME NEW t \in Tx, FailPermanently(t) PROVE TaskInv(u)'
  BY <1>4 DEF FailPermanently, Running, Finish
<1>5. ASSUME NEW t \in Tx, GiveUp(t) PROVE TaskInv(u)'
  BY <1>5 DEF GiveUp, Running, Finish
<1>6. ASSUME NEW t \in Tx, CancelLands(t) PROVE TaskInv(u)'
  BY <1>6 DEF CancelLands, CancelRequested, Finish
<1>7. ASSUME NEW t \in Tx, BackOff(t) PROVE TaskInv(u)'
  BY <1>7 DEF BackOff, Running
<1>8. ASSUME NEW t \in Tx, Retry(t) PROVE TaskInv(u)'
  BY <1>8 DEF Retry, Running
<1>9. ASSUME NEW t \in Tx, Discard(t) PROVE TaskInv(u)'
  BY <1>9 DEF Discard
<1>10. CASE BeginStop
  BY <1>10 DEF BeginStop
<1>11. CASE EndDrain
  BY <1>11 DEF EndDrain
<1>12. CASE FinishStop
  BY <1>12 DEF FinishStop
<1>13. ASSUME NEW p \in wire, Receive(p) PROVE TaskInv(u)'
  BY <1>13 DEF Receive
<1>14. CASE UNCHANGED vars
  BY <1>14 DEF vars
<1>15. QED
  BY <1>1, <1>2, <1>3, <1>4, <1>5, <1>6, <1>7, <1>8, <1>9, <1>10, <1>11, <1>12,
     <1>13, <1>14 DEF Next, TaskStep

LEMMA PostNext ==
  ASSUME TypeOK, \A q \in wire \cup received : PostInv(q), [Next]_vars,
         NEW p \in (wire \cup received)'
  PROVE  PostInv(p)'
<1> USE DEF TypeOK, PostInv, Post, counters, network, stopVars
<1>1. ASSUME NEW t \in Tx, Fire(t) PROVE PostInv(p)'
  BY <1>1 DEF Fire, FireIgnored, FireDropped, FireUnbuilt, FireAccepted
<1>2. ASSUME NEW t \in Tx, SendPost(t) PROVE PostInv(p)'
  BY <1>2 DEF SendPost, Running
<1>3. ASSUME NEW t \in Tx, Acked(t) \/ FailPermanently(t) \/ GiveUp(t) \/ CancelLands(t)
      PROVE PostInv(p)'
  BY <1>3 DEF Acked, FailPermanently, GiveUp, CancelLands, Finish
<1>4. ASSUME NEW t \in Tx, BackOff(t) \/ Retry(t) \/ Discard(t) PROVE PostInv(p)'
  BY <1>4 DEF BackOff, Retry, Discard
<1>5. CASE BeginStop \/ EndDrain \/ FinishStop
  BY <1>5 DEF BeginStop, EndDrain, FinishStop
<1>6. ASSUME NEW q \in wire, Receive(q) PROVE PostInv(p)'
  BY <1>6 DEF Receive
<1>7. CASE UNCHANGED vars
  BY <1>7 DEF vars
<1>8. QED
  BY <1>1, <1>2, <1>3, <1>4, <1>5, <1>6, <1>7 DEF Next, TaskStep

(* The cap check and the add of fire_and_forget are one step.               *)
LEMMA PoolNext == ASSUME TypeOK, PoolInv, [Next]_vars PROVE PoolInv'
<1> USE DEF TypeOK, PoolInv, counters, network, stopVars
<1>1. ASSUME NEW t \in Tx, FireAccepted(t), UNCHANGED stopVars PROVE PoolInv'
  <2>1. Cardinality(pending) \in Nat /\ Cardinality(pending) < MaxPending
    BY <1>1, FS_CardinalityType DEF FireAccepted
  <2>2. IsFiniteSet(pending \cup {t}) /\ Cardinality(pending \cup {t}) <= MaxPending
    <3>1. /\ IsFiniteSet(pending \cup {t})
          /\ Cardinality(pending \cup {t}) = IF t \in pending THEN Cardinality(pending)
                                             ELSE Cardinality(pending) + 1
      BY FS_AddElement, Zenon
    <3>2. QED
      BY <2>1, <3>1
  <2>3. QED
    BY <1>1, <2>2 DEF FireAccepted
<1>2. ASSUME NEW t \in Tx, Fire(t) PROVE PoolInv'
  BY <1>1, <1>2 DEF Fire, FireIgnored, FireDropped, FireUnbuilt
<1>3. ASSUME NEW t \in Tx, TaskStep(t) PROVE PoolInv'
  BY <1>3 DEF TaskStep, SendPost, Acked, FailPermanently, BackOff, Retry, GiveUp, CancelLands
<1>4. ASSUME NEW t \in Tx, Discard(t) PROVE PoolInv'
  <2>1. Cardinality(pending) \in Nat
    BY FS_CardinalityType
  <2>2. IsFiniteSet(pending \ {t}) /\ Cardinality(pending \ {t}) <= MaxPending
    <3>1. /\ IsFiniteSet(pending \ {t})
          /\ Cardinality(pending \ {t}) = IF t \in pending THEN Cardinality(pending) - 1
                                          ELSE Cardinality(pending)
      BY FS_RemoveElement, Zenon
    <3>2. QED
      BY <2>1, <3>1
  <2>3. QED
    BY <1>4, <2>2 DEF Discard
<1>5. CASE BeginStop
  BY <1>5 DEF BeginStop
<1>6. CASE EndDrain
  BY <1>6 DEF EndDrain
<1>7. CASE FinishStop
  BY <1>7, FS_EmptySet DEF FinishStop
<1>8. ASSUME NEW p \in wire, Receive(p) PROVE PoolInv'
  BY <1>8 DEF Receive
<1>9. CASE UNCHANGED vars
  BY <1>9 DEF vars
<1>10. QED
  BY <1>2, <1>3, <1>4, <1>5, <1>6, <1>7, <1>8, <1>9 DEF Next

(* A verdict adds its transaction to one of the counted sets.               *)
LEMMA OneVerdict ==
  ASSUME TypeOK, NEW t \in Tx, fate[t] = "none",
         NEW end, fate' = [fate EXCEPT ![t] = end],
         NEW f \in Countable, IsFiniteSet(Ended(f))
  PROVE  /\ IsFiniteSet(Ended(f)')
         /\ Cardinality(Ended(f)') = Cardinality(Ended(f)) + (IF f = end THEN 1 ELSE 0)
<1>1. Cardinality(Ended(f)) \in Nat
  BY FS_CardinalityType
<1>2. CASE f = end
  <2>1. t \notin Ended(f)
    BY <1>2 DEF Ended, Countable
  <2>2. Ended(f)' = Ended(f) \cup {t}
    BY <1>2 DEF TypeOK, Ended
  <2>3. QED
    BY <1>2, <2>1, <2>2, FS_AddElement
<1>3. CASE f # end
  <2>1. Ended(f)' = Ended(f)
    BY <1>3 DEF TypeOK, Ended, Countable
  <2>2. QED
    BY <1>1, <1>3, <2>1
<1>4. QED
  BY <1>2, <1>3

LEMMA CountNext ==
  ASSUME TypeOK, \A t \in Tx : TaskInv(t), CountInv, [Next]_vars
  PROVE  CountInv'
<1> USE DEF counters, network, stopVars
<1>1. ASSUME NEW t \in Tx, fate[t] = "none", NEW end,
             fate' = [fate EXCEPT ![t] = end],
             dropped'   = IF end = "dropped" THEN dropped + 1 ELSE dropped,
             unbuilt'   = IF end = "unbuilt" THEN unbuilt + 1 ELSE unbuilt,
             gaveUp'    = IF end = "gaveup" THEN gaveUp + 1 ELSE gaveUp,
             permanent' = IF end = "permanent" THEN permanent + 1 ELSE permanent
      PROVE  CountInv'
  <2>1. \A f \in Countable :
          /\ IsFiniteSet(Ended(f)')
          /\ Cardinality(Ended(f)') = Cardinality(Ended(f)) + (IF f = end THEN 1 ELSE 0)
    BY <1>1, OneVerdict DEF CountInv
  <2>2. \A f \in Countable : Cardinality(Ended(f)) \in Nat
    BY FS_CardinalityType DEF CountInv
  <2>3. QED
    BY <1>1, <2>1, <2>2 DEF CountInv, CountersExact, Countable
<1>2. ASSUME UNCHANGED <<fate, counters>> PROVE CountInv'
  BY <1>2 DEF CountInv, CountersExact, Ended
<1>3. ASSUME NEW t \in Tx, Fire(t) PROVE CountInv'
  <2> USE DEF TypeOK
  <2>1. CASE FireIgnored(t)
    BY <1>1, <1>3, <2>1 DEF Fire, FireIgnored
  <2>2. CASE FireDropped(t)
    BY <1>1, <1>3, <2>2 DEF Fire, FireDropped
  <2>3. CASE FireUnbuilt(t)
    BY <1>1, <1>3, <2>3 DEF Fire, FireUnbuilt
  <2>4. CASE FireAccepted(t)
    BY <1>2, <2>4 DEF FireAccepted
  <2>5. QED
    BY <1>3, <2>1, <2>2, <2>3, <2>4 DEF Fire
<1>4. ASSUME NEW t \in Tx, TaskStep(t) PROVE CountInv'
  <2> USE DEF TypeOK
  <2>1. Live(t) => fate[t] = "none"
    BY DEF TaskInv
  <2>2. CASE SendPost(t) \/ BackOff(t) \/ Retry(t)
    BY <1>2, <2>2 DEF SendPost, BackOff, Retry
  <2>3. CASE Acked(t)
    BY <1>1, <2>1, <2>3 DEF Acked, Finish, Running, Live
  <2>4. CASE FailPermanently(t)
    BY <1>1, <2>1, <2>4 DEF FailPermanently, Finish, Running, Live
  <2>5. CASE GiveUp(t)
    BY <1>1, <2>1, <2>5 DEF GiveUp, Finish, Running, Live
  <2>6. CASE CancelLands(t)
    BY <1>1, <2>1, <2>6 DEF CancelLands, Finish
  <2>7. QED
    BY <1>4, <2>2, <2>3, <2>4, <2>5, <2>6 DEF TaskStep
<1>5. CASE (\E t \in Tx : Discard(t)) \/ BeginStop \/ EndDrain \/ FinishStop
  BY <1>2, <1>5 DEF Discard, BeginStop, EndDrain, FinishStop
<1>6. CASE \E p \in wire : Receive(p)
  BY <1>2, <1>6 DEF Receive
<1>7. CASE UNCHANGED vars
  BY <1>2, <1>7 DEF vars
<1>8. QED
  BY <1>3, <1>4, <1>5, <1>6, <1>7 DEF Next

-----------------------------------------------------------------------------
(* The theorems.                                                            *)

(* Every reachable state is well typed, and its tasks, POSTs, pool and      *)
(* counters are in step.                                                    *)
THEOREM Invariance == Spec => []IndInv
<1>1. TypeOK /\ IInv /\ [Next]_vars => TypeOK' /\ IInv'
  <2> SUFFICES ASSUME TypeOK, IInv, [Next]_vars PROVE TypeOK' /\ IInv'
    OBVIOUS
  <2>1. TypeOK'
    BY TypeNext
  <2>2. \A t \in Tx : TaskInv(t)'
    BY TaskNext DEF IInv
  <2>3. \A p \in (wire \cup received)' : PostInv(p)'
    BY PostNext DEF IInv
  <2>4. PoolInv' /\ CountInv'
    BY PoolNext, CountNext DEF IInv
  <2>5. QED
    BY <2>1, <2>2, <2>3, <2>4 DEF IInv
<1>2. QED
  BY <1>1, InitHolds, PTL DEF Spec, IndInv

(* The pool never exceeds its cap, and stop() knows every running delivery. *)
THEOREM Bounded == Spec => []PoolBounded
<1>1. IInv => PoolBounded
  BY DEF IInv, PoolInv, TaskInv, PoolBounded
<1>2. QED
  BY <1>1, Invariance, PTL DEF IndInv

(* After stop() has closed the client no delivery is left to use it.        *)
THEOREM Quiet == Spec => []QuietAfterStop
<1>1. IInv => QuietAfterStop
  BY DEF IInv, PoolInv, TaskInv, QuietAfterStop
<1>2. QED
  BY <1>1, Invariance, PTL DEF IndInv

(* No delivery makes more than 1 + MaxRetries POSTs, and none gives up      *)
(* before it has made them.                                                 *)
LEMMA Budget == Spec => []RetryBudget
<1>1. TypeOK /\ IInv => RetryBudget
  BY DEF TypeOK, IInv, TaskInv, PostInv, RetryBudget, Ended, Post
<1>2. QED
  BY <1>1, Invariance, PTL DEF IndInv

(* Each failure counter is exact.                                           *)
LEMMA Exact == Spec => []CountersExact
<1>1. IInv => CountersExact
  BY DEF IInv, CountInv
<1>2. QED
  BY <1>1, Invariance, PTL DEF IndInv

(* Before stop() is called, the four counters cover every event that ended  *)
(* unseen.                                                                  *)
LEMMA Covered == Spec => []LossesCounted
<1>1. ASSUME TypeOK, IInv, shutdown = "running" PROVE Cardinality(Unseen) <= Lost
  <2> DEFINE All == (Ended("dropped") \cup Ended("unbuilt"))
                      \cup (Ended("gaveup") \cup Ended("permanent"))
  <2>1. Unseen \subseteq All
    BY <1>1 DEF TypeOK, Fates, IInv, TaskInv, Unseen, Ended
  <2>2. /\ IsFiniteSet(Ended("dropped")) /\ IsFiniteSet(Ended("unbuilt"))
        /\ IsFiniteSet(Ended("gaveup")) /\ IsFiniteSet(Ended("permanent"))
    BY <1>1 DEF IInv, CountInv, Countable
  <2>3. /\ dropped = Cardinality(Ended("dropped"))
        /\ unbuilt = Cardinality(Ended("unbuilt"))
        /\ gaveUp = Cardinality(Ended("gaveup"))
        /\ permanent = Cardinality(Ended("permanent"))
    BY <1>1 DEF IInv, CountInv, CountersExact
  <2>4. ASSUME NEW S, NEW T, IsFiniteSet(S), IsFiniteSet(T)
        PROVE  /\ IsFiniteSet(S \cup T) /\ Cardinality(S \cup T) \in Nat
               /\ Cardinality(S) \in Nat /\ Cardinality(T) \in Nat
               /\ Cardinality(S \cup T) <= Cardinality(S) + Cardinality(T)
    <3>1. IsFiniteSet(S \cap T)
      BY <2>4, FS_Subset, S \cap T \in SUBSET S
    <3>2. /\ IsFiniteSet(S \cup T)
          /\ Cardinality(S \cup T) =
               Cardinality(S) + Cardinality(T) - Cardinality(S \cap T)
      BY <2>4, FS_Union, Zenon
    <3>3. /\ Cardinality(S) \in Nat /\ Cardinality(T) \in Nat
          /\ Cardinality(S \cap T) \in Nat
      BY <2>4, <3>1, FS_CardinalityType
    <3>4. Cardinality(S \cup T) \in Nat
      BY <3>2, FS_CardinalityType
    <3>5. Cardinality(S \cup T) <= Cardinality(S) + Cardinality(T)
      BY <3>2, <3>3
    <3>6. QED
      BY <3>2, <3>3, <3>4, <3>5
  <2>5. IsFiniteSet(All) /\ Cardinality(All) <= Lost
    <3>1. /\ IsFiniteSet(Ended("dropped") \cup Ended("unbuilt"))
          /\ Cardinality(Ended("dropped") \cup Ended("unbuilt")) <= dropped + unbuilt
      BY <2>2, <2>3, <2>4
    <3>2. /\ IsFiniteSet(Ended("gaveup") \cup Ended("permanent"))
          /\ Cardinality(Ended("gaveup") \cup Ended("permanent")) <= gaveUp + permanent
      BY <2>2, <2>3, <2>4
    <3>3. /\ IsFiniteSet(All)
          /\ Cardinality(All) <= Cardinality(Ended("dropped") \cup Ended("unbuilt"))
                                   + Cardinality(Ended("gaveup") \cup Ended("permanent"))
      BY <3>1, <3>2, <2>4
    <3>4. /\ Cardinality(Ended("dropped") \cup Ended("unbuilt")) \in Nat
          /\ Cardinality(Ended("gaveup") \cup Ended("permanent")) \in Nat
          /\ Cardinality(All) \in Nat
      BY <3>1, <3>2, <3>3, FS_CardinalityType
    <3> HIDE DEF All
    <3>5. QED
      BY <1>1, <3>1, <3>2, <3>3, <3>4 DEF Lost, TypeOK
  <2>6. Cardinality(Unseen) <= Cardinality(All) /\ Cardinality(Unseen) \in Nat
        /\ Cardinality(All) \in Nat
    BY <2>1, <2>5, FS_Subset, FS_CardinalityType
  <2> HIDE DEF All
  <2>7. QED
    BY <1>1, <2>5, <2>6 DEF Lost, TypeOK
<1>2. TypeOK /\ IInv => LossesCounted
  BY <1>1 DEF LossesCounted
<1>3. QED
  BY <1>2, Invariance, PTL DEF IndInv

(* A transaction with a verdict is never POSTed again.                      *)
LEMMA VerdictIsLast == Spec => NoPostAfterVerdict
<1> DEFINE Fresh == \A p \in wire' \ wire : fate[p[1]] = "none" /\ shutdown # "closed"
<1>1. ASSUME TypeOK, IInv, [Next]_vars PROVE [Fresh]_vars
  <2> USE DEF counters, network, stopVars
  <2>1. ASSUME NEW t \in Tx, SendPost(t) PROVE Fresh
    <3>1. fate[t] = "none" /\ shutdown # "closed"
      BY <1>1, <2>1 DEF IInv, TaskInv, PoolInv, SendPost, Running, Live
    <3>2. QED
      BY <2>1, <3>1 DEF SendPost
  <2>2. CASE wire' \subseteq wire
    BY <2>2
  <2>3. ASSUME NEW t \in Tx, TaskStep(t), ~SendPost(t) PROVE wire' = wire
    BY <2>3 DEF TaskStep, Acked, FailPermanently, BackOff, Retry, GiveUp, CancelLands
  <2>4. ASSUME NEW t \in Tx, Fire(t) \/ Discard(t) PROVE wire' = wire
    BY <2>4 DEF Fire, Discard
  <2>5. CASE BeginStop \/ EndDrain \/ FinishStop
    BY <2>2, <2>5 DEF BeginStop, EndDrain, FinishStop
  <2>6. CASE \E p \in wire : Receive(p)
    BY <2>2, <2>6 DEF Receive
  <2>7. QED
    BY <1>1, <2>1, <2>2, <2>3, <2>4, <2>5, <2>6 DEF Next
<1>2. QED
  BY <1>1, Invariance, PTL DEF IndInv, Spec, NoPostAfterVerdict

-----------------------------------------------------------------------------
(* The refinement: each step of the sender is a step of BestEffortDelivery  *)
(* on (Verdict, Got), or leaves both as they are.                           *)

LEMMA SameView ==
  ASSUME UNCHANGED <<task, fate, received>>
  PROVE  Verdict' = Verdict /\ Got' = Got
BY DEF Verdict, Got, Reached

(* A step that touches one transaction moves the verdict of that one only.  *)
LEMMA OneView ==
  ASSUME NEW t \in Tx,
         \A u \in Tx \ {t} : task'[u] = task[u] /\ fate'[u] = fate[u]
  PROVE  Verdict' = [Verdict EXCEPT ![t] = Verdict'[t]]
BY DEF Verdict

LEMMA ViewOf ==
  ASSUME NEW t \in Tx
  PROVE  Verdict[t] = CASE fate[t] \in {"ignored", "dropped", "unbuilt"}    -> "turned_away"
                        [] fate[t] = "acked"                                -> "acknowledged"
                        [] fate[t] \in {"permanent", "gaveup", "cancelled"} -> "lost"
                        [] OTHER -> IF task[t] = "none" THEN "unfired" ELSE "owed"
BY DEF Verdict

(* The counters are exact, and complete until stop().                       *)
THEOREM CountersTell == Spec => []CountersTellLosses
BY Exact, Covered, PTL DEF CountersTellLosses

(* The POSTs of an event end with its budget or its verdict.                *)
THEOREM PostsBounded == Spec => PostsEnd
BY Budget, VerdictIsLast, PTL DEF PostsEnd

(* What the sender does is what BestEffortDelivery allows: an event turned  *)
(* away is never seen, an acknowledged one was, a lost one stays lost.      *)
THEOREM Implements == Spec => KeepsPromise
<1>1. Init => Promise!Init
  BY DEF Init, Promise!Init, Verdict, Got, Reached
<1>2. ASSUME TypeOK, IInv, [Next]_vars
      PROVE  [Promise!Next]_(Promise!vars)
  <2> USE DEF counters, network, stopVars
  <2>1. ASSUME UNCHANGED <<task, fate, received>>
        PROVE  UNCHANGED Promise!vars
    BY <2>1, SameView DEF Promise!vars
  <2>2. ASSUME UNCHANGED received PROVE Got' = Got
    BY <2>2 DEF Got, Reached
  <2>3. ASSUME NEW t \in Tx, Fire(t) PROVE Promise!Next
    <3>1. Verdict[t] = "unfired" /\ Got' = Got
      BY <2>2, <2>3, ViewOf DEF Fire
    <3>2. Verdict'[t] \in {"turned_away", "owed"}
      BY <1>2, <2>3 DEF Fire, FireIgnored, FireDropped, FireUnbuilt, FireAccepted,
                        TypeOK, Verdict
    <3>3. Verdict' = [Verdict EXCEPT ![t] = Verdict'[t]]
      <4>1. \A u \in Tx \ {t} : task'[u] = task[u] /\ fate'[u] = fate[u]
        BY <1>2, <2>3 DEF Fire, FireIgnored, FireDropped, FireUnbuilt, FireAccepted, TypeOK
      <4>2. QED
        BY <4>1, OneView
    <3>4. Promise!TurnAway(t) \/ Promise!Owe(t)
      BY <3>1, <3>2, <3>3 DEF Promise!TurnAway, Promise!Owe
    <3>5. QED
      BY <3>4 DEF Promise!Next
  <2>4. ASSUME NEW t \in Tx, NEW end \in Fates, Live(t), Finish(t, end),
               UNCHANGED received, end = "acked" => Reached(t),
               end \in {"acked", "permanent", "gaveup", "cancelled"}
        PROVE  Promise!Next
    <3>1. Verdict[t] = "owed" /\ Got' = Got
      BY <1>2, <2>2, <2>4, ViewOf DEF IInv, TaskInv, Live
    <3>2. Verdict'[t] = IF end = "acked" THEN "acknowledged" ELSE "lost"
      BY <1>2, <2>4 DEF Finish, TypeOK, Verdict
    <3>3. Verdict' = [Verdict EXCEPT ![t] = Verdict'[t]]
      <4>1. \A u \in Tx \ {t} : task'[u] = task[u] /\ fate'[u] = fate[u]
        BY <1>2, <2>4 DEF Finish, TypeOK
      <4>2. QED
        BY <4>1, OneView
    <3>4. end = "acked" => t \in Got
      BY <2>4 DEF Got
    <3>5. Promise!Acknowledge(t) \/ Promise!Lose(t)
      BY <3>1, <3>2, <3>3, <3>4 DEF Promise!Acknowledge, Promise!Lose
    <3>6. QED
      BY <3>5 DEF Promise!Next
  <2>5. ASSUME NEW t \in Tx, Acked(t) PROVE Promise!Next
    <3>1. Live(t) /\ Finish(t, "acked") /\ UNCHANGED received /\ Reached(t)
      BY <2>5 DEF Acked, Running, Live, Reached
    <3>2. QED
      BY <2>4, <3>1 DEF Fates
  <2>6. ASSUME NEW t \in Tx, FailPermanently(t) PROVE Promise!Next
    <3>1. Live(t) /\ Finish(t, "permanent") /\ UNCHANGED received
      BY <2>6 DEF FailPermanently, Running, Live
    <3>2. QED
      BY <2>4, <3>1 DEF Fates
  <2>7. ASSUME NEW t \in Tx, GiveUp(t) PROVE Promise!Next
    <3>1. Live(t) /\ Finish(t, "gaveup") /\ UNCHANGED received
      BY <2>7 DEF GiveUp, Running, Live
    <3>2. QED
      BY <2>4, <3>1 DEF Fates
  <2>8. ASSUME NEW t \in Tx, CancelLands(t) PROVE Promise!Next
    <3>1. Live(t) /\ Finish(t, "cancelled") /\ UNCHANGED received
      BY <2>8 DEF CancelLands
    <3>2. QED
      BY <2>4, <3>1 DEF Fates
  <2>9. ASSUME NEW t \in Tx, SendPost(t) \/ BackOff(t) \/ Retry(t)
        PROVE  UNCHANGED Promise!vars
    <3>1. Live(t) /\ task'[t] # "none" /\ fate' = fate /\ UNCHANGED received
      BY <1>2, <2>9 DEF SendPost, BackOff, Retry, Running, Live, TypeOK
    <3>2. \A u \in Tx \ {t} : task'[u] = task[u] /\ fate'[u] = fate[u]
      BY <1>2, <2>9 DEF SendPost, BackOff, Retry, TypeOK
    <3>3. Verdict' = Verdict
      BY <3>1, <3>2 DEF Verdict, Live
    <3>4. QED
      BY <2>2, <3>1, <3>3 DEF Promise!vars
  <2>10. ASSUME NEW p \in wire, Receive(p) PROVE Promise!Next
    <3>1. p[1] \in Tx /\ task[p[1]] # "none"
      BY <1>2 DEF IInv, PostInv, TypeOK, Post
    <3>2. Verdict[p[1]] \notin {"unfired", "turned_away"}
      BY <1>2, <3>1, ViewOf DEF IInv, TaskInv, TypeOK, TaskStates, Live
    <3>3. Verdict' = Verdict
      BY <2>10 DEF Receive, Verdict
    <3>4. Got' = Got \cup {p[1]}
      BY <2>10, <3>1 DEF Receive, Got, Reached
    <3>5. Promise!Arrive(p[1])
      BY <3>2, <3>3, <3>4 DEF Promise!Arrive
    <3>6. QED
      BY <3>1, <3>5 DEF Promise!Next
  <2>11. CASE \/ \E t \in Tx : Discard(t)
              \/ BeginStop \/ EndDrain \/ FinishStop
              \/ UNCHANGED vars
    BY <2>1, <2>11 DEF Discard, BeginStop, EndDrain, FinishStop, vars
  <2>12. QED
    BY <1>2, <2>3, <2>5, <2>6, <2>7, <2>8, <2>9, <2>10, <2>11 DEF Next, TaskStep
<1>3. QED
  BY <1>1, <1>2, Invariance, PTL DEF IndInv, Spec, KeepsPromise, Promise!Spec
=============================================================================
