-------------------------- MODULE PolicyManagerProofs --------------------------
(***************************************************************************)
(* PolicyManager for any replicas, changes, policies and number of         *)
(* crashes: the inductive invariant IndInv, of which ServesStored and       *)
(* Agreement are parts, and the action property AckedIsStored it implies.   *)
(***************************************************************************)
EXTENDS PolicyManager, TLAPS

USE PolicyAssumption

LEMMA InitHolds == Init => IndInv
<1> SUFFICES ASSUME Init PROVE IndInv
  OBVIOUS
<1>1. TypeOK
  <2>1. row \in {NoRow} \cup [policy : Chain \cup {<<>>}, by : Change \cup Nobody]
    BY DEF Init, NoRow, Nobody
  <2>2. on \in [Change -> Replica]
    <3>1. conf.replicas \subseteq Replica
      BY DEF Init
    <3>2. QED
      BY <3>1 DEF Init
  <2>3. stored \subseteq Chain
    BY DEF Init, NoRow
  <2>4. QED
    BY <2>1, <2>2, <2>3 DEF Init, TypeOK
<1>2. IInv
  BY DEF Init, IInv, ChangeInv, ServesStored, Agreement, Up, Alone, Critical, Running, NoRow, Nobody, Single
<1>3. QED
  BY <1>1, <1>2 DEF IndInv

(* A served policy is never mistaken for none.                              *)
LEMMA ServedSome == \A p \in Chain : Served(p) # <<>>
<1> SUFFICES ASSUME NEW p \in Chain PROVE Served(p) # <<>>
  OBVIOUS
<1>1. p \in Seq(STRING) /\ p # <<>>
  OBVIOUS
<1>2. Len(<<"safety">> \o p) = 1 + Len(p)
  BY <1>1
<1>3. <<"safety">> \o p # <<>>
  BY <1>1, <1>2
<1>4. QED
  BY <1>1, <1>3 DEF Served

LEMMA ConfFixed == [Next]_vars => conf' = conf
BY DEF Next, vars, StartFromDb, StartFromFile, Crash, Call, Acquire, LockTimeout, Commit,
       Swap, PersistRaises, Release, Reap, Overrun

LEMMA TypeNext == TypeOK /\ [Next]_vars => TypeOK'
<1> SUFFICES ASSUME TypeOK, [Next]_vars PROVE TypeOK'
  OBVIOUS
<1> DEFINE Policies == {Served(p) : p \in Chain} \cup {<<>>}
           State == {"idle"} \cup Running \cup Ended
           Other == /\ row \in {NoRow} \cup [policy : Chain \cup {<<>>}, by : Change \cup Nobody]
                    /\ pc \in [Change -> State] /\ want \in [Change -> Chain]
                    /\ on \in [Change -> Replica]
                    /\ holder \in Change \cup {"nobody"} /\ expired \subseteq Change
                    /\ crashes \in 0..MaxCrashes /\ stored \subseteq Chain
           Good == mem' \in [Replica -> Policies] /\ Other'
<1>1. Policies' = Policies
  BY ConfFixed DEF Served
<1>2. \A p \in Chain : Served(p) \in Policies
  OBVIOUS
<1>3. mem \in [Replica -> Policies] /\ <<>> \in Policies /\ Other
  BY DEF TypeOK
<1>4. {"waiting", "busy", "dead", "done", "failed"} \cup Critical \subseteq State
  BY DEF Running, Ended
<1>5. {"writing", "committed", "swapped", "failing"} = Critical
  BY DEF Critical
<1> HIDE DEF Policies, State
<1>6. ASSUME NEW r \in Replica, StartFromDb(r) PROVE Good
  <2>1. row.policy \in Chain
    BY <1>3, <1>6 DEF StartFromDb, NoRow
  <2>2. QED
    BY <1>2, <1>3, <1>6, <2>1 DEF StartFromDb
<1>7. ASSUME NEW r \in Replica, StartFromFile(r) PROVE Good
  <2>1. conf.file.saved \in Chain \cup {<<>>} /\ Served(conf.file.policy) \in Policies
    BY <1>2, <1>7 DEF StartFromFile, UsesFile, TypeOK
  <2>2. /\ row' = [policy |-> conf.file.saved, by |-> "startup"]
        /\ stored' = stored \cup ({conf.file.saved} \ {<<>>})
        /\ mem' = [mem EXCEPT ![r] = Served(conf.file.policy)] \/ mem' = mem
        /\ UNCHANGED <<conf, pc, on, want, holder, expired, crashes>>
    BY <1>7 DEF StartFromFile, Store
  <2>3. mem' \in [Replica -> Policies]
    BY <1>3, <2>1, <2>2
  <2>4. QED
    BY <1>3, <2>1, <2>2, <2>3 DEF Nobody
<1>8. ASSUME NEW r \in Replica, Crash(r) PROVE Good
  BY <1>3, <1>4, <1>8 DEF Crash
<1>9. ASSUME NEW c \in Change, Call(c) \/ LockTimeout(c) \/ PersistRaises(c) PROVE Good
  BY <1>3, <1>4, <1>5, <1>9 DEF Call, LockTimeout, PersistRaises, Goto
<1>10. ASSUME NEW c \in Change, Acquire(c) \/ Release(c) \/ Reap(c) \/ Overrun(c) PROVE Good
  <2>1. CASE Acquire(c)
    BY <1>3, <1>4, <1>5, <2>1 DEF Acquire, Goto
  <2>2. CASE Release(c)
    BY <1>3, <1>4, <1>5, <2>2 DEF Release, Goto, Outcome
  <2>3. CASE Reap(c) \/ Overrun(c)
    BY <1>3, <2>3 DEF Reap, Overrun
  <2>4. QED
    BY <1>10, <2>1, <2>2, <2>3
<1>11. ASSUME NEW c \in Change, Commit(c) PROVE Good
  BY <1>3, <1>4, <1>5, <1>11 DEF Commit, Store, Goto
<1>12. ASSUME NEW c \in Change, Swap(c) PROVE Good
  BY <1>2, <1>3, <1>4, <1>5, <1>12 DEF Swap, Goto
<1>13. ASSUME UNCHANGED vars PROVE Good
  BY <1>3, <1>13 DEF vars
<1>14. Good
  BY <1>6, <1>7, <1>8, <1>9, <1>10, <1>11, <1>12, <1>13 DEF Next
<1>15. QED
  <2>1. mem' \in [Replica -> Policies']
    BY <1>1, <1>14
  <2>2. QED
    BY <1>14, <2>1, ConfFixed DEF TypeOK, Policies, State

(* Locks, writes and the places where changes stand stay in step.           *)
LEMMA ChangeNext ==
  ASSUME IndInv, TypeOK', [Next]_vars, NEW d \in Change
  PROVE  ChangeInv(d)' /\ on'[d] \in conf'.replicas
<1> USE DEF IndInv, TypeOK, IInv, ChangeInv, Alone, Critical, Running, Ended, Single, Up, Nobody
<1>0. conf' = conf
  BY ConfFixed
<1>1. ASSUME NEW r \in Replica, StartFromDb(r) PROVE ChangeInv(d)' /\ on'[d] \in conf'.replicas
  BY <1>0, <1>1 DEF StartFromDb, Down
<1>2. ASSUME NEW r \in Replica, StartFromFile(r) PROVE ChangeInv(d)' /\ on'[d] \in conf'.replicas
  BY <1>0, <1>2 DEF StartFromFile, Down, Store
<1>3. ASSUME NEW r \in Replica, Crash(r) PROVE ChangeInv(d)' /\ on'[d] \in conf'.replicas
  BY <1>0, <1>3 DEF Crash
<1>4. ASSUME NEW c \in Change, Call(c) \/ LockTimeout(c) \/ PersistRaises(c)
      PROVE ChangeInv(d)' /\ on'[d] \in conf'.replicas
  <2>1. CASE Call(c)
    BY <1>0, <2>1 DEF Call, Goto
  <2>2. CASE LockTimeout(c)
    BY <1>0, <2>2 DEF LockTimeout, Goto
  <2>3. CASE PersistRaises(c)
    BY <1>0, <2>3 DEF PersistRaises, Goto
  <2>4. QED
    BY <1>4, <2>1, <2>2, <2>3
<1>5. ASSUME NEW c \in Change, Acquire(c) PROVE ChangeInv(d)' /\ on'[d] \in conf'.replicas
  BY <1>0, <1>5 DEF Acquire, Goto
<1>10. ASSUME NEW c \in Change, Release(c) PROVE ChangeInv(d)' /\ on'[d] \in conf'.replicas
  BY <1>0, <1>10 DEF Release, Goto, Outcome
<1>11. ASSUME NEW c \in Change, Reap(c) \/ Overrun(c)
       PROVE ChangeInv(d)' /\ on'[d] \in conf'.replicas
  <2>1. CASE Reap(c)
    BY <1>0, <2>1 DEF Reap
  <2>2. CASE Overrun(c)
    BY <1>0, <2>2 DEF Overrun
  <2>3. QED
    BY <1>11, <2>1, <2>2
<1>6. ASSUME NEW c \in Change, Commit(c) PROVE ChangeInv(d)' /\ on'[d] \in conf'.replicas
  <2>1. /\ pc' = [pc EXCEPT ![c] = "committed"] /\ pc[c] = "writing"
        /\ row' = [policy |-> want[c], by |-> c] /\ want[c] \in stored'
        /\ stored \subseteq stored' /\ UNCHANGED <<mem, on, want, holder, expired>>
    BY <1>6 DEF Commit, Store, Goto
  <2>2. CASE d = c
    BY <1>0, <2>1, <2>2
  <2>3. CASE d # c
    BY <1>0, <2>1, <2>3
  <2>4. QED
    BY <2>2, <2>3
<1>7. ASSUME NEW c \in Change, Swap(c) PROVE ChangeInv(d)' /\ on'[d] \in conf'.replicas
  BY <1>0, <1>7, ServedSome DEF Swap, Goto
<1>8. ASSUME UNCHANGED vars PROVE ChangeInv(d)' /\ on'[d] \in conf'.replicas
  BY <1>0, <1>8 DEF vars
<1>9. QED
  BY <1>1, <1>2, <1>3, <1>4, <1>5, <1>6, <1>7, <1>8, <1>10, <1>11 DEF Next

(* The row and the served policies come from what was stored.               *)
LEMMA StoredNext ==
  ASSUME IndInv, TypeOK', [Next]_vars
  PROVE  /\ row'.policy # <<>> => row'.policy \in stored'
         /\ stored \subseteq stored'
<1> USE DEF IndInv, TypeOK, IInv
<1>1. ASSUME NEW r \in Replica, StartFromFile(r)
      PROVE (row'.policy # <<>> => row'.policy \in stored') /\ stored \subseteq stored'
  BY <1>1 DEF StartFromFile, Store
<1>2. ASSUME NEW c \in Change, Commit(c)
      PROVE (row'.policy # <<>> => row'.policy \in stored') /\ stored \subseteq stored'
  BY <1>2 DEF Commit, Store
<1>3. ASSUME UNCHANGED <<row, stored>>
      PROVE (row'.policy # <<>> => row'.policy \in stored') /\ stored \subseteq stored'
  BY <1>3
<1>4. ASSUME NEW r \in Replica, StartFromDb(r) \/ Crash(r) PROVE UNCHANGED <<row, stored>>
  BY <1>4 DEF StartFromDb, Crash
<1>5. ASSUME NEW c \in Change,
             Call(c) \/ Acquire(c) \/ LockTimeout(c) \/ Swap(c)
               \/ PersistRaises(c) \/ Release(c) \/ Reap(c) \/ Overrun(c)
      PROVE UNCHANGED <<row, stored>>
  BY <1>5 DEF Call, Acquire, LockTimeout, Swap, PersistRaises, Release, Reap, Overrun
<1>6. QED
  BY <1>1, <1>2, <1>3, <1>4, <1>5 DEF Next, vars

(* How the policy a replica serves can change.                              *)
LEMMA MemNext ==
  ASSUME IndInv, TypeOK', [Next]_vars, NEW r \in Replica, Up(r)'
  PROVE  \/ mem'[r] = mem[r]
         \/ StartFromDb(r) /\ mem'[r] = Served(row.policy)
         \/ StartFromFile(r) /\ mem'[r] = Served(conf.file.policy)
         \/ \E c \in Change : Swap(c) /\ on[c] = r /\ mem'[r] = Served(want[c])
<1> USE DEF IndInv, TypeOK, IInv
<1>1. ASSUME NEW s \in Replica, StartFromDb(s)
      PROVE mem'[r] = mem[r] \/ (s = r /\ mem'[r] = Served(row.policy))
  BY <1>1 DEF StartFromDb
<1>2. ASSUME NEW s \in Replica, StartFromFile(s)
      PROVE mem'[r] = mem[r] \/ (s = r /\ mem'[r] = Served(conf.file.policy))
  BY <1>2 DEF StartFromFile
<1>3. ASSUME NEW s \in Replica, Crash(s) PROVE mem'[r] = mem[r]
  BY <1>3 DEF Crash, Up
<1>4. ASSUME NEW c \in Change, Swap(c)
      PROVE mem'[r] = mem[r] \/ (on[c] = r /\ mem'[r] = Served(want[c]))
  BY <1>4 DEF Swap
<1>5. ASSUME NEW c \in Change,
             Call(c) \/ Acquire(c) \/ LockTimeout(c) \/ Commit(c)
               \/ PersistRaises(c) \/ Release(c) \/ Reap(c) \/ Overrun(c)
      PROVE mem'[r] = mem[r]
  BY <1>5 DEF Call, Acquire, LockTimeout, Commit, PersistRaises, Release, Reap, Overrun
<1>6. QED
  BY <1>1, <1>2, <1>3, <1>4, <1>5 DEF Next, vars

LEMMA ServedFixed ==
  ASSUME IndInv, [Next]_vars
  PROVE  \A p : Served(p)' = Served(p)
BY ConfFixed DEF Served

LEMMA UpNext ==
  ASSUME IndInv, TypeOK', [Next]_vars, NEW r \in Replica, Up(r)'
  PROVE  /\ r \in conf'.replicas
         /\ \/ \E p \in stored' : mem'[r] = Served(p)
            \/ NotWhole /\ mem'[r] = Served(conf.file.policy)
<1> USE DEF IndInv, TypeOK, IInv
<1>0. Up(r) => /\ r \in conf'.replicas
               /\ \/ \E p \in stored' : mem[r] = Served(p)
                  \/ NotWhole /\ mem[r] = Served(conf.file.policy)
  BY ConfFixed, StoredNext DEF ServesStored
<1>1. CASE mem'[r] = mem[r]
  BY <1>0, <1>1 DEF Up
<1>2. CASE StartFromDb(r) /\ mem'[r] = Served(row.policy)
  BY <1>2, StoredNext, ConfFixed DEF StartFromDb, Down
<1>3. CASE StartFromFile(r) /\ mem'[r] = Served(conf.file.policy)
  BY <1>3, ConfFixed DEF StartFromFile, Store, Down, NotWhole, UsesFile, NoFile
<1>4. ASSUME NEW c \in Change, Swap(c), on[c] = r, mem'[r] = Served(want[c])
      PROVE r \in conf'.replicas /\ \E p \in stored' : mem'[r] = Served(p)
  BY <1>4, StoredNext, ConfFixed DEF Swap, Goto, ChangeInv
<1>5. QED
  BY <1>1, <1>2, <1>3, <1>4, MemNext

(* One process: only the upsert of an unacknowledged change separates the   *)
(* row from memory, and a swap brings them together again.                  *)
Agrees(r) ==
  \/ mem[r] = Served(row.policy)
  \/ OfFile /\ NotWhole /\ mem[r] = Served(conf.file.policy)
  \/ row.by \in Change /\ pc[row.by] \in {"committed", "failing", "failed"}

LEMMA AgreementNext ==
  ASSUME IndInv, TypeOK', [Next]_vars, Single', expired' = {}, NEW r \in Replica, Up(r)'
  PROVE  Agrees(r)'
<1> USE DEF IndInv, TypeOK, IInv
<1>1. expired = {}
  BY DEF Next, vars, StartFromDb, StartFromFile, Crash, Call, Acquire, LockTimeout, Commit,
         Swap, PersistRaises, Release, Reap, Overrun
<1>2. Single /\ r \in conf.replicas
  BY ConfFixed, UpNext DEF Single
<1>3. Up(r) => Agrees(r)
  BY <1>1, <1>2 DEF Agreement, Agrees
<1>4. (\/ mem'[r] = Served(row'.policy)
       \/ OfFile' /\ NotWhole' /\ mem'[r] = Served(conf'.file.policy)
       \/ (row'.by \in Change /\ pc'[row'.by] \in {"committed", "failing", "failed"}))
      => Agrees(r)'
  BY ServedFixed, ConfFixed DEF Agrees
<1>15. ASSUME UNCHANGED <<row, mem>>,
              \A c \in Change : pc[c] \in {"committed", "failing", "failed"} =>
                                pc'[c] \in {"committed", "failing", "failed"}
       PROVE  Agrees(r)'
  <2>1. Agrees(r) /\ conf' = conf
    BY <1>3, <1>15, ConfFixed DEF Up
  <2>2. OfFile' = OfFile /\ NotWhole' = NotWhole
    BY <1>15, <2>1 DEF OfFile, NotWhole
  <2>3. QED
    BY <1>4, <1>15, <2>1, <2>2 DEF Agrees
<1>5. ASSUME NEW s \in Replica, StartFromDb(s) PROVE Agrees(r)'
  <2>1. s = r
    BY <1>2, <1>5 DEF StartFromDb, Down, Single
  <2>2. mem'[r] = Served(row'.policy)
    BY <1>5, <2>1 DEF StartFromDb
  <2>3. QED
    BY <1>4, <2>2
<1>6. ASSUME NEW s \in Replica, StartFromFile(s) PROVE Agrees(r)'
  <2>1. s = r
    BY <1>2, <1>6 DEF StartFromFile, Down, Single
  <2>2. mem'[r] = Served(conf.file.policy)
    BY <1>6, <2>1 DEF StartFromFile, Down, Up
  <2>3. QED
    BY <1>4, <1>6, <2>2, ConfFixed DEF StartFromFile, Store, OfFile, NotWhole
<1>7. ASSUME NEW s \in Replica, Crash(s) PROVE FALSE
  <2>1. s = r
    BY <1>2, <1>7 DEF Crash, Single
  <2>2. QED
    BY <1>7, <2>1 DEF Crash, Up
<1>8. ASSUME NEW c \in Change, Commit(c) PROVE Agrees(r)'
  BY <1>4, <1>8 DEF Commit, Store, Goto
<1>9. ASSUME NEW c \in Change, Swap(c) PROVE Agrees(r)'
  <2>1. on[c] = r
    BY <1>2, <1>9 DEF Single
  <2>2. row = [policy |-> want[c], by |-> c]
    BY <1>1, <1>2, <1>9 DEF ChangeInv, Alone, Swap, Goto
  <2>3. QED
    BY <1>4, <1>9, <2>1, <2>2 DEF Swap
<1>10. ASSUME NEW c \in Change, PersistRaises(c) \/ Release(c) PROVE Agrees(r)'
  <2>1. CASE PersistRaises(c)
    BY <1>15, <2>1 DEF PersistRaises, Goto
  <2>2. CASE Release(c)
    BY <1>15, <2>2 DEF Release, Goto, Outcome
  <2>3. QED
    BY <1>10, <2>1, <2>2
<1>11. ASSUME NEW c \in Change, Call(c) \/ Acquire(c) \/ LockTimeout(c) PROVE Agrees(r)'
  BY <1>11, <1>15 DEF Call, Acquire, LockTimeout, Goto
<1>12. ASSUME NEW c \in Change, Reap(c) \/ Overrun(c) PROVE Agrees(r)'
  BY <1>12, <1>15 DEF Reap, Overrun
<1>13. ASSUME UNCHANGED vars PROVE Agrees(r)'
  BY <1>13, <1>15 DEF vars
<1>14. QED
  BY <1>5, <1>6, <1>7, <1>8, <1>9, <1>10, <1>11, <1>12, <1>13 DEF Next

-----------------------------------------------------------------------------
(* The invariant holds in every reachable state.                            *)
THEOREM Invariance == Spec => []IndInv
<1>1. IndInv /\ [Next]_vars => IndInv'
  <2> SUFFICES ASSUME IndInv, [Next]_vars PROVE IndInv'
    OBVIOUS
  <2>1. TypeOK'
    BY TypeNext DEF IndInv
  <2>2. \A c \in Change : ChangeInv(c)' /\ on'[c] \in conf'.replicas
    BY <2>1, ChangeNext
  <2>3. ServesStored'
    BY <2>1, UpNext, ServedFixed, ConfFixed DEF ServesStored, NotWhole
  <2>4. Agreement'
    BY <2>1, AgreementNext DEF Agreement, Agrees
  <2>5. ~conf'.redis => Single'
    BY ConfFixed DEF IndInv, IInv, Single
  <2>6. (\A s \in Replica : Up(s) => s \in conf.replicas)'
    BY <2>1, UpNext
  <2>7. QED
    BY <2>1, <2>2, <2>3, <2>4, <2>5, <2>6, StoredNext DEF IndInv, IInv, NoRow
<1>2. QED
  BY <1>1, InitHolds, PTL DEF Spec

(* Nothing is served that was not stored first, or read from a file whose   *)
(* policy is not stored whole, nor without the safety policy where it is    *)
(* demanded (enable_policy, initialize).                                    *)
THEOREM ServedIsStored == Spec => []ServesStored
<1>1. IndInv => ServesStored
  BY DEF IndInv, IInv
<1>2. QED
  BY <1>1, Invariance, PTL

(* A single process serves its row, or the row is that of a change that was *)
(* never acknowledged, or of a file whose policy is not stored whole.       *)
THEOREM OneProcessAgrees == Spec => []Agreement
<1>1. IndInv => Agreement
  BY DEF IndInv, IInv
<1>2. QED
  BY <1>1, Invariance, PTL

(* The lock makes write and swap one step, as long as it does not expire.   *)
THEOREM AckMeansStored == Spec => AckedIsStored
<1>1. IndInv /\ [Next]_vars =>
        [\A c \in Change :
           expired = {} /\ pc[c] = "committed" /\ pc'[c] = "swapped" =>
             row = [policy |-> want[c], by |-> c] \/ (row.by = "startup" /\ ~Single)]_vars
  BY DEF IndInv, IInv, ChangeInv, Alone
<1>2. QED
  BY <1>1, Invariance, PTL DEF Spec, AckedIsStored
=============================================================================
