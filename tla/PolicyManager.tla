----------------------------- MODULE PolicyManager -----------------------------
(***************************************************************************)
(* PolicyManager (policy_manager.py): the policy a gateway process serves, *)
(* the current_policy row it is stored in, and the lock under which an     *)
(* operator changes both. Every await of enable_policy is a step of its    *)
(* own: waiting for the lock, the upsert on its way, the upsert committed   *)
(* but not yet answered, the release. Processes crash and start again.     *)
(*                                                                         *)
(* A policy is the chain of its top-level sub-policies. With Redis the     *)
(* lock is shared by all replicas and expires; without, there is one       *)
(* process and an asyncio.Lock.                                            *)
(***************************************************************************)
EXTENDS Naturals, Sequences, SequencesExt

CONSTANTS
  Replica,     \* gateway processes
  Change,      \* calls of enable_policy
  Chain,       \* the policies that can be stored
  Files,       \* YAML files: the policy of one, and the policy that is made from
               \* the configuration stored for it, <<>> if none can be
  MaxCrashes   \* bound on the crashes

Nobody == {"nobody", "earlier", "startup"}   \* writers of the row other than a change

ASSUME PolicyAssumption ==
  /\ Chain \subseteq Seq(STRING) /\ <<>> \notin Chain
  /\ Files \subseteq [policy : Chain, saved : Chain \cup {<<>>}]
  /\ Change \cap Nobody = {}
  /\ MaxCrashes \in Nat

VARIABLES
  conf,     \* the deployment, for good: redis, source, file, dogfood, replicas
  row,      \* the current_policy row: policy, and by whom (enabled_by)
  mem,      \* mem[r]: _current_policy of r; <<>> while r is down
  pc,       \* pc[c]: where enable_policy stands
  on, want, \* on[c], want[c]: the process and the policy of change c
  holder,   \* of the lock; "nobody" if it is free
  expired,  \* the changes whose Redis lock expired under them
  crashes,
  stored    \* history: the policies the row has named

vars == <<conf, row, mem, pc, on, want, holder, expired, crashes, stored>>

Sources  == {"db", "file", "db-fallback-file", "file-fallback-db"}
NoFile   == [policy |-> <<>>, saved |-> <<>>]
NoRow    == [policy |-> <<>>, by |-> "nobody"]
Critical == {"writing", "committed", "swapped", "failing"}
Running  == {"waiting"} \cup Critical
Ended    == {"done", "failed", "busy", "dead"}

(* _maybe_compose_dogfood: the safety policy comes first unless the chain   *)
(* has it.                                                                  *)
Served(chain) ==
  IF conf.dogfood /\ ~Contains(chain, "safety") THEN <<"safety">> \o chain ELSE chain

Up(r) == mem[r] # <<>>

TypeOK ==
  /\ conf \in [redis : BOOLEAN, source : Sources, file : Files \cup {NoFile},
               dogfood : BOOLEAN, replicas : SUBSET Replica]
  /\ row \in {NoRow} \cup [policy : Chain \cup {<<>>}, by : Change \cup Nobody]
  /\ mem \in [Replica -> {Served(p) : p \in Chain} \cup {<<>>}]
  /\ pc \in [Change -> {"idle"} \cup Running \cup Ended]
  /\ on \in [Change -> Replica] /\ want \in [Change -> Chain]
  /\ holder \in Change \cup {"nobody"} /\ expired \subseteq Change
  /\ crashes \in 0..MaxCrashes /\ stored \subseteq Chain

Init ==
  /\ conf \in [redis : BOOLEAN, source : Sources, file : Files \cup {NoFile},
               dogfood : BOOLEAN, replicas : SUBSET Replica]
  /\ ~conf.redis => \A r, s \in conf.replicas : r = s
  /\ row \in {NoRow} \cup [policy : Chain, by : {"earlier"}]
  /\ mem = [r \in Replica |-> <<>>]
  /\ pc = [c \in Change |-> "idle"]
  /\ on \in [Change -> conf.replicas] /\ want \in [Change -> Chain]
  /\ holder = "nobody" /\ expired = {} /\ crashes = 0
  /\ stored = {row.policy} \ {<<>>}

-----------------------------------------------------------------------------
(* initialize: no lock is taken.                                            *)

Store(policy, by) ==
  /\ row' = [policy |-> policy, by |-> by]
  /\ stored' = stored \cup ({policy} \ {<<>>})

Down(r) == r \in conf.replicas /\ ~Up(r)

\* A row no policy can be made from raises, and the process does not start.
StartFromDb(r) ==
  /\ Down(r) /\ row # NoRow /\ row.policy # <<>>
  /\ conf.source \in {"db", "db-fallback-file"}
       \/ (conf.source = "file-fallback-db" /\ conf.file = NoFile)
  /\ mem' = [mem EXCEPT ![r] = Served(row.policy)]
  /\ UNCHANGED <<conf, row, pc, on, want, holder, expired, crashes, stored>>

\* _load_from_db answers None for a missing row and for a failed read alike.
UsesFile(readFails) ==
  /\ conf.file # NoFile
  /\ \/ conf.source \in {"file", "file-fallback-db"}
     \/ conf.source = "db-fallback-file" /\ (row = NoRow \/ readFails)

\* What is stored is get_config(), the public Pydantic attributes: nothing of a
\* MultiSerialPolicy, whose sub-policies are private, and then its class cannot
\* be instantiated. The upsert's answer may be lost; then the process does not
\* start.
StartFromFile(r) ==
  /\ Down(r) /\ \E readFails \in BOOLEAN : UsesFile(readFails)
  /\ Store(conf.file.saved, "startup")
  /\ \/ mem' = [mem EXCEPT ![r] = Served(conf.file.policy)]
     \/ UNCHANGED mem
  /\ UNCHANGED <<conf, pc, on, want, holder, expired, crashes>>

-----------------------------------------------------------------------------
(* enable_policy.                                                           *)

Goto(c, from, to) == pc[c] \in from /\ pc' = [pc EXCEPT ![c] = to]

Call(c) ==
  /\ Goto(c, {"idle"}, "waiting") /\ Up(on[c])
  /\ UNCHANGED <<conf, row, mem, on, want, holder, expired, crashes, stored>>

\* Mutants: the lock of one replica does not exclude another; the policy is
\* swapped before it is persisted.
AcquireOwn(c) ==
  /\ \E next \in {"writing", "failing"} : Goto(c, {"waiting"}, next)
  /\ holder # "nobody" => on[holder] # on[c]
  /\ holder' = c
  /\ UNCHANGED <<conf, row, mem, on, want, expired, crashes, stored>>
AcquireAndSwap(c) ==
  /\ Goto(c, {"waiting"}, "writing")
  /\ holder = "nobody" /\ holder' = c
  /\ mem' = [mem EXCEPT ![on[c]] = Served(want[c])]
  /\ UNCHANGED <<conf, row, on, want, expired, crashes, stored>>

\* The policy is imported and instantiated at once, or that fails.
Acquire(c) ==
  /\ \E next \in {"writing", "failing"} : Goto(c, {"waiting"}, next)
  /\ holder = "nobody" /\ holder' = c
  /\ UNCHANGED <<conf, row, mem, on, want, expired, crashes, stored>>

\* The lock is not had in time: 503.
LockTimeout(c) ==
  /\ Goto(c, {"waiting"}, "busy")
  /\ UNCHANGED <<conf, row, mem, on, want, holder, expired, crashes, stored>>

\* The database commits the upsert of _persist_to_db.
Commit(c) ==
  /\ Goto(c, {"writing"}, "committed")
  /\ Store(want[c], c)
  /\ UNCHANGED <<conf, mem, on, want, holder, expired, crashes>>

Swap(c) ==
  /\ Goto(c, {"committed"}, "swapped")
  /\ mem' = [mem EXCEPT ![on[c]] = Served(want[c])]
  /\ UNCHANGED <<conf, row, on, want, holder, expired, crashes, stored>>

\* An error before the commit, or an answer lost after it.
PersistRaises(c) ==
  /\ Goto(c, {"writing", "committed"}, "failing")
  /\ UNCHANGED <<conf, row, mem, on, want, holder, expired, crashes, stored>>

Outcome(c) == IF pc[c] = "swapped" THEN "done" ELSE "failed"

\* Mutant: the lock is released on success only.
ReleaseUnlessFailed(c) ==
  /\ Goto(c, {"swapped", "failing"}, Outcome(c))
  /\ holder' = IF holder = c /\ pc[c] = "swapped" THEN "nobody" ELSE holder
  /\ UNCHANGED <<conf, row, mem, on, want, expired, crashes, stored>>

\* A release that fails only warns: of a Redis lock one has lost, or by an error
\* of Redis, and then the lock is still there until it times out.
Release(c) ==
  /\ Goto(c, {"swapped", "failing"}, Outcome(c))
  /\ \/ holder' = IF holder = c THEN "nobody" ELSE holder
     \/ conf.redis /\ UNCHANGED holder
  /\ UNCHANGED <<conf, row, mem, on, want, expired, crashes, stored>>

-----------------------------------------------------------------------------
(* The environment.                                                         *)

\* The Redis lock of a dead process or of a failed release times out ...
Reap(c) ==
  /\ conf.redis /\ holder = c /\ pc[c] \in {"dead", "done", "failed"}
  /\ holder' = "nobody"
  /\ UNCHANGED <<conf, row, mem, pc, on, want, expired, crashes, stored>>

\* ... and so does that of a change that takes longer than its timeout.
Overrun(c) ==
  /\ conf.redis /\ holder = c /\ pc[c] \in Critical
  /\ holder' = "nobody" /\ expired' = expired \cup {c}
  /\ UNCHANGED <<conf, row, mem, pc, on, want, crashes, stored>>

Crash(r) ==
  /\ Up(r) /\ crashes < MaxCrashes /\ crashes' = crashes + 1
  /\ mem' = [mem EXCEPT ![r] = <<>>]
  /\ pc' = [c \in Change |-> IF on[c] = r /\ pc[c] \in Running THEN "dead" ELSE pc[c]]
  /\ holder' = IF conf.redis THEN holder ELSE "nobody"
  /\ UNCHANGED <<conf, row, on, want, expired, stored>>

-----------------------------------------------------------------------------
Next ==
  \/ \E r \in Replica : StartFromDb(r) \/ StartFromFile(r) \/ Crash(r)
  \/ \E c \in Change : \/ Call(c) \/ Acquire(c) \/ LockTimeout(c) \/ Commit(c) \/ Swap(c)
                       \/ PersistRaises(c) \/ Release(c) \/ Reap(c) \/ Overrun(c)

Spec == Init /\ [][Next]_vars

(* The event loop runs what can run, the database and Redis answer, and a   *)
(* Redis lock has a timeout.                                                *)
Fairness ==
  \A c \in Change :
    /\ WF_vars(Commit(c) \/ Swap(c) \/ PersistRaises(c) \/ Release(c))
    /\ WF_vars(Acquire(c) \/ LockTimeout(c)) /\ WF_vars(Reap(c))

-----------------------------------------------------------------------------
(* Correctness properties.                                                  *)

Single == \A r, s \in conf.replicas : r = s

(* What a process serves is a policy that was stored first, so no crash can *)
(* lose it, with the safety policy in front in dogfood mode, whichever way  *)
(* the process got it. A policy from a file is stored without what its      *)
(* get_config leaves out, and is then served by that process only.          *)
NotWhole == conf.file.saved # conf.file.policy
ServesStored ==
  \A r \in Replica : Up(r) =>
    \/ \E p \in stored : mem[r] = Served(p)
    \/ NotWhole /\ mem[r] = Served(conf.file.policy)

(* A change is acknowledged only while the row holds it: no other change    *)
(* slipped in between its write and its swap, on any replica, unless a      *)
(* Redis lock expired under its holder; a process that starts from its file *)
(* takes no lock and may.                                                   *)
AckedIsStored ==
  [][\A c \in Change :
       expired = {} /\ pc[c] = "committed" /\ pc'[c] = "swapped" =>
         row = [policy |-> want[c], by |-> c] \/ (row.by = "startup" /\ ~Single)]_vars

(* With one process memory and row agree, across failed changes, crashes    *)
(* and restarts, unless the change that wrote the row was not acknowledged, *)
(* or the row is that of a file whose policy is not stored whole.           *)
OfFile == row = [policy |-> conf.file.saved, by |-> "startup"]
Agreement ==
  Single /\ expired = {} => \A r \in Replica :
    Up(r) => \/ mem[r] = Served(row.policy)
             \/ OfFile /\ NotWhole /\ mem[r] = Served(conf.file.policy)
             \/ row.by \in Change /\ pc[row.by] \in {"committed", "failing", "failed"}

(* The lock comes back whatever became of its holder.                       *)
LockComesBack == \A c \in Change : holder = c ~> holder # c

-----------------------------------------------------------------------------
(* The inductive invariant the proofs use.                                  *)

Alone(c) == expired = {} /\ pc[c] = "committed"

ChangeInv(c) ==
  /\ pc[c] \in Critical => holder = c \/ c \in expired
  /\ pc[c] \in Running => Up(on[c])
  /\ holder = c => pc[c] \in Critical \cup {"dead", "done", "failed"}
  /\ pc[c] = "committed" => want[c] \in stored
  /\ Alone(c) => \/ row = [policy |-> want[c], by |-> c]
                 \/ row.by = "startup" /\ ~Single

(* A change that writes holds the lock or has lost it to its timeout, and   *)
(* what is served was stored.                                               *)
IInv ==
  /\ ~conf.redis => Single
  /\ \A c \in Change : ChangeInv(c) /\ on[c] \in conf.replicas
  /\ row.policy # <<>> => row.policy \in stored
  /\ \A r \in Replica : Up(r) => r \in conf.replicas
  /\ ServesStored /\ Agreement
IndInv == TypeOK /\ IInv

-----------------------------------------------------------------------------
(* Statement of the sources that the code does not keep.                    *)

(* "db-fallback-file: try database first, fall back to YAML file if empty": *)
(* a row is not replaced by the file under that setting.                    *)
FallbackOnlyIfEmpty ==
  [][conf.source = "db-fallback-file" /\ row # NoRow /\ row' # row =>
       row'.by # "startup"]_vars
=============================================================================
