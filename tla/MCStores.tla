------------------------------- MODULE MCStores -------------------------------
(***************************************************************************)
(* What the gateway keeps beside its configuration, model-checked in one    *)
(* run: a behaviour is that of the credential cache, or that of the audit   *)
(* trail and its retention. Neither reads the other's state.                *)
(***************************************************************************)
EXTENDS CredentialCache, Retention, TLC

VARIABLE which   \* of the two

storeVars == <<which, credentialVars, vars>>

(* Two calls of one session; the second has no user and is a probe.         *)
MCAbout == [c \in Call |-> [session |-> "s", known |-> c = 1, probe |-> c # 1]]

(* Requests are interchangeable, and so are replicas.                       *)
Symmetry == Permutations(Req) \cup Permutations(Replica)

\* The one that is not picked stays in one initial state.
StoresInit ==
  /\ which \in {"credentials", "retention"}
  /\ CredentialInit
  /\ which # "credentials" =>
       /\ ~redis /\ \A k \in Key : ~good[k] /\ ~oauth[k]
       /\ \A r \in Req : ~bearer[r]
  /\ Init /\ (which # "retention" => ~archiving)

\* TrustBounded needs the whole clock, and speaks of the in-process cache.
RedisClock == 5

StoresNext ==
  \/ which = "credentials" /\ CredentialNext /\ UNCHANGED <<which, vars>>
       /\ (redis => clock' <= RedisClock)
  \/ which = "retention"   /\ Next           /\ UNCHANGED <<which, credentialVars>>

StoresSpec == StoresInit /\ [][StoresNext]_storeVars
=============================================================================
