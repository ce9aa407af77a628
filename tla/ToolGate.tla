------------------------------- MODULE ToolGate -------------------------------
(***************************************************************************)
(* What a policy that judges tool calls promises about one response, told  *)
(* without blocks, judges or buffering: every tool call the model offers   *)
(* is held; each is allowed or denied, once; when the response closes,     *)
(* with every call decided, the allowed ones are released together, in the *)
(* order they were offered. A response that is dropped releases nothing.   *)
(***************************************************************************)
EXTENDS Naturals, Sequences, SequencesExt

CONSTANT Tool   (* tool calls, numbered in the order they may be offered *)

VARIABLES
  offered,   \* the tool calls offered so far
  verdict,   \* verdict[t]: what was decided about t
  released,  \* the tool calls the client was given
  state      \* of the response

vars == <<offered, verdict, released, state>>

Init ==
  /\ offered = {} /\ released = <<>> /\ state = "open"
  /\ verdict = [t \in Tool |-> "undecided"]

Offer(t) ==
  /\ state = "open" /\ \A u \in offered : u < t
  /\ offered' = offered \cup {t}
  /\ UNCHANGED <<verdict, released, state>>

(* Judges may still answer when the response is gone.                       *)
Decide(t) ==
  /\ t \in offered /\ verdict[t] = "undecided"
  /\ \E v \in {"allowed", "denied"} : verdict' = [verdict EXCEPT ![t] = v]
  /\ UNCHANGED <<offered, released, state>>

InOrder(s) == \A i, j \in DOMAIN s : i < j => s[i] < s[j]
Close ==
  /\ state = "open" /\ \A t \in offered : verdict[t] # "undecided"
  /\ released' \in Seq(Tool) /\ InOrder(released')
  /\ ToSet(released') = {t \in offered : verdict[t] = "allowed"}
  /\ state' = "closed"
  /\ UNCHANGED <<offered, verdict>>

Drop ==
  /\ state = "open" /\ state' = "dropped"
  /\ UNCHANGED <<offered, verdict, released>>

Next == (\E t \in Tool : Offer(t) \/ Decide(t)) \/ Close \/ Drop

Spec == Init /\ [][Next]_vars
=============================================================================
