------------------------- MODULE BestEffortDelivery -------------------------
(***************************************************************************)
(* What the webhook sender promises the rest of the gateway about each     *)
(* transaction's completion event, without tasks, retries or shutdown: an  *)
(* event handed over is either turned away on the spot, never to reach the *)
(* receiver, or owed; an owed event ends acknowledged or lost, for good;   *)
(* it is acknowledged only if the receiver got it.                         *)
(***************************************************************************)
CONSTANT Tx

VARIABLES
  verdict,  \* verdict[t]: what became of the event of t
  got       \* the transactions whose event reached the receiver

vars == <<verdict, got>>

Init ==
  /\ verdict = [t \in Tx |-> "unfired"]
  /\ got = {}

TurnAway(t) ==
  /\ verdict[t] = "unfired"
  /\ verdict' = [verdict EXCEPT ![t] = "turned_away"]
  /\ UNCHANGED got

Owe(t) ==
  /\ verdict[t] = "unfired"
  /\ verdict' = [verdict EXCEPT ![t] = "owed"]
  /\ UNCHANGED got

\* Also after the sender has given up: the network may deliver late.
Arrive(t) ==
  /\ verdict[t] \notin {"unfired", "turned_away"}
  /\ got' = got \cup {t}
  /\ UNCHANGED verdict

Acknowledge(t) ==
  /\ verdict[t] = "owed" /\ t \in got
  /\ verdict' = [verdict EXCEPT ![t] = "acknowledged"]
  /\ UNCHANGED got

Lose(t) ==
  /\ verdict[t] = "owed"
  /\ verdict' = [verdict EXCEPT ![t] = "lost"]
  /\ UNCHANGED got

Next == \E t \in Tx : TurnAway(t) \/ Owe(t) \/ Arrive(t) \/ Acknowledge(t) \/ Lose(t)

Spec == Init /\ [][Next]_vars
=============================================================================
