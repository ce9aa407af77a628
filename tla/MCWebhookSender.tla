-------------------------- MODULE MCWebhookSender --------------------------
(* The webhook sender on small pools. Transactions are interchangeable.     *)
EXTENDS WebhookSender, TLC

Symmetry == Permutations(Tx)
=============================================================================
