------------------------- MODULE MCCredentialCache -------------------------
(* The credential cache on small instances. Requests are interchangeable.   *)
EXTENDS CredentialCache, TLC

Symmetry == Permutations(Req)
=============================================================================
