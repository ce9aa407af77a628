---------------------------- MODULE MCPolicyManager ----------------------------
(* Two policies, one of which is a chain and has the safety policy already. *)
(* As the policy of a file the chain is stored with no configuration.       *)
EXTENDS PolicyManager
CONSTANTS r1, r2, c1, c2
Plain   == <<"plain">>
Strict  == <<"strict", "safety">>
MCChain == {Plain, Strict}
MCFiles == {[policy |-> Plain, saved |-> Plain], [policy |-> Strict, saved |-> <<>>]}

\* Of two deployments, or two pairs of changes, that differ in names only, or in
\* a file nobody reads, one is enough.
Distinct ==
  /\ conf.replicas \in {{r1}, {r1, r2}}
  /\ conf.source = "db" => conf.file = NoFile
  /\ conf.file = NoFile => conf.source \in {"db", "file-fallback-db"}
  /\ want[c1] = Strict => want[c2] = Strict
MCInit == Init /\ Distinct
MCSpec == MCInit /\ [][Next]_vars /\ Fairness
=============================================================================
