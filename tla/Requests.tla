-------------------------------- MODULE Requests --------------------------------
(***************************************************************************)
(* What runs for a request, model-checked in one run: a behaviour is that   *)
(* of the handlers of RequestPipeline, or that of the judges a policy asks  *)
(* on the way (JudgeCalls). Neither reads the other's state: the pipeline   *)
(* sees of a judge only that its hook returns, raises or is cancelled.      *)
(***************************************************************************)
EXTENDS RequestPipeline, JudgeCalls

VARIABLE which   \* of the two

requestVars == <<which, pipelineVars, allVars>>

\* The one that is not picked stays in one initial state.
RequestsInit ==
  /\ which \in {"pipeline", "judges"}
  /\ PipelineInit
  /\ CallInit /\ (which # "judges" => route = "error")

RequestsNext ==
  \/ which = "pipeline" /\ PipelineNext /\ UNCHANGED <<which, allVars>>
  \/ which = "judges"   /\ CallNext     /\ UNCHANGED <<which, pipelineVars>>

(* The fairness of each: nothing of what is not picked is enabled.          *)
RequestsSpec ==
  /\ RequestsInit /\ [][RequestsNext]_requestVars
  /\ \A c \in Call : WF_pipelineVars(HandlerStep(c))
  /\ WF_allVars(Wake /\ UNCHANGED callVars) /\ \A i \in Item : WF_allVars(CallStep(i))
=============================================================================
