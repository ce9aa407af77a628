-------------------------------- MODULE Policies --------------------------------
(***************************************************************************)
(* The policies, model-checked in one run: a behaviour is a response that   *)
(* passes SimpleLLMPolicy with its judges (LlmJudge), or a chain of the     *)
(* policies that rewrite responses (PolicyChain), or an administrator's     *)
(* preview of a policy (TestChat).                                          *)
(***************************************************************************)
EXTENDS Naturals, Sequences

CONSTANTS
  JudgedBlocks,   \* LlmJudge!MaxBlocks
  Names, MaxChain, MaxBlocks, MaxDeltas   \* PolicyChain

ASSUME PoliciesAssumption == JudgedBlocks \in Nat /\ MaxChain \in Nat

VARIABLES
  which,     \* of the three
  onError, streaming, upstream, said, tags, out, tools, blocked, judgeError, stop, phase,
  count, task, result, bailed, mode,
  chain, request, state, content, deltas, reason, sent, stage,
  server, active, chat

Judge == INSTANCE LlmJudge WITH MaxBlocks <- JudgedBlocks
Chain == INSTANCE PolicyChain WITH Policies <- Names, upstream <- content, stop <- reason, phase <- stage
Preview == INSTANCE TestChat

judgeVars == <<onError, streaming, upstream, said, tags, out, tools, blocked, judgeError, stop, phase,
               count, task, result, bailed, mode>>
chainVars == <<chain, request, state, content, deltas, reason, sent, stage>>
previewVars == <<server, active, chat>>
vars == <<which, judgeVars, chainVars, previewVars>>

\* Those that are not picked stay in one initial state.
Init ==
  /\ which \in {"judge", "chain", "preview"}
  /\ Judge!Init /\ (which # "judge" => onError = "pass" /\ streaming)
  /\ Chain!Init /\ (which # "chain" => Len(chain) = 1 /\ chain[1] = "noop" /\ request.roles = <<"user">>)
  /\ Preview!Init /\ (which # "preview" => server /\ active = Preview!Old)

Next ==
  \/ which = "judge"   /\ Judge!Next   /\ UNCHANGED <<which, chainVars, previewVars>>
  \/ which = "chain"   /\ Chain!Next   /\ UNCHANGED <<which, judgeVars, previewVars>>
  \/ which = "preview" /\ Preview!Next /\ UNCHANGED <<which, judgeVars, chainVars>>

FairSpec ==
  /\ Init /\ [][Next]_vars
  /\ WF_judgeVars(which = "judge" /\ Judge!ApplyAnswer) /\ WF_judgeVars(which = "judge" /\ Judge!CollectWakes)
  /\ \A i \in 1..JudgedBlocks : WF_judgeVars(which = "judge" /\ Judge!JudgeStep(i))

-----------------------------------------------------------------------------
(* The properties of the policies, stated in their modules.                 *)

(* The judge policy loses nothing, a judge's failure included, ...          *)
NothingVanishes   == Judge!NothingVanishes /\ Judge!FailureShows
(* A complete upstream response is completed for the client.                *)
ResponseEnds      == Judge!ResponseEnds
(* It keeps the promise of ToolGate.                                        *)
KeepsGate         == Judge!KeepsGate
(* What leaves is a message the API accepts: from the judge policy, which   *)
(* announces no tool call that it does not send, and from a chain, ...      *)
Acceptable        == Judge!WellOrdered /\ Judge!StopReasonTrue /\ Chain!WellFormed
(* ... which says what the response says without streaming and what is      *)
(* recorded of it, ...                                                      *)
StreamAgrees      == Chain!StreamAgrees /\ Chain!RecordsTold
(* ... without the tool calls a judge denied.                               *)
DeniedNeverLeaves == Chain!DeniedNeverLeaves
(* The request recorded as the original stays the one the client sent, and  *)
(* a preview shows what was asked and answered before the policy beside     *)
(* what the policy makes of it, although the hooks change objects in place. *)
OriginalKept      == Chain!OriginalKept /\ Preview!PreviewTells
=============================================================================
