------------------------------- MODULE LlmJudge -------------------------------
(***************************************************************************)
(* SimpleLLMPolicy (policies/simple_llm_policy.py) on one response, with   *)
(* the message builder (policy_core/anthropic_message_builder.py) that     *)
(* puts its decisions in an order the API accepts and the JudgeOrchestrator *)
(* that runs its tool judges.                                              *)
(*                                                                         *)
(* Streaming: text is judged when its block stops, and holds the stream;    *)
(* each tool call is handed to a concurrent judge, and the decisions are    *)
(* applied in submission order at message_delta. Non-streaming: the blocks  *)
(* are judged one after the other. A block stands for its start, deltas and *)
(* stop; upstream blocks are numbered in order.                             *)
(***************************************************************************)
EXTENDS Naturals, Sequences, SequencesExt

CONSTANT MaxBlocks   (* bound on the upstream blocks of a response *)

VARIABLES
  onError,    \* config.on_error, for good: "pass" or "block"
  streaming,  \* the response is streamed
  upstream,   \* the kinds of the upstream blocks received so far
  said,       \* said[n]: what a judge that was awaited inline said of block n
  tags,       \* the blocks whose judges were submitted, in order
  out,        \* blocks emitted (pre_tool_blocks when not streaming)
  tools,      \* buffered_tools
  blocked,    \* blocked_tools
  judgeError, \* judge_error_occurred
  stop,       \* the stop_reason: upstream's, then the one sent
  phase,
  count, task, result, bailed, mode   \* state.tool_judge

judgeVars == <<count, task, result, bailed, mode>>
builder   == <<out, tools, blocked, judgeError>>
vars == <<onError, streaming, upstream, said, tags, builder, stop, phase, judgeVars>>

(* What _judge_block may return. parse_judge_action accepts "pass" and      *)
(* "replace" only; "failed" ones carry judge_failed and the on_error action.*)
Actions == {"pass", "replace", "failed_pass", "failed_block"}
Verdicts == {"pass", "replace", IF onError = "pass" THEN "failed_pass" ELSE "failed_block"}
Failed   == {"failed_pass", "failed_block"}

\* bail_predicate: action == "block".
Judges == INSTANCE JudgeOrchestrator
  WITH MaxItems <- MaxBlocks, Result <- Actions, Bails <- {"failed_block"}

Kinds   == {"text", "empty", "tool", "other"}  \* "other": thinking and the like
Block   == 1..MaxBlocks
Wire    == [kind : Kinds \cup {"new_text", "new_tool"}, from : Block]
           \cup [kind : {"warning", "marker", "fallback"}, from : {0}]
Stops   == {"tool_use", "end_turn", "max_tokens"}
\* What is left of the blocks of a "replace" once empty texts and unknown
\* types are dropped.
Replacements == {<<>>, <<"new_text">>, <<"new_tool">>, <<"new_tool", "new_text">>}

TypeOK ==
  /\ onError \in {"pass", "block"} /\ streaming \in BOOLEAN
  /\ upstream \in Seq(Kinds) /\ Len(upstream) <= MaxBlocks
  /\ said \in [Block -> Actions \cup {"none"}]
  /\ tags \in Seq(Block) /\ Len(tags) = count
  /\ out \in Seq(Wire) /\ tools \in Seq(Wire) /\ blocked \in Seq(Block)
  /\ judgeError \in BOOLEAN /\ stop \in Stops \cup {"none"}
  /\ phase \in {"reading", "judging", "collecting", "done", "gone"}
  /\ Judges!TypeOK

Init ==
  /\ onError \in {"pass", "block"} /\ streaming \in BOOLEAN
  /\ upstream = <<>> /\ said = [n \in Block |-> "none"] /\ tags = <<>>
  /\ out = <<>> /\ tools = <<>> /\ blocked = <<>> /\ judgeError = FALSE
  /\ stop = "none" /\ phase = "reading"
  /\ Judges!Init

-----------------------------------------------------------------------------
(* What a decision on block n adds to the builder.                          *)

Piece(kind, n) == <<[kind |-> kind, from |-> n]>>
Passed(v) == v \in {"pass", "failed_pass"}

\* commit_text drops empty text.
Committed(n, v, rep) ==
  IF v = "replace"
    THEN FlattenSeq([i \in DOMAIN rep |-> IF rep[i] = "new_text" THEN Piece("new_text", n) ELSE <<>>])
    ELSE IF Passed(v) /\ upstream[n] = "text" THEN Piece("text", n) ELSE <<>>

Buffered(n, v, rep) ==
  IF v = "replace"
    THEN FlattenSeq([i \in DOMAIN rep |-> IF rep[i] = "new_tool" THEN Piece("new_tool", n) ELSE <<>>])
    ELSE IF Passed(v) /\ upstream[n] = "tool" THEN Piece("tool", n) ELSE <<>>

\* Mutant: a bailed tool is not recorded.
BlockedNotBailed(n, v) ==
  IF v = "failed_block" /\ upstream[n] = "tool" THEN <<n>> ELSE <<>>

\* A blocked text is suppressed, a blocked or bailed tool recorded.
Blocked(n, v) ==
  IF v \in {"failed_block", "bailed"} /\ upstream[n] = "tool" THEN <<n>> ELSE <<>>

(* finalize and to_anthropic_response, given what is committed, buffered    *)
(* and blocked, and whether a judge failed.                                 *)
When(cond, kind) == IF cond THEN Piece(kind, 0) ELSE <<>>

\* Mutant: no warning on a response of its own.
ComposedIfAny(c, t, b, failed) ==
  c \o When(c # <<>> /\ failed /\ onError = "pass", "warning") \o When(b # <<>>, "marker") \o t

Composed(c, t, b, failed) ==
  LET warn == failed /\ onError = "pass"
      nothing == c = <<>> /\ t = <<>> /\ b = <<>> /\ ~warn IN
  c \o When(nothing /\ failed, "fallback") \o When(warn, "warning")
    \o When(b # <<>>, "marker") \o t

\* Mutant: the stop reason is upstream's.
StopReasonKept(reason, t) == reason
StopReason(reason, t) == IF reason = "tool_use" /\ t = <<>> THEN "end_turn" ELSE reason

Finalize(c, t, b, failed, reason) ==
  /\ out' = Composed(c, t, b, failed)
  /\ tools' = t /\ blocked' = b /\ judgeError' = failed
  /\ stop' = StopReason(reason, t)
  /\ phase' = "done"

-----------------------------------------------------------------------------
(* Blocks arrive.                                                           *)

Receive(kind) ==
  /\ phase = "reading" /\ Len(upstream) < MaxBlocks
  /\ upstream' = Append(upstream, kind)

\* passthrough_start .. passthrough_stop, or commit_raw_block.
PassThrough ==
  /\ Receive("other")
  /\ out' = out \o Piece("other", Len(upstream'))
  /\ UNCHANGED <<onError, streaming, said, tags, tools, blocked, judgeError, stop, phase, judgeVars>>

SuppressEmpty ==
  /\ streaming /\ Receive("empty")
  /\ UNCHANGED <<onError, streaming, said, tags, builder, stop, phase, judgeVars>>

\* Text, and when not streaming every judged block, is judged inline.
AskJudge ==
  /\ \E kind \in IF streaming THEN {"text"} ELSE {"text", "empty", "tool"} : Receive(kind)
  /\ phase' = "judging"
  /\ UNCHANGED <<onError, streaming, said, tags, builder, stop, judgeVars>>

\* Mutant: a passed tool is emitted at once when not streaming.
ApplyAnswerAtOnce ==
  LET n == Len(upstream) IN
  /\ phase = "judging"
  /\ \E v \in Verdicts : \E rep \in Replacements :
       /\ said' = [said EXCEPT ![n] = v]
       /\ out' = out \o Committed(n, v, rep) \o Buffered(n, v, rep)
       /\ blocked' = blocked \o Blocked(n, v)
       /\ judgeError' = (judgeError \/ v \in Failed)
  /\ phase' = "reading"
  /\ UNCHANGED <<onError, streaming, upstream, tags, tools, stop, judgeVars>>

ApplyAnswer ==
  LET n == Len(upstream) IN
  /\ phase = "judging"
  /\ \E v \in Verdicts : \E rep \in Replacements :
       /\ v # "replace" => rep = <<>>
       /\ said' = [said EXCEPT ![n] = v]
       /\ out' = out \o Committed(n, v, rep)
       /\ tools' = tools \o Buffered(n, v, rep)
       /\ blocked' = blocked \o Blocked(n, v)
       /\ judgeError' = (judgeError \/ v \in Failed)
  /\ phase' = "reading"
  /\ UNCHANGED <<onError, streaming, upstream, tags, stop, judgeVars>>

\* A streamed tool call gets a judge of its own.
SubmitTool ==
  /\ streaming /\ Receive("tool")
  /\ Judges!Submit
  /\ tags' = Append(tags, Len(upstream'))
  /\ UNCHANGED <<onError, streaming, said, builder, stop, phase>>

-----------------------------------------------------------------------------
(* The response ends.                                                       *)

\* Upstream says tool_use only after a tool call.
Reasons == IF \E n \in DOMAIN upstream : upstream[n] = "tool" THEN Stops ELSE Stops \ {"tool_use"}

EndOfContent ==
  /\ ~streaming /\ phase = "reading"
  /\ \E reason \in Reasons : Finalize(out, tools, blocked, judgeError, reason)
  /\ UNCHANGED <<onError, streaming, upstream, said, tags, judgeVars>>

\* Mutant: the decisions are applied in reverse order.
ReverseOf(f) == [i \in 1..count |-> f[count + 1 - i]]
InOrderReversed(f) == FlattenSeq(ReverseOf(f))
\* The contributions of the collected items, in submission order.
InOrder(f) == FlattenSeq(f)

\* _handle_message_delta once collect has returned results.
ApplyDecisions(results, reason) ==
  \E rep \in [{i \in 1..count : results[i] = "replace"} -> Replacements] :
    LET Blocks(i) == IF results[i] = "replace" THEN rep[i] ELSE <<>> IN
    Finalize(out \o InOrder([i \in 1..count |-> Committed(tags[i], results[i], Blocks(i))]),
             tools \o InOrder([i \in 1..count |-> Buffered(tags[i], results[i], Blocks(i))]),
             blocked \o InOrder([i \in 1..count |-> Blocked(tags[i], results[i])]),
             judgeError \/ \E i \in 1..count : results[i] \in Failed,
             reason)

MessageDelta ==
  /\ streaming /\ phase = "reading"
  /\ Judges!Collect
  /\ \E reason \in Reasons :
       \/ mode' = "returned" /\ ApplyDecisions(result, reason)
       \/ /\ mode' = "waiting" /\ phase' = "collecting" /\ stop' = reason
          /\ UNCHANGED builder
  /\ UNCHANGED <<onError, streaming, upstream, said, tags>>

\* Mutant: a collect that bailed is not followed by the decisions.
CollectWakesUnlessBailed ==
  /\ phase = "collecting" /\ Judges!Wake
  /\ IF mode' = "returned" /\ ~bailed
       THEN ApplyDecisions(result', stop)
       ELSE UNCHANGED <<builder, stop, phase>>
  /\ UNCHANGED <<onError, streaming, upstream, said, tags>>

CollectWakes ==
  /\ phase = "collecting" /\ Judges!Wake
  /\ IF mode' = "returned"
       THEN ApplyDecisions(result', stop)
       ELSE UNCHANGED <<builder, stop, phase>>
  /\ UNCHANGED <<onError, streaming, upstream, said, tags>>

\* The upstream stream breaks, or the client leaves: nothing is finalized and
\* the submitted judges are left to themselves.
Abandon ==
  /\ phase \in {"judging", "collecting"} \/ (streaming /\ phase = "reading")
  /\ Judges!Abandon
  /\ phase' = "gone"
  /\ UNCHANGED <<onError, streaming, upstream, said, tags, builder, stop>>

\* _judge_block catches every exception: a judge returns or is cancelled.
JudgeStep(i) ==
  /\ (\E v \in Verdicts : Judges!Return(i, v)) \/ Judges!EndCancelled(i)
  /\ UNCHANGED <<onError, streaming, upstream, said, tags, builder, stop, phase>>

-----------------------------------------------------------------------------
Next ==
  \/ PassThrough \/ SuppressEmpty \/ AskJudge \/ ApplyAnswer \/ SubmitTool
  \/ EndOfContent \/ MessageDelta \/ CollectWakes \/ Abandon
  \/ \E i \in Block : JudgeStep(i)

Spec == Init /\ [][Next]_vars

(* Judges end (their providers time out) and the event loop resumes the     *)
(* coroutines that wait for them. Nothing is assumed of upstream.           *)
FairSpec ==
  /\ Spec /\ WF_vars(ApplyAnswer) /\ WF_vars(CollectWakes)
  /\ \A i \in Block : WF_vars(JudgeStep(i))

-----------------------------------------------------------------------------
(* Correctness properties.                                                  *)

Heard(n) ==
  IF Contains(tags, n) THEN task[CHOOSE i \in DOMAIN tags : tags[i] = n] ELSE said[n]
IsTool(n) == upstream[n] = "tool"
Received  == DOMAIN upstream
OnWire(kind, n) == Contains(out, [kind |-> kind, from |-> n])

(* No text, warning or marker follows a tool_use block (issue #708).        *)
ToolsLast ==
  \A i, j \in DOMAIN out :
    i < j /\ out[i].kind \in {"tool", "new_tool"} => out[j].kind \in {"tool", "new_tool"}

(* In a complete response nothing was lost without trace: each tool call is *)
(* delivered, replaced or named in the marker, one of the three; each text  *)
(* is delivered, replaced or was blocked by a failed judge; other blocks    *)
(* are delivered.                                                           *)
NothingVanishes ==
  phase = "done" => \A n \in Received :
    /\ IsTool(n) =>
         /\ OnWire("tool", n) \/ Heard(n) = "replace" \/ Contains(blocked, n)
         /\ Contains(blocked, n) => ~OnWire("tool", n) /\ OnWire("marker", 0)
    /\ upstream[n] = "text" =>
         OnWire("text", n) \/ Heard(n) \in {"replace", "failed_block"}
    /\ upstream[n] = "other" => OnWire("other", n)

(* Blocks that upstream sent are delivered in its order, tools among tools  *)
(* and the rest among the rest, and none twice, whatever order the judges   *)
(* finish in.                                                               *)
UpstreamOrder ==
  \A i, j \in DOMAIN out :
    i < j /\ out[i].kind \in Kinds /\ out[j].kind \in Kinds
          /\ (out[i].kind = "tool" <=> out[j].kind = "tool")
    => out[i].from < out[j].from

(* So the response keeps upstream's order and the order the API demands.    *)
WellOrdered == ToolsLast /\ UpstreamOrder

(* A judge failure shows in a complete response: as the warning when it     *)
(* passes content through, else at least the response is not empty and, for *)
(* a tool call, carries the marker.                                         *)
FailureShows ==
  phase = "done" => \A n \in Received :
    /\ Heard(n) = "failed_pass" => OnWire("warning", 0)
    /\ Heard(n) = "failed_block" => out # <<>> /\ (IsTool(n) => OnWire("marker", 0))

(* A stop_reason of tool_use is never sent without a tool_use block: the    *)
(* client would wait for a call it was not given.                           *)
StopReasonTrue ==
  phase = "done" /\ stop = "tool_use" =>
    \E i \in DOMAIN out : out[i].kind \in {"tool", "new_tool"}

(* A response whose upstream is complete is completed for the client, or    *)
(* its client leaves.                                                       *)
ResponseEnds == phase = "collecting" ~> phase \in {"done", "gone"}

(* The policy keeps the promise of ToolGate.                                *)
Gate == INSTANCE ToolGate WITH
  Tool     <- Block,
  offered  <- {n \in Received : IsTool(n)},
  verdict  <- [n \in Block |->
                IF n \notin Received \/ ~IsTool(n) THEN "undecided"
                ELSE IF Passed(Heard(n)) THEN "allowed"
                ELSE IF Heard(n) \in {"replace", "failed_block", "cancelled"} THEN "denied"
                ELSE "undecided"],
  released <- FlattenSeq([i \in DOMAIN out |->
                IF out[i].kind = "tool" THEN <<out[i].from>> ELSE <<>>]),
  state    <- IF phase = "done" THEN "closed" ELSE IF phase = "gone" THEN "dropped" ELSE "open"
KeepsGate == Gate!Spec
=============================================================================
