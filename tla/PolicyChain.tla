------------------------------ MODULE PolicyChain ------------------------------
(***************************************************************************)
(* The policies that rewrite a response, alone or chained by               *)
(* MultiSerialPolicy, on one request: each hook call is a function of the  *)
(* policy's request state and of an event, and the executor sends what     *)
(* comes out. on_anthropic_response, the non-streaming hook, is modelled    *)
(* beside it, so that the two can be compared.                              *)
(*                                                                         *)
(*   noop     NoOpPolicy, DebugLoggingPolicy                                *)
(*   caps     AllCapsPolicy, a TextModifierPolicy that changes text         *)
(*   welcome  OnboardingPolicy, a TextModifierPolicy that adds text on the  *)
(*            first turn                                                    *)
(*   link     ConversationLinkPolicy, a SimplePolicy                        *)
(*   replace  StringReplacementPolicy                                       *)
(*   recase   the same with match_capitalization, on requests too           *)
(*   judge    ToolCallJudgePolicy, DogfoodSafetyPolicy                      *)
(*   force    DemoForceBashRmRfPolicy                                       *)
(*                                                                         *)
(* Text is a sequence of a few characters, because where a chunk ends and   *)
(* which block a piece leaves in are what can go wrong.                     *)
(***************************************************************************)
EXTENDS Integers, Sequences, FiniteSets, SequencesExt

CONSTANTS
  Policies,    \* the policies a chain is made of
  MaxChain,    \* bound on the length of a chain
  MaxBlocks,   \* bound on the upstream blocks
  MaxDeltas    \* bound on the text deltas of the upstream message

VARIABLES
  chain,     \* _sub_policies
  request,   \* the request: its roles, one message's text as asked, as
             \* recorded and as sent upstream, and whether these two are one
  state,     \* state[i]: the request state of policy i
  upstream,  \* the upstream content so far: blocks of a kind and a text
  deltas,    \* text deltas received
  stop,      \* upstream's stop_reason
  sent,      \* the events sent to the client
  phase      \* of the upstream stream

vars == <<chain, request, state, upstream, deltas, stop, sent, phase>>

-----------------------------------------------------------------------------
(* Events and blocks. A tool is its name; what the judge says of it follows *)
(* from the name.                                                           *)

Tools   == {"harmless", "harmful", "forced"}
Denied  == {"harmful", "forced"}   \* judged so, or its judge failed
Kinds   == {"text", "other", "harmless", "harmful"}
Chunks  == {<<"a">>, <<"b", "A">>}

Event(type, index, kind, text) == [type |-> type, index |-> index, kind |-> kind, text |-> text]
Start(index, kind)  == Event("start", index, kind, <<>>)
Delta(index, kind, text) == Event("delta", index, kind, text)
Stop(index)         == Event("stop", index, "", <<>>)
MessageDelta(reason) == Event("message_delta", 0, reason, <<>>)
Plain(type)         == Event(type, 0, "", <<>>)
Block(kind, text)   == [kind |-> kind, text |-> text]
BlockEvents(index, kind, text) == <<Start(index, kind), Delta(index, kind, text), Stop(index)>>

\* _StreamState, _SimplePolicyAnthropicState, _StreamBufferState and
\* _BuilderState, each policy using its own.
FreshState ==
  [ first |-> FALSE, injected |-> FALSE,
    last |-> -1, held |-> -1, emitted |-> FALSE,
    texts |-> <<>>, open |-> <<>>,
    buffer |-> <<>>, at |-> 0,
    mapped |-> <<>>, next |-> 0, queued |-> <<>> ]

Drop(f, i) == [j \in DOMAIN f \ {i} |-> f[j]]
With(f, i, v) == [j \in DOMAIN f \cup {i} |-> IF j = i THEN v ELSE f[j]]
Hook(s, out) == [state |-> s, out |-> out]

-----------------------------------------------------------------------------
(* Text.                                                                    *)

Lower == <<"a", "b", "x", "y">>
Upper == <<"A", "B", "X", "Y">>
Flip(c, from, to) == IF Contains(from, c) THEN to[CHOOSE i \in DOMAIN from : from[i] = c] ELSE c
Up(c) == Flip(c, Lower, Upper)
Down(c) == Flip(c, Upper, Lower)
IsUpper(c) == Contains(Upper, c)
Capitals(text) == [i \in DOMAIN text |-> Up(text[i])]
Suffix == <<"W">>    \* the welcome text
LinkText == <<"L">>

From == <<"a", "b">>   \* the source of the one replacement pair
To   == <<"x", "y">>
HoldBack == Len(From) - 1

\* _apply_capitalization_pattern: with as many letters on both sides, upper,
\* lower and title do what the mixed rule does, letter by letter.
Recased(source) ==
  [i \in DOMAIN To |-> IF IsUpper(source[i]) THEN Up(To[i]) ELSE Down(To[i])]

Matches(p, text, i) ==
  /\ i + 1 <= Len(text)
  /\ LET found == SubSeq(text, i, i + 1) IN
     found = From \/ (p = "recase" /\ [j \in 1..2 |-> Down(found[j])] = From)

\* str.replace, re.subn: left to right, without overlap.
Replaced(p, text) ==
  LET taken[i \in 0..Len(text)] ==
        i > 0 /\ Matches(p, text, i) /\ ~taken[i - 1]
      piece(i) == IF taken[i] THEN IF p = "recase" THEN Recased(SubSeq(text, i, i + 1)) ELSE To
                  ELSE IF taken[i - 1] THEN <<>> ELSE <<text[i]>>
  IN FlattenSeq([i \in 1..Len(text) |-> piece(i)])

-----------------------------------------------------------------------------
(* TextModifierPolicy: caps, and welcome on the first turn.                 *)

Extra(p) == IF p = "welcome" THEN Suffix ELSE <<>>
Modified(p, text) == IF p = "caps" THEN Capitals(text) ELSE text
Shout(p, e) == [e EXCEPT !.text = Modified(p, @)]

\* Mutant: the stop held back is forgotten when another one comes.
HoldStopOnly(s, e) == Hook([s EXCEPT !.held = e.index], <<>>)

\* The stop of a text block is held: the block may be the last one, and then
\* gets the suffix.
HoldStop(s, e) ==
  Hook([s EXCEPT !.held = e.index], IF s.held >= 0 THEN <<Stop(s.held)>> ELSE <<>>)

\* The suffix, then the stop that waited for it.
Release(p, s, e) ==
  Hook([s EXCEPT !.emitted = @ \/ Extra(p) # <<>>, !.held = -1],
       (IF Extra(p) # <<>> /\ ~s.emitted THEN <<Delta(s.last, "text", Extra(p))>> ELSE <<>>)
         \o <<Stop(s.held)>> \o e)

TextModifier(p, s, e) ==
  IF e.type = "start"
    THEN IF e.kind \in Tools /\ ~s.emitted /\ s.held >= 0 /\ Extra(p) # <<>>
           THEN Release(p, s, <<e>>)
           ELSE Hook(IF e.kind = "text" THEN [s EXCEPT !.last = e.index] ELSE s, <<e>>)
  ELSE IF e.type = "stop" /\ e.index = s.last /\ Extra(p) # <<>> /\ ~s.emitted THEN HoldStop(s, e)
  ELSE IF e.type = "message_delta" /\ s.held >= 0 THEN Release(p, s, <<e>>)
  ELSE Hook(s, <<IF e.type = "delta" /\ e.kind = "text" THEN Shout(p, e) ELSE e>>)

LastText(content) == {i \in DOMAIN content : content[i].kind = "text"
                        /\ \A j \in i + 1..Len(content) : content[j].kind # "text"}

ModifiedResponse(p, m) ==
  [m EXCEPT !.content = [i \in DOMAIN @ |->
     IF @[i].kind # "text" THEN @[i]
     ELSE Block("text", Modified(p, @[i].text) \o (IF i \in LastText(@) THEN Extra(p) ELSE <<>>))]]

-----------------------------------------------------------------------------
(* SimplePolicy: a block's text and a tool's input are held until its stop. *)
(* ConversationLinkPolicy links the first text of the first turn.           *)

Linked(s, text) == IF s.first /\ ~s.injected THEN LinkText \o text ELSE text

Injected(s) == [s EXCEPT !.injected = @ \/ s.first]

Simple(s, e) ==
  IF e.type = "start" /\ (e.kind = "text" \/ e.kind \in Tools)
    THEN Hook([s EXCEPT !.texts = With(@, e.index, <<>>), !.open = With(@, e.index, e.kind)], <<e>>)
  ELSE IF e.type = "delta" /\ e.kind # "other"
    THEN Hook([s EXCEPT !.texts[e.index] = @ \o e.text], <<>>)
  ELSE IF e.type = "stop" /\ e.index \in DOMAIN s.open
    THEN LET kind == s.open[e.index]
             text == s.texts[e.index]
             rest == [s EXCEPT !.texts = Drop(@, e.index), !.open = Drop(@, e.index)]
         IN IF kind = "text"
              THEN Hook(Injected(rest), <<Delta(e.index, kind, Linked(s, text)), e>>)
              ELSE Hook(rest, <<Delta(e.index, kind, text), e>>)
  ELSE Hook(s, <<e>>)

LinkedResponse(first, m) ==
  LET head(i) == m.content[i].kind = "text" /\ \A j \in 1..i - 1 : m.content[j].kind # "text" IN
  [m EXCEPT !.content = [i \in DOMAIN @ |->
     IF first /\ head(i) THEN Block("text", LinkText \o @[i].text) ELSE @[i]]]

-----------------------------------------------------------------------------
(* StringReplacementPolicy: the tail of the replaced text is held back, so   *)
(* that a source split between two chunks is found.                         *)

\* Mutant: nothing is held back.
KeptNothing(text) == 0
Kept(text) == IF Len(text) < HoldBack THEN Len(text) ELSE HoldBack

Flush(s, e) ==
  Hook([s EXCEPT !.buffer = <<>>],
       (IF s.buffer = <<>> THEN <<>> ELSE <<Delta(s.at, "text", s.buffer)>>) \o e)

Replacing(p, s, e) ==
  IF e.type \in {"message_delta", "stop"} THEN Flush(s, <<e>>)
  ELSE IF e.type = "delta" /\ e.kind = "text"
    THEN LET replaced == Replaced(p, s.buffer \o e.text)
             shown == Len(replaced) - Kept(replaced)
         IN Hook([s EXCEPT !.buffer = SubSeq(replaced, shown + 1, Len(replaced)), !.at = e.index],
                 IF shown = 0 THEN <<>> ELSE <<[e EXCEPT !.text = SubSeq(replaced, 1, shown)]>>)
  ELSE Hook(s, <<e>>)

ReplacedResponse(p, m) ==
  [m EXCEPT !.content = [i \in DOMAIN @ |->
     IF @[i].kind = "text" THEN Block("text", Replaced(p, @[i].text)) ELSE @[i]]]

-----------------------------------------------------------------------------
(* ToolCallJudgePolicy and DogfoodSafetyPolicy, over the message builder's   *)
(* dispatch_tool_only: tools are judged when their block stops, those that  *)
(* pass wait for message_delta, a denied one becomes a text.                *)

Notice == <<"N">>

\* Mutant: the judge is trusted to answer: a failure passes.
JudgedOpen(name) == IF name = "harmful" THEN "passed" ELSE "denied"
Judged(name) == IF name \in Denied THEN "denied" ELSE "passed"

Corrected(reason, queued) == IF reason = "tool_use" /\ queued = <<>> THEN "end_turn" ELSE reason

Judging(s, e) ==
  IF e.type = "start" /\ e.kind \in Tools
    THEN Hook([s EXCEPT !.open = With(@, e.index, e.kind)], <<>>)
  ELSE IF e.type = "start"
    THEN Hook([s EXCEPT !.mapped = With(@, e.index, s.next), !.next = @ + 1], <<[e EXCEPT !.index = s.next]>>)
  ELSE IF e.type \in {"delta", "stop"} /\ e.index \notin DOMAIN s.open
    THEN Hook(s, IF e.index \in DOMAIN s.mapped THEN <<[e EXCEPT !.index = s.mapped[e.index]]>> ELSE <<>>)
  ELSE IF e.type = "delta" THEN Hook(s, <<>>)
  ELSE IF e.type = "stop"
    THEN LET name == s.open[e.index]
             rest == [s EXCEPT !.open = Drop(@, e.index)]
         IN IF Judged(name) = "denied"
              THEN Hook([rest EXCEPT !.next = @ + 1], BlockEvents(s.next, "text", Notice))
              ELSE Hook([rest EXCEPT !.queued = Append(@, name)], <<>>)
  ELSE IF e.type = "message_delta"
    THEN Hook(s, FlattenSeq([i \in DOMAIN s.queued |-> BlockEvents(s.next + i - 1, s.queued[i], <<>>)])
                   \o <<MessageDelta(Corrected(e.kind, s.queued))>>)
  ELSE Hook(s, <<e>>)

\* compose_tool_only_response: text and other blocks, notices in place of
\* denied tools, then the tools that pass.
JudgedResponse(m) ==
  LET passed == SelectSeq(m.content, LAMBDA b : b.kind \in Tools /\ Judged(b.kind) = "passed")
      texts  == SelectSeq(m.content, LAMBDA b : ~(b.kind \in Tools /\ Judged(b.kind) = "passed"))
      noted(b) == IF b.kind \in Tools THEN Block("text", Notice) ELSE b
  IN IF \A i \in DOMAIN m.content : m.content[i].kind \notin Tools THEN m
     ELSE [content |-> [i \in DOMAIN texts |-> noted(texts[i])] \o passed,
           stop |-> Corrected(m.stop, passed)]

-----------------------------------------------------------------------------
(* DemoForceBashRmRfPolicy: the model's answer is swallowed, and one tool    *)
(* call made up in its place.                                               *)

Fabricated == [content |-> <<Block("forced", <<>>)>>, stop |-> "tool_use"]
FabricatedEvents ==
  <<Plain("message_start")>> \o BlockEvents(0, "forced", <<>>) \o <<MessageDelta("tool_use"), Plain("message_stop")>>

-----------------------------------------------------------------------------
(* The hooks of a policy.                                                   *)

IsFirstTurn(roles) ==
  Cardinality({i \in DOMAIN roles : roles[i] = "user"}) = 1 /\ ~Contains(roles, "assistant")

\* get_request_state of the policy, once its request hook has run.
OnRequest(p, r) == [FreshState EXCEPT !.first = p \in {"welcome", "link"} /\ IsFirstTurn(r.roles)]

\* Mutant: the messages are replaced where they are.
RewrittenInPlace(p, r) ==
  [r EXCEPT !.final = Replaced(p, @), !.recorded = IF r.shared THEN Replaced(p, r.final) ELSE @]

\* StringReplacementPolicy with apply_to "both" replaces in a copy of the
\* messages, because the recorded request shares them.
Rewritten(p, r) ==
  IF Replaced(p, r.final) = r.final THEN r
  ELSE [r EXCEPT !.final = Replaced(p, @), !.shared = FALSE]

RequestHooks(c, r) ==
  LET after[i \in 0..Len(c)] ==
        IF i = 0 THEN r
        ELSE IF c[i] = "recase" THEN Rewritten(c[i], after[i - 1]) ELSE after[i - 1]
  IN after[Len(c)]

OnEvent(p, s, e) ==
  IF p = "caps" \/ (p = "welcome" /\ s.first) THEN TextModifier(p, s, e)
  ELSE IF p = "link" THEN Simple(s, e)
  ELSE IF p \in {"replace", "recase"} THEN Replacing(p, s, e)
  ELSE IF p = "judge" THEN Judging(s, e)
  ELSE IF p = "force" THEN Hook(s, <<>>)
  ELSE Hook(s, <<e>>)

OnComplete(p, s) ==
  IF p = "welcome" /\ s.first /\ s.held >= 0 THEN Release(p, s, <<>>)
  ELSE IF p \in {"replace", "recase"} THEN Flush(s, <<>>)
  ELSE Hook(s, IF p = "force" THEN FabricatedEvents ELSE <<>>)

OnResponse(p, first, m) ==
  CASE p = "caps" \/ (p = "welcome" /\ first) -> ModifiedResponse(p, m)
    [] p = "link"                -> LinkedResponse(first, m)
    [] p \in {"replace", "recase"} -> ReplacedResponse(p, m)
    [] p = "judge"               -> JudgedResponse(m)
    [] p = "force"               -> Fabricated
    [] OTHER                     -> m

-----------------------------------------------------------------------------
(* MultiSerialPolicy: what a policy emits is what the next one sees.        *)

\* What a hook adds to the events so far, and what it leaves of policy i.
Adding(prev, h) == Hook(h.state, prev.out \o h.out)
Leaving(prev, i, h) == [prev.state EXCEPT ![i] = h.state]

Fed(p, prev, e) == Adding(prev, OnEvent(p, prev.state, e))

FeedAll(p, s, events) ==
  LET fed[i \in 0..Len(events)] == IF i = 0 THEN Hook(s, <<>>) ELSE Fed(p, fed[i - 1], events[i])
  IN fed[Len(events)]

PassedOn(prev, i, h) == Hook(Leaving(prev, i, h), h.out)
Passed(prev, i) == PassedOn(prev, i, FeedAll(chain[i], prev.state[i], prev.out))

\* The events go through the policies from position `from' on.
Through(all, from, events) ==
  LET past[i \in from - 1..Len(chain)] == IF i = from - 1 THEN Hook(all, events) ELSE Passed(past[i - 1], i)
  IN past[Len(chain)]

\* on_anthropic_stream_complete: each policy's last events go through the
\* policies after it.
EndedWith(prev, i, h) == Adding(prev, Through(Leaving(prev, i, h), i + 1, h.out))
Ended(prev, i) == EndedWith(prev, i, OnComplete(chain[i], prev.state[i]))

Completed(all) ==
  LET done[i \in 0..Len(chain)] == IF i = 0 THEN Hook(all, <<>>) ELSE Ended(done[i - 1], i)
  IN done[Len(chain)]

\* on_anthropic_response of the chain.
Answered(m) ==
  FoldLeft(LAMBDA acc, i : OnResponse(chain[i], state[i].first, acc), m, [i \in DOMAIN chain |-> i])

-----------------------------------------------------------------------------
(* The executor, and the upstream stream it reads.                          *)

Chains == {c \in UNION {[1..n -> Policies] : n \in 1..MaxChain} : IsInjective(c)}

\* The request states, and what is sent, after message_start.
Begun(h) == state = h.state /\ sent = h.out

Init ==
  /\ chain \in Chains
  /\ \E roles \in {<<"user">>, <<"user", "assistant", "user">>} :
       request = RequestHooks(chain, [roles |-> roles, shared |-> TRUE, asked |-> <<"a", "b">>,
                                      recorded |-> <<"a", "b">>, final |-> <<"a", "b">>])
  /\ upstream = <<>> /\ deltas = 0 /\ stop = "none"
  /\ Begun(Through([i \in DOMAIN chain |-> OnRequest(chain[i], request)], 1, <<Plain("message_start")>>))
  /\ phase = "between"

Emitted(h) == state' = h.state /\ sent' = sent \o h.out
Emit(e) == Emitted(Through(state, 1, <<e>>))

Current == Len(upstream) - 1   \* indices count from 0

BlockStart ==
  /\ phase = "between" /\ Len(upstream) < MaxBlocks
  /\ \E kind \in Kinds :
       /\ kind = "text" => deltas < MaxDeltas
       /\ upstream' = Append(upstream, Block(kind, <<>>))
       /\ Emit(Start(Current + 1, kind))
  /\ phase' = "open"
  /\ UNCHANGED <<chain, request, deltas, stop>>

BlockDelta ==
  /\ phase \in {"open", "told"} /\ upstream[Current + 1].kind = "text" /\ deltas < MaxDeltas
  /\ \E text \in Chunks :
       /\ upstream' = [upstream EXCEPT ![Current + 1].text = @ \o text]
       /\ Emit(Delta(Current, "text", text))
  /\ deltas' = deltas + 1 /\ phase' = "told"
  /\ UNCHANGED <<chain, request, stop>>

OtherDelta ==
  /\ phase = "open" /\ upstream[Current + 1].kind # "text"
  /\ Emit(Delta(Current, upstream[Current + 1].kind, <<>>))
  /\ phase' = "told"
  /\ UNCHANGED <<chain, request, upstream, deltas, stop>>

BlockStop ==
  /\ phase = "told" /\ Emit(Stop(Current))
  /\ phase' = "between"
  /\ UNCHANGED <<chain, request, upstream, deltas, stop>>

MessageEnds ==
  /\ phase = "between" /\ upstream # <<>>
  /\ stop' \in {"max_tokens", IF \E i \in DOMAIN upstream : upstream[i].kind \in Tools
                              THEN "tool_use" ELSE "end_turn"}
  /\ Emit(MessageDelta(stop'))
  /\ phase' = "ending"
  /\ UNCHANGED <<chain, request, upstream, deltas>>

\* message_stop, the end of the stream and on_anthropic_stream_complete.
Finished(h) == Adding(h, Completed(h.state))

StreamEnds ==
  /\ phase = "ending"
  /\ Emitted(Finished(Through(state, 1, <<Plain("message_stop")>>)))
  /\ phase' = "done"
  /\ UNCHANGED <<chain, request, upstream, deltas, stop>>

Next == BlockStart \/ BlockDelta \/ OtherDelta \/ BlockStop \/ MessageEnds \/ StreamEnds
Spec == Init /\ [][Next]_vars

-----------------------------------------------------------------------------
(* _reconstruct_response_from_stream_events: the response recorded of a      *)
(* stream, whole or broken off, put together from the events sent. Blocks    *)
(* are keyed by index; thinking is not recorded, and nothing is before       *)
(* message_start, where a stream is empty.                                   *)

Unrecorded == [blocks |-> <<>>, stop |-> "none"]

\* Mutant: a delta is taken for the block that started last.
LastIndex(m, e) == IF m.blocks = <<>> THEN -1 ELSE Max(DOMAIN m.blocks)
DeltaIndex(m, e) == e.index

Recording(m, e) ==
  CASE e.type = "start" /\ e.kind # "other" ->
         [m EXCEPT !.blocks = With(@, e.index, Block(e.kind, <<>>))]
    [] e.type = "delta" /\ DeltaIndex(m, e) \in DOMAIN m.blocks ->
         IF m.blocks[DeltaIndex(m, e)].kind = e.kind
           THEN [m EXCEPT !.blocks[DeltaIndex(m, e)].text = @ \o e.text]
           ELSE m
    [] e.type = "message_delta" -> [m EXCEPT !.stop = e.kind]
    [] OTHER -> m

Recorded ==
  LET m == FoldLeft(Recording, Unrecorded, sent)
      indices == SetToSortSeq(DOMAIN m.blocks, <)
  IN [content |-> [i \in DOMAIN indices |-> m.blocks[indices[i]]], stop |-> m.stop]

-----------------------------------------------------------------------------
(* What the client has, and the rules of the stream.                        *)

At(i) == sent[i].index
Typed(type) == {i \in DOMAIN sent : sent[i].type = type}

\* The blocks a client puts together from the events.
Assembled ==
  LET texts(i) == FlattenSeq([j \in DOMAIN sent |->
                    IF j \in Typed("delta") /\ At(j) = At(i) THEN sent[j].text ELSE <<>>])
      block(i) == IF i \in Typed("start") THEN <<Block(sent[i].kind, texts(i))>> ELSE <<>>
  IN FlattenSeq([i \in DOMAIN sent |-> block(i)])

Told == [content |-> Assembled, stop |-> sent[CHOOSE i \in Typed("message_delta") : TRUE].kind]
Whole == Answered([content |-> upstream, stop |-> stop])

Without(m, c) == [m EXCEPT !.content = [i \in DOMAIN @ |->
                    Block(@[i].kind, SelectSeq(@[i].text, LAMBDA d : d # c))]]
Occurs(m, c) == Len(SelectSeq(FlattenSeq([i \in DOMAIN m.content |-> m.content[i].text]), LAMBDA d : d = c))

Before(p, q) == \E i, j \in DOMAIN chain : i < j /\ chain[i] = p /\ chain[j] = q

(* Whatever the chain, a whole upstream message leaves as a stream the API   *)
(* rules accept (stream_protocol_validator.py): one start and one end,       *)
(* blocks with growing indices, each started, then its deltas, then stopped  *)
(* once, all before message_delta.                                          *)
WellFormed == phase = "done" =>
  /\ Typed("message_start") = {1} /\ Typed("message_stop") = {Len(sent)}
  /\ Typed("message_delta") = {Len(sent) - 1}
  /\ \A i, j \in Typed("start") : i < j => At(i) < At(j)
  /\ \A i \in Typed("start") : Cardinality({j \in Typed("stop") : At(j) = At(i)}) = 1
  /\ \A i \in Typed("delta") \cup Typed("stop") :
       /\ \E j \in Typed("start") : j < i /\ At(j) = At(i)
       /\ \A j \in Typed("stop") : At(j) = At(i) => i <= j

(* A streamed response says what the same response says without streaming:   *)
(* the same blocks with the same texts in the same order, and the same stop  *)
(* reason, wherever its chunks end. Two exceptions the code makes: the        *)
(* welcome text is once in both but may sit in another block, and a welcome   *)
(* that holds stops back disturbs a replacement after it (TextStaysInBlock). *)
StreamAgrees ==
  (phase = "done" /\ ~Before("welcome", "replace") /\ ~Before("welcome", "recase")) =>
    /\ Without(Told, "W") = Without(Whole, "W")
    /\ Occurs(Told, "W") = Occurs(Whole, "W")

(* Whenever a stream ends or breaks off, the response recorded of it is the  *)
(* one its client has put together, but for thinking: also when a delta of   *)
(* one block comes after the start of the next.                              *)
RecordsTold ==
  LET ends == Typed("message_delta") IN
  Recorded = [content |-> SelectSeq(Assembled, LAMBDA b : b.kind # "other"),
              stop    |-> IF ends = {} THEN "none" ELSE sent[CHOOSE i \in ends : TRUE].kind]

(* A tool call the judge denies never reaches the client, streamed or not:    *)
(* neither one of the model's nor one a policy before the judge made up.      *)
DeniedNeverLeaves ==
  /\ Contains(chain, "judge") => \A i \in DOMAIN sent : sent[i].kind # "harmful"
  /\ Before("force", "judge") => \A i \in DOMAIN sent : sent[i].kind # "forced"

(* The request recorded as the original is the one the client sent, although *)
(* it shares its messages with the one the policies rewrite.                 *)
OriginalKept == request.recorded = request.asked

(* Text leaves in the block it came in, also through the one buffer that     *)
(* StringReplacementPolicy shares between the blocks of a response. It does  *)
(* not: after a policy that holds a block's stop back, the tail of that       *)
(* block is still in the buffer when the next block's text arrives.          *)
TextStaysInBlock ==
  (phase = "done" /\ ToSet(chain) \subseteq {"welcome", "replace"}) =>
    Without(Told, "W") = Without(Whole, "W")
=============================================================================
