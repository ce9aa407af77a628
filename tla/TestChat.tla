-------------------------------- MODULE TestChat --------------------------------
(***************************************************************************)
(* The admin's preview of the active policy (send_chat, admin/routes.py):   *)
(* Anthropic is asked what was typed, then the policy's non-streaming hooks *)
(* are run on that exchange, and Anthropic is asked again if the request    *)
(* hook changed the request. Before and After are shown side by side.       *)
(*                                                                         *)
(* Requests and responses are objects that a hook may change in place and   *)
(* return, so a variable may change without being assigned. Meanwhile an    *)
(* administrator may switch to another policy.                              *)
(***************************************************************************)
EXTENDS Naturals

VARIABLES
  server,  \* ANTHROPIC_API_KEY is set
  active,  \* PolicyManager.current_policy
  chat     \* the one call of send_chat: where it is, and its locals

(* What a hook does: nothing, change its argument, return a changed copy,   *)
(* or raise. A policy of the old interface has no such hooks.               *)
Hooks  == {"keeps", "in_place", "copy", "raises"}
Hooked == [anthropic : {TRUE}, request : Hooks, response : Hooks]
Old    == [anthropic |-> FALSE, request |-> "keeps", response |-> "keeps"]
Keys   == {"none", "blank", "own"}   \* the body's api_key

\* A response: to which request, in which call, and whether the policy changed it.
NoText == [to |-> "nothing", call |-> 0, by |-> "nobody"]
NoChat ==
  [at |-> "answered", mock |-> FALSE, key |-> "none", client |-> "none", policy |-> Old,
   credential |-> "none", request |-> "typed", snapshot |-> "typed", transformed |-> "typed",
   before |-> NoText, shown |-> NoText, reused |-> FALSE, upstream |-> NoText, after |-> NoText,
   calls |-> 0, error |-> "not asked"]

Init ==
  /\ server \in BOOLEAN /\ active \in Hooked \cup {Old} /\ chat = NoChat

At(where) == chat.at = where /\ UNCHANGED <<server, active>>
Fails(why) == chat' = [chat EXCEPT !.at = "answered", !.error = why]

-----------------------------------------------------------------------------
(* A key that is blank counts as none.                                      *)
TestCredential(key) == IF key = "own" THEN "own" ELSE "none"

(* Mock mode echoes the message: neither a call nor a hook.                 *)
Ask(mock, key) ==
  /\ At("answered")
  /\ chat' = [NoChat EXCEPT !.at = IF mock THEN "answered" ELSE "client", !.mock = mock, !.key = key,
                            !.error = "none"]

TestClient == IF chat.key = "own" THEN "own" ELSE IF server THEN "server" ELSE "none"
ResolveTestClient ==
  /\ At("client")
  /\ \/ TestClient = "own" /\ Fails("client")
     \/ TestClient = "none" /\ Fails("no key")
     \/ TestClient # "none" /\ chat' = [chat EXCEPT !.at = "policy", !.client = TestClient]

(* The policy is read once: the hooks of one preview are one policy's.      *)
GetPolicy ==
  /\ At("policy")
  /\ IF active.anthropic
       THEN chat' = [chat EXCEPT !.at = "before", !.policy = active, !.credential = TestCredential(chat.key)]
       ELSE Fails("no hooks")

Complete(request) == [to |-> request, call |-> chat.calls + 1, by |-> "model"]
\* The text shown is taken before the response hook can change the response.
CallBefore ==
  /\ At("before")
  /\ \/ Fails("call")
     \/ chat' = [chat EXCEPT !.at = "request", !.calls = @ + 1, !.before = Complete(chat.request),
                             !.shown = Complete(chat.request)]

(* The request is copied first, then handed to the hook. How far a hook     *)
(* got that raises is not shown.                                            *)
RequestHook ==
  LET rewritten == IF chat.policy.request = "keeps" THEN chat.request ELSE "rewritten"
  IN  /\ At("request")
      /\ IF chat.policy.request = "raises"
           THEN Fails("request hook")
           ELSE chat' = [chat EXCEPT !.at = "compare", !.snapshot = chat.request, !.transformed = rewritten,
                                     !.request = IF chat.policy.request = "in_place" THEN rewritten ELSE @]

\* Mutant: compared with the request as it is after the hook.
ChangedLive == chat.transformed # chat.request
Changed == chat.transformed # chat.snapshot
CallAgain ==
  /\ At("compare")
  /\ \/ /\ ~Changed
        /\ chat' = [chat EXCEPT !.at = "response", !.reused = TRUE, !.upstream = chat.before]
     \/ Changed /\ Fails("call again")
     \/ /\ Changed
        /\ chat' = [chat EXCEPT !.at = "response", !.calls = @ + 1, !.upstream = Complete(chat.transformed)]

ByPolicy(response) == [response EXCEPT !.by = "policy"]
\* A change in place is one to the answer shown before, if that was reused.
ResponseHook ==
  LET hook == chat.policy.response
  IN  /\ At("response")
      /\ IF hook = "raises"
           THEN Fails("response hook")
           ELSE chat' = [chat EXCEPT !.at = "show",
                                     !.after = IF hook = "keeps" THEN chat.upstream ELSE ByPolicy(chat.upstream),
                                     !.before = IF hook = "in_place" /\ chat.reused THEN ByPolicy(@) ELSE @]

\* Mutant: the text is taken from the response now.
ShowsLive == chat.before
Shows == chat.shown
Answer ==
  /\ At("show") /\ chat' = [chat EXCEPT !.at = "answered", !.shown = Shows]

Switch(policy) == active' = policy /\ policy # active /\ UNCHANGED <<server, chat>>

Next ==
  \/ \E mock \in BOOLEAN, key \in Keys : Ask(mock, key)
  \/ ResolveTestClient \/ GetPolicy \/ CallBefore \/ RequestHook \/ CallAgain \/ ResponseHook \/ Answer
  \/ \E policy \in Hooked \cup {Old} : Switch(policy)

-----------------------------------------------------------------------------
(* Before is what Anthropic said to what was typed, whatever the hooks do   *)
(* to the objects; After is what one policy makes of the answer to the      *)
(* request it would have sent, asked again only if it differs. A failure    *)
(* after the first answer still shows that answer. The call goes on the key *)
(* given, or on the server's, and the policy sees the credential only if it *)
(* was given.                                                               *)
PreviewTells ==
  chat.at = "answered" =>
    LET rewrites == chat.policy.request \in {"in_place", "copy"}
        edits    == chat.policy.response \in {"in_place", "copy"}
        typed    == [to |-> "typed", call |-> 1, by |-> "model"]
    IN  /\ chat.shown = IF chat.calls > 0 THEN typed ELSE NoText
        /\ chat.error = "none" /\ ~chat.mock =>
             chat.after = [to   |-> IF rewrites THEN "rewritten" ELSE "typed",
                           call |-> IF rewrites THEN 2 ELSE 1,
                           by   |-> IF edits THEN "policy" ELSE "model"]
        /\ chat.mock => chat.calls = 0
        /\ chat.calls > 0 => chat.client = IF chat.key = "own" THEN "own" ELSE "server"
        /\ chat.credential # "none" => chat.client = "own"
=============================================================================
