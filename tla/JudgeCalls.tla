------------------------------ MODULE JudgeCalls ------------------------------
(***************************************************************************)
(* The judges JudgeOrchestrator runs, down to their providers: one task per *)
(* item dispatches the policy's inference_provider reference                *)
(* (inference/dispatch.py), asks the registry for the provider, and calls   *)
(* complete() up to 1 + max_retries times (policies/simple_llm_utils.py):   *)
(*   claude       a `claude -p` child process with a scratch directory      *)
(*   direct       the Anthropic SDK on a client of the shared LRU cache     *)
(*   null         a direct_api row without a credential: always refuses     *)
(*   passthrough  the SDK on a private client with the caller's credential, *)
(*                which is closed in a finally that awaits                  *)
(* The registry itself is InferenceRegistry; here it answers with a         *)
(* provider of any kind or fails.                                           *)
(*                                                                         *)
(* task[i] of JudgeOrchestrator is the asyncio task; task.cancel() sets it  *)
(* to "cancelling", and the CancelledError is thrown at the await the       *)
(* coroutine is in (Hit). What catches it decides what happens then.        *)
(***************************************************************************)
EXTENDS JudgeOrchestrator, Sequences, SequencesExt, FiniteSets

CONSTANTS
  MaxAttempts,  (* 1 + max_retries *)
  OnError,      (* the policy's on_error, as a judge result *)
  Creds,        (* server credentials, one shared client each *)
  CacheSize     (* _max_cache_size() of the client cache *)

\* max_retries and the cache size are clamped from below where they are read.
ASSUME CallAssumption ==
  MaxAttempts \in Nat \ {0} /\ OnError \in Result /\ CacheSize \in Nat \ {0}

VARIABLES
  route,    \* what dispatch resolves the reference to, for this request
  pc,       \* where the judge's coroutine is suspended
  kind,     \* the provider it calls
  tries,    \* attempts made
  why,      \* the exception that waits for the end of a cleanup that awaits
  lost,     \* whether a cancellation was thrown and swallowed
  child,    \* the child process
  scratch,  \* whether the call's scratch directory exists
  private,  \* the call's private client; "cut" if its close was cut short
  client,   \* the shared client the call was given
  lru,      \* _cache: the cached clients, least recently used first
  closing,  \* evicted clients whose _safe_close has not run
  open      \* the shared clients made and not closed

callVars == <<route, pc, kind, tries, why, lost, child, scratch, private, client, lru, closing, open>>
allVars  == <<vars, callVars>>

\* A client is named for its credential and the attempt that made it.
Client   == Creds \X Item \X (1..MaxAttempts)
NoClient == <<>>

\* resolve_inference_provider: user is whether the request has a user
\* credential, registry whether the gateway has a provider registry.
Dispatched(ref, user, registry) ==
  LET named == IF registry THEN "registry" ELSE "error" IN
  CASE ref = "user_credentials"    -> IF user THEN "passthrough" ELSE "error"
    [] ref = "provider"            -> named
    [] ref = "user_then_provider"  -> IF user THEN "passthrough" ELSE named
    [] ref = "user_then_fail"      -> IF user THEN "passthrough" ELSE "error"
Refs == {"user_credentials", "provider", "user_then_provider", "user_then_fail"}

CallInit ==
  /\ Init
  /\ route \in {Dispatched(ref, user, reg) : ref \in Refs, user \in BOOLEAN, reg \in BOOLEAN}
  /\ pc = [i \in Item |-> "start"] /\ kind = [i \in Item |-> "none"]
  /\ tries = [i \in Item |-> 0] /\ why = [i \in Item |-> "none"]
  /\ lost = [i \in Item |-> FALSE]
  /\ child = [i \in Item |-> "none"] /\ scratch = [i \in Item |-> FALSE]
  /\ private = [i \in Item |-> "none"] /\ client = [i \in Item |-> NoClient]
  /\ lru = <<>> /\ closing = {} /\ open = {}

-----------------------------------------------------------------------------
Live(i)   == i \in Submitted /\ ~Finished(i)
At(i, at) == Live(i) /\ pc[i] = at
\* task.cancel() was called, and no await has thrown it yet.
Hit(i)      == task[i] = "cancelling" /\ ~lost[i]
Runs(i, at) == At(i, at) /\ ~Hit(i)

Over(i)   == pc' = [pc EXCEPT ![i] = "over"]
Go(i, at) == pc' = [pc EXCEPT ![i] = at]

\* _judge_block: every Exception becomes on_error.
GiveUp(i) == Return(i, OnError) /\ Over(i)

\* The attempt failed: retry after retry_delay, or re-raise the last exception.
Fail(i) ==
  IF tries[i] = MaxAttempts THEN GiveUp(i) ELSE Go(i, "sleeping") /\ UNCHANGED vars

\* parse_judge_action reads a verdict, or fails like the provider does;
\* a rejected credential is not retried.
Outcome(i) ==
  \/ \E r \in Result : Return(i, r) /\ Over(i)
  \/ Fail(i)
  \/ GiveUp(i)

Unwind(i) == EndCancelled(i) /\ Over(i)

Dispatch(i) ==
  /\ Runs(i, "start")
  /\ CASE route = "error"       -> GiveUp(i) /\ UNCHANGED kind
       [] route = "registry"    -> Go(i, "registry") /\ UNCHANGED <<vars, kind>>
       [] route = "passthrough" -> Go(i, "call") /\ kind' = [kind EXCEPT ![i] = "passthrough"]
                                   /\ UNCHANGED vars
  /\ UNCHANGED <<route, tries, why, lost, child, scratch, private, client, lru, closing, open>>

RegistryAnswers(i) ==
  /\ Runs(i, "registry")
  /\ \/ \E k \in {"claude", "direct", "null"} :
          kind' = [kind EXCEPT ![i] = k] /\ Go(i, "call") /\ UNCHANGED vars
     \/ GiveUp(i) /\ UNCHANGED kind
  /\ UNCHANGED <<route, tries, why, lost, child, scratch, private, client, lru, closing, open>>

-----------------------------------------------------------------------------
(* provider.complete(): everything up to its first await.                   *)
Attempt(i, k) ==
  /\ Live(i) /\ pc[i] = "call" /\ kind[i] = k
  /\ tries' = [tries EXCEPT ![i] = @ + 1]
  /\ why' = [why EXCEPT ![i] = "none"]

\* NullCredentialDirectApiProvider, or a prompt the provider cannot render.
Refuse(i) ==
  /\ \E k \in {"null", "claude", "direct", "passthrough"} : Attempt(i, k)
  /\ IF tries[i] + 1 = MaxAttempts THEN GiveUp(i) ELSE Go(i, "sleeping") /\ UNCHANGED vars
  /\ UNCHANGED <<route, kind, lost, child, scratch, private, client, lru, closing, open>>

CallPassthrough(i) ==
  /\ Attempt(i, "passthrough") /\ Go(i, "request")
  /\ private' = [private EXCEPT ![i] = "open"]
  /\ UNCHANGED <<vars, route, kind, lost, child, scratch, client, lru, closing, open>>

\* anthropic_client_cache.get_client, under its lock.
GetClient(cred, fresh) ==
  LET held == {n \in DOMAIN lru : lru[n][1] = cred}
      hit  == CHOOSE n \in held : TRUE
      full == Len(lru) >= CacheSize IN
  IF held # {}
  THEN [lru |-> Append(RemoveAt(lru, hit), lru[hit]), closing |-> closing, client |-> lru[hit]]
  ELSE [lru |-> Append(IF full THEN Tail(lru) ELSE lru, fresh),
        closing |-> IF full THEN closing \cup {Head(lru)} ELSE closing,
        client |-> fresh]

CallDirect(i) ==
  /\ Attempt(i, "direct") /\ Go(i, "request")
  /\ \E cred \in Creds :
       LET got == GetClient(cred, <<cred, i, tries[i] + 1>>) IN
       /\ client' = [client EXCEPT ![i] = got.client]
       /\ lru' = got.lru /\ closing' = got.closing /\ open' = open \cup {got.client}
  /\ UNCHANGED <<vars, route, kind, lost, child, scratch, private>>

CallClaude(i) ==
  /\ Attempt(i, "claude") /\ Go(i, "spawning")
  /\ scratch' = [scratch EXCEPT ![i] = TRUE]
  /\ child' = [child EXCEPT ![i] = "none"]
  /\ UNCHANGED <<vars, route, kind, lost, private, client, lru, closing, open>>

-----------------------------------------------------------------------------
(* The request of a direct provider. A client closed under it fails it.     *)
Closed(i) == client[i] # NoClient /\ client[i] \notin open
RequestEnds(i) ==
  /\ Runs(i, "request") /\ kind[i] # "passthrough"
  /\ IF Closed(i) THEN Fail(i) ELSE Outcome(i)
  /\ client' = [client EXCEPT ![i] = NoClient]
  /\ UNCHANGED <<route, kind, tries, why, lost, child, scratch, private, lru, closing, open>>

(* The request on a private client: whatever ends it, the finally block     *)
(* closes the client, and awaits that.                                      *)
HangUp(i, cause) ==
  /\ kind[i] = "passthrough" /\ Go(i, "hanging_up") /\ why' = [why EXCEPT ![i] = cause]
  /\ UNCHANGED <<vars, route, kind, tries, lost, child, scratch, private, client, lru, closing, open>>

\* Mutant: a cancelled request does not close its client (an except Exception
\* in the place of the finally).
HangUpUnlessCancelled(i) ==
  /\ At(i, "request") /\ Hit(i) /\ kind[i] = "passthrough" /\ Unwind(i)
  /\ UNCHANGED <<route, kind, tries, why, lost, child, scratch, private, client, lru, closing, open>>

Answered(i)         == Runs(i, "request") /\ HangUp(i, "none")
RequestCancelled(i) == At(i, "request") /\ Hit(i) /\ HangUp(i, "cancelled")

\* The close has been awaited, and what ended the request goes on.
HungUp(i) ==
  /\ At(i, "hanging_up") /\ (why[i] = "none" => ~Hit(i))
  /\ private' = [private EXCEPT ![i] = "none"]
  /\ CASE why[i] = "none"      -> Outcome(i)
       [] why[i] = "cancelled" -> Unwind(i)
       [] why[i] = "killed"    -> (Raise(i) \/ EndCancelled(i)) /\ Over(i)
  /\ UNCHANGED <<route, kind, tries, why, lost, child, scratch, client, lru, closing, open>>

\* A cancellation, or what kills the task, is thrown at that await: the client
\* may stay open. So it may if the close raises, an Exception the retry loop
\* catches in the place of what ended the request, a cancellation included.
HangUpCut(i, how) ==
  /\ At(i, "hanging_up") /\ how
  /\ private' \in {[private EXCEPT ![i] = left] : left \in {"none", "cut"}}
  /\ UNCHANGED <<route, kind, tries, why, child, scratch, client, lru, closing, open>>
HangUpCancelled(i) == Hit(i) /\ why[i] = "none" /\ HangUpCut(i, Unwind(i)) /\ UNCHANGED lost
HangUpFails(i) ==
  /\ (why[i] = "none" => ~Hit(i)) /\ HangUpCut(i, Fail(i))
  /\ lost' = [lost EXCEPT ![i] = @ \/ task[i] = "cancelling"]

SafeClose(c) ==
  /\ c \in closing /\ closing' = closing \ {c} /\ open' = open \ {c}
  /\ UNCHANGED <<vars, route, pc, kind, tries, why, lost, child, scratch, private, client, lru>>

(* The child of a claude provider.                                          *)
Spawned(i) ==
  /\ Runs(i, "spawning")
  /\ \/ Go(i, "talking") /\ child' = [child EXCEPT ![i] = "running"] /\ UNCHANGED <<vars, scratch>>
     \/ Fail(i) /\ scratch' = [scratch EXCEPT ![i] = FALSE] /\ UNCHANGED child
  /\ UNCHANGED <<route, kind, tries, why, lost, private, client, lru, closing, open>>

\* communicate() returns when the child has exited; _parse_output follows.
ChildAnswers(i) ==
  /\ Runs(i, "talking")
  /\ child' = [child EXCEPT ![i] = "dead"] /\ scratch' = [scratch EXCEPT ![i] = FALSE]
  /\ Outcome(i)
  /\ UNCHANGED <<route, kind, tries, why, lost, private, client, lru, closing, open>>

Reap(i, cause) ==
  /\ Go(i, "reaping") /\ why' = [why EXCEPT ![i] = cause]
  /\ UNCHANGED <<vars, route, kind, tries, lost, child, scratch, private, client, lru, closing, open>>
TimesOut(i)        == Runs(i, "talking") /\ Reap(i, "timeout")
TalkingCancelled(i) == At(i, "talking") /\ Hit(i) /\ Reap(i, "cancelled")

\* Mutant: a cancellation during the cleanup ends the wait for the child.
ReapedEarly(i) ==
  /\ At(i, "reaping") /\ (child[i] = "dead" \/ Hit(i))
  /\ scratch' = [scratch EXCEPT ![i] = FALSE]
  /\ IF why[i] = "timeout" THEN Fail(i) ELSE Unwind(i) /\ why[i] = "cancelled"
  /\ UNCHANGED <<route, kind, tries, why, lost, child, private, client, lru, closing, open>>

\* The child was killed and has exited. A cancellation that arrives before is
\* swallowed, so after a timeout the retry loop goes on. "killed": the loop
\* cancelled the task at shutdown, or a BaseException ended it.
Reaped(i) ==
  /\ At(i, "reaping") /\ child[i] = "dead"
  /\ scratch' = [scratch EXCEPT ![i] = FALSE]
  /\ CASE why[i] = "timeout"   -> Fail(i)
       [] why[i] = "cancelled" -> Unwind(i)
       [] why[i] = "killed"    -> (Raise(i) \/ EndCancelled(i)) /\ Over(i)
  /\ lost' = [lost EXCEPT ![i] = task[i] = "cancelling"]
  /\ UNCHANGED <<route, kind, tries, why, child, private, client, lru, closing, open>>

\* Mutant: a child is waited for without being killed when its call is cancelled.
ChildExitsOnTimeout(i) ==
  /\ At(i, "reaping") /\ child[i] = "running" /\ why[i] = "timeout"
  /\ child' = [child EXCEPT ![i] = "dead"]
  /\ UNCHANGED <<vars, route, pc, kind, tries, why, lost, scratch, private, client, lru, closing, open>>

ChildExits(i) ==
  /\ At(i, "reaping") /\ child[i] = "running"
  /\ child' = [child EXCEPT ![i] = "dead"]
  /\ UNCHANGED <<vars, route, pc, kind, tries, why, lost, scratch, private, client, lru, closing, open>>

Slept(i) ==
  /\ Runs(i, "sleeping") /\ Go(i, "call")
  /\ UNCHANGED <<vars, route, kind, tries, why, lost, child, scratch, private, client, lru, closing, open>>

-----------------------------------------------------------------------------
(* The end of a coroutine at any other await: by collect's cancel, or by    *)
(* what kills the task from outside (the loop at shutdown).                 *)
Ends(i, how) ==
  /\ \/ \E at \in {"start", "registry", "spawning", "sleeping"} : At(i, at)
     \/ At(i, "request") /\ kind[i] # "passthrough"
  /\ how /\ Over(i)
  /\ client' = [client EXCEPT ![i] = NoClient] /\ scratch' = [scratch EXCEPT ![i] = FALSE]
  /\ UNCHANGED <<route, kind, tries, why, lost, child, private, lru, closing, open>>
CancelledAtAwait(i) == Hit(i) /\ Ends(i, EndCancelled(i))
Killed(i) ==
  \/ Ends(i, Raise(i))
  \/ At(i, "talking") /\ ~Hit(i) /\ Reap(i, "killed")
  \/ At(i, "request") /\ ~Hit(i) /\ HangUp(i, "killed")
  \/ HangUpCut(i, Raise(i) /\ Over(i)) /\ UNCHANGED lost

CallStep(i) ==
  \/ Dispatch(i) \/ RegistryAnswers(i) \/ Refuse(i)
  \/ CallPassthrough(i) \/ CallDirect(i) \/ CallClaude(i)
  \/ RequestEnds(i) \/ Answered(i) \/ RequestCancelled(i)
  \/ HungUp(i) \/ HangUpCancelled(i) \/ HangUpFails(i)
  \/ Spawned(i) \/ ChildAnswers(i) \/ TimesOut(i) \/ TalkingCancelled(i)
  \/ Reaped(i) \/ ChildExits(i) \/ Slept(i) \/ CancelledAtAwait(i)

CallNext ==
  \/ (Submit \/ Collect \/ Wake \/ Abandon) /\ UNCHANGED callVars
  \/ \E i \in Item : CallStep(i) \/ Killed(i)
  \/ \E c \in closing : SafeClose(c)

CallSpec == CallInit /\ [][CallNext]_allVars

(* The event loop resumes what can run. A request, a child and a wait end:  *)
(* the SDK and communicate() have timeouts, and a killed child exits.       *)
FairCallSpec ==
  CallSpec /\ WF_allVars(Wake /\ UNCHANGED callVars) /\ \A i \in Item : WF_allVars(CallStep(i))

-----------------------------------------------------------------------------
(* Correctness properties.                                                  *)

(* Whatever ends a judge, at whatever await, it leaves nothing behind: a    *)
(* child process has a call that waits for it, and its directory; a judge   *)
(* that is over has no directory and no open client of its own, unless the  *)
(* close of that client was itself cut short; and the shared clients that   *)
(* are open are those cached, no more than the cache holds and one per      *)
(* credential, and those about to be closed.                                *)
NothingLeaks ==
  /\ \A i \in Submitted :
       /\ child[i] = "running" => scratch[i] /\ ~Finished(i)
       /\ Finished(i) => ~scratch[i] /\ private[i] # "open"
  /\ open = ToSet(lru) \cup closing /\ ToSet(lru) \cap closing = {}
  /\ Len(lru) <= CacheSize
  /\ \A m, n \in DOMAIN lru : m # n => lru[m][1] # lru[n][1]

(* The calls implement JudgeOrchestrator, its fairness included: whatever a *)
(* provider does, a task only ends as the orchestrator expects, and it does *)
(* end, after a bounded number of attempts. So what is proved of the        *)
(* orchestrator holds here.                                                 *)
Orchestrates == FairSpec

-----------------------------------------------------------------------------
(* The inductive invariant the proofs use.                                  *)
CallTypeOK ==
  /\ route \in {"error", "registry", "passthrough"}
  /\ pc \in [Item -> {"start", "registry", "call", "request", "hanging_up", "spawning",
                      "talking", "reaping", "sleeping", "over"}]
  /\ kind \in [Item -> {"none", "claude", "direct", "null", "passthrough"}]
  /\ tries \in [Item -> 0..MaxAttempts]
  /\ why \in [Item -> {"none", "timeout", "cancelled", "killed"}]
  /\ lost \in [Item -> BOOLEAN]
  /\ child \in [Item -> {"none", "running", "dead"}]
  /\ scratch \in [Item -> BOOLEAN] /\ private \in [Item -> {"none", "open", "cut"}]
  /\ client \in [Item -> Client \cup {NoClient}]
  /\ lru \in Seq(Client) /\ closing \subseteq Client /\ open \subseteq Client

(* What the judge of an item holds at each await: a directory from before   *)
(* its child is spawned until the child is gone, a client of its own during *)
(* the request and its close, and an attempt left wherever it may still make one.         *)
Holds(i) ==
  /\ i > count => pc[i] = "start"
  /\ i <= count => (Finished(i) <=> pc[i] = "over")
  /\ pc[i] = "start" => child[i] = "none"
  /\ child[i] = "running" => pc[i] \in {"talking", "reaping"}
  /\ scratch[i] <=> pc[i] \in {"spawning", "talking", "reaping"}
  /\ private[i] = "open" => pc[i] \in {"request", "hanging_up"}
  /\ pc[i] = "request" /\ private[i] = "open" => kind[i] = "passthrough"
  /\ pc[i] = "reaping" => why[i] # "none"
  /\ pc[i] = "hanging_up" => why[i] # "timeout"
  /\ pc[i] \in {"start", "registry", "call", "sleeping"} => tries[i] < MaxAttempts

(* The shared clients, each named for an attempt that has been made, so     *)
(* that the client of the next attempt is none of them.                     *)
Shared ==
  /\ open = ToSet(lru) \cup closing /\ ToSet(lru) \cap closing = {}
  /\ Len(lru) <= CacheSize
  /\ \A m, n \in DOMAIN lru : m # n => lru[m][1] # lru[n][1]
  /\ \A c \in open : c[3] <= tries[c[2]]

CallInv == CallTypeOK /\ (\A i \in Item : Holds(i)) /\ Shared
=============================================================================
