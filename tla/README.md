# Luthien proxy: TLA+ models and proofs

Luthien is a gateway between a coding assistant and the Anthropic API. Every
`/v1/messages` call goes through a *policy*, a plug-in that may rewrite, block
or answer it; the gateway records what it did and reports each call to a
webhook. These modules model the parts of `src/luthien_proxy` and `saas_infra`
whose correctness depends on the order in which things happen: coroutines
suspended at an await or a yield, background tasks, retries, caches shared by
concurrent requests, transactions of several replicas, restarts, clients that
leave.

Run a model with `tlc -workers 2 -config <run>.cfg <module>`, a proof with
`tlapm <name>Proofs.tla`. The runs are listed in PROJECT.json.

## 1. Inventory

| Component | State it keeps | What is hard | Modules |
|---|---|---|---|
| Request pipeline (`pipeline/`) | locals of each handler: accumulated events, `final_status`, `stream_completed`, `caught_exception`, `cancelled` | a stream ends by completion, exception, `CancelledError` at an await or `GeneratorExit` at a yield; the `finally` block reclassifies it and four sinks record it | `RequestPipeline` |
| Webhook sender (`webhook/sender.py`) | `_pending_tasks`, failure counters, `_shutting_down`, the HTTP client | retries against lost answers; the cap against done-callbacks; shutdown against deliveries in any state | `WebhookSender`, abstract `BestEffortDelivery` |
| Passthrough credentials (`credential_manager.py`, `utils/credential_cache.py`) | cached verdicts with a TTL, in Redis or in process | read-await-write sequences; revocation; an invalidation racing a touch; a verdict on how a token was sent, cached for the token | `CredentialCache` |
| Admission (`gateway_routes.py`, `auth.py`, `session.py`) | auth mode in memory and in its row, session cookies | the mode is read twice by a request, and changed by two awaited statements without a lock; restarts | `Admission` |
| Judge orchestrator (`policy_core/judge_orchestrator.py`) | items, their tasks and results | judges finish in any order, several in one wake-up; a bail cancels the rest; the caller leaves | `JudgeOrchestrator` |
| LLM judge policy and message builder (`policies/simple_llm_policy.py`, `policy_core/anthropic_message_builder.py`) | buffered blocks, the wire so far | decisions arrive in another order than blocks leave; judges fail | `LlmJudge`, abstract `ToolGate` |
| Inference providers, dispatch (`inference/`), upstream clients (`llm/anthropic_client_cache.py`) | child processes, scratch directories, private clients, clients in an LRU cache | cancellation at every await of a retry loop that owns a process or a client, the awaits of its clean-up included; a client evicted while in use | `JudgeCalls` (implements `JudgeOrchestrator`) |
| Provider registry, server credentials (`inference/registry.py`, `credentials/store.py`) | record cache with a lock, key cache | a read that straddles an edit and its invalidation; failed invalidations | `InferenceRegistry` |
| Rewriting policies and their chain (`policies/`, `text_modifier_policy.py`, `multi_serial_policy.py`) | per-request state of each policy: held text, held stops, indices | policies that hold events back, composed; pieces split over chunks; streamed and whole responses must agree | `PolicyChain` |
| Admin policy preview (`admin/routes.py`: `send_chat`) | the objects handed to the hooks | hooks that change their argument in place | `TestChat` |
| Policy manager (`policy_manager.py`) | policy of each process, its row, a lock | persist and swap under an expiring Redis lock, replicas, crashes, failed reads | `PolicyManager` |
| Event emitter, session summaries (`observability/emitter.py`, `session_summary.py`) | background writes; calls, events, summaries | writes commit in any order, fail, are abandoned | `EventLog` |
| Retention (`retention/`) | the run of each replica, the S3 bucket | read, upload and delete are separate; each fails with or without effect; two replicas; writers | `Retention` (over `EventLog`) |
| History and debug reading (`history/`, `debug/`) | none of their own | a page is several queries, between which events are written and purged; two databases | `Reading` |
| Activity feed (`observability/*event_publisher.py`) | bounded queues of subscribers | slow subscribers, a feed that must not skip silently | `ActivityStream` |
| Request log (`request_log/recorder.py`) | two rows of a request | written by a background task without a transaction | `RequestRecorder` |
| Usage telemetry (`usage_telemetry/`) | interval counters | reset before a POST that may fail or be cancelled; the last send | `UsageTelemetry` |
| Rate limiter (`rate_limit.py`) | token buckets, LRU | eviction at the cap gives a full bucket | `RateLimiter` |
| Policy cache (`utils/policy_cache.py`) | rows of a policy, a cap | the cap is kept by four statements of concurrent transactions; on SQLite a cancelled one stays open | `PolicyCache` |
| Configuration (`config_registry.py`, `config_fields.py`, `settings.py`) | five layers of one value | the layers are read at different times; edits with awaits; restarts | `Configuration` |
| Migrations and database (`utils/migration_check.py`, `utils/db*.py`) | schema, `_migrations` | several gateways start on one file; kills between statements; releases with other, edited or no files | `Migrations` |
| Lifespan (`main.py`) | parts that are up | start and stop in order while requests and background writes use the parts | `Lifespan` |
| SaaS provisioning (`saas_infra/`) | Railway's projects | steps of a creation fail with or without effect; clean-up; concurrent commands | `Provisioning` |
| Other admin API, pages, UI | none | queries and pages | not modelled |

How they interact. A request passes `Admission` (which asks the credential
cache and the rate limiter), then the pipeline, which calls the current policy
for every event; a policy may run judges through the orchestrator, which ask the
registry for a provider. The pipeline records through the emitter, the request
log and the usage collector, and hands the final payload to the webhook sender.
The history pages and the purger read and delete what the emitter wrote. The
lifespan brings all of this up on a migrated database and takes it down.

The hazards of this code, each at its line, are listed in PROJECT.json with the
properties that would catch them.

## 2. Modules and the code

In every module a step of a coroutine is one action: what runs from one await
(or yield) to the next, with all the state it changes. A guard that the code
spreads over early returns is one conjunct each. The line ranges of every
definition are in PROJECT.json ("map"). Definitions called *mutants* are wrong
variants of an action, each the bug a property is there to catch; nothing in
the specifications uses them.

### The request path

**RequestPipeline** - `call[c]` is the record of one handler's locals, what it
did to the client (`sent`, `taken`, `errors`) and what it recorded (`requests`,
`fires`, `logged`, `usage`, ...). `Accept`, `Reject`, `Parse` are
`process_anthropic_request`; `StartStream` .. `StreamClosed` the streaming
generator, where `StreamFinally` is its `finally` block, run on the four ways
out; `UpstreamResponds` .. `CompleteCancelled` the non-streaming handler. Of a
stream only its shape is kept (empty, open, closed or broken), which is what
`stream_protocol_validator.py` and the reconstruction look at. Policies and
upstream are nondeterministic. The error codes an upstream failure may carry
(`StreamErrors`, `CompleteErrors`) include 200: the SDK raises an error event of
a stream with the status of the stream.

**WebhookSender** - `task[t]` with `attempt[t]` is the retry loop of one
delivery, `pending` the pool, four counters, `wire` and `received` the network:
a POST may arrive late or never, and its answer may be lost. `Fire` is
`fire_and_forget`, `Discard` the done-callback (a step later than the end of its
task, as in asyncio), `BeginStop`, `EndDrain`, `CancelLands`, `FinishStop` are
`stop()`. **BestEffortDelivery** is the abstract promise: each event is owed,
then turned away, acknowledged or lost, once, and an acknowledged one has
arrived. `Verdict` and `Got` are the refinement mapping.

**CredentialCache** - requests `pc[r]` walk through lookup, the touch in its
three commands, `count_tokens`, the cached verdict, the forward and the
backend's answer; `redis` chooses between the Redis cache (any request runs
between two commands) and the in-process one (`Interleaved`). Time is in half
seconds because the two caches round the remaining TTL differently (`Seconds`).
A credential is an API key or an OAuth token (`oauth`), and a request sends it
one way or the other (`bearer`): `Accepts` is what Anthropic makes of both,
while an entry is found by the credential alone.

**Admission** - `guest[g]` is a request in the dependencies of its route
(`VerifyToken`, `Validated`, `CheckRateLimit`, `ResolveClient` or
`ProxyPassthrough`), `edit[o]` an `update_config` between its two statements,
`auth` and `authRow` the mode in memory and in the database. `seen` is history:
the modes in force while the request was in the door. `Login`, `Logout`, `Hour`
and `Restart` with another key drive `SessionValid`, `ApiAccepts`, `PageServed`.

### Policies and judges

**JudgeOrchestrator** - the items, their asyncio tasks, `results`, the local
`bailed`, and the end of `collect`. `Wake` is one turn of its loop: it sees
*every* task finished by then, records them, and cancels the rest if one
matches. **JudgeCalls** refines an item's task to what runs in it: dispatch, the
registry's answer, up to `MaxAttempts` calls of a provider (a `claude -p` child
with its scratch directory and its three-step end, the SDK on a shared or a
private client), and the `except`/`finally` clauses a cancellation passes. The
`finally` that closes a private client awaits the close (`HangUp` .. `HungUp`);
a cancellation there may leave the client open (`HangUpCancelled`), and a close
that raises takes the place of the cancellation that led to it (`HangUpFails`).
**Requests** puts pipeline and judges beside each other for one run.

**LlmJudge** instantiates the orchestrator for `SimpleLLMPolicy` on one
response: `said` are the verdicts awaited inline, `tags` the blocks whose judges
were submitted, `out`, `tools`, `blocked`, `judgeError` the message builder; the
same operators serve the streaming and the non-streaming path. **ToolGate** is
the abstract promise: tools are released once the decision is in, only allowed
ones, in the order offered, and all of them when the response closes.

**PolicyChain** - every hook of eight policies is a function from the policy's
request state and an event to a state and events; `chain` composes them as
`MultiSerialPolicy` does, and `Whole` is what the non-streaming hook makes of
the same response. Text is a sequence of a few characters, because where a chunk
ends and in which block a piece leaves is what can go wrong. `Recorded` is
the pipeline's `_reconstruct_response_from_stream_events` on the events sent, at
whatever point the stream breaks off.

**TestChat** - `send_chat` step by step. A request or response that a hook may
change in place is a field that the hook's step changes; `shown` is the text
taken from the first answer, `snapshot` the deep copy made before the request
hook, `reused` says that After is computed on the very object of Before.

**Policies** puts the three beside each other: a behaviour is a response through
the judge policy, or through a chain, or a preview.

**PolicyManager** - `mem[r]` is `_current_policy` of a process, `row` the
`current_policy` row, `pc[c]` a call of `enable_policy` with the upsert, its
answer, the swap and the release apart, `holder` and `expired` the lock.
`StartFromDb` and `StartFromFile` are `initialize` under the four settings of
`POLICY_SOURCE`, with the failing read that the code takes for an empty table.
A file (`Files`) has its policy, and what can be made of the configuration
stored for it, `get_config()`, which leaves private attributes out: nothing, for
a chain. The release of a Redis lock may fail and leave it to its timeout.
Without Redis there is one process.

### The audit trail

**EventLog** - `of`, `kind`, `at`, `fate` describe the recorded events; `Commit`
is the transaction of `_write_db` with `update_session_summary` (`Upsert`
follows the SQL column by column); `Lose` is its rollback or the end of the
process. **Retention** extends it with `run[r]`, the locals of one `purge_once`,
`archive` (S3) and one action per await; `Fail` covers an error at any await,
with or without its effect, a crash and `stop()`. `Young` states the one fact
about the rest of the program that this needs: a call's events are written
within `CallSpan` of its first one, and `CallSpan` (minutes) is at most the
retention period (days). **MCStores** puts credential cache and audit trail
beside each other for one run.

**Reading** - the list of sessions as its queries (count, page, previews,
models, interventions), each on the trail committed at that moment, against the
detail of a session, which is one query. `moved` says that something was
written or purged during the list; only then may its parts disagree.

### Services, and what surrounds the running gateway

Each is a module of its own; **Services** picks one of them per behaviour. They
share no state, so their interleavings would add nothing. It extends
`InferenceRegistry` and `Admission` and instantiates the others; what each asks
of its constants stands here, as one named assumption per service. The theorems
about `Spec` are in `ServicesProofs`.

- **InferenceRegistry**: `get` over the record cache and its lock, then the key
  cache. `WriteRow` and `PopRow` are the two halves of an admin's edit; the
  second may never come. `replaced[v]` is history.
- **RateLimiter**: `check` as one step (it never suspends), the LRU order, and
  what a denial promised (`promise`).
- **PolicyCache**: `put` as its four statements, on Postgres at READ COMMITTED,
  on SQLite one after the other. There a cancelled put (`Abandon`) leaves its
  transaction open on the one connection, for `transaction()` rolls back on an
  `Exception` only: every statement sees its rows, no other put can begin, and
  the next `execute()` of the process commits it (`Flush`).
- **UsageTelemetry**: counters as sets of requests, so that what is counted
  twice or lost can be told; the periodic task, and `stop()` with its last send.
  `due` is history: what was counted when that send was made.
- **ActivityStream**: `publish_event`, bounded queues that drop a slow
  subscriber, the Redis channel; the stream with its heartbeats and its end.
- **RequestRecorder**: the four `record_` calls, `flush`, the two inserts.
- **Provisioning**: the steps of `create`, its clean-up, delete, cancel; each
  call to Railway may be refused, or take effect and report an error, and a
  process may die between two calls.
- **Configuration**: one field through `.env`, shell, flag, `gateway_config` and
  default, through restarts and edits.
- **Migrations**: files as sequences of statements that commit one by one, run
  by several gateways of any releases, killed anywhere, or on Postgres by the
  container, killed anywhere too. A release ships the first so many of the files
  (`release[g].files`), none at all included, and may ship one of them edited,
  which stands for one more statement at its end; records keep a hash, or none
  if they are old. `doubtful` marks what the code cannot tell: overlapping first
  starts on one SQLite file, an edited file taken for one of the snapshot era.
- **Lifespan**: the parts brought up, used, and taken down; what a request
  leaves behind (`writes`), and the pool that opens itself again (`late`).

Not composed by INSTANCE, but by assumption: the pipeline fires each webhook
once (`WebhookExactlyOnce`), which `WebhookSender` starts from; it records a
call's request once, which `EventLog!Record` starts from; `Admission` takes any
answer of the credential cache and the rate limiter, and `JudgeCalls` any of the
registry.

## 3. Runs

| Run | Instance | Distinct states | What it shows |
|---|---|---|---|
| `requests` | handlers: 2 calls, 2 events per stream. Judges: 2 items, 2 attempts, client cache of 1, 2 credentials | 139,395 | webhook fired once or never, success means delivered, no silent end, the sinks agree; every call ends. Each item gets its own result, no process, directory or client is left behind, `collect` returns; refinement of `JudgeOrchestrator` with its fairness |
| `webhook` | 3 transactions, 1 retry, pool of 2 | 399,427 | quiet shutdown, counters, refinement of `BestEffortDelivery`; deliveries end and `stop()` returns |
| `stores` | credentials: 2 requests, 1 key or token, TTLs 2 s and 1 s, 3 s of time (2.5 s on Redis). Audit trail: 2 calls of 1 session, 3 events, 2 replicas, batch of 1, 1 failure | 3,392,595 | nothing unproven forwarded, cached verdicts were true; in process trust is bounded. Summaries tell what was stored, nothing young or unarchived deleted, an undisturbed sweep is complete |
| `policies` | 3 judged blocks; chains of up to 2 of 8 policies, 3 blocks, 2 text deltas; 17 policies previewed | 357,788 | nothing vanishes, only judged tools leave and in order, the stream is acceptable and agrees with the whole response and with what is recorded of it, the original is kept; refinement of `ToolGate`; the response ends |
| `policy_manager` | 2 replicas, 2 changes, 1 crash, 2 policies, one of them a chain that a file's row does not hold | 1,429,948 | what is served was stored, an acknowledged change is stored; the lock comes back |
| `services` | see below | 629,571 | the properties of the twelve services |
| `credentials_rejected` | the credentials of `stores` | violated | finding 1 |
| `policy_fallback` | as `policy_manager` | violated | finding 2 |
| `policies_blocks` | chains of 2 | violated | finding 3 |
| `history_filter` | the reader of `services` | violated | finding 4 |
| `pipeline_pair` | 1 call, 1 event | violated | finding 5 |
| `judges_later` | 2 items | violated | finding 6 |

`services`, by the service picked (states, instance, property):

- registry, 177,302 states: 2 calls, a TTL of 1 and 2 units of time, 1 write.
  `BoundedStaleness`, `LookupGoesOn`.
- limiter, 6,270: 3 keys, 2 buckets, 40 a minute with a burst of 2 (a rate that
  does not divide a second). `LimitsHold`: no key gets more than its burst and
  its rate since its bucket was made; a denial's Retry-After is kept.
- cache, 86,902: 2 writers, 3 keys, 1 entry, 2 puts cancelled in a row.
  `LimitsHold`: on Postgres the cap is exceeded by no more than the puts under
  way together, on SQLite by one entry for each put that was cancelled since one
  last committed.
- telemetry, 2,715: 2 requests, 3 sends. `CountedOnce`: nothing is counted
  twice, nothing is lost but with a POST that failed or was cancelled, and
  `stop()` leaves nothing in the counters that was there before its last send.
- feed, 23,756: 2 streams, queues of 2, 4 events. `NoGaps`.
- recorder, 484: 2 requests. `LogConsistent`.
- railway, 7,700: 2 commands, 1 name, 2 projects. `CreateTells`.
- config, 14,052: 2 admins, 4 fields, 2 values. `RestartAgrees`.
- migrating, 61,466: 2 gateways, 3 files of up to 2 statements, one of which may
  be edited. `ServesOnlyWhole`, of gateways that found files; the exceptions are
  in the comment of `UpMeansMigrated`.
- process, 2,692: 2 requests. `ServesOnlyWhole`.
- reader, 56,878: 4 events on the trail, pages of 1, 1 change during a list.
  `ListTells`.
- gate and door, 189,090 and 264: 1 request, 2 administrators, 2 changes of the
  mode; sessions of 1 hour, 4 hours. `LetInRightly`, `RestartAgrees`.

*Why the bounds suffice.* Two calls are independent in the pipeline, so the
second only shows that they are; two events leave a stream empty, open, complete
or broken. Three deliveries against a pool of two reach the cap, and one retry
distinguishes first, last and lost attempts. Entries of different keys never
meet in a cache, so one key is enough; two clients because every race is between
a writer and one other; three seconds reach past the longest entry, and on Redis,
where `TrustBounded` is not claimed, two and a half show a verdict learnt,
expired and learnt anew (`RedisClock`). What is not picked in `requests`,
`stores` and `services` stays in one initial state. `Distinct` leaves out of
`policy_manager` what differs in names only, or in a file nobody reads. Two
puts cancelled in a row (`MaxLeaks`) show that the excess adds up; of three
migration files one comes before the marker table's and one is after the seeded
ones, and one that is edited meets every hash there is. Two judges
let a bail find a finished and a running peer, and two attempts a failure that
is retried and one that is not; a client cache of one evicts at the second
credential. Three blocks hold a text before, between and after tools; two
policies in a chain show every pair, and every property of a chain is about a
pair or about one policy and all the others (`noop` stands in for the rest).
Two changes and two replicas interleave two writers. In retention, a batch of
one with two due calls takes the cursor through full and last batches, and the
third event is a writer at work. In the services the caps (queues, buckets,
entries, pages) are one less than what competes for them, and there are two of
whatever can interleave with itself. One request is enough in `Admission`, for
requests do not read each other; two administrators overlap. Every bound is a
CONSTANT; the theorems below do not depend on them.

Deadlock is not checked, for all these systems may stop: the calls all ended,
the sender closed, the clock at its bound.

*Properties that need history.* `fate`, `received`, `revoked`, `stored`,
`archive`, `replaced`, `seen`, `login`, `torn`, `moved` and the like record what
happened; no guard of the program reads them.

*Fairness.* `RequestPipeline`: weak fairness of every await of an accepted call
(upstream and judge clients have timeouts, the server raises on a client that is
gone); none for calling or leaving. `WebhookSender`: of a delivery's own steps,
of the done-callback, of the timed drain and of the gather after the
cancellations; none for the network, nor for calling `stop()`.
`JudgeOrchestrator`, `JudgeCalls`, `LlmJudge`: of a judge's steps (providers
time out, a killed child exits, a cancelled task ends) and of the wake-up of the
coroutine that waits; none for upstream. That `JudgeCalls` implements
`JudgeOrchestrator` includes its fairness: the orchestrator's assumption that a
judge ends is shown from the steps of a call. `PolicyManager`: of the steps of a
change, of the lock wait, which has a timeout, and of the expiry of a dead
holder's Redis lock. `InferenceRegistry`: strong fairness of a call's steps, for
`asyncio.Lock` wakes its waiters in turn. The other modules state safety only.

## 4. Proofs

Eight modules hold proofs, all checked to the last leaf, for every value of the
constants. Together they state every safety invariant the runs check except
`StreamAgrees`; of the refinements, `KeepsPromise` and `KeepsGate` wholly and `Orchestrates` but for its
fairness. Nothing is assumed but the named `ASSUME`s beside the constants, which TLC evaluates in the
runs: bounds are naturals, caps and rates are positive, values that mean
"nothing" are not values, an age is a natural, every call is a pair of session
and user, calls are shorter than the retention period.

| Module | Theorems | Inductive invariant and why it is needed |
|---|---|---|
| `RequestPipelineProofs` | `Invariance`, `ReportedOnce`, `SuccessDelivered`, `NeverSilent`, `RecordedFirst`, `SinksTell` | `PipelineIndInv`: what the handler has done by the phase it is in, and what each way out leaves (`HandlerInv`). The properties speak of the end; the `finally` block computes the end from locals set many steps before. |
| `WebhookSenderProofs` | `Invariance`, `Bounded`, `Quiet`, `CountersTell`, `PostsBounded`, `Implements` | a task, its slot and its verdict are in step (`TaskInv`), the pool is finite and drained in phase with `shutdown` (`PoolInv`), each counter is the cardinality of the transactions that ended so (`CountInv`), a POST never runs ahead of its attempt (`PostInv`) |
| `CredentialCacheProofs` | `Invariance`, `ForwardsProven`, `CachesTruth` | `TruthInv`: besides the entry, the *copy* a suspended touch holds and the answer a suspended validation holds are no less true than the cache (`RequestInv`): they come back to it later. A false "invalid" needs an OAuth token that some request sends as an API key (`Missent`). |
| | `TrustEnds` | `TrustInv`: in process, a touch's two halves run with nothing between them, so the copy it writes back is the entry (`TouchInv`), and an entry ends at most one TTL after the validation it comes from, the rounding of the remaining seconds included (`SpanInv`) |
| `JudgeOrchestratorProofs` | `Invariance`, `Faithful`, `BailsOnMatch`, `LeavesNothing` | the local `bailed` agrees with the recorded results; tasks, results and mode are in step |
| | `CallInvariance`, `CallsImplement`, `CallsFaithful`, `LeakFree` | of `JudgeCalls`. `CallInv` says what a judge owns at each await. That a scratch directory exists *exactly* while the child is spawned, talked to or reaped is stronger than the property, and without it the retry after a failed attempt could inherit one. A private client is there exactly while its request runs or is being hung up, unless its close was cut short. |
| `PolicyManagerProofs` | `Invariance`, `ServedIsStored`, `OneProcessAgrees`, `AckMeansStored` | a change inside the lock holds it or has lost it to its timeout, so two that both hold it are one; the row a change committed is still its own. What `StartFromFile` serves and cannot store is an alternative of its own (`NotWhole`), as is the row it leaves (`OfFile`). |
| `RetentionProofs` | `Invariance`, `KeepsRetention`, `SweepsAll`, `SummariesHold` | `OldInv`: the calls of a batch are old, and stay old; `CopyInv`: what is still in the database of a batch is in the body, then in S3; `DueInv`: the due calls are those of the batch and those after it. Between two awaits of a run, writers touch young calls only and other replicas only remove. |
| `ServicesProofs` | `RegistryInvariance`, `StalenessBounded` | what is cached was the stored row at its stamp or later (`EntryInv`), and so is what a call has read and not stored yet (`CallInv`): its stamp is older than its read. A failed invalidation or a lookup that straddles an edit then costs at most a TTL. |
| | `LimitsAreKept` | the rate: tokens and grants together account for the burst and the time since the bucket was made, and buckets belong to the keys checked last. The cap: a bound on the committed rows alone is not inductive on Postgres; `CacheInv` is about *whichever subset* of the counted puts commits, and on SQLite about the room (`Room`) the abandoned ones have taken. |
| | `TelemetryInvariance`, `UsageCountedOnce` | each request is in the counters, in one snapshot or in none (`SumsUp`, `Apart`), one send at most is open (`OneOpen`), and what stop() flushed is in no counter (`Flushed`) |
| | `FeedInvariance`, `FeedIsWhole` | what a stream got and what waits in its queue is a stretch of what was published, from where it subscribed (`Follows`) |
| | `RecorderInvariance`, `LogsAgree` | what `flush` copied is what was recorded when it ran, and which of the two rows are in depends on where the write is (`WriteInv`) |
| | `GateInvariance`, `RightlyLetIn` | a request in the door has seen the mode in force, and past `verify_token` some mode it saw gives it a title (`GuestInv`): titles are kept when modes are added to what it saw, so a change between its two reads takes none away. A cookie is of the last login (`CookieInv`). |
| | `EditInvariance`, `ConfigInvariance`, `RestartBringsTheSame` | mode in memory and mode in the row agree unless an edit is between its two statements, overlapped another or was torn (`EditInv`); a setting is what its layers resolve to as they stood at the start, edits folded in (`ConfigInv`) |
| | `RailwayInvariance`, `InstancesAreTheirs` | by the step a creation is at, what its project has (`HasMade`), as long as no other command on the name overlaps (`AloneInv`) |
| | `MigratingInvariance`, `ProcessInvariance`, `ServesOnTheWhole` | what a starting gateway believes recorded is recorded, with the hash of the file it ships or none (`Stands`), and a file that is recorded is in the schema with the text its hash tells, while nothing is `doubtful` (`GatewayInv`); the parts alive are those brought up and not yet taken down, by position in the two lists (`ProcessInv`) |
| | `ReaderInvariance`, `ListsAreTrue` | at each of its queries, what a list has read is what a query would give now, if nothing moved (`FreshInv`), and of no other user even if something did (`OwnInv`) |
| `PoliciesProofs` | `JudgeInvariance`, `NothingIsLost`, `JudgedIsAcceptable` | `JudgeInv`, of the judge policy: a judge's task, its result and what the builder waits for are in step (`TasksInv`); the tags are the tool blocks in the order heard (`TagsInv`); what was said of a block agrees with `on_error`, and of tools only outside a stream (`SaidInv`); what the builder holds is, block by block, what its verdict makes of it, and stands in the order the API asks for (`BuilderInv`); the end is complete (`DoneInv`). The properties count blocks of the finished response, which comes out of sequences that `collect` sorted, joined and flattened: lemmas say what those sequences have as members and in which order. |
| | `GateKept` | what `ToolGate` has released and ruled are functions of the state of `LlmJudge`; a judge's answer is one step of the gate, the release is one, and all else stutters |
| | `OriginalShown` | `PreviewInv`: by the position in `send_chat`, what the captured request and answer hold. `HooksKeep`: a chain's request hooks, as many as they are, keep what was recorded. |
| | `DeniedStays` | `ChainInv`: by its position in the chain, which kind of block a policy may know at which index: before the judge those of upstream, or the made-up one; after it, none that the judge denies. It must speak of every policy's private state, because a text or a tool waits there (a held stop, a buffer, open blocks, the queue) and leaves at a later event. |
| | `StreamsWellFormed`, `LeavesAcceptable` | `StreamInv`: between any two policies stands what the stream there has told so far (a *station*: begun, ended, over, the blocks started and stopped), and each policy's private state is what leads from its station to the next (`Tracks`): the stop a text modifier holds back is the one block that is stopped before it and open after it, the judge's re-indexing is one-to-one and growing, a replacement buffers text of an open block only. What a hook sends then continues the next station (`Follows`), for all events of a feed, all policies of a chain and all that is added at the end. |

Three theorems are refinements: `Implements` (`WebhookSender` of
`BestEffortDelivery`), `CallsImplement` (`JudgeCalls` of `JudgeOrchestrator`) and
`GateKept` (`LlmJudge` of `ToolGate`): the initial states map to initial states,
and each step to a step or a stutter.
`CallsFaithful` then has the orchestrator's property for the calls.

Each invariant was first an invariant of a run, and so was each strengthening;
`StreamInv` alone says that stations *exist*, and what it is for is checked as
`WellFormed`.
Some definitions were rewritten to be reasoned about: an LRU cache's client by its
position (`GetClient`), the events of a session as pairs of a call and a number
(`AgreesWithDetail`), what the gate releases by its members and their order
(`InOrder`), and the loops of a chain as recursive functions instead of folds
(`RequestHooks`, `FeedAll`, `Through`, `Completed`). None changes a behaviour.
That such a recursive function exists for every length, and what it then keeps,
is proved from the least length at which it would fail, for the induction
theorems of the library cannot be used.

*Only model-checked*:

- all liveness (`EveryCallEnds`, `SenderSettles`, `CollectReturns`,
  `ResponseEnds`, `LockComesBack`, `LookupGoesOn`) and the fairness in
  `Orchestrates`: the prover has neither `ENABLED` nor fairness of one
  specification from that of another;
- `StreamAgrees` of `Policies`: it compares the whole of what a chain streams with
  what it makes of the whole message;
- what a violation run shows.

## 5. Findings

Where a statement of the repository and its code disagree, a run of its own
shows it.

1. The 401 handler never invalidates the rejected key, for nothing sets the
   state it reads (`main.py:550` against :547).
2. A failed read of the policy row is taken for an empty table, and the file
   overwrites the operator's policy (`policy_manager.py:180` against :63).
3. Behind a policy that holds a block's stop back, the tail of a replaced text
   leaves in the next block (`string_replacement_policy.py:553` against :554).
4. On SQLite the history's time filter compares texts of two formats: the whole
   day of the bound counts as earlier (`history/service.py:435` against
   `history/models.py:99`).
5. An error event in a 200 stream is reported to the webhook as a failure with
   status 200, and counted as completed usage (`anthropic_processor.py:793`,
   :1262, :972), the "contradictory pair" that the comments at :1124 and :1135
   mean to exclude. `SinksAgree` therefore excepts, by name (`ErrorSays200`),
   what an error that carries 200 does to status and usage, and nothing else.
6. The header of `judge_orchestrator.py` says that after a bail "subsequent items
   collect as `Bailed()` regardless of completion state" (:8, and :15), its class
   and `collect` that results in hand keep their value (:60, :86). The code
   does the latter: `ResultsFaithful` holds, `LaterBailed` does not.

Observed while modelling, and part of the models where they are modelled, but
with no run of their own:

- *Pipeline.* Partial streams are validated and logged as protocol violations
  (`anthropic_processor.py:904`, :893); clients that left count as completed
  usage (:972); a request hook that raises leaves a call without
  `request_recorded`, so outside its session's call count (:597).
- *Webhook.* Delivery is at least once up to the retries, not at most once
  (`sender.py:541` against :7); ignored and cancelled deliveries are in no
  counter (:735, :439).
- *Credentials.* On Redis a touch writes back what it read before two awaits, so
  an expired, invalidated or replaced verdict returns (`credential_manager.py:340`
  against :325). The cache is keyed by the credential's hash (:220, :235) while
  the probe depends on how it was sent (:363), so an OAuth token that one client
  sends as `x-api-key` is cached as invalid for those that send it as Bearer
  too, although the probe's answer is meant for "callers [to] avoid caching a bad
  result" (:351); `VerdictWasTrue` excepts exactly that (`Missent`). A rotated server key reaches judges only after the record's and
  the key's TTL (`registry.py:386` against `credential_manager.py:477`).
- *Admission.* `AUTH_MODE` has no effect, for migrations 007 and 008 seed the
  row ("Falls back to default on first boot"); two overlapping changes of the mode
  can leave memory and row different (`update_config`: "atomically"); the admin
  API accepts `client_key` without a `CLIENT_API_KEY`, which the next start
  refuses; `proxy_passthrough` forwards the shared client key to Anthropic; the
  scheme `bearer` in lower case opens the API but not the pages; a logout clears
  the cookie only, not the session.
- *Judges.* A bail cancels earlier items too (`judge_orchestrator.py:125` against
  :15); a private client whose close is cancelled may stay open, and a close that
  raises hides the cancellation, so that the judge goes on (`direct_api.py:153`); `_reap_child` swallows a second cancellation (`claude_code.py:437`); tasks
  of a stream that ends before its `message_delta` are left running;
  `parse_judge_action` admits only `pass` and `replace`, so a block only ever
  comes from a failed judge under `on_error: block`.
- *Rewriting policies.* A suffix added to a stream differs from the one added to
  a whole response; `compose_tool_only` drops an empty text; `SimplePolicy` loses
  a changed tool name when streaming; an in-place `simple_on_request` changes the
  recorded original; overlapping replacements differ with the chunking.
- *Preview.* `send_chat` builds a context without the inference provider registry
  (`admin/routes.py:571`), so a judge with a named provider fails in a preview
  although "judge-style policies ... can run against test traffic exactly as they
  would against real traffic" (:643); `use_mock` says that "the policy pipeline still runs" (:139)
  and skips it (:671).
- *Policy manager.* What is stored for the policy of a file is its
  `get_config()` (:118), without private attributes
  (`policy_core/base_policy.py:171`): a chain such as that of
  `config/railway_policy_config.yaml` is stored with config `{}`, from which no
  process can start again, though :62 says "load only from YAML file, persist to
  database". The other replicas never reload; `initialize` takes no lock;
  once a Redis lock has expired the writes and swaps of two changes interleave
  (there is no fencing token); `get_current_policy` joins one change's metadata
  with another's policy; an upsert that committed but reported failure leaves row
  and memory different.
- *Session summaries.* User and preview are those of the first transaction to
  *commit*; migration 021 and `session_summary.py` state the first by time.
  `SummariesTell` asks for what does hold: the value is that of one of the calls
  that have one. `session_summary.py:42` counts an Anthropic judge's evaluations
  as interventions, the history does not.
- *Retention.* Two replicas count the same rows as deleted (`purger.py:120`); the
  archive leaves out `user_id`, which `archiver.py:38` says is not a column;
  session summaries are never reduced after a purge.
- *History.* Count, page and lookups are queries of their own, and the order by
  last activity has no tie-break, so pages may repeat or skip a session; the
  preview is looked for in the original request of the first row whose *final*
  request passes the filter, and in no other.
- *Caches.* A put cancelled on SQLite stays open on the shared connection
  (`db_sqlite.py:207`), fails every `transaction()` until some `execute()` commits
  it without its eviction, and so exceeds the cap that `policy_cache.py` calls
  "effectively hard" there. "A new key cannot evict itself" does not hold when creation times tie
  (`policy_cache.py:72`); the rate limiter's note on eviction while a key's lock
  is held describes a case that cannot occur.
- *Configuration.* `log_level` can be set in the database, but `main()` reads it
  before the registry exists (`main.py:871`); `auto_provision_defaults` ignores
  `.env`; a `.env` value equal to the default loses to a database row; `--local`
  overrides `--database-url`, and the registry reports the latter; a failed read
  of `gateway_config` is taken for an empty table.
- *Migrations.* Without a directory of migrations, or with an empty one, a gateway
  warns and serves on any schema (`migration_check.py:72`, :77, :199, :206). A kill between a script and its record (`migration_check.py:145`)
  makes an `ALTER` fail on every later start, though
  `018_add_user_id.sql:6` counts on "exactly once"; overlapping first starts on
  one file can record files as applied that were not; a crash while a
  snapshot-era database is seeded leaves one that never starts.
- *Lifespan.* Background writes and the purger can open the closed pool again; a
  stop that raises skips the stops after it.
- *Provisioning.* Concurrent creations of one name share or delete each other's
  project; a failure inside `create_project`, or one of `httpx`, leaves an orphan;
  `get_instance` reports UNKNOWN for ever; cancel and forced delete act without a
  second look; a creation's description may overwrite a deletion tag.

## 6. Not modelled

- *The rest of the admin API, the pages and the UI*: handlers over the
  components above (those that change state are modelled with them), queries,
  HTML. `get_current_policy` only reads.
- *Text*: prompts, the JSON of judges' answers, rendering, JSONL and Markdown
  exports, diffs, the words of login pages and of logs. Where text decides what
  happens (replacements over chunks, time bounds on SQLite) it is modelled.
- *Drivers and SDKs*: the databases, Redis, S3, httpx, the Anthropic SDK and the
  `claude` CLI are external; they answer, fail, or fail with effect. The
  translation of SQL between the databases is left out.
- *Failures of single statements on Postgres.* The container's `psql` goes on
  behind a statement that the server refuses and the file is recorded all the
  same (`docker/run-migrations.sh:153`). The model has the refusals of what was
  done before, not those of statements that are wrong or meet a full disk.
- *A crash of a process whose SQLite connection holds an abandoned put*: its rows
  are lost with it, which lowers the count. The process is assumed to go on.
- *The import of policy classes* and the discovery of policies for the UI.
- *Encryption* of stored credentials: a row is readable or not.

What would come next: what a chain streams against what it answers
(`StreamAgrees`) by an invariant of each policy over the text it has seen and
told; a composition of `Lifespan` with `WebhookSender` and `Retention` in place
of its abstract parts.
