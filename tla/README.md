# Verification of the voice bot runners and workers

This directory models the control logic of the voice bot in `src/app`: runner
pods (FastAPI, one asyncio loop each) that receive telephony webhooks and hand
calls to worker processes, which hold the media pipeline of one call at a time,
and which also serve the customers' API: keys, logins, call analysis and
knowledge bases.
The TLA+ modules are translated from the code; TLC checks them on small
instances, and TLAPS proves the central properties for every instance.

## 1. The system and its parts

| Part | Code | State | Operations | What makes it correct |
|---|---|---|---|---|
| Worker pool (runner) | `services/worker_pool/{base,k8s,ec2}.py` | `workers` dict with a cached `current_call_sid`, `assigned_at`, `consecutive_failures` per worker | `get_and_assign_worker`, `get_worker_for_call`, `reassign_call_sid`, `release_worker`, `release_worker_by_id`, `health_check_worker`, `_release_stale_assignments`, `discover_workers` | no two live calls on one worker, over all runners; a worker is never stranded; draining keeps live calls and ends |
| Assignment state (Redis) | `services/worker_pool/redis_state.py` | a hash per worker, a reverse mapping per call | three Lua scripts, `HDEL`, reads, each retried by `_with_retry` | the two keys agree |
| Worker availability | `worker/{main,state,prewarm}.py` | `current_call_sid`, prewarm entries, connected calls | `/prewarm`, `/prewarm/reassign`, `DELETE /prewarm`, TTL cleanup, `/health`, start and end of `_handle_call` | `/health` reports the connected call; an idle worker reports idle |
| Inbound routing | `routes/{jambonz,twilio,mcube}.py` | none | answered-call and status webhooks | every terminal status releases exactly its own call's worker |
| Outbound calls | `routes/calls.py`, `services/outbound/*` | none | reserve, prewarm, dial, reassign, record | a failed dial gives the worker back; a placed call keeps it |
| Call records | `services/call.py`, `services/call_request.py` | `calls`, `call_requests` rows | create, update status, count active, sync outcome | a terminal status is final; limits hold; no record stays active for ever |
| Webhook delivery | `services/webhook_service.py`, `webhook_worker.py` | `webhook_deliveries` rows | enqueue, deliver, poll, retry | every event is delivered or finally failed; a delivered row stays so |
| Prewarm task | `worker/{main,prewarm,services}.py` | per entry: its task, its two connections, ready, cancelled | fill, cancel, expire, re-key, hand over, close | prewarmed services have one user and are used or closed |
| Media pipeline | `worker/pipeline.py`, `worker/metrics.py`, `processors/*`, `strategies/*` | turn state, timers, judge tasks, buffered text, measurements | silence nudge, interruption judge, end of call, metrics | at most one nudge per silence and one before long; a stale verdict interrupts nobody; a goodbye ends the call; a turn's record holds its own values |
| Media transports | `worker/{jambonz,mcube}/*` | WebSocket, leave counter, audio queue, serializer | frames in and out, interruption, disconnect, close | no audio after an interruption; one close; a caller who leaves ends the pipeline |
| API keys | `routes/api_keys.py`, `core/auth.py` | `org_api_keys`, audit log, the lock on an organisation's row | create, update, activate, rotate, delete, use | limits and names hold; a deletion leaves a log |
| Sessions | `routes/auth.py`, `core/auth.py` | `refresh_tokens` | login, refresh, logout | a session has one live token, and none after its logout |
| Call analysis | `routes/insights_*.py`, `services/{insights_config_repository,s3_service}.py` | `insights_config`, `insights_jobs`, `call_analysis`, recordings in S3 | create, change and delete a configuration; submit a recording | one default; what the customer is told is so in the database and in S3 |
| Knowledge base | `routes/knowledge.py`, `services/knowledge_service.py` | documents, chunks | create, process, delete | a search sees all of a document or nothing; processing ends |
| Assistants, numbers, runner application, observability, utilities | `routes/*`, `models/*`, `observability/*`, `utils/*` | database rows | CRUD, logging, pure functions | mostly single statements |

How they interact: the provider calls a runner's webhook; the runner claims a
worker in Redis, records the claim in its cache, sends the worker a prewarm
request in the background, and answers with the worker's WebSocket URL. The
provider connects to the worker. When the call ends, the provider sends a status
webhook to *any* runner, which finds the worker through the reverse mapping and
releases it. An outbound call is reserved under a UUID before it is dialled and
re-keyed to the provider's SID afterwards. Every runner also probes the workers
it knows, and may free one that answers idle while the runner's cache names a
call.

A status webhook also updates the call's row in `calls`; for a call that was
placed for a `call_requests` row it then copies a terminal status there and
inserts a row in `webhook_deliveries`, which a task or a poller delivers to the
customer's callback URL.

In a worker, each media connection is served by a `_handle_call`, which takes
the call's prewarm entry if there is one, builds the pipeline, and reports back
when it is over. In the pipeline, frames go down from the transport's input
through the turn controller, the LLM and the TTS to its output, and up again;
the controllers of this repository listen and now and then inject a frame. The
transport's input and output share one client and one WebSocket.

The customers' API shares the database and its runners' event loops with all
this, but no table.

The hard behaviours are the interleavings between these: runners share nothing
but Redis, the database and the workers, caches are never synchronised, each Redis operation
may be lost or run twice, webhooks may be lost, duplicated or early, and runners
and workers restart.

## 2. Modules

| Module | Models |
|---|---|
| `Names` | the constants the pool modules share |
| `RedisState` | the hash and the mapping; each Lua script is one atomic operation |
| `WorkerProcess` | the workers: what `/health` reports, prewarm keys, connected calls, prewarm requests under way |
| `WorkerPool` | the runners, composed with the two above and with the provider; the properties |
| `CallOwnership` | the abstract specification: a worker has one tenant and keeps it until the tenant's call is over |
| `WorkerPoolTenancy` | the inductive invariants for single tenancy, for `NoStrandedWorker` and for `CallIsReported` |
| `MCWorkerPool` | TLC instances |
| `WorkerPoolProofs`, `WorkerPoolTenancyProofs` | the theorems about the pool |
| `WebhookDelivery` | the abstract specification of a delivery: open, then delivered or given up for good |
| `WebhookQueue` | `webhook_deliveries` rows and the coroutines that deliver them |
| `CallRecord` | the call's record, its request and the webhook handlers that change them, composed with `WebhookQueue` and the provider |
| `MCCallRecord` | TLC instances |
| `CallRecordProofs`, `CallOutcomeProofs` | the theorems about records and queue |
| `WorkerCall` | one worker process from the inside: connections, prewarm entries, endpoints; implements `WorkerProcess` |
| `MCWorkerCall` | TLC instance |
| `WorkerCallProofs` | the theorems about it |
| `SilenceNudge`, `InterruptionJudge`, `EndCall`, `CallMetrics` | the pipeline's controllers, one module each: state and handlers |
| `Conversation` | the four controllers composed with the turn controller, LLM, TTS and output of one call; the properties |
| `ConversationProofs` | the theorems about it |
| `MediaTransport` | client, input, output and serializer of a call's WebSocket, for three protocols |
| `MediaTransportProofs` | the theorems about it |
| `ApiKeys`, `Sessions`, `Insights`, `Knowledge` | one part of the customers' API each |
| `BackOffice` | the four parts as one specification |
| `BackOfficeProofs` | the theorems about them |

The pool modules and the record modules share no variable: the pool works on
Redis and caches, the record handlers on the database, and the one call between
them, `release_worker`, is the step `Released` in `CallRecord` and the handlers
`lookup -> release -> uncache` in `WorkerPool`. `WorkerPool` composes the runners
with `WorkerProcess`; `WorkerCall` shows that a worker is one. A running pipeline
is the state `running` of a connection in `WorkerCall`, whose end is open;
`Conversation` and `MediaTransport` are about what happens meanwhile, the first
about what is said, the second about the socket. They share two events, the
`EndFrame` that the conversation queues (`HangUp` in `MediaTransport`) and the
far end's leaving (`ClientDisconnected` in `Conversation`).

### How the code became actions: the pool

A runner is a single event loop, and no block under `BaseWorkerPool._lock` awaits
anything. So the code between two awaits on the network is one atomic step. A
request handler is a slot of `task` with a program counter that names the await
it is suspended at:

```
get_and_assign_worker   claim -> cache -> respond | dial
                        claim -> backoff -> claim   (RedisError, sleep, new snapshot)
                        claim -> noworker -> claim  (on-demand discovery, once)
                        claim -> reject, noworker   (None: busy, 503)
get_worker_for_call     getw -> respond, or claim
outbound                dial -> find -> rekey -> recache
release_worker          lookup (4 tries) -> release -> uncache
release_worker_by_id    admin -> uncache
```

`tries` counts the attempts of `_with_retry` and of the loops around it.
Releases started with `create_task` (`health_check_worker`, an orphaned claim)
are `stray` operations that nobody waits for. The health-check loop is split at
its awaits into probe answered and body read, batch read and reap, discovery,
drain check and deletion; each may interleave with every handler.

Deliberate abstractions, all named in the modules:

* The order of candidates is left open: the script takes the first free one, the
  model any. The 24 h expiry of the Redis keys is left out, as it outlasts every
  call.
* Time is qualitative. `age` tells whether `assigned_at` is unset, within
  `_STARTUP_GRACE_SECONDS`, or past it. An assignment only grows old once its
  call has joined or ended, and no answer from before that is read after it: this
  is the assumption the constant's own comment states.
* The probes and the reaper of one runner, which run in turn in the code,
  interleave freely in the model: it has more behaviours, never fewer.
* `_has_active_call` reads the cache and Redis in one step: a claim reaches Redis
  before the cache, so a claim that the second read would see, the first may miss,
  but not the other way round.
* `Join` folds the wait of at most one second for a prewarm entry, and the
  configuration fetch, into the start of a call.
* Discovery always succeeds or has no effect. `up` is what its API answers; an
  IP change of a pod under the same name is not modelled.
* The three providers' webhook handlers use the pool in the same way and are one
  set of actions; `AskOnAnswer` tells providers that ask for the worker's URL
  when an outbound call is answered (Jambonz, MCube) from those that get it when
  the call is placed (Twilio).

`Behaviour` selects which failures an instance includes, so that each run can
say which failures its property survives. `Timely` excludes one timing the code
relies on: that the lookups of a release (0.6 s in all) outlast an assignment or
reassignment under way for the same call.

### How the code became actions: records and deliveries

Every `with get_cursor()` block is one transaction and one step. The `task` slots
hold the handlers and the `send` slots the `deliver_webhook` coroutines:

```
POST /call/outbound          Ask (limit) -> reserve -> Dial | DialFails -> Create
answered call                AskedOnAnswer -> SetInProgress
status webhook               Receive (update_status) -> release -> sync | sync | nothing
recording callback           Receive (set_recording_url) -> sync
sync_call_request_outcome    Sync -> enqueue -> [insert] -> trigger -> [start ...]
deliver_webhook              ReadRow -> BuildPayload -> Post | Reject -> UpdateRow
                             ReadRow -> BuildPayload | BuildError -> UpdateRow   (no payload)
poller                       Poll -> PollNext ...
```

Nothing in `sync_call_request_outcome` awaits. So a handler in one of its steps
(`Synchronous`) holds its runner's event loop (`HasLoop`), while the handlers
and pollers of other runners go on. `Post` is the receiver's side of a request:
what it did (`accepted`) and what the runner learns of it may differ.
`build_payload` is a transaction of its own: a call request that is gone and a
read that fails (`BuildError`) both give an empty payload, with which the row is
written failed (`unbuilt`) without a time for a retry.
`due` is `next_retry_at` told apart as NULL, future and past; `tries`, `accepted`
and `refused` are history variables of the properties. The event "failed" stands
for failed, busy, no-answer and cancelled alike, which the code treats in the
same way. `Rank` is the order in which a provider sends a call's webhooks;
`"reorder"`, `"early"` and `"twice"` let them arrive otherwise.

Left out: the choice among the callback URLs of request, campaign and assistant
(a call in `Requested` has one), the subscription to events, what the payload
says and its signature, the poller's batch size of rows. `schema.sql` has no column
`callback_events` in `call_requests`, which `enqueue_webhook` selects; the model
assumes the deployed table has it. `Row` and `Slot` bound the table and the
coroutines: beyond them an INSERT fails, or a row is left to the poller.

### How the code became actions: a worker process

The worker too is a single event loop, and the blocks under its two locks await
nothing. A connection goes through the states

```
_handle_call     new -> waiting -> building | config       (a prewarm entry is there)
                 new -> config -> building | ending         (none, or not usable)
                 building -> running -> ending -> done
                 building -> broken -> done                 (create_pipeline raises)
                 new -> stray -> done                       (the first message cannot be parsed)
```

and the task of an entry through

```
_fill_prewarm    unused -> config -> warming -> done        (ready if both have connected)
                 warming -> closing -> done                 (cancelled)
```

with one socket each for the STT and the TTS service. `Decide` is everything that
follows the wait for an entry, up to the next await: the tests, the removal from
the cache of whatever it holds by then, and the cancellation of an entry that
comes too late. `closers` are the tasks that close connections nobody will use.
The requests a runner sends are a set (`Request`) from which each may arrive once,
in any order, since runners send them in tasks of their own.

`ImplementsProcess` maps the state to that of `WorkerProcess`: what `/health`
reports, the calls with an entry, the calls with a connection. Every step is one
of `WorkerProcess` or invisible, except `StrayEnds`: a connection that never
became a call ends and clears what the worker reports. The pool's model has no
such connections; nothing in the runners sends any.

### How the code became actions: a conversation

What runs in the pipeline is half pipecat's. Its parts are modelled by the frames
they send, with every choice left open that they have: the LLM may answer or not,
in pieces, the TTS may pause, the user may speak at any time. The four
controllers are translated handler by handler. Three things make it hard and are
kept:

* An observer sees a frame each time a processor hands it on, and copies that go
  upstream again later: `Observe` happens when the output sends a frame and when
  it arrives (`up` is the queue in between), and the timer restarts each time.
* A turn resets the judge while its tasks are under way (`judges`), with answers
  that may already be there: `wait_for` lets a cancelled task go on then.
* An interruption (`cutoff`) cancels a response in the middle, and its end frame
  may still reach the end-call processor, whose buffer it finds half full.

`focus` says which data a behaviour follows: the text of replies, the judge's
questions, or the measurements of one service. They do not influence each other,
and following one at a time keeps the product small without losing one of its
behaviours. Durations are the number of the turn in which they were measured,
which is what the property tells apart. A text is the set of parts of the phrase
that occur in it.

### How the code became actions: a transport

`protocol` is Jambonz, Jambonz with binary audio, or MCube. The client's two
views of its socket (`clientState`, changed by `receive`, and `appState`, changed
by `send` and `close`) are kept apart, as the code tests the first and `send`
fails by the second. The receive task and the output's audio task are processes
of their own. A frame and everything made of it carries `cut`, the number of
interruptions before it was spoken; an MCube frame is two messages (`writer`),
between which the task may be cancelled. The order in which an `EndFrame`, a
`CancelFrame` and an interruption come is left open.

### How the code became actions: the back office

Every transaction and every call of S3 is one step, and a process may die between
any two steps (`ServerDies`, `HostDies`, `AdminDies`, `SubmissionDies`,
`ProcessEnds`). In `ApiKeys` and `Sessions` the handlers await nothing, so each
server runs one at a time; in `Insights` they run in threads. A text of a document
is its number of words, a chunk the interval of the words it holds: `CutChunk` is
one iteration of `_chunk_text`, so that a loop that never ends is a state
(`spinning`) that stops every task of the process. A transaction of a submission
or of a document's task may also fail: then the path of the code is taken, or the
task, whose exception nobody handles, is `broken`. A request whose object cannot
be built ends as `invalid`. In the other handlers a failing transaction is rolled
back and ends the handler, which then stops between two steps as if its process
had. `part` says which of the four a behaviour follows. `raced`, `overlapped`,
`gone` and `deletion` are history variables of the properties.

## 3. What the runs check

Passing runs. All use 1 or 2 attempts where the code has 3 or 4: a bound of 2
already has a first, a repeated and a last attempt, and 1 removes the
repetitions where the run is not about them. `Unhealthy` is 1 for 3: what counts
is fit or unfit. Deadlock checking is off: a finite set of calls ends, and then
the runners are at rest.

| Run | Instance | Shows |
|---|---|---|
| `pool_calm` | 2 workers, 2 runners, 2 handlers, an inbound and an outbound call; Redis errors, runner restarts, reaping | `SingleTenancy`; `TenancyInv`, the invariant of the proof; the pool implements `CallOwnership` |
| `pool_hooks` | the same size, no failures | `NoStrandedWorker`, and `EndedCallFreesWorker` under fairness: early webhooks (RC-8) included |
| `pool_probes` | 1 worker, 2 runners, 2 calls, all status webhooks lost | probes free the worker of an ended call in Redis (`IdleWorkerIsFreed`) and in every cache (`CacheHeals`) |
| `pool_faults` | 1 worker, 1 runner, 2 handlers, an inbound and an outbound call; errors, lost replies, failing handlers, manual release | `KeysAgree` |
| `pool_prewarm` | 1 worker, one outbound call; prewarm requests lost, late and reordered, probes, draining, restarts, crashes | `CallIsReported` |
| `outcome` | 1 call, 2 runners, 2 handlers, 2 rows; repeated webhooks, ringing, receivers that refuse, payloads that cannot be built | `ToldWhatHappened`: record, request and outgoing event agree with the provider; `NoPhantomCall`; `OutcomeIsReported` under fairness |
| `queue_faults` | 1 call, 2 runners, 2 coroutines, 1 row, 2 attempts; failing receivers, lost answers, restarts, failing transactions, early and reordered webhooks | `GivenUpOnlyAfterTries`; `EventsSettle` if faults cease: a row settles, unless its payload could not be built |
| `worker_calls` | 1 worker, the connections of an inbound and of an outbound call; prewarming, re-keying and two cancellations in any order, expiry, connections that cannot be parsed | `OneUser`, `IdleIsAvailable`, `WarmedIsClosed` under fairness; the worker implements `WorkerProcess` |
| `conversation` | 2 user turns, 2 utterances for the judge, every kind of greeting, a phrase of 2 parts, at most 2 frames on their way up, 1 hang-up that waits | `OneNudgePerSilence` and `SilenceIsBroken`, `JudgeKnowsBot`, `VerdictIsCurrent`, `GoodbyeEndsCall`, `RecordsMatchTurns` |
| `transport` | 3 protocols, 2 interruptions, 3 audio frames; a far end that leaves, sends that fail, cancellation and hang-up at any point | `KillIsFinal`, `ClosedOnce`, `LeavingEndsPipeline` |
| `back_office` | 2 servers, 2 keys, 2 names, limits of 0 and 1; 2 hosts, 3 tokens; 2 configurations, 2 administrators, 1 submission; 2 documents of 0, 1, 3 or 5 words in chunks of 2 with an overlap of 0, 1 or 2 | `CreationsAreChecked`, `DeletionIsAudited`, `OneLiveToken`, `OneDefault`, `AnswersAreTrue`, `SearchSeesWholeDocuments`, `DocumentSettles` |

One row and two coroutines are enough for `queue_faults`: rows do not influence
each other, and a stale coroutine needs one other to be stale against. Two
attempts have a first, a retried and a last one. Two rows in `outcome` are the
one for the status and the one that the recording callback may add.

The four new areas are bounded by what it takes to be stale. In `worker_calls` an
entry can be under one call's key while the other call ends. In `conversation`
the second turn finds measurements, verdicts and buffered text of the first; two
frames on their way up are a start and a stop, with a turn in between. In
`transport` a second interruption meets audio of both earlier periods. In
`back_office` two servers are one between the other's transactions; the limit of
1 is at its border with the first key; three tokens are a login and two
refreshes; chunks of 2 words divide 5 with a remainder at any overlap, and an
overlap of 2 is the one that never ends. The theorems of section 4 hold without
these bounds.

`outcome` keeps webhooks in order, calls whose provider does not ask at answer,
and transactions that succeed. Outside of these the code does not have its
properties (a late status overwrites a terminal one, an early one is lost, a
handler that stops between `update_status` and the sync leaves the request
open); the hazards of `PROJECT.json` name each of them with its line.

One run finds a violation, and is listed with the sentence it refutes in
`PROJECT.json`: in `stale_probe`, runner A's cache names a call that B released. B
gives the worker to a new call, which has not connected; A's probe is answered
idle and A releases the worker.

### What the code does not keep

These formulas are defined in the modules, each with the comment or the sentence
it comes from, and no run lists them: TLC refutes each of them when it is added
to the run named here.

| Formula | Run | What happens |
|---|---|---|
| `NeverNullInCall` | `worker_calls` | A connection that ends clears the SID of the call that runs on the same worker. |
| `NothingLeftOpen` | `worker_calls` | Only one of an entry's two services connects, or a second cancellation interrupts the closing. (What `create_pipeline` held when it raised stays open, too; the formula leaves that out.) |
| `NudgeWhenQuiet` | `conversation` | The observer counts silence from the start of a turn, not from its end: a long turn is prompted in. |
| `QuietBotListens` | `conversation` | Before the greeting has been heard, or without one until the bot first stops, short utterances go to the judge. |
| `EndsOnlyOnGoodbye` | `conversation` | The text of an interrupted response stays in the buffer and completes a phrase in the next. |
| `TerminateIsSent` | `transport` | An MCube call that the worker ends is closed without the message that terminates it. |
| `GoodbyeIsPlayed` | `transport` | The socket is closed while audio is queued. |
| `ActiveWithinLimit`, `NamesDiffer` | `back_office` | Creations do not look at the active keys, and activations count in another transaction; a rename is not compared with other names. |
| `NeverTwoDefaults`, `AnalysisKeepsItsConfig` | `back_office` | Requests overlap between their transactions. |
| `JobHasItsRecording`, `BadRequestLeavesNoObject` | `back_office` | The answer to a commit is lost and the cleanup deletes a queued job's recording; the default disappears after the upload, or the request object built after the upload rejects a field that is too long. |
| `NoDocumentIsForgotten` | `back_office` | A restart, or a transaction that fails before the `try` of `process_document` or in its handler, leaves a document pending or processing. |
| `SingleUse`, `LogoutIsFinal` | `back_office` | Two refreshes at the same time find one token unrevoked; a logout during a refresh comes too early for the next token. |
| `ToldWhatHappened`, `NoPhantomCall` | `outcome` with `"error"`, `"early"` or `"reorder"` in `Behaviour`, or `AskOnAnswer = {c1}` | With each of them both fail. A terminal update raises, and only the recording callback that follows is synced, or nothing; a status that finds no row is dropped; a status that was overtaken, or the `in-progress` of an answered-call handler that awaited its worker, overwrites the terminal one. |
| `EveryEventSettles` | `queue_faults` | The read for the payload fails once; the row is failed without a time for a retry, and no poll selects it. |
| `DeliveredOnce` | `queue_faults` | The poller picks a pending row whose triggered delivery is waiting for the receiver: the customer gets the event twice. |
| `OneRowPerEvent` | `outcome` | The event of a completed call is delivered before the recording callback comes, which inserts a second row for it. |
| `LimitHolds` | `outcome` with two calls that nobody requested | A ringing call does not count as active, so the limit of its number lets another call through. |

The pool model has further behaviours that are worth knowing, which no run
states: lookups that raise are taken for a missing mapping, and the cache is
cleared although Redis is not; a release that is repeated (a second terminal webhook, a lost reply)
frees the worker's next call, since the script does not compare the hash with
the call it releases; a worker may be assigned while `discover_workers` awaits
its drain check and is dropped with its call; a runner that restarted has no
cache entry through which a health check could free a worker whose webhook was
lost; a closing handler clears the SID of the call that has just started on its
worker. `TenancyInv` is proved for the conditions that exclude the first.

### Fairness

`HandlersRun`: a coroutine whose await returns is scheduled, all HTTP and Redis
calls have timeouts, and calls end. `HooksArrive` is the provider's promise to
deliver a terminal status, assumed only where the run says so. `HealthChecksRun`:
`run_health_checks` loops for ever and catches every exception. `Age` is strongly fair because time passes whatever probes are
under way. No fairness is put on failures, restarts, scaling, new calls or the
providers' connecting.

`Fairness` of `CallRecord`: handlers that can take a step do, the provider
delivers its webhooks, the poll loop catches every exception and sleeps for a
bounded time, and requests to receivers have a timeout. `RecoveringSpec` adds
that faults cease: a database that always fails settles nothing. Nothing is
assumed of calls being placed or answered, or of the receiver's answers.

`FairSpec` of `WorkerCall`: tasks that can run do, and an entry that stays in the
cache outlives its time to live, which `_prewarm_ttl_cleanup` polls for. Of
`Conversation`: the frames under way arrive, and sleeps end. Nothing is asked of
the user, the client, the LLM or the TTS. Of `MediaTransport`: the receive task
sees a disconnect, a queued `EndFrame` reaches the input, and the handler ends
after its pipeline. `Fairness` of `BackOffice`: the event loop runs the task of a
document, whose calls have timeouts, for as long as its process lives; a transaction
of the task may fail all the same, which ends it as the code does.

## 4. What is proved

For any number of runners, workers, calls and handlers, and any bound:

* `TypeCorrect`: `Spec => []TypeOK`. `TypeOK` is inductive. Besides the types it
  says what a suspended handler knows (`TaskOK`): at `rekey`, say, its worker is
  a worker and its call an outbound one whose URL has been given out.
* `ScriptsKeepAgreement`: `Spec => []KeysAgree`, under every behaviour. Each of
  the four Redis operations keeps the mapping and the hash in agreement, unless
  it changes the hash of a call it was not issued for; `clobbered` records that.
* `TenancyIsInvariant`, `CallsDoNotShareWorkers`, `PoolImplementsOwnership`:
  under `Calm` (one terminal webhook per call, no probes, draining, manual
  release or lost replies; errors, restarts of runners and workers, reaping and
  prewarming allowed) the pool keeps one tenant per worker and implements
  `CallOwnership`.

`SingleTenancy` is not inductive: that two calls were given different workers
says nothing of the handler that is about to release one. `TenancyInv` adds that
the mapping agrees with the hash (`MappingAgrees`); that a live call's worker is
held for the call or still for its reservation (`RoutedIsHeld`); what each
suspended handler relies on (`HandlersKnow`: a handler at `release` works for a
call that is over and whose worker is still held for it); and that at most one
handler works for a reservation and at most one release runs per call
(`OneHandler`). `stale_probe` shows why `Calm` excludes probes; releases that are
repeated or manual break the statement in the same way.

* `HeldIsInvariant`, `WorkersAreNotStranded`: under `Diligent` (`Calm` without
  errors and restarts of runners, where moreover a release outwaits the assignment
  of its own call and workers are given out when a call is dialled)
  `Spec => []NoStrandedWorker`. `pool_hooks` is such an instance.

`NoStrandedWorker` speaks of calls that no handler works for any more, so its
invariant `HeldInv` has to say what the handlers of a call still owe it. A call whose
webhook came is being released, or it has no worker and nobody will claim one for it
(`CallIsCovered`); a reservation that is over is being renamed or released, or has no
worker (`ReservationIsCovered`). Both rest on the mapping finding the one worker that
is held for a call (`HeldOnce`), on whoever is about to claim or to rename being the
first to do so (`HandlersAreFirst`, `OneClaim`), and on workers being held within the
life of a call (`HeldInTime`). `TenancyInv` is a hypothesis of every step. The
conditions are needed: on the instance of `pool_hooks`, TLC finds a stranded worker as
soon as errors, lost replies, restarts or draining are allowed, a release may give up
before the claim it waits for (`Timely` false), or a provider asks for the URL at
answer.

* `LoneCallIsReported`: without manual releases and failing handlers
  (`Undisturbed`), `Spec /\ []OneConnection => []CallIsReported`: a worker to which
  no two calls are connected at once reports the one that is, whatever is lost,
  repeated, reordered, restarted, probed or drained.
* `OneCallIsReported`: with one provider's call that premise holds, hence
  `Spec => []CallIsReported`; `pool_prewarm` is such an instance.

The premise `OneConnection` is not a formality: the handler of a closing connection
clears the SID of a call that connected to the same worker meanwhile, so the
property is false of two. `ReportInv` follows the requests that reach a worker: those
under way take a name only from calls that are not connected (`PostsAreHarmless`),
since a reassignment leaves from a reservation and a cancellation from the release
of a call that is over (`HandlersWait`, `OneReservation`, `NamedAfterwards`), and only
calls that have connected are on air (`OnAirHasJoined`).

* `RecordTypeCorrect`: `Spec => []TypeOK` of `CallRecord`, under every behaviour.
* `NothingGivenUpEarly`: `Spec => []GivenUpOnlyAfterTries`, under every
  behaviour. What makes it inductive is `Lag`: the attempt number of a row, or of
  a coroutine that read it, is at most one ahead of the requests sent for the
  row, and not ahead once the answer is there. Coroutines that overwrite each
  other only write smaller numbers. `QueueNext` reduces the system's steps to
  what they do to the queue (`StepsOfTheQueue`), so that handlers and provider
  drop out of the argument.
* `LoneSendersKeepThePromise`: `Spec /\ []OneSender => ImplementsDelivery`. In every
  behaviour in which no two coroutines have the same row at once, whatever fails,
  restarts or arrives out of order, the queue implements `WebhookDelivery`: what was
  delivered or given up stays so, no request is sent for it, and it counts as
  delivered only if the receiver took it. A coroutine that is past its look at the
  row holds an open delivery (`SendersHold`); nobody else can close it.
* `LoneSendersDeliverOnce`: if moreover answers and updates are not lost and runners
  keep running, `[]DeliveredOnce` (`TakenOnce`: a delivery that was taken is marked, or
  its coroutine is about to mark it). So the check that "guards against duplicate
  delivery" fails by overlapping coroutines alone, which nothing in the code
  prevents: without `OneSender` TLC refutes both on the instance of `queue_faults`.
  With `OneSender` as a constraint the refinement was checked there too.
* `CustomersAreToldTheOutcome`, `NoRecordStaysActive`: while transactions succeed,
  webhooks come in order and not before the record, and no answered-call handler
  works at the record (`Orderly`), `Spec => []ToldWhatHappened` and
  `Spec => []NoPhantomCall`. The invariant (`OutcomeInv`) follows the verdict on its
  way: webhooks and records agree with it (`MailTells`, `RecordTells`), a verdict that
  has not reached the record is still under way, a handler that syncs works for a
  record that has it (`HandlersKnow`), and coroutines have rows that exist (`RowsExist`).

Of a worker, for any number of connections, calls and requests:

* `WorkerTypeCorrect`: `Spec => []TypeOK`, which says of an entry that it is ready
  only when its task is done and both services had connected.
* `ServicesHaveOneUser`: `Spec => []OneUser`. The invariant (`ServicesInv`) says who
  can reach an entry: the cache under one key (`OneKey`), or one connection
  (`OneReader`), which waits for it under its own SID, so that a re-keying cannot
  give it to another (`WaitsUnderItsSid`), and once held it is out of the cache
  (`HeldIsOut`); and in what state it is then: usable and held entries are
  connected (`UsableIsConnected`, `HeldIsUsable`), and only ready ones get a closer
  (`ClosersAreReady`). Closing is safe since nothing that is closed is reachable.
* `IdleWorkersAreAvailable`: `Spec => []IdleIsAvailable`. A connection that has
  neither started nor ended owns `available` and `active`.
* `WorkerImplementsProcess`: `Spec => ImplementsProcess`, one case per action.

Of a conversation, for any number of turns, judged utterances, frames under way and
hang-ups, and any phrase:

* `ConversationTypeCorrect`: `Spec => []TypeOK`. The types of timers and of frames
  under way come with the invariants of the next items.
* `VerdictsAreCurrent`: `Spec => VerdictIsCurrent`. Every question and every reset
  takes a new number, so that a verdict under the current number is about the last
  utterance and no turn has begun since (`JudgesKnow`).
* `RecordsAreOfTheirTurn`: `Spec => []RecordsMatchTurns`. Nothing that was measured
  is older than the turn to be recorded, and the turn detector's value is only kept
  within the open turn (`MeasuredSince`); records are of turns that are over, in order
  (`RecordedBefore`).
* `JudgeHearsTheBot`: `Spec => []JudgeKnowsBot`. The last frame under way says what the
  bot does; once none is under way, judge and observer know it (`FramesTell`), but for
  a reset whose interruption is still to come.
* `SilencesGetOneNudge`: `Spec => OneNudgePerSilence`. After a prompt no timer runs
  until somebody speaks, and only frames that the bot started are under way
  (`Prompted`).

Of a transport, for any number of frames and interruptions:

* `TransportTypeCorrect`; the leave counter needs to know that the input is started
  once.
* `SocketClosesOnce`: `Spec => []ClosedOnce`. Whoever closes sets `closing`, and so
  does a send that fails (`CloseInv`).
* `InterruptionsAreFinal`: `Spec => []KillIsFinal`. What waits in the queue or in the
  writer was spoken after the last interruption, so that the whole wire is in the
  order of `cut` (`CutInv`): cancelling the audio task before the message is sent is
  what the argument rests on.

Of the back office, for any number of servers, keys, configurations, documents
and tokens and any chunk size, overlap and document length:

* `CreationsStayChecked`: a creation between its count and its insert holds the
  organisation's lock, and with it what it has counted (`Pending`).
* `KeysLeaveALog`: a handler that is about to delete has logged (`Logged`).
* `DefaultIsUnique`: while no two requests overlapped, one that is about to set a
  default finds none (`DefaultsInv`).
* `OfficeTypes`: the type invariants of the four parts hold of `BackOffice`.
* `AnswersStayTrue`: `InsightsSpec => []AnswersAreTrue`. The invariant says how far each
  submission has come (`Consistent`): before its insert nothing is queued, and the
  recording of an upload is there; only the cleanup, which is reached from a failing
  transaction alone, takes it away, and only the insert accepts.
* `SearchesAreWhole`: by `DocumentInv`, the chunks cut so far hold all words before
  `start`, wherever the windows overlap; at the end they hold all.
* `SessionsAreLinear`: a host knows that the token it revokes is its session's only
  live one, and that none is left when it issues the next (`HostKnows`).
* `PartsStandAlone`: the four specifications each hold of `BackOffice`, the one that
  the run checks.

The assumptions are `NamesAssumption` and `PoolAssumption` (names are distinct,
SIDs are unique per outbound call, the bounds are positive), `QueueAssumption`
and `RecordAssumption` (the same for the record modules), `WorkerCallAssumption`
(a call has one media connection, and none presents the UUID an outbound call was
reserved under), `ConversationAssumption`, `MediaTransportAssumption`, `ApiKeysAssumption`,
`InsightsAssumption`, `KnowledgeAssumption` (a chunk has at least one word) and
`SessionsAssumption`. TLC evaluates each in the runs of its modules.

Only model-checked: the liveness properties (`EndedCallFreesWorker`,
`IdleWorkerIsFreed`, `CacheHeals`, `OutcomeIsReported`, `EventsSettle`,
`WarmedIsClosed`, `SilenceIsBroken`, `GoodbyeEndsCall`, `LeavingEndsPipeline`,
`DocumentSettles`), since temporal proofs that need fairness and ENABLED are out
of this prover's reach. Every invariant and every action property that a run
checks is stated by a theorem, those of the pool and of the outcomes under the
conditions named above. No module uses recursion, and no proof induction over data.

## 5. Plan

1. Done: the worker pool with its abstract specification and its proofs.
2. Done: `WebhookQueue` and `CallRecord`, with the proof about attempts.
3. Done: a worker from the inside, shown to implement what the pool assumes of it.
4. Done: the controllers of the media pipeline and the transports.
5. Done: API keys, sessions, call analysis and knowledge base, all of their safety
   proved.
6. Done: the safety of the conversation, that records and deliveries agree with
   the provider in an orderly system, that no worker is stranded in a diligent one,
   and that a lone call is reported.
7. Done: an abstract specification of a delivery, which the queue implements where
   one coroutine at a time holds a row. Left: inbound call records (the
   answered-call handlers' `create`).
8. `LocalPool`: the pool without Redis, refined by the pool with one runner.

## 6. Not modelled

* Wording, audio and transcripts: what is said matters only where a phrase or a
  short utterance does. Pacing and resampling of audio, and the parsing of the
  providers' frames, whose outcome is a choice.
* In the pipeline: keyword filters, the wait for the first words, latency
  counters, and how the record of a call is summed up after it.
* JWTs, global keys and passwords, request schemas and their validation.
* Assistants, phone numbers and the daily limit of calls: single
  statements without a state machine. The records of inbound calls, transcripts,
  summaries and statistics.
* The execution of an analysis, which is not in this repository; the ranking of a
  search, which only reads.
* The pool without Redis (`LocalPool` in the plan); `GET /workers`, which reads only.
* Startup and connection pools; logs, metrics and traces, which observe the other
  parts and change none.

`PROJECT.json` says for each component what is modelled and what is left out.
