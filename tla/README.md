# Verification of the Workday Simulator

TLA+ models of the concurrent core of the simulator, the TLC runs that check
them on small instances, and TLAPS proofs of their main invariants for every
instance. `PROJECT.json` lists every run, mutant, theorem, hazard and finding
and maps each definition to the lines it models. Paths below are relative to
`src/src` unless they start with `docs/` or `web/`.

## The system

One Node process. A run streams a simulated workday of identity events at a
target system; the process also contains a reference target (the receiver).

| part | state | operations | talks to |
|---|---|---|---|
| scenario runtime (`engine/scenario-runtime.ts`) | the active run, its status, timer, counters, subscriptions, the promise of a finalization, the last summary | start, tick (25 ms interval), pause, resume, injectChaos, stop, finalize | all others: seeds the pool, publishes on the bus, drives one delivery adapter, writes run rows and summaries |
| arrival, clock, mix, chaos, threats (`engine/*`) | PRNG streams, simulated time, injector windows | due arrivals, injector ticks, incident scheduling | called by the tick |
| event bus (`engine/event-bus.ts`) | subscriber snapshot | publish, subscribe, unsubscribe | synchronous callbacks to adapter and metrics |
| identity pool and domain (`domain/*`) | employees, accounts, roles, orphans | seed, hire, move, terminate, grant, revoke, pick | called by event builders and chaos |
| event generator (`events/*`) | none of its own | generate, saga | draws from and mutates the pool |
| delivery adapter (`delivery/base-adapter.ts`, `bounded-queue.ts`, `circuit-breaker.ts`) | queue, batch buffer, semaphore, in-flight count, breaker, waiters | start, submit, flush, stop, drain loop, send jobs | bus events in, results out, senders |
| senders and auth (`delivery/sender-*.ts`, `auth.ts`, `http-transport.ts`) | SCIM etag cache, cached OAuth token | sendOne / sendBatch, token fetch, invalidate | HTTP and NATS |
| receiver (`receiver/*`) | SCIM store, seen event keys, grants, approvals, connector queues, detector windows | SCIM and ingest requests, pump, reset | HTTP in, stats out |
| persistence (`infra/*-store.ts`) | SQLite rows | create, update, saveSummary, list | called by runtime and API |
| metrics (`infra/metrics.ts`, ...) | counters, histograms, rate windows | record, snapshot, reset | bus and results in |
| server (`server/*`) | failed-login tracker, WebSocket clients, telemetry deltas | REST routes, WS, shutdown | drives the runtime |
| dashboard (`web/src`) | telemetry store, reconnecting socket | presentation | REST and WS |

Everything runs on one event loop, so nothing is preempted. What makes the
program hard is what happens *between* awaits: a client stops a run whose
start is still waiting for a token, an event evicts the one the drain loop was
about to take, results of old sends move a breaker that has opened since, a
batch waits for a slot while somebody asks whether anything is left.

What has to hold:

* adapter: every submitted event gets exactly one result; the semaphore and the
  in-flight counter are exact; no wake-up is missed; flush() and stop() drain;
  the breaker's state agrees with its counters and never sticks.
* runtime: one run at a time; a run is halted before it is flushed; the summary
  counts every event once; a settled row stays settled; every run ends.
* receiver: a request takes effect once while its key is remembered; what a user
  holds, what the connectors were told and the segregation-of-duties (SoD)
  report follow the requests that took effect; nothing is lost between approval
  queue, connector queue and slot; load shedding bounds the work and ends.
* workday: the stream never exceeds its ceiling, the scheduler never its number
  of concurrent incidents, and the mix follows the injectors that are active.
* pool and events: sampling never returns somebody who left; access follows the
  profile; managers form a tree; the target can reconstruct every joiner's
  access from what it was told; a saga hangs together and a key names one step.
* sending: the bucket paces all slots together, the token is fetched once for
  all, what counts as delivered was accepted.
* persistence: no row names one that is gone, a summary agrees with its row, and
  the server boots unless a client emptied the scenarios or a write is refused.
* metrics: totals, rates and percentiles say what was reported.
* server and dashboard: the failed-login damper sheds only who failed; a
  dashboard that has caught up shows the truth, and a stream needs a session.

## Modules

| module | models | role |
|---|---|---|
| `CircuitBreaker` | `delivery/circuit-breaker.ts` | state and effect of tryPass, onSuccess, onFailure; no Next of its own |
| `BoundedQueue` | `delivery/bounded-queue.ts` | pure operators on a sequence |
| `DeliveryAdapter` | `delivery/base-adapter.ts` | composes the two: clients, both drain loops, semaphore, jobs, promises |
| `DeliveryContract` | `contracts/delivery-adapter.ts` | abstract specification of an adapter |
| `AdapterRefinement` | | the refinement mapping from the adapter to the contract |
| `ScenarioRuntime` | `engine/scenario-runtime.ts` | life of several consecutive runs over adapters seen through their contract |
| `Workday` | the tick of `engine/scenario-runtime.ts`, `chaos.ts`, `threat-scheduler.ts`, `clock.ts` | what one run generates while it runs |
| `Stream` | `events/generator.ts`, `internal.ts`, `taxonomy.ts`, `builders/*.ts`, the events of `engine/chaos.ts` | who does what in the published stream, its sagas and its keys |
| `Entitlements` | `domain/entitlements.ts`, `sod.ts`, `org.ts` | pure operators: the catalogue, the baseline of a profile, the toxic combinations |
| `IndexedBag` | class `IndexedBag` of `domain/pool.ts` | pure operators: the sampling index |
| `Filters` | calls of `filter()` | what is kept of a list, as a recursive function the provers can unfold |
| `IdentityPool` | `domain/pool.ts` | the seeded workforce and what each mutation does to it; no Next of its own |
| `Workforce` | `events/builders/jml.ts`, `events/generator.ts`, `engine/jml.ts` | composes the three: joiner, mover and leaver events and what they tell the target |
| `Sending` | `delivery/rate-limiter.ts`, `auth.ts`, `sender-*.ts`, `wire.ts`, `errors.ts`, `backoff.ts`, `dead-letter.ts` | the attempts of one target's slots across the wire |
| `ScimStore` | `receiver/scim-store.ts`, `receiver/scim-patch.ts` | what a SCIM call makes of an account or a group; no Next of its own |
| `ConnectorPool` | `receiver/connectors.ts` | the connector lanes: submit, pump, reset; no Next of its own |
| `ReceiverEngine` | `receiver/engine.ts`, `plugin.ts`, `ingest.ts`, `index.ts` | composes the two: admission, handlers, deduplication, approvals, SoD, pump |
| `Telemetry` | `server/telemetry-hub.ts`, `server/ws.ts`, `web/src/lib/ws-client.ts`, `services.ts`, `api-client.ts`, `web/src/store/*.ts` | frames from a run to one dashboard and its session |
| `AdminAuth` | `server/auth.ts` | the guard of the API |
| `Metrics` | `infra/metrics.ts`, `rate-window.ts`, `histogram.ts` | what a frame says of a run's deliveries |
| `Records` | `infra/*-store.ts`, `server/built-ins.ts`, `server/routes/*.ts` | the tables over edits, runs, crashes and boots |
| `MCDeliveryAdapter`, `MCScenarioRuntime`, `MCReceiver`, `MCWorkforce`, `MCStream` | | instances for TLC |
| `MCParts` | | `Workday`, `Sending`, `Stream`, `AdminAuth`, `Records`, `Telemetry` and `Metrics` by their own names, side by side, for TLC |
| `AdapterProofs`, `AdapterPromisesProofs` | | theorems about `DeliveryAdapter` and the contract it implements |
| `RuntimeProofs`, `ReceiverProofs`, `WorkforceProofs` | | theorems about the modules they are named for; the first also about `Metrics` and `Stream` |
| `PacingProofs` | | theorems about `Workday` and `Sending` |
| `ServerProofs` | | theorems about `AdminAuth`, `Records` and `Telemetry` |
| `SeqLemmas` | | facts about sequences (without repetitions, sorted, filtered, put in order), induction up to a bound and over subsets, sums over finite functions |

### DeliveryAdapter

One action is the code between two awaits. `loop` says where the drain loop is
suspended: `waiting` for work, `timed` (work or the age of a partial batch),
`slotWait` in `slots.acquire()`, or `ready`/`granted` when its continuation is
scheduled. `job[e]` is the running processSingle/processBatch call whose first
event is `e`: `throttled` (admitted by the breaker, waiting for the rate
limiter), `sending`, `backoff`, and `done` from the emission of its results to
the `finally` callback that releases the slot. `startPc`, `flushPc`, `stopPc`
are the three promises. `submitted`, `owed` and `results` are history.

| code | actions |
|---|---|
| `submit` 177 | `Submit` (`Enqueued`, `Casualty`, `Emit`, `NotifyWork`) |
| `start` 164 | `CallStart`, `SenderStarts`, `SenderStartFails` |
| `flush` 217 | `CallFlush`, `ResumeFlush`; resolved by `Release` |
| `stop`, `runStop` 226 | `CallStop`, `ResumeStop`, `CloseSender` |
| `runSingleLoop` 254 | `SingleTurn`, `SingleDispatch` |
| `runBatchLoop` 276 | `BatchTake`, `BatchWait`, `BatchDispatch` |
| `processSingle`, `processBatch` 317 | `Dispatch`, `LimiterGrants`, `SendSucceeds`, `SendFails`, `BackoffEnds`, `Release` |

Abstractions: the breaker's clock comparison is the flag `cooled`; its failure
count saturates at the threshold, which no code can tell from counting on; the
rate limiter and the 429 penalty are an arbitrary delay (`LimiterGrants`); an
error is retryable or not; a partial batch may age at any time; result handlers
are the history `results` (the code isolates their exceptions). A continuation
that is ready may be delayed past other events, which admits a few more
interleavings than Node does. The `!item` branch of the single loop is left out
because `GrantedHasWork`, a part of `Wakeups` that is checked and proved, shows
it is never taken. One
external flush() is modelled next to the one inside stop().

### ScenarioRuntime

Runs are started one after the other; each has its adapter, known only by its
contract: start() resolves or rejects some time, flush() and stop() resolve when
nothing is outstanding. `starter` and `finisher` are the positions of the two
asynchronous functions `start` (603) and `doFinalize` (474). A position whose
promise has settled runs before any request, timer or network event
(`Quiet`): in Node those are microtasks against macrotasks, and without the
distinction the model would show races that cannot happen. One `Tick` is the
whole `tick()` (545): generation to every bus subscriber, the periodic write,
the end of a timed run, or an exception anywhere in it. Every store write may
be refused. `Crash` is the death of the process, also between the two writes of
a finalization.

Left out: what a tick generates and `injectChaos` (`Workday`), frames
(`Telemetry`) and the detail of summaries. `MaxEvents` bounds the events of one
run.

`StopWhileStarting` is an assumption about clients. With `FALSE` no client
stops a run whose start() has not settled; finding 2 shows what happens
otherwise, and that this race is the only cause: everything else is checked with
it excluded. The route `server/routes/runs.ts:67` and the shutdown
hook `server/build-server.ts:272` do not exclude it.

### ReceiverEngine

Clients send requests, each a sequence of messages: a REST batch, the rows of an
HR feed, the operations of a SCIM Bulk, one call or one event. A request may be
repeated at any time (`copies`). It is admitted when its headers arrive and
handled when its body has been parsed, so admission looks at a depth that is old
when the messages are applied. A handler does not yield; neither does the pump.
`current` (messages left of the request being handled), `settling` (approvals
due that the pump has still to decide) and `pumping` say where they are, and no
other step is possible until they are done (`Idle`): one message or one approval
per step keeps the definitions small and adds no interleaving.

| code | definitions |
|---|---|
| `onRequest` in `plugin.ts`, `backpressureDepth` (`engine.ts` 220) | `Admit`, `Depth` |
| body parsed / never parsed or refused | `Begin` / `Abandon` |
| NATS subscription in `index.ts` | `Consume`: no admission |
| `scimCreateUser` ... `scimPatchGroup` | `ScimPut`, `ScimPatchUser`, `ScimDeleteUser`, `ScimCreateGroup`, `ScimPatchGroup` |
| `applyEventPlan`, `ingestHrRow` | `Ingest` (`Joined`, `Touched`, `Left`, `Granted`, `Revoked`, `Noted`) |
| `BoundedKeySet`, `countIngest` | `Fresh`, `Remember` |
| `recordGrant`, `recordRevoke`, `evaluateSod` | `Record` |
| `submitProvision`, `enqueue`, `pool.submit` | `Provision`, `Submit` |
| `pump`, `processApprovals`, `pool.pump` | `PumpDue`, `Decide`, `Drain` (`PumpLanes`) |
| `reset` | `Reset` |

`applied`, `log`, `approved`, `denied`, `submitted` and `copies` are history; the
code keeps their lengths as statistics or not at all.

Abstractions: a refusal by the token bucket is a request that does not arrive. A
task's latency is the choice of the pump that completes it, and whether it
succeeded is not kept, because nothing reads it but statistics. Approvals wait
equally long, so any number of the oldest may be due. Of a user only existence
and the active flag are kept, of a group its members and whether it was ever
given a display name, on which the classification of its duties depends.
Versions, filters, attributes and the orphan and dormancy gauges are left out.
Only entitlement requests and firefighter events need approval
(`events/taxonomy.ts` 119-125), which `ReceiverAssumption` says.

### Workday

One `Tick` is the part of `tick()` that `ScenarioRuntime` leaves open: the
scheduler (`Schedule`, `Lists` with the cap of `spawnInjectorNow`), the injectors
(`Ticked`), the mix (`Bias`) and the arrival loop (`Arrive`). `TimePasses` moves
the wall clock by any of `Delays`, so ticks come late and an interval may pass
in a pause. `Pause`, `Resume` and `InjectChaos` are the client's calls. Gaps are
any value between the period of `maxRps` and the longest gap, an injector is its
kind, window and what its burst has left, and a bias is the set of kinds in it.
The comment of `spawnInjectorNow` says that `injectChaos` shares its cap; the
code of `injectChaos` (792-808) pushes without it, and so does the model.

### Stream

A primary event and its saga are published in one turn of the event loop and are
one step. For each kind the modules `builders/*.ts` choose whom it is about,
among whom its actor is drawn and which outcome it has; the saga then follows
from kind and outcome (`LoginSaga`, `AuthSaga`, `RequestSaga`, `AccessSaga`,
`TxnSaga`, `ComplianceSaga`, `JmlSaga`), cut at `MaxFanout`. `KeyFor` is
`deliveryMetaFor`. Chaos injectors call the same builders without their saga
(`Inject`), or turn an event on a victim (`Turn`, which keeps the key the event
had, as `retargetEvent` does). An insider threat picks its victim when it begins
(`Compromise`) and stays with it (`Exfiltrate`), although the victim may leave in
the meantime; `victims` are those of the run. What a joiner, mover or leaver does to the pool is
reduced to status and holdings here. A minted entitlement is named by its place in
the stream, a seeded one is in `Seeded`, and `StreamAssumption` keeps the two, the
saga numbers and `Nil` apart, as the prefixes of the code's ids do. The code's
counter of entitlements starts over with each pool (pool.ts:292); a name of the
model does not, which no property sees except across runs: `NamesIdentity` and
`RepeatsAreIdle` speak of one run, and `StepsStayDistinct` is about the other case.

### Entitlements, IndexedBag, IdentityPool, Workforce

`emp` is `byId` and its insertion order, `bag` the sampling index of each site,
`meta` the book `entMeta`. `IdentityPool` has one operator per mutation of
`WorkforceIdentityPool` and of the helpers below it; `Workforce` has one action
per branch of `generateJml` and derives from the difference of holdings what the
saga tells the target (`Tell`, with the cap of eight). `told`, `partial` and
`orphans` are history. The catalogue and the rules of `Entitlements` are the
repository's own tables; `MCWorkforce` also checks, for every profile an identity
can have, that a baseline alone breaks no rule and repeats no template.

### Sending

Each slot walks from `idle` through the limiter, the credential and the wire, and
what it does between two waits precedes every timer and answer (`Quiet`).
`Acquire` is one turn of `acquire()`, `Pass` the breaker (which may refuse any
attempt: it is `DeliveryAdapter`'s), `Authenticate`, `TokenArrives` and
`TokenFails` the shared refresh, `Answer` and `Refused` the reaction to a
response or to none, `SendNothing` and `Publish` the events that need no request
and NATS. `Plan`, `Bulk` and `Batches` say which requests a job makes, `KeyOf`
under which idempotency key. The If-Match of a request is read from the ETag cache
when the request is made (`Authenticate`, `IfMatch`) and kept in `header` while it
waits for a credential and an answer; answers to other slots may change the cache
in between. The bucket counts in units of which a token has
`TicksPerSecond`, so its arithmetic is exact.

### Telemetry, AdminAuth, Metrics, Records

`Telemetry` follows one dashboard: the hub (`IngestFrame`, with its watermark and
its memory of the run it told of), a socket with its two directions and its
backpressure (`Offer`, `Droppable`), the reconnecting client with heartbeat and
watchdog, the session (`SignIn`, `Call`, `Expire`, `SignOut`, `Reload`) and what
is shown. Both ends of a connection may break at any time, the server may
restart with the same admin token or with another (`ADMIN_TOKEN` is read at
start), and answers to calls of an old session may come late. `AdminAuth` is the guard's hook and its table of windows. `Metrics`
holds the registry next to the runtime's counters, with seconds that pass in
silence. `Records` has each route that edits a table, the writes of a run, and
`Boot` and `Crash`; writes are synchronous transactions, and each may fail. A
write of the boot that fails ends the process ("refused"), and it may be started
again. As in the `Runtime` run, no client stops a run that is still starting. Only
the insert of a sample and the prune after it are two statements: either may
fail, and `skipped` counts the prunes that were due and did not happen, each of
which lets one more stretch of `PruneEvery` samples through.

## Runs

| run | asks | instance |
|---|---|---|
| `AdapterSingle` | one result for every event, exact slots and counters, no missed wake-up, the breaker's books, what flush() and stop() drain, the bounded backlog | 4 events, 2 slots, queue of 1 evicting, 1 retry, threshold 2 |
| `AdapterBatch` | the same accounting in batch mode, order with one worker, what stop() leaves; events, flush() and stop() settle | 3 events, batches of 2, 1 slot, queue of 2 rejecting, 1 retry, `FairSpec` |
| `AdapterSingleLive` | every event, flush(), stop() and half open end; the adapter implements `DeliveryContract` | 2 events, 2 slots, evictions, 1 retry, `FairSpec` |
| `Runtime` | one live run, true summaries, settled rows, every run ends | 2 runs, one timed, 1 event each, `FairSpec` |
| `Receiver` | ingest: deduplication, held access, SoD, approvals, lanes, depth; the depth drains | 1 user, 2 entitlements that conflict, 7 requests (a batch, a gated grant, revokes, a leaver's HR row, 2 on NATS), 3 deliveries, 2 keys, high-water mark 2, 1 reset, `FairSpec` |
| `ReceiverScim` | every SCIM call, refused bodies, copies, Bulk, unnamed groups | the same user and entitlements, 9 requests, 4 deliveries, no latency |
| `Workforce` | sampling index, access and its book, hierarchy, what the target was told, legal transitions | a head and one of a report, a seeded leaver, a machine account or a contractor; a trader or a contractor may join; 4 events; the real catalogue |
| `Parts` | the properties of the seven modules `MCParts` brings together | see below |
| `AdapterBatchFlush`, `RuntimeOrphan`, `ReceiverLateCopy`, `StreamReplay` | the findings (expected violations) | smallest that shows each |

`Parts` puts seven parts that share no state side by side: a behaviour chooses
one of them at the start and is a behaviour of that part alone, so its states are
the sum of theirs and not the product. Each property of the run speaks of the
part that moves.

| property | module | says |
|---|---|---|
| `ChaosBounded`, `RateCeiling`, `MixFollows` | `Workday` | concurrent incidents, arrivals up to any moment, and the mix after every tick |
| `Paced` | `Sending` | attempts over any stretch of time, and none before the end of a penalty |
| `SentTruly` | `Sending` | refreshes are explained and not waited for when over, delivered means accepted, keys are kept by retries, the ring and the ETag cache are the newest, If-Match was the newest tag of its user when the request was made |
| `SagasSound` | `Stream` | follow-ons are caused in their saga, decisions are kept, mutating events name whom they change, a repeated key repeats an idle step |
| `ShowsTruth` | `Telemetry` | what is on screen, the order of the ticker, stream and session |
| `ShedsRightly` | `AdminAuth` | who is shed, and how many failures fit into a window |
| `MetricsTrue` | `Metrics` | totals, window and percentiles against the results reported |
| `RecordsTrue` | `Records` | names resolve, boots succeed unless emptied or refused, samples in order and bounded, summaries agree |

Why the bounds are enough: the adapter never compares events, so an event beyond
the ones in the queue, the buffer, the loop's hands and the jobs at one time
adds nothing; three or four events fill all of these for a queue of one or two,
with one left to overflow. One retry reaches both branches of the retry decision,
a threshold of two separates the count from the state. A run is used once and
the runtime keeps at most two of them apart (the active one and one still being
finalized), so two runs suffice, and three for the orphan. In the receiver users
are independent of one another (every record is kept per user), so one user
suffices; two entitlements make one toxic combination. Three deliveries, one of
them a batch of two keys, push a key out of a window of two and repeat it; they
also overtake each other between admission and handling, bring a gated grant
together with its revoke, and exceed a high-water mark of two. A SCIM story such
as naming a group after it was filled, or adding, removing and adding again,
takes four. Three identities make a chain of managers that could close, and four
events a leave, a rehire, a move and an exit of one of them. A workday of five
ticks fits an incident that is held, an injector that ends and one that is
injected, with a list that overflows at two. Two slots share a bucket and a
refresh; the six targets cover the modes of a sender (OAuth with ETags, rate
with penalties and silence, batches, Bulk, NATS with a burst), and the sixth tells
ETags of three calls about two users, so that a tag is replaced, or pushed out of
a cache of two, while a request that carries it is under way. One insider threat
with a turn after its login meets a victim that left in between. Two events before a
reconnect and a second run reach every case of the watermark, and a ring of two
letters wraps. Two sources with one place in the table evict each other.

A property that only one mode or one part of a component can break is checked in
the smallest run that breaks it; `Accounting` gathers for batch mode what
`AdapterSingle` lists one by one. `CHECK_DEADLOCK FALSE` stands where a behaviour
ends with its bounds or its clients: the receiver, the workforce, the parts and
the stream.

Every property of a passing run has a mutant in `PROJECT.json`: a plausible bug
in a modelled function (a wake-up dropped, a slot released twice, an await
forgotten, writes swapped, a bucket that fills without end) that makes TLC find
the property violated.

### Fairness

`DeliveryAdapter!FairSpec` assumes weak fairness of the loop, of the jobs and
of the promises: scheduled continuations run, `setTimeout` fires, and every send
settles because the HTTP transport has header and body timeouts
(`delivery/http-transport.ts`). Clients are not fair: nothing depends on a
further submit. Time (`TimePasses`) is not fair either: shedding, not the
cool-down, is what settles events behind an open breaker.
`ScenarioRuntime!FairSpec` assumes that its continuations run, that the
adapter's promises settle and outstanding events get results (the liveness
checked for the adapter), that the interval fires, and that time passes.
`ReceiverEngine!FairSpec` assumes that a handler that was begun ends, that the
25 ms timer of `index.ts` keeps pumping, that approvals fall due
(`approvalDelayMs`), and that latencies are finite: where tasks are in flight,
some pump finds one due in each such lane (`Complete`). It does not assume that
clients send anything or that admitted bodies ever arrive.
A failed adapter start is excluded in the adapter's liveness properties: then
the loop is never spawned and a flush() with queued events does wait for ever
(hazard at `base-adapter.ts:166`). The other modules state no fairness: what they
promise is safety.

## Findings

1. **Batch flush returns early** (`AdapterBatchFlush`). Between the splice of
   the buffer (`base-adapter.ts:293`) and the increment of `inFlight` (296) a
   batch waiting for a slot is counted nowhere, so `isIdle()` is true. In the
   runtime that means results counted after the unsubscribe are lost from the
   summary.
2. **Orphaned run** (`RuntimeOrphan`). stop() during start() finalizes a run whose
   start() then resumes. The failure path of start() clears `active` whichever
   run it holds (`scenario-runtime.ts:737`); a late rejection of a stopped start
   abandons the run started meanwhile, and the next run shares the bus with it.
3. **Late copy of a PATCH** (`ReceiverLateCopy`). `scimPatchGroup` changes the
   store (`engine.ts` 344) before it looks at the idempotency key. A copy of an
   addition that arrives after the removal puts the member back into the group,
   and because the key is known, nothing is recorded, checked for SoD or
   provisioned: the group says the user is in, the record of held entitlements
   and the connector say not.
4. **A second run repeats keys** (`StreamReplay`). Every start seeds the same pool
   again, and the key of a mutating event names operation, identity and
   entitlement, not its saga, where `events/taxonomy.ts:170-173` says that the
   correlation keeps different steps distinct. A receiver that was not reset
   takes the second run's grants and revocations for repeats.

Smaller disagreements met on the way, kept as hazards or in the model's comments:
a stale failure zeroes the count of outstanding probes (`circuit-breaker.ts:105`),
so the next half-open period can admit a second one; a PATCH refused half way has
applied its earlier operations; replacing a group's members revokes those that
stay; a gated grant may be approved after its revoke and a denied one stays in
the record; a grant through an unnamed group hides the duties of an earlier,
classified one; a 503 with Retry-After does not slow the bucket, although
`rate-limiter.ts:50-51` counts it with the 429 (`base-adapter.ts:398` asks only
for the latter); a termination a chaos injector generates has no saga, so the
target never hears of the revocations; after a client deleted the default
scenario as the last one, the server no longer boots (`built-ins.ts:183`); the
ticker is out of order when a frame carries more recent events than it holds.

## Proofs

TLAPS proves the following for every value of the constants that satisfies the
modules' assumptions.

* `AdapterProofs`: `IInv`, the custody invariant, is inductive. It says that
  queue, buffer, held batch and jobs are duplicate-free and pairwise disjoint,
  that exactly the unresolved events are in one of them, and that the loop's
  position agrees with what it holds. `AtMostOneResult` and `NothingLost` are not
  inductive by themselves (an event in two places would be reported twice); they
  follow from it. On top of it come the counters: `inFlight` is the cardinality of
  the events in jobs, permits plus busy jobs plus the granted slot are the
  concurrency, the wake-up facts, and the breaker's agreement with its counters
  and its outstanding probe.
* `AdapterPromisesProofs`:
  - in single mode flush() and stop() drain, in both modes stop() leaves nothing
    queued. Batch mode is excluded from the first two because of finding 1.
  - `ResultsInOrder`: with one worker the answers follow the order of
    submission, in both modes. `Ordered` says that from the jobs over the held
    batch and the buffer to the tail of the queue every place holds events
    submitted before those of the next (`InLine`); with one worker what has been
    answered precedes all that is left. `InLine` needs no bound on the workers,
    which is why it is inductive: only its last part looks at the concurrency.
  - `BacklogStaysBounded`: under both drop policies the accepted events without a
    result fit the mark, the slots and one batch. What all jobs hold is a sum, so
    `Bounded` limits what *every set* of jobs holds, which one job starting or
    ending preserves.
  - `ImplementsContract`: in single mode every step of the adapter is one of
    `DeliveryContract` or changes nothing the contract sees, under the refinement
    mapping of `AdapterRefinement`. It needs `Counted` (an event has one place, so
    one status) and `FlushInv` (the contract lets flush() resolve only when
    nothing is outstanding; in batch mode finding 1 breaks this).
* `RuntimeProofs`: for any number of runs and events, the safety properties of the
  `Runtime` run, under the hypothesis `StopWhileStarting = FALSE` (without it
  they fail: finding 2). The invariant says per run that whatever is attached to
  the process belongs to the active run and fits the positions in start() and
  doFinalize() (`Attached`), that every generated event is counted or outstanding
  and none is outstanding where nobody listens (`Balanced`), and that the store
  holds a verdict only for a run that is over (`Stored`). `TotalsAdd` needs the
  second part: a summary adds up because flush() resolves when nothing is
  outstanding and the counters are still subscribed then.
* `PacingProofs`, of `Workday`: `TypeOK`, `RateCeiling`, `ChaosBounded` and `MixFollows`, for
  any planned injectors, injections, intervals, caps and lateness. The ceiling
  needs `RateInv`: while the stream runs the next arrival is due late enough to
  pay for all arrivals so far, and a resumption pays for the one it brings
  forward. The bound on incidents needs `ListOK`: an organic injector starts no
  later than the tick that lists it, so those active at a later time were active
  then, and the scheduler found room; ids are distinct and below the counter.
  The mix needs `MixInv`: unless the kinds last compared are marked dirty, they
  are the ones in the mix.
* `PacingProofs`, of `Sending`: `Paced` and the whole of `SentTruly`, for any number of
  slots, events, targets, rates and bursts, any ring and any ETag cache.
  - `BucketInv` says that the tokens taken since any earlier grant, together with
    what is left in the bucket, are paid by its capacity and by the refill since
    that grant (`PaidSince`), which turns a statement about every stretch of time
    into one that a step can preserve.
  - `FetchInv` says that a refresh which is over and whose token is not cached any
    more was refused or has expired (`Stale`).
  - `SentInv` is behind `DeliveredMeansAccepted`. An event waits, is worked on by one
    slot or has its result, and never twice (`Apart`); the attempts of a job cover
    the requests made for its events, which all repeat its key (`JobSound`); and a
    result says of those requests what the property says (`ResultsTell`). The
    proof corrected the property: a failed event need not have been in a request
    with a final answer itself. In a Bulk job an event with nothing to send shares
    the job's failure (sender-scim.ts:356-370), so the property speaks of a request
    made for the event's job.
  - `RingInv` ties the ring's position and count to the number of letters ever
    written: a letter sits at its number modulo the capacity, so the newest ones
    are there, as many as fit.
  - `EtagsInv` says that the cache holds no more users than it may, each with the tag
    of its last answer, and of the headers of requests under way what
    `ConditionsTold` says of those that were answered: each tag was the newest of its
    user when the request was made. `NewestTag` names that moment, so later answers
    do not disturb it.
  - `AwaitInv` says that who waits for a token waits for a refresh under way, which
    `RefreshAwaited` is: a refresh that failed leaves nobody behind.

  These theorems assume `TargetsAssumption` and `SendingAssumption`, which `MCParts`
  asserts of the instance TLC checks.
* `RuntimeProofs`, of `Stream`: `SagasSound`, for any workforce and recruits, any fanout
  and number of grants, and any number of sagas and runs, from `StreamAssumption`.
  `StreamInv` has two parts. `PoolSound`: what anybody holds was seeded or minted
  earlier in the stream. `StreamSound`: saga numbers never fall, a cause is an
  earlier event of the same saga, a key is `KeyFor` the event; each mutating event
  is about somebody and names nothing, an entitlement minted in its own saga (a
  grant) or one known by then (a revocation) (`Fit`); no two steps of a saga contradict
  or repeat each other (`Agree`); and what is provisioned follows an approval of that
  request (`Approved`).
  - `Good` sums up what a list of steps must be to be published as one saga; that
    publishing it preserves `StreamSound` is shown once, and then one lemma per
    category of builders shows that its sagas are `Good` (`AuthGood`, `AccessGood`,
    `TxnGood`, `ComplianceGood`, `JmlGood`), also when cut at `MaxFanout` (`Truncated`).
    Events turned on a victim keep it one by one (`Turned`), whether the victim is
    still there or not.
  - Why a repeated key loses nothing: a key without an entitlement names its saga,
    whose steps `Agree`; a key with a minted one is a grant of one saga, whose
    grants differ; and what is revoked twice was known before the first time, so no
    grant between the two can have minted it again.
* `RuntimeProofs`, of `Metrics`: `MetricsTrue`, for any width of the window, any
  reservoir and any number of results and runs. The invariant says of the buckets
  both directions (`BucketsTell`): a bucket that was used counts the results of
  its second, and a second still in the window has its bucket, since two seconds
  that share a slot are a window apart (`SlotsApart`). The window is then a sum
  over slots of cardinalities, which is the number of all its results (`CountByKinds`).
  For the percentiles, `Arranged` puts any finite list of numbers in order, and
  the places up to a rank, and before it, are counted through that order. While
  it has room the reservoir is the list of successes (`ReservoirTells`); beyond
  that only the order of the percentiles and their bound can be said.
* `ServerProofs`: `ShedsRightly`, for any sources, calls, thresholds, windows and
  sizes of the table, from `AdminAuthAssumption`. `AdminInv` says that the table of
  windows tells the failures that were not forgotten: every entry was opened by a
  call of the history, counts exactly the failures since, and in the last window's
  length before that call there were fewer than the threshold (`Opened`); and a
  source without an entry has no failure left that was not forgotten (`Clean`).
  A stretch as long as a window meets at most two entries of a source, so it
  splits at the call that opened the later one.
* `ServerProofs`, of `Records`: `RecordsTrue`, for any bounds, throttle, limit of samples
  and prune interval, from `RecordsAssumption`. Names resolve because a table never
  loses a row or changes an id, and exactly one target has the built-in id
  (`TablesInv`). For the samples, `RunsInv` looks at the active run: it has no
  verdict yet, and its samples are no younger than its mark in `sampleState`
  (`LiveOK`), which is what the throttle compares with; and beyond what a prune
  leaves and what skipped prunes let through it has no more samples than were
  appended since the last one due, the mark's count modulo `PruneEvery` (`Filled`).
  That prune keeps samples in their order is a fact about the ranks of a finite
  set of places (`TrimmedPart`). An attempt to prove the bound
  `MaxSamples + PruneEvery` failed for a good reason: TLC shows with
  `PruneEvery = 3` that a prune which fails lets a second stretch through, so the
  bound says how many failed.
* `ServerProofs`, of `Telemetry`: `ShowsTruth`, for any number of runs, events, restarts,
  sign-ins and broken connections, any ring of recent events, ticker and
  backlog, from `TelemetryAssumption`. It has three parts, each with an invariant of
  its own.
  - A dashboard that has caught up shows what the hub last told (`ShowsRun`):
    `HubInv` says what the screen *will* show once everything on its way has
    come (`WillShow`): the last message that names a run names the hub's. Shedding
    may drop frames and events but no run message, and a new status always comes
    with one, so either the last message left on the way or the screen itself
    already names it.
  - The ticker is in order (`TickerOrdered`): frames come in order from the runtime
    over hub and link to the screen (`FramesInv`, with `Ahead`), every frame holds the
    newest events of its run (`Genuine`, `Latest`), and the ticker starts with the
    newest events of the run of its first (`Leading`). Without the last part the
    proof does not go through: an event that is fresh for the screen must be newer
    than all that is on it, and a gap in the newest ones would let an older one in. `Leading` needs that the ticker holds a frame's recent
    events; otherwise the ticker is out of order, as noted above.
  - Stream and session go together (`StreamFollowsSession`): this part is inductive as
    it stands; `Streaming` only spells out its equalities of truth values.
* `ReceiverProofs`: for any requests, users, entitlements, rules, connectors,
  capacities and bounds. Each handler is first summed up by what it may do to the
  keys, the record and the lanes (`Effects`: one lemma per family of handlers),
  and each invariant is shown to survive those effects.
  - `DedupWindow` speaks of the history of accepted keys and needs `Windowed`: the
    remembered keys are exactly the last ones accepted and all different, so a
    key that was accepted before and is fresh now has `Capacity` different keys
    behind it.
  - `SodComplete` needs that holding less violates no further rule, and that an
    update counts the difference of two finite sets.
  - `HeldFollowsEvents` and `ProvisionedExactly` follow from `Gate`: where no
    group call meddled, the last message about an entitlement decides whether it
    is held (`EventsTell`), the last task about an ungated one says so downstream
    (`LanesTell`), a task waits for approval only if a message needs one, and
    the gated messages are as many as the approvals pending, granted and denied
    (`GateCounts`). The last part relates the lengths of five sequences; it is
    preserved because a message adds to exactly one side of it and a decision
    moves one approval from one place to another. `LanesExact`, the third part of
    `ProvisionedExactly`, says that a lane has submitted exactly what it holds, works
    on or has completed.
  - `PatchedMembersAreHeld` has the hypothesis `DistinctKeys`: a key stands for
    one message of one request, as it does in the requests of `ReceiverScim` and
    as clients of an idempotency key mean it. Without it a message would be
    taken for the repeat of another and the property is false. `Once` says that a
    key that was accepted belongs to a request of which no unhandled copy is
    left, if it was sent only once.
  - `DepthBounded` needs `Room`: every request that was let in keeps a share of
    `LargestBurden` until it is handled, every streamed one its own burden, and
    what a handler has still to apply is paid by the share of its request. The
    pump only moves work from approvals to lanes, or ends it.
* `WorkforceProofs`: for any seeded workforce, any profiles that may join and any
  number of events, all that the `Workforce` run checks: `SamplesActive`,
  `AccessExact`, `Hierarchy`, `TargetFollows` and the action property `LegalMoves`. The invariant has one part each for the people (`PeopleEquipped`:
  no grant twice, and the managed grants are the baseline of the profile unless
  somebody left with nothing), the
  book (`Booked`), the orphans, the target (`Followed`), the bags and the managers
  (`Acyclic`). They lean on each other: what a mover's saga tells the target is the
  difference of two holdings, and follows the truth only if the old holdings
  were the baseline of the old profile; the book is exact only if no holding
  repeats. `Acyclic` says that no group of identities all report inside it, rather
  than anything about chains: were a group closed after a change of manager, the
  part of it above the new manager (what `WouldCycle` walks) was closed before. `CatalogueAssumption`, that the
  baseline of no profile repeats a template or breaks a rule, is a finite fact
  about the repository's tables, which TLC evaluates for every profile.

Induction. The library's induction theorems cannot be instantiated here, since
they take an operator as a parameter. `SeqLemmas` derives from the least-element
principle (`WFMin` of `WellFoundedInduction`, which takes none) the same with a *set*
as the parameter: `Induction` up to a bound and `SubsetInduction` over the parts of
a finite set. With them recursive functions such as `Selected` of `Filters`,
and sums over finite functions (`SumFunction` in `Depth`), are reasoned about for
all sizes. The modules use such functions where `SelectSeq` or `FoldLeft`, whose
definitions the provers cannot expand, would have been shorter.

Only model-checked: liveness (`RunsEnd`, `AllSettle`, `Drains`), since fairness and
ENABLED are outside the prover's fragment. Every invariant and every other
property of the passing runs is a theorem.

## Not modelled

Request bodies, CSV quoting, signatures and HTTP sockets (pure translation and
I/O: `Sending` sees which requests are made and what their answers mean); random
sampling, intensities and diurnal curves (numerics); names and the nominal tables
of the bank; payload fields and their schemas; the receiver's filters, attributes
and dormancy gauges; logging, redaction and headers; the presentation code of the
dashboard.

## Plan

Done: the delivery adapter, the runtime and its workday, the receiver, the
workforce, the stream of events, sending, telemetry, the guard, the metrics and
the tables, each modelled and checked, and the safety of each proved. What is left,
in this order:

1. Liveness of the reconnecting socket, and of a refresh that somebody waits for.
2. A composition of the runtime with an adapter that flushes early, to show what
   finding 1 does to a summary, and of `Stream` with the receiver's window of keys.
3. The receiver's token bucket, attributes and dormancy gauges.
