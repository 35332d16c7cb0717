# A TLA+ verification project for the document-generation worker

The worker takes requests from a NATS JetStream work queue, turns a template and
data into documents, stores them in a bucket, and publishes one result per
request. This directory holds TLA+ models of the parts of it that keep state, the
TLC configurations that check them on small instances, and TLAPS proofs of what they
promise for every instance. Paths are relative to the repository.

## 1. Inventory

| component | state | operations | who it talks to |
|---|---|---|---|
| request dispatcher `worker/dispatcher.py` | tasks in flight; per delivery, the await it is at | decode, build the result, publish result, dead-letter, ack, nak, emit-failure path, drop undecodable | broker (external), transport, pipeline |
| transport `adapters/nats_transport.py` | none | `publish_result`, `publish_dlq`, each bounded by 5 s | results and DLQ streams |
| worker life cycle `worker/main.py` | up, draining, down; render pool; signal flag | connect with retry, subscribe, drain, wait, cancel, shut the pool, close, poll the queue depth | broker, dispatcher, pool, exit handlers |
| pipeline `domain/orchestrator.py` | per attempt: rendered and stored artifacts | fetch, format gate, validation gate, render loop, store loop, classify | template store, registry, executor, object store |
| template store `adapters/template_store.py` | cache directory on disk, temp directories | fetch: hit, list, download, publish, load | templates bucket |
| object store `adapters/object_store.py`, `core/storage/client.py` | output bucket | put, presign, get, list; error classification | S3 |
| render executor and pool `adapters/render_executor.py`, `worker/main.py` | semaphore, process pool | run, rebuild a broken pool, shut down | renderers |
| renderers `adapters/renderers/*` | none between renders; in one, the workbook or form as filled so far | xlsx: defined names, blocks, explicit cells; pdf-form: resolve the mapping, write; docx and jinja-html: render | manifest, third-party libraries |
| telemetry `core/tracing.py` | OTLP handler, meter provider, exit handlers | set up, flush within a budget at exit | collectors, interpreter exit |
| consumer configuration `core/queue/helper.py` | the durable's stored limits | read, compare, update, subscribe | broker |
| bootstrap `core/queue/init.py` | connection, streams | connect, add streams, close | broker |
| models, settings, logging, metrics | none | validation, parsing, recording | |

Three state machines meet in one request: the broker's consumer (new, pending,
due, given up, gone), the handler of each delivery, and the replica it runs on.
Several deliveries of one message can have live handlers; a handler's ack or nak is
unconfirmed; a publish can be stored and still raise; a replica can die or cancel
its handlers between any two awaits. Below that, attempts at one request share the
output bucket and all fetches of a worker share one cache directory.

What makes each part correct:

- *dispatcher*: no request disappears unrecorded; none is given up early; the DLQ
  copy follows the caller's answer; the broker's backstop is never what ends a
  request the handler still wanted to retry; everything ends.
- *life cycle*: the pool is not overrun; stopping loses nothing that the broker
  would not redeliver; replicas add capacity.
- *pipeline*: a success is true and stays true; a refusal by the template is final;
  redelivery changes nothing.
- *template store*: a cached bundle is complete; NOT_FOUND is true.
- *render pool*: a broken pool recovers; one bad render does not starve the rest.
- *consumer configuration*: the broker's limits are the ones the handlers assume.
- *renderers*: a fault of the template or the data that the code looks for never
  yields a document, and is reported in the class that decides between retry and
  refusal; each cell and field of a finished document shows what the precedence rules
  say, and nothing else.
- *shutdown*: no task is cut before it had its time, no step is skipped because
  another failed, the exit handlers keep their budget, and the process is gone before
  it is killed.

`PROJECT.json` lists the hazards behind these, each at its line.

## 2. Modules

| module | models | actions |
|---|---|---|
| `Dispatcher` | `worker/dispatcher.py`, `adapters/nats_transport.py`, the stop and start of replicas in `worker/main.py` | one per await of the handler; `Deliver`, `AckWaitExpires`, `Exceed` for the broker; `Crash`, `Sigterm`, `DrainDone`, `DrainTimeout`, `Start` for the replicas |
| `RequestLifecycle` | the outcome matrix in the dispatcher's docstring, as an abstract specification | `Attempt`, `Answer`, `DeadLetterAs`, `RefuseDeadLetter`, `Settle`, `Abandon` |
| `DispatcherProofs`, `DispatcherRefinement`, `OrchestratorProofs`, `TemplateStoreProofs`, `RenderPoolProofs`, `StartupProofs`, `ShutdownProofs`, `RenderersProofs` | | theorems and proofs (section 4) |
| `TemplateStore` | `adapters/template_store.py`, the error classes of `core/storage/client.py` | `Start`, `List`, `ListFails`, `Download`, `GetFails`, `KeepTheirs`, `Publish`, `Rename`, `PublishFails`, `Crash`; `Upload`, `Delete` for the bucket |
| `Orchestrator` | `domain/orchestrator.py` with what it uses of the adapters | `Begin`, `Fetch`, `Render`, `Store`, `Cut` |
| `RenderPool` | `adapters/render_executor.py`, `_RenderPool` and its shutdown in `worker/main.py` | `Run`, `Resume`, `Return` for the tasks; `Take`, `Finish`, `Die`, `Notice` for the processes; `Sigterm`, `DrainDone`, `DrainTimeout`, `Exit` |
| `Startup` | connect with retry in `worker/main.py`, `core/queue/init.py`, `core/queue/helper.py` | `Start`, `Connect`, `AddStream`, `ConnectFails`, `ConsumerInfo`, `AddConsumer`, `Subscribe`, `SubscribeFails`, `Stop` |
| `Shutdown` | the `finally` of `main()`, the end of `asyncio.run`, the exit handlers of `core/tracing.py` | `CancelPoller`, `Drain`, `DrainFails`, `NoSubscription`, `WaitDone`, `CancelPending`, `ShutdownPool`, `CloseNats`, `LoopEnds`; `JoinRenders`, `BeginFlush`, `FlushLogs`, `ShutdownMeter`, `MetricsHandler`, `LogsHandler`, `LoggingShutdown`; `Deliver`, `Finish` for the tasks; `Kill` |
| `XlsxSheet`, `PdfForm` | the pure parts of `renderers/xlsx.py` and `renderers/pdf_form.py`, block capacity in `domain/models.py` | operators only |
| `Renderers` | one render of each engine, with the manifest validators and the schema gate before it | `LoadManifest`, `Validate`, `Open`; `ApplyDefinedName`, `EnterBlock`, `WriteCell`, `HideUnusedRows`, `ApplyCell`, `SaveWorkbook`; `ResolveEntry`, `WriteForm`; `Author` |
| `MCDispatcher`, `MCTemplateStore`, `MCOrchestrator`, `MCRenderPool`, `MCStartup`, `MCShutdown`, `MCRenderers` | | instances for TLC |

**Dispatcher.** `pc[m][n]` is the handler task of the n-th delivery of message m.
Its running values are the awaits of `_handle_message`: `build` (the pipeline), a
verdict (that verdict's `publish_result`), `dlq`, `ack`, `nak`, the three awaits of
`_handle_emit_failure` (`efnak`, `efdlq`, `efack`) and the two of
`_drop_undecodable` (`drop`, `dropack`). It ends `done` (ack took effect), `retry`
(nak took effect), `unacked` (neither reached the broker), `lost` (crash) or
`cancelled` (drain timeout). `inflight` is the set of the same name. What the
pipeline computes is a free choice of verdict here. The consumer is external: a
message is `new`, `pending`, `due` for redelivery, `exceeded` (max_deliver reached,
kept in the stream) or `gone` (acked). A first delivery needs room under
max_ack_pending, a redelivery does not, since the message is counted already; acks
and naks name the message, so those of an older delivery count. `ack` and `nak` are
fire-and-forget in the client: they take effect, are lost, or raise.

**RequestLifecycle.** What a caller and an operator can observe. The mapping is
`gone` to settled, `exceeded` to abandoned, the rest to queued; delivery counts,
answers and dead letters map to themselves.

**TemplateStore.** Prefixes and their nesting are parameters; a template is its manifest
and one more object. The step from the existence check of `_publish` to the rename is
split, because a crash or (with `SharedDisk`) another process may come between; within
one process no other task does, as nothing is awaited. `PublishFails` is a directory or
a rename that the file system refuses, which ends the fetch when nobody else has
published. The bucket's owner uploads the manifest of a template last, never changes it,
and may delete objects. A storage call may fail in each of the ways
`_classify_client_error` tells apart; the class decides between a permanent
TEMPLATE_NOT_FOUND and a retry. `Rejected` URIs are refused before anything is read.
`early`, `gone` are history variables of the properties.

**Orchestrator.** Attempts at a request are deliveries; each may overlap the
previous one, fail at any call, or be cut. Requests differ in what the gates and
the renderer make of them; artifact content is a token of the request. Every attempt
fetches its template anew, and what it gets does not depend on what another got: the
bundle, a bundle without its entry file, TEMPLATE_NOT_FOUND or a storage error. All that
attempts have in common is that a template, once there, has one manifest for good
(`template_store.py:6` caches by an "immutable, versioned" URI), so that the
gates say the same to each.

**RenderPool.** Three views of a render that agree only with a delay: `pc`, the task
that awaits it; `fut`, its future, which processes and the pool's own thread change;
and `pool`, whether the pool it was submitted to still works. A process dies in one
step, the pool's thread notices in another, and the tasks resume one by one after
that; a submit may fall between any two. The semaphore is FIFO and hands its permit
to the oldest waiter, as asyncio's does. `home` is the generation of the pool a
render was submitted to, since `_RenderPool.submit` replaces a broken one. The size
of the pool is computed from what the host tells of its CPUs (`RenderPoolSize`).

**Startup.** Each call to the broker is a step and may fail, before or after it took
effect. A build is a number with the consumer fields it declares; a replica may
restart on a later build. `seen` is the config `consumer_info` returned, which the
update is based on and which is stale by then. Back-off delays are left out: time
plays no part. (The comment at `worker/main.py:45` speaks of about 10 minutes of
back-off; the constants below it add up to 180 seconds.) A connection whose stream
declaration failed stays open until the process ends, which `conns` counts.

**Renderers.** Renders share nothing, so a behaviour is one render of a *job*: a
template (its layout and its manifest) with the data of a request. The values in a cell
or field are tagged by where they come from (`<<"row", b, i, j>>` is column j of row i
of block b), which is all a reader of the finished document could tell apart; the kind
of a JSON value is kept where openpyxl or `_coerce` treats it differently. A workbook is
a function from cells to values, and a write goes through `Landing`, which sends a
block's write into a merged range to its first cell. What is wrong with a job
(`TemplateFault`, `DataFault`, `RenderFault`) and which write should win (`Writes`,
ranked by block, row and column) are stated without the code's order of looking, and
compared with what the steps arrive at. The order of the steps is the code's: names,
blocks, cells. A form's values are kept by kind too, strings, numbers, booleans,
null, lists and objects, with the length of what `str()` makes of each, and a schema says
of a key how long it may be and whether it must be a string. A comb value longer than
its boxes is a fault the code does not look for: `pdf_form.py:19-23` leaves it to the
schema and `pdf_form.py:148` cuts it off. `CombsFit`, a part of `FaultyNeverRenders`,
says what is left of the promise: no artifact shows a cut value whose key the manifest
makes a string of bounded length.

**Shutdown.** The clock counts seconds from SIGTERM and passes in the calls that
block: each may take any time up to `Longest`, and `Kill` may strike in a call that
could outlast the grace period. Handler tasks finish, and buffered deliveries start
new ones, at any moment while the event loop runs. Exit handlers are a stack, as
`atexit` is: `LoggerProvider` and `MeterProvider` register one each when they are made,
and `shutdown_telemetry`, registered after both, runs before them. It has shut the meter
provider down by then, but not the logger provider, whose own handler "would run
unbounded" (`tracing.py:160-162`). `drainFailed` and `tried` are history
variables. Times that the code does not set are parameters: `BrokerTime` (neither drain
has a timeout; `main.py:250` expects it to return quickly), `LogsTime` for the logger
provider's handler, `RenderTail` for what is left of a render whose task was cancelled,
and `Graces`, the deployments'.

## 3. Runs

| run | instance | what it shows |
|---|---|---|
| `dispatcher_single` | 1 message, 2 replicas, budget 2 (3 deliveries), overlapping handlers, 2 stops | `LossNeedsRefusedDlq`, `GivesUpOnlyWhenExhausted`, `DeadLetterAfterAnswer`, `StrandedOnlyByLoss`, `ImplementsLifecycle` |
| `dispatcher_queue` | 2 messages (one undecodable), 2 replicas, pool 1, budget 1, handlers shorter than ack_wait, 1 stop, with fairness | `NeverOverrunsPool`, `SettledIsQuiet`, `EventuallyResolved` |
| `template_flat` | 3 fetches, 2 unrelated prefixes (one malformed) and a refused URI, every storage error, 1 crash, shared disk | `HitIsComplete`, `NoLeakWithoutCrash`, `NotFoundOnlyIfAbsent` |
| `pipeline` | 2 requests of 7 classes, 2 attempts each, each attempt with a fetch of its own | `SuccessMeansStored`, `VerdictIsFinal`, `RedeliveryIsIdempotent` |
| `pool_deaths` | 4 renders (one hangs), a pool of 1 or 2 processes as the host's CPUs make it, 2 deaths, a stop, with fairness | `BlastRadius`, `AdmittedHasProcess`, `PermitsBalance`, `EveryRenderEnds`, `EventuallyExits` |
| `startup_rollout` | 2 replicas, 2 builds, a leftover durable or none, 2 connect attempts, 4 faults, with fairness | `NoMixedLimits`, `RolloutConverges`, `KeepsUndeclared`, `LeaksOnePerAttempt`, `EventuallyUp` |
| `renderers` | 5063 jobs: 9 block layouts x 7 sets of merged ranges, names and cells x 36 data; 6 mappings of a 6-field form (one with a box listed twice and an empty comb) with values of every JSON kind, too long for their boxes or not, and with or without a length and a type in the schema; every entry file, format and key set of the other engines | `VerdictHasCause`, `FaultyNeverRenders`, `LastWriteWins`, `StaysInBand`, `FormShowsData` |
| `shutdown` | 2 deliveries, buffered or running; signal or failed subscribe; with and without collectors; Docker's grace period of 10 s and one of 30 s | `CutOnlyAfterWait`, `EveryStepTried`, `LeavesInTime`, `DrainFitsGrace` |

Every publish of `dispatcher_single` and `dispatcher_queue` may be refused each time,
so a request whose result can never be published is among their behaviours.
`SuccessMeansStored` and `RedeliveryIsIdempotent` speak of requests whose key_prefix
is their own. Two requests with one key_prefix write the same keys
(`build_object_key`), and a late redelivery of the older one puts its artifacts back
over those of the newer: the key is the caller's to keep distinct.

Runs that end in a violation, each of something the repository says:

| run | the repository says | the code does |
|---|---|---|
| `dispatcher_cancelled` | handlers cancelled at shutdown "will be redelivered after ack_wait" (`worker/main.py:267`) | not if it was the delivery after the budget: the request is stranded |
| `dispatcher_scaling` | "competing replicas scale horizontally" (`README.md:167`) | one replica's pool size is the limit of all replicas together |
| `template_notfound` | NOT_FOUND "if the prefix or its manifest.json is absent" (`domain/ports.py:43`) | also when a template below it was cached by an overlapping or an earlier fetch |
| `renderers_hidden` | "Unused rows are hidden" (`README.md:157`) | of two blocks side by side, the shorter one hides rows that hold the other's data |

Further behaviours worth knowing, which follow from the models or the code and have
no run of their own:

- A success whose ack was lost is redelivered, and the last delivery may fail: a
  published success can be followed by a published failure of the same request,
  though redelivery is called idempotent (`README.md:32`).
- Overflowing a block is refused "before any render" (`README.md:157`) only where the
  schema's `maxItems` says so; a smaller `max_rows` is compared inside the render
  (`xlsx.py:115`).
- While a build with a smaller `DOCGEN_MAX_DELIVER` is rolled out, replicas of the old
  one handle requests under a backstop below their own bound, which
  `worker/dispatcher.py:108` says is "one above".
- An anchor that cannot be resolved and a cell value that openpyxl cannot write are met
  in the render only, where they are a RENDER_ERROR and so retried
  until the budget is spent, though no retry can cure it. `VerdictHasCause` checks the
  class of an error as the code defines it, not whether that class is the best one.
- TEMPLATE_NOT_FOUND is permanent, a failure of which "no retry could ever succeed"
  (`domain/errors.py:7`). Every attempt fetches anew, though, from a bucket and a
  replica's cache that change: `Orchestrator` has behaviours in which the first attempt
  answers TEMPLATE_NOT_FOUND and the second succeeds, which is why `VerdictIsFinal`
  leaves that code out. `template_notfound` shows one way to the first answer.
- "So a manifest that maps a comb field must also declare its length", and the gate
  turns an over-long value into VALIDATION_ERROR (`pdf_form.py:19-23`): that takes
  `"type": "string"` besides. `maxLength` binds strings only, and a number, boolean or
  list with more characters than boxes is turned into text and cut to the boxes, in
  behaviours of the run `renderers` too.
- The grace period that the repository names is Docker's 10 s (`core/tracing.py:141`,
  `tests/test_tracing_guard.py:229-235`). The drain timeout of 25 s, "kept under a
  typical SIGTERM grace period" (`worker/main.py:54-56`), is longer, and the telemetry
  flush, "WITHIN A BUDGET DOCKER WILL ALLOW" (`core/tracing.py:130`), spends its 5 s
  twice, after the connection was drained. In the run `shutdown` a worker with a request
  in flight is killed in its drain under 10 s, and an idle one whose collectors do not
  answer is killed in its flush. `DrainFitsGrace` and `LeavesInTime` say which grace
  periods avoid that: longer than `BrokerTime + DrainTimeout`, and, for an idle worker,
  longer than `2 * BrokerTime + 2 * FlushTimeout + LogsTime`.

**Bounds.** `MaxStops`, `MaxCrashes`, `MaxDeaths`, `MaxFaults` and `MaxAttempts` cap
crashes, signals, dying processes, failing calls and attempts. A budget of 2 gives one
delivery below it, one at it and one above, which is every case of `num_delivered <
max_deliver`. Two replicas suffice for a handler that outlives the one that replaces it;
one stop may hit any await of any handler, two may spend two deliveries. Two prefixes
give both relations between prefixes; three fetches allow a winner, a loser and a later
hit. `template_flat` has two unrelated prefixes, so that the directory a nested template
creates plays no part in it; `template_notfound` is the run where it does. Two requests
give the only interaction of the pipeline, a shared key. Four renders on two processes
leave two waiting when a pool breaks, and two deaths break the rebuilt pool as well. Two
replicas are a reader and the writer that invalidates what it read; four faults let each
of them fail or be replaced twice. The layouts are one block, two side by side, stacked
and overlapping, and one for each fault of an anchor or a capacity; lists of 0 to 3 rows
are empty, partial, full and too long for bands of 2 and of 3 rows. Two deliveries let
one be waited for while another is still buffered. The 25, 5 and 30 seconds of
`DrainTimeout`, `FlushTimeout` and `SdkTimeout` are the code's and the SDK's;
`BrokerTime`, `LogsTime` and `RenderTail` are chosen small and different, so that what
they add can be told apart. Of the two grace periods the 10 s are Docker's, which every
long wait overruns, and the 30 s leave room for the drain or for an idle exit, and not
for both at their longest. Replicas and fetchers are symmetric, and
`dispatcher_single` and `template_flat` use that; the run with fairness does not.
Deadlock is checked in `renderers` and `shutdown`, where nothing but the end may stop a
behaviour, and not in the others, which come to rest once the finitely many requests are
settled.

**Fairness** (`dispatcher_queue`, `pool_deaths`, `startup_rollout`). Handlers make
progress because each await of one is bounded: publishes by `_PUBLISH_TIMEOUT_SECONDS`,
storage calls by the client's timeouts. Renders are the exception, the code gives them
no timeout: that they return is an assumption. The broker delivers when it may and its
timers fire. A drain ends by its timeout, and the deployment restarts stopped replicas.
Crashes and signals are never forced. That `ack_wait` outlasts the handlers
(`~SlowHandlers`) is an assumption of `dispatcher_queue` and of the two theorems that
say so: `NeverOverrunsPool` and `SettledIsQuiet` do not hold of a render that takes
longer. In `RenderPool` the exception is explicit: `Hanging` renders never finish, and
the properties say what the others are still owed. In `Startup` broker calls return and
the deployment restarts what stopped; the faults are finitely many, that is, the broker
is reachable in the end. `Renderers` and `Shutdown` have safety properties only and
assume no fairness.

## 4. Proofs

A run says that a property holds of a small instance; these theorems say it for every
value of the constants. They follow one pattern: a strengthening `IndInv` of the
properties, which TLC has confirmed on the runs' instances; a lemma that `Init` gives
it and that each action keeps it, one conjunct or one action at a time; and theorems
that draw the properties from `IndInv`.

| module | theorems | property |
|---|---|---|
| `DispatcherProofs` | `TypeCorrect`, `NothingVanishes`, `NeverGivesUpEarly`, `AnswerPrecedesDeadLetter`, `BackstopIsLastResort` | `TypeOK`, `LossNeedsRefusedDlq`, `GivesUpOnlyWhenExhausted`, `DeadLetterAfterAnswer`, `StrandedOnlyByLoss` |
| | `PoolIsNeverOverrun`, `SettledStaysQuiet`, both where ack_wait outlasts the handlers (`~SlowHandlers`) | `NeverOverrunsPool`, `SettledIsQuiet` |
| `DispatcherRefinement` | `DispatcherImplementsLifecycle` | `ImplementsLifecycle` |
| `OrchestratorProofs` | `TypeCorrect`, `SuccessIsTrue`, `RefusalIsFinal`, `RedeliveryChangesNothing` | `TypeOK`, `SuccessMeansStored`, `VerdictIsFinal`, `RedeliveryIsIdempotent` |
| `TemplateStoreProofs` | `TypeCorrect`, `HitsAreComplete`, `OnlyCrashesLeak` | `TypeOK`, `HitIsComplete`, `NoLeakWithoutCrash` |
| | `FlatIsNotFoundOnlyIfAbsent`, in a bucket without nested templates (`Below = {}`); `AloneIsNotFoundOnlyIfAbsent`, of the unnested templates of any bucket | `NotFoundOnlyIfAbsent` |
| `RenderPoolProofs` | `TypeCorrect`, `PermitsAreBalanced`, `AdmittedRendersRun`, `DeathIsContained`, `NoPermitIdles` | `TypeOK`, `PermitsBalance`, `AdmittedHasProcess`, `BlastRadius` |
| `StartupProofs` | `TypeCorrect`, `LimitsAreSomeBuilds`, `RolloutTakesEffect`, `LeakIsBounded`, `UndeclaredSurvives` | `TypeOK`, `NoMixedLimits`, `RolloutConverges`, `LeaksOnePerAttempt`, `KeepsUndeclared` |
| `ShutdownProofs` | `TypeCorrect`, `DrainIsHonoured`, `NoStepSkipped`, `ExitsInTime`, `DrainLeavesInTime` | `TypeOK`, `CutOnlyAfterWait`, `EveryStepTried`, `LeavesInTime`, `DrainFitsGrace` |
| `RenderersProofs` | `TypeCorrect`, `ErrorsNameAFault`, `NoFaultyArtifact`, `BlocksKeepToTheirBand`, `FormsShowTheirData`, `LaterWritesWin` | `TypeOK`, `VerdictHasCause`, `FaultyNeverRenders`, `StaysInBand`, `FormShowsData`, `LastWriteWins` |

**Dispatcher.** The properties speak of messages, but an ack is sent by a handler that
may be many steps and a few deliveries old, so none of them is inductive. `IndInv` adds

- `Counted`: delivery n was made iff its handler is not idle; a message given up
  has had all its deliveries;
- `Tracked`: a tracked task runs, on one replica only, so that a crash ends running
  handlers and no others;
- `HandlersKnow`: what each await may rely on (at `ack` the caller was answered, at
  `efack` the DLQ has the message or refused it and the budget is spent, at `nak`
  it is not, ...). These facts only mention things that grow, which is why steps of
  other handlers keep them (`HandlerStep`).

Where `ack_wait` outlasts the handlers two more facts hold. `OneHandler`: a message has
a running handler only while the broker waits for its answer, and only one, since the
timer is the only way to a second delivery that no handler asked for. `RoomKept`:
`max_ack_pending` bounds the messages that wait, since a redelivery keeps the slot it
has. So the running handlers map one to one into the slots. `DispatcherRefinement` shows
that from `IndInv` each step is a step of `RequestLifecycle` or leaves its variables
alone.

**Orchestrator.** `GatesKept` says what an attempt knows of its request at each step (a
refusal, VALIDATION_ERROR or UNSUPPORTED_FORMAT, only of one that can never be rendered;
TEMPLATE_NOT_FOUND says nothing of the request and is left out), `LoopsInOrder` what it has
rendered and stored so far in the two loops of `process_request`, and `StoredIsThere`
that an object once stored stays in the bucket with the content of its request, because
a later attempt can only write the same again. Together they make a success and a
refusal of two attempts at one request contradict each other.

**TemplateStore.** A set of objects is `Complete` when it holds, with the manifest of a
template, every object the bucket has of that template. A listing is complete, and so
is a union of complete sets; the bucket adds nothing to a template that has a manifest,
so that a set stays complete while it waits on disk. Hence what a fetch holds, in `todo`
and `tmp` together, is complete (`HeldIsComplete`) from the listing to the rename,
when `todo` is empty (`AllFetched`), and the cache is complete after it whether or not
another fetch came first. This needs nothing of the nesting of templates;
`NotFoundOnlyIfAbsent` does, and fails with it (`template_notfound`): only of a template
that is `Alone` did the listing have the manifest of that very template, so that its
directory, once there, holds it.

**RenderPool.** The four properties are about cardinalities and meet in one chain.
Permits count the admitted renders; while the worker takes renders, every job in a pool
is an admitted render's (`JobsHaveTask`), so a pool holds at most `size` jobs
(`JobsFit`); a pool that breaks fails exactly those, and none before or after, because
submits go to the next generation from then on (`NoJobInBrokenPool`,
`BrokenWithItsPool`). After the drain no job is added. `Queue` says that a task waits
once, without which a permit could be granted twice, and that no permit is free
meanwhile; `OnePoolAtATime` that there is always a next generation.

**Startup.** `ReadIsCurrent`: a replica between `consumer_info` and its update may hold
stale limits, but what no build declares is as it read it. `SomeBuildStored`: once a
replica is past reconciling, the stored limits are those of some build; `LastWriterStored`:
once all are, those of one of these replicas, so that a late write of an older build is
made good by the replica that made it. `ConnectionsCounted` relates open connections to
attempts.

**Shutdown.** `TasksCounted`: the tasks `main()` waits for are all there are once the
drain has stopped the deliveries; `TriedSoFar`: the steps tried by the time each place is
reached; `HandlersInOrder`: the meter provider's own exit handler finds the meter shut
already; `OnTime`: how late each place can be reached, which
is the sum of the blocking calls before it, those of the wait and of cut renders only if
there are any. The two timing theorems follow from `OnTime` and `Longests`, which says how
long the call of each place can take: SIGKILL, wherever it comes, finds the clock near the
grace period (`KillTime`).

**Renderers.** The properties compare the end of a render with the whole of its job, and
the steps see one name, row, cell or entry at a time. `IndInv` says what has been looked
at when the render stands at position `cur` of a loop: `HeadChecked` for the manifest,
the schema and the file, then `NamesChecked`, `BlocksChecked`, `RowsChecked`,
`CellsChecked` and `EntriesChecked`, each "no fault before `cur`". A verdict of failure
is then given at the fault itself, and a document only when no loop has anything left.
`FormSoFar`: a form keeps its own values until all entries are resolved, and a value
resolved is one that a supplied entry gives. `CombsFit` needs no loop: a value that a
schema makes a string of bounded length passed `Validate`, which runs before any of
them. `SheetSoFar` is the same for a sheet: each write has a rank (pass, block, row,
column), the position of the render is such a rank as well (`Progress`), and a cell
shows the highest-ranked write behind that position, or what the template had if there
is none. The proof needs that ranks order the writes totally (`WriteRanks`), and that
what a step writes is one write, the next (`SheetWrite`), or that a step without a write
passes over none (`SheetPass`); a write that lands on another cell, since merged, is
covered.

**Assumptions.** Each is in the module that declares the constants. Most are what the code
or its settings make of them: `DOCGEN_MAX_DELIVER >= 1` (`core/config.py:88`); a request
has at least one output (`domain/models.py:118`) and a refusal is one of the permanent
errors (`KindAssumption`); there is a replica (`ReplicaAssumption`); a host's numbers are
numbers (`HostAssumption`); the calls of `run()` are finitely many (`RendersAssumption`);
nesting of prefixes is a strict order (`BelowAssumption`). `TimeAssumption` says of the
times of a stop only that they are natural numbers. `JobsAssumption` says that names,
blocks, cells, mappings and rows are lists, that a block has a column, that a schema's
limit is a number, that a form's values are of the kinds JSON has, and that a block's
band lies on cells of the sheet; the last the code leaves to the author of the template.
Two are built into a model: that a template has one manifest for good, in `Orchestrator`,
and that the bytes of an artifact depend on the request and the format alone, `Content`,
which the rendering libraries are configured and tested for. The conditions of single
theorems are in the table.

**Only model-checked.** Liveness (`EventuallyResolved`, `EveryRenderEnds`,
`EventuallyExits`, `EventuallyUp`), which is out of the prover's reach. Every other
property of a passing run has a theorem. The properties of the runs that end in a
violation have none, except `NotFoundOnlyIfAbsent` where templates are not nested.

## 5. Plan

Done: the dispatcher with its abstract specification, the template store with storage
errors, the pipeline, the render pool, start-up and consumer configuration, shutdown and
the renderers, and the proofs of all their safety and action properties. Next, in this
order:

1. Lemmas about the pure operators for any input, beyond what the theorems needed: block
   capacity (`BlockCapacity`) and the comb (`PdfForm`).
2. A composition of `Startup` with the dispatcher's bound: what a backstop below the
   budget does to a request that is nak'd.

## 6. Not modelled

What third-party libraries do inside a document (WeasyPrint, docxtpl, the bytes of a
saved workbook and their normalisation), JSON Schema beyond presence, sizes and `"type":
"string"`, logging, metrics, the smoke script and environment parsing. The queue-depth
poller and its heartbeat file feed nothing that a request depends on; that the poller is
cancelled first is in `Shutdown`. The NATS client reconnects by itself and without
limit, its callbacks only log. Presigned URLs are best effort and change no outcome.
Message bodies, file names and error texts are abstracted to the distinctions the
properties make.
