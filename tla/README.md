# circuitforge-core: TLA+ specifications, model checks and proofs

`circuitforge_core` is a Python library of building blocks for self-hosted AI
products: task queues, an LLM router, clients of sidecar services, model
backends with their HTTP services, stores, and the plumbing between threads,
processes and event loops. Most of its code is small and sequential; what is
hard about it is what happens *between* its calls: two threads in a window
between two locks, a process killed between two statements, an answer that
arrives after the state it was computed from is gone.

These modules model that. Every definition is translated from the code under
`circuitforge_core/`; `PROJECT.json` maps each one to its lines. Paths below are
relative to `src/circuitforge_core/`.

Contents: 1 inventory, 2 the modules, 3 the runs, 4 bounds, 5 fairness,
6 proofs, 7 disagreements between code and documentation, 8 not modelled,
9 plan.

## 1. Inventory

The parts interact little, on purpose: every subpackage is usable alone, and
products wire them together. The interactions there are: `tasks.scheduler`
calls the product's `run_task_fn` and may be started with the product's
database (`db`); the pipeline calls a product's LLM function (usually
`LLMRouter.complete`), the documents client and a text backend; the text
service (`text/app.py`) owns a text backend, and that may own a vLLM process;
`manage` starts those services; the hardware generator writes the configuration
that the router reads; `cloud_session` decides the tier that gates `sync`.
Everything else meets in the caller.

| Part | State it keeps | Operations | What is hard | What makes it correct |
|---|---|---|---|---|
| `tasks/scheduler.py` LocalScheduler | queues per type, `_active` workers, wake and stop events | enqueue, start, shutdown, loop, batch workers, resume rows | threads between lock blocks; event set and clear; joins that time out | one worker per type, no lost wake-up, each accepted task once and in order, clean shutdown |
| `tasks/scheduler.py` get/reset_scheduler | module singleton and lock | get, reset | candidates built outside the lock | no scheduler lives outside the registry |
| `tasks/dispatch.py` | runner registry, status table, lazy thread pool | register, dispatch, status, reset | pool overtakes the dispatcher; runners that dispatch; reset waits for the pool under a lock | each dispatched task settles with its outcome; its status never goes back; no task outlives the reset on a forgotten executor |
| `memory/client.py` | availability, failure count, retry time | connect, close, calls, reconnect | late answers of calls in flight; cooldown | a disabled client comes back, and not before its cooldown |
| `db/migrations.py` | schema and `_migrations` | run_migrations | kill between statements; two startups at once; recovery by rewriting the script | applied means complete; a startup gets through |
| `sync/` | preferences and blobs | set_pref, push, pull, delete, wipe | consent and write are two transactions | no data without opt-in, newest write wins |
| `signal_bus/` | subscriber queues | publish, subscribe, stream | threads hand callbacks to a loop; full queues; disconnects | order per producer, delivery or drop of the oldest |
| `llm/router.py` | config, pulled-models cache, cf-orch leases | complete, embed | failure of every step of each backend, leases across retries | leases given back, no usable backend passed over, calls end |
| `manage/native_mode.py` | PID files, processes | start, stop, status, logs | command killed between steps, stubborn or recycled PIDs | stopped means gone, commands end |
| `manage/cli.py`, `docker_mode.py` | containers, native services (in the machine) | start, stop, restart, status, logs, build | the runtime is decided anew by every command, from what it finds | a product runs in one runtime |
| `text/backends/vllm_subprocess.py` | child process, port | ensure_running, stop, atexit | kill of the supervisor, port held by another server | orphans only from kills, startup settles |
| `pipeline/` (recorder, crystallizer, registry, executor) | run and workflow files | record, evaluate, register, match exactly or by similarity, deactivate, execute | overlapping evaluations and writes; step failure in mid-workflow | enough approvals crystallize; a replay is what was approved |
| `pipeline/multimodal.py` | models on the GPU, page in work | run, stream | any page fails in any stage, consumers leave | results of the pages in order |
| `preferences/store.py` | one JSON file | get, set | crash between write and rename | a returned set is kept |
| `cloud_session/` | tier cache | resolve, provision, require_tier | slow answers and a cache period | a session's tier is recent |
| `config/license.py` | validation cache | validate, get_tier | slow answers, revocation | revocation is seen after the cache period |
| `community/db.py` (migrations) | schema and `_community_migrations` in PostgreSQL | run_migrations | products that start together on one database; connections lost inside a transaction | recorded means committed; every startup gets through, some after a restart |
| `mqtt/client.py`, `mqtt/router.py` | connection, routes | register, run | outages anywhere | it reconnects with all subscriptions |
| `mqtt/meshtastic/mqtt_backend.py` | a client, its runner task and a queue per `packets()` | packets | a runner that dies at its import; cancel and await of the runner | who leaves gets out, with no runner left |
| `mqtt/meshtastic/serial_backend.py` | listeners, queue per stream | packets | library threads into asyncio, cancel while connecting | subscribed means yielded, in order |
| `community/store.py` (recipe tags) | tags, votes, connection pool | submit, upvote | two statements per transaction, overlapping transactions | the count is the votes |
| `community/store.py` (posts), `snipe_store.py` | posts, seller signals, categories | insert, delete, list; publish signals and batches of categories; selects | batches in different orders lock each other's rows; pages of a list others change | a batch appears as a whole; paging misses nothing that stays |
| `reranker/` (singleton, BGE, Qwen3) | module singleton, weights, lock | rerank, load, unload | test outside the lock, publication field by field | loaded once; calls whose weights stay succeed |
| `text/backends/` llamacpp, transformers | producer threads, token queues, shared executor | generate, generate_stream_async | three threads per stream, executor exhausted | no token lost or reordered, calls end |
| `text/backends/` base, ollama, vllm | none beyond a call | choice of a backend, generate, chat, streams | a server ends a stream in three ways, some of them with a token | a stream that ends has given all its tokens |
| `text`, `vision`, `stt`, `tts`, `musicgen`, `video`, `reranker` `app.py` | the loaded model | HTTP handlers | model runs on the loop, in the pool or in the executor | health checks answered while the text model runs |
| `vector/sqlite_vec.py` | two tables joined by row number | upsert, delete, delete_where | failure between the two writes, reads outside the transaction | the two tables are one map |
| `hardware/` | none | detect, tier, generate_profile, vram_estimate | units, rounding, services of a tier | generated names exist, "fits" means it fits |
| `text/filter.py` | none | redact | replacements move offsets | nothing of a span survives |
| `activitypub/delivery.py`, `signing.py`, `inbox.py`, with `retry.py` | the actor's key; nothing about what was handled | deliver_activity under on_exception, inbox endpoint | lost posts and answers repeat a delivery; the key is replaced while one is verified; proxies rewrite | what an answer tells the sender is so |
| `activitypub/lemmy.py` | login token | login, resolve_community, post_to_community | a search that answers in an order of its own | an address finds its community |
| `api/feedback.py` | none (labels and issues in Forgejo) | submit_feedback | a chain of requests, each refused or carried out without an answer, beside other submissions | accepted means an issue with its labels |
| `job_quality/` | none | score_job | evaluable signals told apart by the wording of a detail in another file | missing data lowers confidence only |
| `documents/ingest.py` | none | ingest | chain of fallbacks, all exceptions swallowed | a fallback that could read does |

Sections 8 and 9 list the other parts; `PROJECT.json` has every part with its
sources, and every hazard with its line and the properties that cover it.

## 2. The modules

One module per component, named for it. Each declares its state as
`VARIABLES` with the Python attribute it stands for, one action per handler,
lock block or step between two points at which another actor may run, and its
properties below the specification. The granularity is that of the code's
atomicity: a `with lock:` block, a database transaction, a callback of an event
loop and a stretch of code that touches no shared state are one action; an
`await`, an unlock, a request to another process, a write to a file and a
`join` end one.

| Module | Code | How state and actions correspond |
|---|---|---|
| `TaskQueue` | (abstract) | What a caller of the scheduler may rely on: bounded FIFO per type, one task of a type at a time, each accepted task once |
| `LocalScheduler` | `tasks/scheduler.py` 87-222 | per caller, loop, worker and shutdown a program counter; `LoopCheck`/`LoopWoken`/`LoopTimeout`/`LoopClear`/`LoopScan` are one turn of `_scheduler_loop`, `Take`..`Signal` one of `_batch_worker`. `ImplementsTaskQueue` maps it onto `TaskQueue` |
| `SchedulerSingleton` | `tasks/scheduler.py` 225-268 | callers race through build, start, lock, install or drop; `Reset*` |
| `TaskDispatch` | `tasks/dispatch.py` | `Lookup`, `Record`, `GetExecutor`, `Submit`, `Return` are `dispatch_task()`; `Run*` its wrapper in a pool thread |
| `MemoryClient` | `memory/client.py` | `Connect`/`Close` of the lifespan, a call sent and answered, the reconnect of the first call after the cooldown |
| `Migrations` | `db/migrations.py` | a script is a sequence of statements, each committed on its own; `HitDuplicate` is the recovery that rewrites the text |
| `SyncStore` | `sync/store.py`, `sync/router.py` | `PushCheck`/`PushWrite` and `PullPrefs`/`PullRead` are the two connections an endpoint uses |
| `SignalBus` | `signal_bus/bus.py` | `HandOver` is `call_soon_threadsafe`, `EnqueueDropOldest` the callback in the loop, `Iterate`/`Deliver`/`Disconnect` the generator |
| `LLMRouter` | `llm/router.py` | one call walks its order: skip, allocate or check, request, release; `tags` is the cache of pulled models |
| `NativeManager` | `manage/native_mode.py` | the process table, PID files, and one `cf` command at a time, which `Crash` can end anywhere |
| `ManageMode` | `manage/cli.py`, `docker_mode.py`, `config.py` | `Command` resolves the mode; one action per command and manager; the machine's Docker comes and goes |
| `VllmSupervisor` | `text/backends/vllm_subprocess.py`, and over it `text/app.py`, `text/backends/base.py`, `vllm.py` | runs of cf-text one after the other, each with its child and its model; `Killed` skips the atexit handler; calls are accepted, sent to whoever holds the port, and answered, failed or lost with their process |
| `Pipeline` | `pipeline/` recorder, crystallizer, registry, executor | an evaluation per run, one `deactivate()`, one execution over an exact match or `FuzzyMatch` |
| `Multimodal` | `pipeline/multimodal.py` | the generator, page by page |
| `Preferences` | `preferences/store.py` | inodes, so that a rename over an open file is what it is |
| `CloudSession`, `License` | `cloud_session/__init__.py`, `config/license.py` | a clock, the remote state, the cache and requests whose answer may be old when it is stored |
| `Meshtastic`, `MqttClient` | `mqtt/` | threads of the radio library against the loop; broker outages; with `bridge`, the client runs as the task of the MQTT bridge's `packets()` (`Run`, `Import`, `Packets`, `Leave`, `Left`) |
| `Federation` | `activitypub/delivery.py`, `signing.py`, `inbox.py`, `retry.py` | a post per delivery and try; `FetchKey`, `VerifySignature`, `Dispatch`, `Handle` are the endpoint between its awaits; a signature is the record of what was signed |
| `LemmyClient` | `activitypub/lemmy.py` | strings as sequences of their parts, so that `in` is what it is |
| `Feedback` | `api/feedback.py` | one action per request to Forgejo, with every way it may end |
| `CommunityMigrations` | `community/db.py` 69-117 | startups as transactions that wait for, and collide with, what another open one makes |
| `RecipeTags` | `community/store.py`, `community/db.py` | transactions over a pool of connections with the row locks they take |
| `CommunityStore` | `community/store.py`, `snipe_store.py`, `db.py` | transactions that write row by row, wait for each other's rows and may be ended as deadlocked; a client that pages |
| `BGEReranker`, `Qwen3Reranker` | `reranker/` | the lock blocks, and what is read between them |
| `TextStream` | `text/backends/` | `Backend` selects the llama.cpp or the transformers producer |
| `ProxyBackend` | `text/backends/` base, ollama, vllm | a call to a model server: the request, the lines of its stream, the generator that yields their tokens |
| `ModelService` | the seven `app.py` | a record per service (`TextHandlers`, ...) with a row per endpoint: declared `def` or `async`, its checks in order, where the model runs |
| `VectorMap`, `VectorStore` | `vector/` | the abstract map, and the two tables that implement it (`ImplementsMap`) |
| `Hardware` | `hardware/` | detectors, tiers and generated configuration (`Profile...`); the arithmetic in MB (`Estimate...`) |
| `PIIFilter` | `text/filter.py` | text as a sequence of positions; a replaced character is 0 |
| `JobQuality` | `job_quality/` | one operator per signal |
| `DocumentIngest` | `documents/ingest.py`, `client.py` | the chain of fallbacks |
| `LibraryProofs`, `StoresProofs`, `ProcessProofs`, `ClientsProofs` | | theorems about the parts of the bench of that name, section 6; those about the scheduler stand at the end of `LocalScheduler`, those about the services at the end of `MCServices` |

The MC modules are benches. `MCLocalScheduler` gives one component its
instance; `LemmyClient` and `DocumentIngest` are checked as they stand.
`MCProcess`, `MCLibrary`, `MCClients`, `MCServices` and `MCStores` instantiate
several components that share no state in the code. A behaviour of a bench
picks one component in its initial state (`part`) and runs only that one; the
others stay where they are. The set of behaviours of a bench is therefore the
union, not the product, of those of its parts, and each property speaks about
the part that moves. The sizes of the parts are constants of the bench, given in
its `.cfg`, so that a theorem about the bench is about every size. What the instances
fix is the case they are for (an option of the code, a set that is empty because
a part is looked at by itself), and in three places a size, where section 6 says
what that leaves: the votes under `majority`, of which no theorem speaks, the
scripts of the violated `migrations_prefix`, and the one model thread of `Http`. Benches group parts by what drives them: the threads of
one process over its registries and models (`MCProcess`), the caller's own
threads (`MCLibrary`), clients of other processes and machines (`MCClients`),
processes and their requests (`MCServices`), disks and databases (`MCStores`).

A few definitions named `...OffByOne`, `...Silently`, `...Again` and the like
stand beside a definition and have its parameters: each is that definition with
a plausible mistake in it. No specification uses them. `PROJECT.json`, under
`mutants`, pairs every checked property with the one that must break it.

## 3. The runs

| Run | Checks | Shows |
|---|---|---|
| `scheduler_safety` | `TypeOK`, `OneWorkerPerType`, `NoLostWakeup`, `CleanShutdown` | every interleaving of four enqueues or resumed rows, the loop with its poll, three workers, `start()` and `shutdown()` with joins that may time out |
| `scheduler_live` | `ImplementsFairTaskQueue` | the scheduler implements the fair abstract queue without the help of its 30-second poll |
| `process` | `NoStrayScheduler`, `EveryCallEnds`, `StreamsAreWhole`, `LoadedOnce`, `KeptCallsSucceed`, `NoneLeftRunning`, `StatusMovesForward` | racing first callers and resets leave no scheduler running outside the registry; a dispatched task's status only moves forward, to what its runner ended with, whatever a reset overlaps; dispatched tasks settle, also when a runner dispatches, and dispatch_task() returns through a reset; calls of a text backend with one executor thread end; streams and documents come whole and in order; loads and unloads of rerankers against calls |
| `library` | `NothingWithoutOptIn`, `LastWriteWins`, `TierIsRecent`, `RevocationIsSeen`, `EnoughRunsCrystallize`, `DeterministicMeansApproved`, `FitsMeansItFits`, `FallbacksExist`, `NothingPersonalSurvives`, `ScoreFollowsEvidence` | what runs in the callers' threads |
| `clients` | `LeasesGivenBack`, `ReliableIsNotBypassed`, `DeliveriesAreTrue`, `FeedbackIsWhole`, `LinksHold`, `ClientsProgress` | router calls over two fallback orders with every failure; a memory client disabled by failures; radio packets, broker outages and bus events; signed deliveries with retries; feedback submissions |
| `services` | `StoppedMeansGone`, `OrphansOnlyFromKills`, `AnsweredByItsModel`, `NothingTwice`, `ServicesProgress` | process life cycles with kills at every step; text calls through a port an earlier run's child may hold; health checks beside a model that never returns; commands that choose a runtime while Docker comes and goes |
| `stores` | `AppliedIsComplete`, `EveryStartupCompletes`, `SavedIsKept`, `ImplementsMap`, `CountIsVotes`, `PublishedTogether`, `PagesMissNothing` | kills, failures, lost connections and other transactions between the writes of a store, and between the reads of a client |
| `sync_wipe` | `WipedStaysWiped` (violated) | a push between its consent check and its write survives a wipe |
| `migrations_prefix` | `PrefixIsComplete` (violated) | recovering `score` also removes `ADD COLUMN score_raw` |
| `ingest_fallback` | `FallbackReads` (violated) | the LLM fallback of `ingest()` calls a method the router does not have |
| `dispatch_reset` | `DispatchReturns` (violated) | `reset_dispatch_registry()` joins the pool under the lock for which a runner that dispatches waits: neither returns |
| `lemmy_address` | `AddressIsPreferred` (violated) | of two communities of one name, the first of the search answers for the address of the second |

The five violations are findings: a comment or docstring of the repository
states the property and the code does not have it (section 7). Deadlock is not
checked in any run because everywhere the system may stop: callers stop
calling, calls and commands end, and bounds are reached. That nothing stops
*early* is what the liveness properties say.

The liveness property of `process`, and that of `clients`, is one leads-to,
`Waits ~> Served`, in which each part says what waiting and being served is for
it: a task is recorded and settles as its runner ended, a packet is queued and
yielded, a router call begins and ends, a disabled memory client comes back, the
MQTT client is connected to all its patterns again and again. Both speak about
one call, chosen at the start of the behaviour and kept in `followed`; as every
choice is a start, the formula says it of every call. Of calls that are alike
(the router's, the radios', the producers'; their instances differ in a name
only) one is chosen. `ServicesProgress` says that commands and supervisors
settle and that health checks are answered while a model runs.

`AppliedIsComplete` and `EveryStartupCompletes` each speak of both migration
runners, the SQLite one (part `schema`) and the PostgreSQL one (part `shared`).
`stores` checks `AppliedIsComplete` for schemas in which every column name
occurs once and none is the prefix of another; with those the recovery is
sound. `migrations_prefix` shows why the condition is needed.

### What the properties guard against

* `NoLostWakeup` relates the loop's position, the event and the callers that
  are still on their way to `_wake.set()`. It is the reason the order *append,
  unlock, set* and *clear, scan* is right; swapping either loses a task for 30 s.
* `ImplementsFairTaskQueue` is the whole promise of the scheduler in one
  formula: the implementation's thirteen variables mapped to four.
* `EveryCallEnds`, for dispatched tasks: the pool may finish a task before `dispatch_task()`
  has returned, so an entry written after `submit()` would overwrite the result.
  A task ends up complete or error as its runner did. One whose runner raised what
  is no `Exception` (`SystemExit`, a cancellation) is over as well, but its entry
  says "running" from then on (dispatch.py:102), and the property says just that.
* `StatusMovesForward` is what a poller sees of the same race: queued, running,
  then complete or error, never back; only the reset takes a task out of the
  table, and its runner may then put it there again.
* `NoneLeftRunning`: a call of `dispatch_task()` may have fetched the executor
  before a reset shuts it down and submit to it afterwards. The submit is then
  refused, also if a later call has made a new executor meanwhile (`stale`), and the join has
  run everything submitted before, so that no task is left on an executor that
  the module has forgotten; and a status of complete or error is the runner's.
* `AppliedIsComplete`, `EveryStartupCompletes`: between them, recovery neither
  forgets a column nor refuses to start, and files are applied in their order.
* `LeasesGivenBack`: per call and backend, whichever step raises.
  `ReliableIsNotBypassed` says the same chain does not give up early.
* `StoppedMeansGone`, `OrphansOnlyFromKills` count processes against kills:
  every survivor has to be explained by a kill of ours.
* `TierIsRecent`, `RevocationIsSeen` compare what was returned with a history
  of what the remote side said, over answers of any delay.
* `DeterministicMeansApproved`: what was executed deterministically is an
  approved run's steps, though the stored workflow was replaced or deactivated
  between lookup and last step.
* `StreamsAreWhole` has a conjunct per producer of a stream. For llama.cpp and
  for transformers, concatenating what the consumer has, holds, and what is in
  the queue and the streamer gives exactly the tokens the model made, and a
  consumer whose stream ended has them all. A stream of a model
  server ends with a "done" line that may carry a token, with the server's
  close, or with an exception; only the first two count as an end, and then the
  consumer has every token. Tokens of a document's page never appear under
  another page, whatever stage of a page failed.
* `DeliveriesAreTrue`: over lost posts, lost answers, tries that are still under
  way when the next one is sent, a key that is replaced and a proxy that
  rewrites the host or the body, a 202 for a type with a handler means its
  handler ran to the end, a 401 has one of four causes, and nothing is handled
  with a body or a key that its actor did not sign with.
* `FeedbackIsWhole`: a submission answered with a number has its own issue of
  that number with its three labels, though the list of labels was refused or
  out of date and other submissions make the same labels; a refused one has no
  issue.
* `LinksHold` is about what a link keeps through failures and full queues.
  `OrderPerProducer`: what a subscriber of the signal bus gets of one producer
  ascends, though its queue drops. `InOrder`: what a stream
  has yielded and has queued of its own radio's packets is every number from the
  first after `subscribe` to the last sent, ascending, though the topic is global
  and its queue also gets the other radio's; `NothingLeftBehind`: an ended stream
  listens no longer. `EveryConnectionSubscribes`: the n-th connection of the MQTT
  client is as good as the first. `FailuresDisable`: the memory client's counter,
  which calls in flight may still raise after it has disabled the client, never
  lets a client with too many failures be available.
* `NothingTwice`, besides `OneRuntime` (below): a service started over its PID
  file runs once, but for what killed commands left; a service that runs its model on its event loop runs it
  once at a time, though a handler's `await` lets others in before its model runs,
  and only for requests that passed every check; an uploaded file lasts as long
  as the run that reads it.
* `AnsweredByItsModel`: after a kill the orphan holds the port and answers the
  health check of the next run's supervisor. An answer still comes from a server
  of the right model, because the payload names it (`ServesModel`), and from an
  orphan only after a kill.
* `KeptCallsSucceed`: publication of four fields in the right order makes the
  lock-free test safe as long as nobody unloads.
* `ImplementsMap`: the two tables, in any crash or failure, are the abstract
  map for a client that has the file to itself.
* `CountIsVotes`: the vote and the counter are two statements.
* `PublishedTogether`: two nodes whose batches overlap in opposite orders wait
  for each other, and one of them is ended in mid-batch; no reader ever sees a
  batch in part, or two batches mixed.
* `EnoughRunsCrystallize`: evaluations of one input record, count and write side
  by side, and all write the one file of that input. `write_text()` truncates it
  when it opens it and then writes from its start (`Open`, `Write`; `size` is the
  length of the file). Where two calls had it open at once, the shorter text may
  keep the tail of the longer one, and `load_all()` then skips the file for ever
  (section 7). `overlapped` names the inputs whose file was last opened
  while somebody had it open; of every other one the property says that there is
  a workflow *and* that it can be read, so that one more `register()` by itself
  always mends the file.
* `PagesMissNothing` is about OFFSET paging under concurrent writes: an insertion
  moves the window so that a post may come twice, but never so that one is
  missed. A deletion can, and so can two posts of the very same time; the
  property excludes both by name.
* `OneRuntime`: `stop` resolves the runtime for itself. It finds what `start`
  started because `docker info`'s exit status is ignored: with a check of it, a
  stopped daemon would move the product to native processes.
* `ScoreFollowsEvidence`: finding out a fact about a listing makes
  exactly the signals that read it count towards the confidence and does not raise
  the trust score, although the code tells "no data" by the text of a detail. The
  exception is a salary: without one its signal fires, so finding it changes no
  count and gives back at most the 20 hundredths that its absence cost (section 7).

## 4. Bounds, and why they are enough

Every bound is a constant of a `.cfg` or of a bench.

* **Scheduler**: two types, four tasks of which two are resumed rows, queue
  depth 1, three thread identities (a dead thread's identity is used again).
  Two types are needed for one type's exit to race another's scan; two queued
  tasks of a type for order and the depth limit; a third thread so that an old
  worker in its `finally` and its successor coexist with the other type's. The
  liveness run leaves out one task. Symmetry: thread identities, and the two
  interchangeable tasks (safety only; no symmetry with liveness).
* **Process**: three callers for two losers of the race and a winner; a pool of
  two threads and three tasks, one dispatched by another's runner, or two tasks
  and a reset, and a runner that returns, raises, or raises what is no
  `Exception`; one executor thread, two streams and one whole call of
  one token (or one stream of two tokens and two whole calls); one call of a proxy backend, whose calls share
  nothing, with up to three tokens; three pages of two tokens; two reranker
  threads, two adapters, up to two unloads.
* **Library**: two requests, two products, cache periods of one tick and an end
  of time two ticks later, so an answer can arrive before, at and after the
  expiry; two devices and two stamps per class; five runs with three approvals
  against thresholds 2 and 3, of two inputs similar enough for one of the two
  registries (9 of 10 against 8 and 10); sizes around each
  boundary of the estimate; at most three spans in five characters; for the
  signals of a job that may lack their data the values on both sides of the
  threshold.
* **Clients**: two calls; six backends of every kind over two orders;
  `MaxFailures` 3 as in the code, three calls in flight; two radios, of
  two packets and of one, the least in which order and another radio's packet between
  two can go wrong; two patterns, two drops, two messages; two producers, three events, a
  queue of two: overflow happens; one delivery of three tries, all of which may
  be at the inbox at once, and one replacement of the key; two submissions and a
  page of two labels, less than the three that a submission makes.
* **Services**: two services over two PIDs, so that a PID is reused by the other
  service; one killed command; three runs of cf-text of two models, one kill and
  one call, which shares nothing with others: the run after the killed one may be
  answered by the orphan, and a third may find the port free again or still held;
  of more runs, kills and calls the theorems speak; two services, one of them
  also native, and one command at a time on a machine whose Docker, plugin, daemon and compose file
  come and go without bound; two requests with one pool and one
  executor thread: a request that waits behind a run.
* **Stores**: two runners, two kills, five columns in two migrations, 20
  attempts as in the code; two startups over four files (a table, nothing, a
  table, a column) and two losses; one writer, three sets, two crashes (two concurrent
  writers lose a set, section 7); five operations over two entries; two
  transactions over two connections and three pseudonyms; two threads that
  write three posts of one author at two times while a client reads pages of one
  (two of different times make a second page; the third may be inserted at the
  later time when the first page was read and the older post is still due), and two threads that publish two
  categories in both orders.

The actors of a race are two or three in every hazard listed; a third actor was
kept wherever one of the two could be replaced while the other waits.

## 5. Fairness

Safety properties assume none. Liveness properties assume weak fairness of
threads, event loop callbacks and processes that are not blocked: the operating
system and asyncio run them. Nobody is obliged to call anything, to kill or to
cancel, and no timeout is fair unless it is the mechanism at stake:

* `LocalScheduler`: `LoopTimeout` (the 30 s poll) is *not* fair, so the
  properties hold by wake-ups alone. `run_task_fn` is assumed to end.
* The benches `process` and `clients` state the fairness of a part with the part
  as a guard, and ask it of each call or thread for itself.
* `TaskDispatch`: weak fairness of each dispatch, each runner, the pool and the
  reset. It is enough for the waiters of `_executor_lock` too: the one reset
  takes it once, and `_get_executor()` holds it for no step of another thread.
* `MemoryClient` (`healthy` part): time passes, the sidecar answers and
  handlers go on calling `recall()`; reconnects happen inside calls only.
* `LLMRouter`: requests have timeouts, so each ends one way or the other.
* `NativeManager`, `VllmSupervisor`: the command or supervisor runs on; the
  deadline of the health wait passes some time (strong fairness of `GivesUp`,
  enabled between any two probes). In `services` this fairness is not
  guarded by `part`: in a part that does not run, no fair action is enabled.
* `ModelService`: loop and pools take what is there. No run of a model has to
  end: that is what the health part of `ServicesProgress` is about.
* `MqttClient`: the task runs, the broker comes back each time, and a generator
  that is closed runs its `finally`.
* `VllmSupervisor`: an accepted call proceeds; each of its requests has a timeout.
* `Meshtastic`, `SignalBus`, `TextStream`: every thread, callback and iterated
  consumer proceeds; consumers may leave at any point.
* `Migrations`, `CommunityMigrations`: a runner that is not killed proceeds, and a
  product whose startup raised or was killed is started again; kills and lost
  connections are bounded.

## 6. Proofs

TLAPS proves every safety property and every action property that the passing
runs check, for every value of the constants
that satisfies the assumption of the module concerned (`SchedulerAssumption`,
`SyncAssumption`, `LibraryAssumption`, `StoresAssumption`, `ProcessAssumption`,
`ClientsAssumption`, `ServicesAssumption`): any number of threads, calls,
tasks, processes, entries and kills, any sizes of queues and pages, any cache
period. These assumptions say of what kind a constant is and which names
differ; TLC evaluates each of them in a run. A theorem about a part is stated of
the part's own specification (`Bus!Spec => []OrderPerProducer`), and the last
theorem of each bench (`LibraryIsSafe`, ...) of the bench's.

All but the two refinement proofs have one shape: an invariant `...IInv` of the part, the
lemma that `Init` implies it, a lemma that each step keeps it, with one step of
the proof per action, and the property from it. `...OK(x)` is the conjunct of
the invariant that says what one actor knows at the place where it is; that it
survives the steps of the others is where the work is.

**The scheduler** (`LocalScheduler`). `Invariance`, `Spec => []IInv`, with `IInv`
the type invariant, `OneWorkerPerType`, `NoLostWakeup`, and four conjuncts about
a shutdown in progress. `OneWorkerPerType` is inductive only with the exact
correspondence of `_active` and `wtype`; `CleanShutdown` is not inductive and
needs that after the snapshot every working thread is one `shutdown()` still has
to join, which needs that the loop no longer scans by then unless a join timed
out, which needs `stop`. `TypeCorrect`, `SerialPerType`, `WakeupsAreNotLost` and
`ShutdownIsClean` follow.

`SchedulerIsAQueue` is the refinement of `TaskQueue`: initial states map to
initial states (`InitQueue`), and every step is one of the queue or a stutter
(`StepQueue`): the append of `enqueue()` is `Accept`, its refusal `Refuse`, a
worker's popleft `Begin`, the end of `run_task_fn` `Finish`. The refinement
mapping reads a task as finished when it was accepted and nobody holds it, which
is only right if nobody holds it twice: the invariant `Once` says that a task is at
one position of one queue or with one running worker. It needs `RowsAreDistinct`,
a hypothesis of the theorem: the rows `_load_queued_tasks` reads have distinct
ids. The code leaves that to the table (`id INTEGER PRIMARY KEY` in
tests/test_tasks/test_scheduler.py:25), so it is not among the assumptions of the
module. The fairness of the queue stays with TLC.

**The process** (`ProcessProofs`).

* `LosersAreShutDown` (`NoStrayScheduler`): by the place of each call what has
  become of its candidate; the lock's holder is the one caller in the lock block,
  or the reset between its shutdown and its release.
* `WeightsAreLoadedOnce` (`LoadedOnce`, and `ModelIsHeld`): who loads or scores
  holds the adapter's lock; `loads` is exactly 1 where there are weights.
* `UndisturbedCallsSucceed` (`KeptCallsSucceed`, and `OneForward`): while nothing
  is unloaded the fields are set in the order tokenizer, model, token ids, and
  the ids may only be missing while the loader is between the last two; a call
  that found a model therefore has a tokenizer, and after one turn of the lock
  also the ids.
* `NoTokenIsLost` (`StreamsAreWhole`): of a stream of llama.cpp or transformers,
  what was yielded, is held, queued and in the streamer are the tokens made, where
  the sentinel may only come last and only of a producer that is through. The two
  backends are instances of one module with constants of their own; the proof is
  of one relation, `TextStep`, that allows a token to go to the queue or to the
  streamer, and shows that each backend's steps are among its steps, llama.cpp's
  because its streamers are never used. `TokensComeThrough` states the same of each
  backend's own specification. Of a proxied stream, that the lines on the wire go on, one by
  one, from what the consumer has to what the server sent, and that a line which
  ends the stream is the last; of a document, that what was yielded is of earlier
  pages or of the present one's tokens.

* `TasksEndAsRun` (`NoneLeftRunning`), `PollersSeeProgress` (`StatusMovesForward`,
  an action property): each task by the place of its dispatch call and of its run;
  the backlog holds exactly the tasks that are submitted and not begun; a call
  about to submit has the present executor or one that was shut down, and then it
  is in `stale`. Both need that a task's entry is recorded before it is submitted.
  The bench has two instances, with and without a reset; the proof is of the relation
  `DispatchStep`, which has the steps of both.
* `ProcessIsSafe`: the bench keeps all of these, whichever part runs.

**The library** (`LibraryProofs`).

* `ConsentFirst` (`NothingWithoutOptIn`): a push past its check carries a pair in
  `optedIn`. `NewestBlobStays` (`LastWriteWins`) is an action property: of two
  pushes that overlap the later stamp stays, by the condition of the upsert and
  not by the order of arrival.
* `RevocationTakesEffect` (`RevocationIsSeen`): a positive answer, in the cache or
  on its way there, was asked for before the revocation, and an entry expires a
  TTL after its answer was *asked for* and not after it was stored.
* `SessionsAreRecent` (`TierIsRecent`): the stamp of a cached or travelling answer
  is no later than the last moment at which Heimdall would have given it.
* `EstimatesAreRight` (`FitsMeansItFits`): linear arithmetic once the quotients are
  integers. `OrdersName` (`FallbacksExist`): over every set of cards, with the
  least and the greatest of their sizes given by the well-foundedness of the
  naturals.
* `ApprovedStepsOnly`, `NoApprovalIsLost` (`DeterministicMeansApproved`,
  `EnoughRunsCrystallize`), for the `most_recent` strategy and any runs: what is
  stored, drafted, deactivated or executed has the steps of an approved run that
  is on disk; and of the approved runs of an input either one is not evaluated to
  its end, or there is a workflow. The argument is that the record is on disk
  before the evaluation reads it, so the last to read sees all. That its file can
  be read is a second invariant (`FileOK`): where openings did not overlap, one
  call has the file, whose length is 0 until that call writes and the text's after.
* `SpansAreGone` (`NothingPersonalSurvives`), for texts, spans and labels of any
  length. What was replaced lies to the right of every span that is left
  (`RightToLeft`), so up to the end of the next one the text is still the
  original (`Untouched`), and its offsets name the characters they were given for.
  `SplicedAt` says what one replacement puts where; that the markers do not run
  together is a count of their characters (`OneMoreMarker`, `ZerosMove`).
* `LowConfidenceIsNoPenalty` (`ScoreFollowsEvidence`) is an action
  property. Told by the wording of their details, the signals counted are always
  those whose data are there (`EvidenceCounts`); what is found takes no evidence
  away and lets no signal fall silent (`PenaltiesGrow`), but for the one of the
  salary, whose penalty alone a salary takes away (`SalaryPenalty`).

**The stores** (`StoresProofs`).

* `RecordedMeansApplied` (`AppliedIsComplete`), under `NamesApart`: what an attempt
  has left to run covers what is missing of its file, through every rewriting of
  the script. `NamesApart` says that no file adds columns of one name to two
  tables, and the instance `Schema` that no column's name begins another's; without
  either the property is false (section 7; the second is `migrations_prefix`). That
  migrations are applied in their order (`OrderIInv`) needs neither: what a runner
  read as applied, and what it has passed since, is applied. The second conjunct, about PostgreSQL, needs what an open
  transaction has made at each place.
* `CountsAreVotes` (`CountIsVotes`): an open transaction's vote is not in `votes`
  yet, no two have the same, and so each commit adds one to both sides.
* `OneWriterKeeps` (`SavedIsKept`), for one writer: what is about to be renamed into
  place has everything that was saved. For two writers the property is false
  (section 7).
* `BatchesAreAtomic` (`PublishedTogether`): a transaction that commits has written its
  whole batch; those of a deadlock write nothing.
* `OneClientSeesAMap` (`ImplementsMap`), for one client: the refinement of
  `VectorMap` by `VectorStore`. Initial states map to initial states, and every
  step of the two tables is a call, an end or a return of the map, or a stutter
  (`MapStep`); the invariant is that the tables agree row by row and that what is
  about to be committed is what the operation promises. With two clients the
  rows an operation selected may be stale (`OwnVector`, `OnlyMatchingRemoved`,
  section 7).
* `NoPostIsSkipped` (`PagesMissNothing`): a post that is due has at least as many
  newer ones as the reader has skipped; insertions only add to them.

**The clients** (`ClientsProofs`).

* `NoLeaseIsKept` (`LeasesGivenBack`) and `WorkingBackendServes`
  (`ReliableIsNotBypassed`), of one invariant, for any
  configuration of backends and any number of calls.
* `EventsStayInOrder` (`OrderPerProducer`): what a subscriber was given, has queued
  and has coming from the loop's callbacks is ascending in each producer's numbers,
  and dropping the oldest keeps that.
* `AnswersAreTrue` (`DeliveriesAreTrue`): per try, what the inbox holds of it was
  signed by its actor with the key it had then.
* `IssuesAreWhole` (`FeedbackIsWhole`): labels are never removed, so ids found or
  made earlier are still of the names they are for when the issue is posted.
* `PacketsArriveInOrder` (`InOrder`, `NothingLeftBehind`): yielded and queued items
  are one sequence, `Items`, of which `get` moves the boundary and a listener extends
  the end; other radios' packets and the ends of connections do not touch the own
  ones. A lemma says of any sequence that appending a stranger keeps `Whole`, and
  appending the next own packet extends it by one.
* `ConnectionsSubscribe` (`EveryConnectionSubscribes`): a client that subscribes knows
  which patterns it has still to send, and these with `subs` are all it knew when
  it connected.
* `FailuresAreBounded` (`FailuresDisable`): the failures and the calls in flight
  together are bounded, and a call that begins finds the client available, so with
  fewer than `MaxFailures`. It is proved of the transitions of both instances.
* `ClientsAreSafe`: the bench keeps all of these.

**The services** (`MCServices`).

* `StopStops` (`StoppedMeansGone`) is an action property: of each service, besides
  what its PID file names and what a command is about to record, at most as many
  instances run as commands were killed; and while a stop waits or kills, the PID
  file names the process that it read.
* `KillsLeaveOrphans`, `AnswersAreOfTheModel` (`OrphansOnlyFromKills`,
  `AnsweredByItsModel`): the orphans are counted against the kills step by step, and
  a call that is sent knows the model of its server.
* `NeverBothRuntimes` (`OneRuntime`).
* `ServicesRunOnce` (`InstancesBounded`), from the same invariant as `StopStops`: an
  instance is the recorded one, the one about to be recorded, or a stray, and no
  two of the first kinds are there at once.
* `ModelsRunOnce` (`OneRunAtATime`, `UploadsLeaveNothing`), for any requests and any
  of the nine services: which request holds the loop, and that one which reads its
  file has passed the checks before the `await`. The pool and the executor have one
  thread each in this instance; neither of the two properties counts them.
* `ServicesAreSafe`: the bench keeps all of these.

### What stays with TLC

* All liveness: the fairness of `ImplementsFairTaskQueue`, `EveryCallEnds`, `ServicesProgress`,
  `ClientsProgress`, `EveryStartupCompletes`. The prover handles neither fairness
  nor `ENABLED`.
* The `majority` strategy of the crystallizer: its merge of steps is no run's own, so
  that neither run nor theorem states `DeterministicMeansApproved` of it; its part
  of `library` checks that nothing of the rest goes wrong beside it.
* Two writers of preferences and two clients of a vector file: their properties do
  not hold.

No module declares a `RECURSIVE` operator.

## 7. Where the code and its words differ

Five of these are checked by violation runs. The other properties are stated
in the modules, next to the model of the code they speak about. Each was
violated when it was put into the component's configuration; they are in no
run, so as not to spend a run on each. They are listed because a maintainer
should decide which side is right.

| Module, property | The code | The words |
|---|---|---|
| `SyncStore` WipedStaysWiped (run `sync_wipe`) | sync/store.py:171, check and write on two connections | sync/store.py:109 "Deletion is immediate and irrevocable." |
| `Migrations` AppliedIsComplete (run `migrations_prefix`, PrefixIsComplete) | db/migrations.py:120, no word boundary after the column | :105-106 "This is safe because SQLite already auto-committed that column addition" |
| `DocumentIngest` FallbackReads (run `ingest_fallback`) | documents/ingest.py:113 calls a method `LLMRouter` lacks | documents/ingest.py:5 "Fallback path: LLMRouter vision call" |
| `TaskDispatch` DispatchReturns (run `dispatch_reset`) | dispatch.py:137, joins the pool under the lock a dispatching runner waits for | :78 "Returns immediately with a task_id." |
| `LemmyClient` AddressIsPreferred (run `lemmy_address`) | activitypub/lemmy.py:124, `name@host` is looked for in an actor id of the form `https://host/c/name`, which never contains it | :119 "Prefer exact actor_id match (e.g. !cooking@lemmy.world)" |
| `LocalScheduler` ShutdownCancelsPending | scheduler.py:133, a worker whose join timed out goes on with the queue | docs/modules/tasks.md:21 "cancels pending tasks" |
| `LocalScheduler` OneTaskAtATime | scheduler.py:156, a worker per type | docs/modules/tasks.md:60 "sequential local execution" |
| `SchedulerSingleton` ResumedOnce | scheduler.py:253, each racing candidate resumes and starts the rows | docs/modules/tasks.md:17 "Returns the singleton scheduler" |
| `SchedulerSingleton` ReturnsScheduler | scheduler.py:259, the global is read again without the lock; a reset in between gives None | :225 "Return the process-level LocalScheduler singleton." |
| `TaskDispatch` ResetForgets | dispatch.py:134, the table is cleared before the pool is joined | :129 "Clear all registrations and status" |
| `MemoryClient` RetryPending | memory/client.py:266, the retry is cleared before a reconnect that may fail | docs/modules/memory.md:16 "automatic reconnect after transient failures" |
| `MemoryClient` DisabledReconnects | memory/client.py:274, a late success clears the retry of a disabled client | :36-37 "no-op until the cooldown elapses and a reconnect succeeds" |
| `MemoryClient` SuccessResets | memory/client.py:190, recall() leaves the retry time | docs/modules/memory.md:136 "Failure counter and retry timer reset" |
| `Migrations` AppliedIsComplete, same column in two tables | migrations.py:120, the pattern matches any table | :105-106, as above |
| `Migrations` NoRunnerRaises, 20 columns | migrations.py:90, no attempt left for the emptied script | :20-21 "silently skipped so the migration can complete" |
| `Migrations` SeedsOnce | migrations.py:37, an interrupted script starts again at its first statement | :4 "safe to call multiple times" |
| `SyncStore` PushTellsTheTruth | store.py:186, True whatever the upsert decided | :161-165 "Returns True if written, False if rejected." |
| `SignalBus` RemovedWhenDisconnected | bus.py:115, a generator closed before its first iteration runs no finally | :85-86 "removed automatically when the client disconnects" |
| `LLMRouter` NoLeaseAfterReturn | router.py:495, embed() may raise between allocation and try | :202 "Caller MUST call ctx.__exit__ ... in a finally block." |
| `LLMRouter` EmbedTriesAll | router.py:495, a missing model ends embed() with backends left | :464 "If all eligible backends are exhausted." |
| `LLMRouter` PullIsTheFix | router.py:169, the list of models is cached for the router's life | :179 "Fix: ollama pull {model}" |
| `NativeManager` SignalsItsOwn | native_mode.py:176, the fingerprint is never read | :13-14 "used to sanity-check that the PID belongs to our process" |
| `VllmSupervisor` NothingLeftBehind | vllm_subprocess.py:107, atexit does not run on a kill | :105-106 "cannot leave this vLLM child running" |
| `VllmSupervisor` WaitsForItsChild | vllm_subprocess.py:119, any server on the port answers the health check | :39-40 "waits for it to report healthy" |
| `Pipeline` MostRecentVerbatim (majority) | crystallizer.py:125, approved[-1] of a newest-first list is the oldest | :37 "falls back to most_recent otherwise" |
| `Pipeline` MissRaises | executor.py:134, returns a failed result | :65 "If False, raise RuntimeError" |
| `Pipeline` DeterministicMeansWorkflow | executor.py:136, True without a workflow | :32 "True if a crystallized workflow was used" |
| `Pipeline` WorkflowsCanBeLoaded | registry.py:48 and :61, calls that have a file open at once leave a shorter text with the tail of a longer one, which :78 skips | :44 "Persist *workflow*", :68 "Return all (including inactive) workflows" |
| `JobQuality` MissingCostsNothing | signals.py:88-94, a missing salary always triggers, so that the phrase at scorer.py:58 decides nothing and a salary found raises the score | scorer.py:34-35 "Signals that skip due to missing data always set triggered=False" |
| `Preferences` SavedIsKept, NoSetRaises with two writers | store.py:69-75, no lock and one temporary name | :44 "Thread-safe for typical single-process use" |
| `License` ValidForProduct | license.py:70, the product is not sent | :45 "for the given product" |
| `Meshtastic` RunsUntilCancelled, OwnPackets | serial_backend.py:160-189, the library's topics are global | interface.py:24 "Runs until cancelled."; serial_backend.py:3 "Connects directly to a Meshtastic node" |
| `MqttClient` MatchingHandlersCalled | router.py:40, matches() is not implemented and dispatch() swallows it | :65 "Call all handlers whose pattern matches" |
| `RecipeTags` OneTagPerUser | store.py:291, NULL subcategories are distinct to UNIQUE | :285 "if the same user has already tagged" |
| `RecipeTags` MissingTagIsValueError | store.py:326, the foreign key raises first | :321 "Raises ValueError if the tag does not exist." |
| `BGEReranker` NoCallLosesItsWeights | bge.py:77, tested without the lock and used later | base.py:35 "safe to construct once and call concurrently" |
| `BGEReranker` OneSingleton | reranker/\_\_init\_\_.py:72, test and assignment are two steps | :63 "Process-level singleton" |
| `Qwen3Reranker` PaddedLeft | qwen3.py:208, padding_side is shared and changed without the lock | :204 "Left-pad so the last token position is consistent" |
| `Qwen3Reranker` ScoresAreNumbers | qwen3.py:232, token ids read after the lock was released | base.py:97 "Return a score per candidate" |
| `TextStream` EveryCallEnds (transformers) | transformers.py:129, nothing ends the streamer when generate() raises | text/backends/base.py:77 "call concurrently" |
| `TextStream` OwnContext | llamacpp.py:198, calls on one Llama object are not serialised | text/backends/base.py:77, as above |
| `VectorStore` OwnVector | sqlite_vec.py:103, the row number is read before the transaction | base.py:30 "Insert or replace a vector and its metadata." |
| `VectorStore` OnlyMatchingRemoved | sqlite_vec.py:182, rows chosen before the transaction | base.py:47 "whose metadata matches" |
| `Multimodal` NeverBothResident | multimodal.py:176, no swap back before the next page | :54 "on 8GB GPUs" where both do not fit |
| `Multimodal` FailuresAreResults | multimodal.py:173, an exception without a message passes for success | :87 "Non-None if extraction or generation failed" |
| `Hardware` MatchesRouterSchema | hardware/generator.py, no backend has a "type", which llm/router.py:286 subscripts | hardware/models.py:45 "Matches the schema consumed by LLMRouter" |
| `Hardware` FailsAsDocumented | a null num_key_value_heads is a TypeError, an answer that is no JSON a JSONDecodeError | vram_estimate.py:151-153 "Raises" |
| `ProxyBackend` ChatIsSent | text/backends/ollama.py:119-135, `ChatMessage` objects are put into the JSON body, which cannot encode them | base.py:127 `messages: list[ChatMessage]` |
| `ManageMode` FallsBack | docker_mode.py:28-40, any return of `docker info` counts, so a stopped daemon means Docker mode | docs/modules/manage.md:31 "falls back to native mode if not" |
| `ManageMode` UsesWhatIsThere | docker_mode.py:21-22, `docker` is taken without a look for the plugin | docker_mode.py:5 "Falls back to `docker-compose` (v1 standalone) if the plugin is unavailable" |
| `ModelService` HealthWhileBusyEverywhere | vision, stt, tts and musicgen run the model on the event loop | vision/app.py:90 and stt/app.py:61, /health as in the text service |

Two statements of the new modules are not promised anywhere, and do not hold:
`Federation` HandledOnce (the inbox keeps no ids, so a delivery whose answer came
too late is handled again) and `Feedback` OneLabelPerName (overlapping
submissions, a refused list or a full first page make a label twice; an issue
whose answer was lost is filed though the user is told 500). That a 502 means
no issue (`FeedbackIsWhole`) rests on Forgejo's side: a gateway that answers 504
for an issue that was filed is told to the user as 502 too (feedback.py:176).

Noticed while reading, and stated by no property: `activitypub/signing.py` signs
the path with its query and `inbox.py:108` verifies the path without it, so that
a delivery to an inbox URL with a query is refused with 401 (a cause that
`DeliveriesAreTrue` names); of two products that run the first community
migration at once, one raises UniqueViolation, where `community/db.py` calls
itself idempotent, and comes up when started again (`EveryStartupCompletes`); a
consumer of the MQTT bridge waits for ever when its runner ended with the missing
import of aiomqtt, whose exception is seen only by who leaves; `stt/app.py:77`
drops a confidence threshold of 0.0 (`override or default`); the allergen filter of
`community/store.py:121` uses `&&`, which PostgreSQL does not have for jsonb, so
that the query fails where :105 promises an exclusion (`ListPosts` models the
failure); a task whose runner raises what is no `Exception` is reported as running
for ever (dispatch.py:102), which `EveryCallEnds` spells out; the video service can run its model in a pool thread and on the loop
at the same time.

## 8. Not modelled, and why

* **Data without control**: ActivityPub objects and actor documents, affiliate
  URLs, currency and accessibility preferences, platform OAuth URLs, tier tables,
  PDF text extraction, audio arithmetic, gesture coordinates.
* **One external call**: Cohere and remote reranker clients, the corrections
  router (an INSERT or a SELECT), the task bridge, the token request of eBay.
  Their concurrency is the server's or the database's.
* **Model libraries**: what happens inside a forward pass. It is one step that
  may fail or take for ever.
* **Stubs**: `pipeline/staging.py`, `wizard/`.
* **Inside modelled parts**: SQLCipher keys, SSE and OpenAI wire formats,
  logging, environment auto-configuration of the router, guest cookies and BYOK
  detection in `cloud_session`, cosine search, the payloads the MQTT bridge
  parses, the bytes of an HTTP signature (two are equal when the same strings were
  signed with one key), `open` and `install-shims` of `manage`; containers that a
  Docker daemon brings back when it comes; a role that is none of the three in a
  text request, which is a 500 (text/app.py:273, 299).
* **Assumed of the environment**: a write of a workflow's text is one system call
  (true up to the buffer's 8 kB); a native service is one process, so
  that children it starts for itself (`npm run`) are not seen; crashes are of
  processes, not of the machine, so that what was written stays.
* `packages/display`, `docker/` and `scripts/` hold no logic of the library.

External definitions in `PROJECT.json` (`external`) are what the code relies
on but does not contain: the broker, the radio library, model answers, the
process table, the clock.

## 9. Plan

Done in this order: scheduler and its abstract queue, migrations, sync, router
and memory client; then supervisors, pipeline, stores, streams and services;
then the community store, the proxy backends and the choice of a runtime; then
federation, feedback, the Lemmy client, the community's migrations, the MQTT
bridge, the reset of the dispatch table, and the text service over the vLLM
child it started.

Then the proofs of section 6.

No invariant that a run checks is without a theorem. Next would be modules for
`affiliates` (opt-out before any wrapping), the thresholds of `documents/pdf` and
the audio window.
