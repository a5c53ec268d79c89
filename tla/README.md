# A TLA+ model of the 5G IoT Edge Gateway

This directory holds TLA+ specifications of the gateway's Python services,
the TLC configurations that check them on small instances, and TLAPS proofs of
the results that matter most. Every definition that models code is listed in
`PROJECT.json` under `map` with the lines it stands for; a comment above every
property says which promise of the code it is about.

Contents: [the system](#the-system), [what is hard about it](#what-is-hard),
[the modules](#the-modules), [the runs](#the-runs), [fairness](#fairness),
[the proofs](#the-proofs), [where code and documentation
disagree](#where-code-and-documentation-disagree), [what is not
modelled](#what-is-not-modelled), [plan](#plan).

## The system

Devices send telemetry over MQTT, CoAP or HTTP to **data-ingestion**, which
appends each reading to the Redis stream `raw_telemetry`. Two consumer groups
read the stream independently: **data-persistence** stores readings in
PostgreSQL, **ml-inference** scores them and appends alerts to the stream
`alerts`. Around this pipeline stand services for coordinating several edge
nodes, for devices, models, analytics, scheduling and access.

| Component | State it keeps | Operations that change it | Interacts through | Right when |
|---|---|---|---|---|
| `shared` (RedisClient, TelemetryReading) | a connection pool | XADD with MAXLEN, XREADGROUP `>`, XACK, GET, SET (NX, EX), PUBLISH | Redis | the others are |
| data-ingestion | last-seen devices, reconnect delay | `process`, MQTT loop with backoff, CoAP and HTTP routes, stream monitor | MQTT broker; XADD to `raw_telemetry` | accepted readings reach the stream; backoff is bounded |
| data-persistence | `pending_ids`, `BatchWriter._buffer`, flush timer | read, buffer, flush, acknowledge, drain at shutdown | group `data_persistence`; one INSERT per flush | acknowledged readings are stored, once; a stop loses nothing |
| ml-inference, detector | one batch, the loaded model | read, score, pipeline of XADDs and XACK | group `ml_inference`; stream `alerts` | acknowledged anomalies are alerted, once |
| ml-inference, models | `model_dir`, the engine's four fields, the extractor's statistics | start, reload, download, hot swap | HTTP to the registry; disk | engine and statistics belong to one model; the service always starts again |
| ml-inference, features | per-device windows | `extract_row`, from the stream and from the HTTP route | shared extractor object | a faulty reading stands out from the median, a normal one does not |
| coordination, election | `_is_leader`; key `iot-gateway:leader` | acquire, renew, release, loop, shutdown | Redis key with a time to live | one acting leader; somebody leads |
| coordination, config | `_local_config`; value and version keys | `set_config`, initial sync, subscription, SyncConfig | Redis keys, Pub/Sub, gRPC | versions never go back; caches converge |
| coordination, membership | `ClusterState` | join, leave, heartbeat, timeouts, gossip | gRPC, Pub/Sub | the living are not declared dead, the dead are found |
| coordination, firmware rollout | per-node target version, events | rolling and canary update, health wait, rollback | ClusterState, Redis | a failed node stops the rollout and is rolled back |
| coordination, version vectors | one counter per node | increment, merge, compare | none yet | a partial order with merge as its join |
| batch-analytics | jobs and results in memory | submit, run in a thread, cancel | thread pool, Spark | completed jobs have results, cancelled ones have none; every job ends |
| ml-training | jobs, cancelled set, experiments | start, load, train in a thread, cancel, export | thread pool, PostgreSQL, disk | every job ends; its experiment agrees |
| device-manager | devices, provisioning requests, firmware (PostgreSQL) | create, update, decommission, request, approve, roll out | transactions, then XADD to `device_events` | decommissioned devices stay so; events follow commits |
| scheduler | resource reports, task queue, placements, an average latency | report, submit, enqueue and drain, adapt | HTTP; scheduling loop | tasks go where there is room by a fresh report; every queued task is placed |
| middleware | request counters, API keys (Redis) | rate limit, authenticate, create and revoke keys, proxy | Redis, HTTP | limits hold; a revoked key fails, an issued one can be revoked |
| cloud-api | telemetry, models (PostgreSQL) | store batches and streams, page, register and delete models | SQL, gRPC stream | what was accepted is stored; pages miss nothing; the latest model is not superseded |
| dashboard | stream cursors per browser, one blocked event loop | live feed, stack commands | XREVRANGE, docker | an entry is shown once and in order; a command that succeeds did what it says |
| simulator | fleets of devices | make readings, normal and faulty; publish them | MQTT, REST, CoAP | a device's readings arrive in its order |
| deploy, docker-compose, monitoring, proto, mqtt-broker | none | configuration | none | replica counts and restart policies match the assumptions below |

`docker-compose.yml` starts Redis, PostgreSQL, the broker, data-ingestion,
data-persistence, ml-inference, the dashboard and the simulator.
`deploy/k3s` runs data-persistence with two replicas under the *same*
`consumer_name`; the models therefore have two workers.

## What is hard

* **Several processes, one group.** Replicas share a consumer group's cursor
  and pending list; nothing but the server keeps them apart.
* **Acknowledgement after the fact.** Storing and acknowledging are two
  systems; anything can fail between them, with or without an effect.
* **Commands that come in pairs.** SET NX then GET then SET EX; GET then
  DELETE; INCR then SET; GET value then GET version. Other nodes run in between.
* **State read before an await and used after it.** Gossip targets, the
  registry's answer, `is_leader`.
* **Objects assigned field by field.** `load_model` with a raising lookup in
  between; engine and statistics in two objects.
* **Time.** A lock's time to live against retry loops; heartbeats against two
  thresholds.
* **Threads beside the event loop.** Executor threads write the status that
  the loop checks and cancels.
* **Rows read in one transaction and written in another.** Device updates,
  approvals and registrations at READ COMMITTED.
* **Cursors over what moves.** The feed over a stream that is trimmed, pages
  over a table that grows.
* **Restarts.** What is on disk decides what the next process does; what was
  in memory is gone while Redis still counts it as delivered.

`PROJECT.json` lists each at its line under `hazards`, with the properties
that would catch it.

## The modules

    RedisStream  <-  ConsumerGroup  <-  StreamToPostgres
         ^                 ^                implements ReadingLifecycle
         |                 +-----------  AnomalyDetector
         +--  Ingestion, Dashboard
    Sensors  <-  Features

and, by themselves, ModelSwap, LeaderElection, ConfigSync, Membership,
VersionVector, OTARollout, CloudStore, DeviceManager, Scheduler and Gateway, and
BatchJobs and TrainingJobs, which both implement JobLifecycle. The theorems are in

| proofs | about |
|---|---|
| `StreamToPostgres_proofs` | StreamToPostgres, RedisStream, ConsumerGroup |
| `Inference_proofs` | AnomalyDetector, ModelSwap, Features, Sensors |
| `LeaderElection_proofs` | LeaderElection |
| `Coordination_proofs` | VersionVector, ConfigSync, Membership |
| `JobLifecycle_proofs` | JobLifecycle |
| `Services_proofs` | BatchJobs, TrainingJobs, OTARollout, CloudStore, Scheduler |
| `DeviceManager_proofs` | DeviceManager |
| `Edge_proofs` | Gateway, Ingestion, Dashboard |

| composition | of | run |
|---|---|---|
| `MCStreamToPostgres` | StreamToPostgres | `persist_*` |
| `MCInference` | AnomalyDetector, ModelSwap, Features | `inference` |
| `MCCoordination` | LeaderElection, ConfigSync, Membership, VersionVector | `coordination` |
| `MCDeviceManager` | DeviceManager | `devices` |
| `MCServices` | BatchJobs, TrainingJobs, CloudStore, OTARollout, Scheduler | `services` |
| `MCEdge` | Gateway, Ingestion, Dashboard | `edge` |
| `MCModelSwap`, `MCLeaderElection`, `MCAdaptive` | one module and one scenario | violations |

An MC module gives its modules model values, symmetry sets and scenarios.

**Parts.** The modules of one MC composition share no state in the code (the
composition's comment says why), so their product would only multiply their
state spaces. A rigid variable (`part`, `service`) chooses at the start the one
a behaviour exercises; the others stay in one initial state. The component's
own specification is what the proofs are about; the composition is its
behaviours, one part at a time, under the same fairness.

**Scenarios.** What may go wrong is a constant, a set of sets of disruptions
(`Scenarios`, `GatewayScenarios`, ...). A behaviour picks one of them at the
start (a rigid variable `faults`, `gatewayFaults`, ...), and an action that
stands for a disruption has it in its guard. One run thus covers everything at
once as well as the milder environments that conditional properties speak of:
`faults \subseteq {...} => P` says under which disruptions the code keeps P, and
the property's comment says what breaks it. The proofs hold for every value.

**Faults as operators.** Next to a definition, an operator named after it and
after what is wrong states a plausible mistake in the code it models. No
specification uses these; each is the evidence that the property named with it
in `PROJECT.json` (`mutants`) would notice.

### RedisStream, ConsumerGroup

The server as `RedisClient` uses it. An entry is its rank in the stream, so
the stream is the interval `trimmed+1 .. added`. `StreamAdd` lets "approximate"
trimming stop anywhere up to the exact point. `Deliver` is XREADGROUP with `>`:
it moves entries to the pending list whether or not the reply arrives. `Ack` is
XACK. `acked` is history: what has left the pending list.

`EvictStream` is what `allkeys-lru` may do to any key: the stream goes, and with it
the consumer group (`group`). A producer's next XADD creates the stream again;
groups are created by `ensure_consumer_group` only (`EnsureGroup`), which runs at
the start of a consumer and, for all three groups, at that of data-ingestion. Until
then every read is answered NOGROUP. A group created again begins at ID 0 of a
stream that holds nothing delivered before, which is why the cursor
`lastDelivered`, a position among all entries ever added, may stay.

### StreamToPostgres (data-persistence)

State: `pc`, `batch`, `buffer`, `pending`, `due` (the flush interval has
elapsed) and `shutdown` of each worker; `rows` of the table. An action is the
code between two awaits:

| action | code |
|---|---|
| `ReadBatch`, `ReadNothing`, `ReadReplyLost` | XREADGROUP returns, times out, or took effect and raised |
| `Accumulate` | one entry parses: a row with a fresh uuid is buffered, its id is pending |
| `DiscardMalformed`, `DiscardFails` | XACK of an entry that does not parse; its exception abandons the batch |
| `Decide` | `should_flush` |
| `FlushCommits`, `FlushFails` | INSERT and COMMIT: done; refused; done but the reply lost |
| `AckFlushed`, `AckFails` | XACK of `pending_ids`: likewise |
| `LeaveLoop` | the loop ends; the final flush reuses the flush and ack phases as `final_*` |
| `ReadRefused` | NOGROUP: the group went with an evicted stream |
| `SignalShutdown`, `Crash`, `Restart`, `IntervalElapses`, `Evict`, `IngestionStarts` | the environment |

A row's id is drawn when it is buffered (`nextId` stands for uuid4), which is
what makes a repeated INSERT collide instead of storing a reading twice.
`MaxInsertRows` is the driver's limit on bound parameters.

While the group is gone (`Evict` until `Restart` or `IngestionStarts`) a worker does
not even flush: the `except` around the loop body comes before the flush timer, so
what is buffered waits for the group, or for a stop.

`ReadingLifecycle` is the abstract promise: a reading goes absent, queued,
delivered, stored, acknowledged; or is discarded from delivered, or trimmed
from queued; and nothing else. `StatusOf` is the refinement mapping.

### AnomalyDetector, ModelSwap, Features, Sensors (ml-inference, simulator)

*AnomalyDetector*: the same group operators, a different client. The whole batch
is scored without an await, the pipeline's commands are executed one by one by
the server, and the connection may break after any prefix. Which readings are
anomalous is a nondeterministic choice, recorded in `flagged`. Shutdown cancels
the task and is, for the batch in hand, a crash. The group may be evicted here,
too, with what is in hand still scored, alerted and acknowledged.

*ModelSwap*: a model is its version number; `kind` says what its files are like.
The engine is a record of four fields, each holding the version it came from,
because `load_model` assigns them one after the other and may raise in between.
A reload request is three steps (registry, sidecar, ONNX file and swap), and two
requests may overlap. The disk survives crashes, including a file cut off in
the middle of `f.write`. The registry is cloud-api's table of models: versions are
numbered as they are registered (`Publish`), a deletion deactivates one for good
(`Withdraw`), and the latest is the last registered that is active (`Latest`); with
none, as with any failure to answer, a reload reports "unchanged". That the same
version string is registered twice, and would share a file name, is left out.

*Sensors* is what the simulator's devices report of their main quantity: normal
values, and the anomalies with what they leave behind in the device (spikes,
drifts and stuck values stay in the temperature, which the next one starts
from). Noise and the daily
cycle are a choice among a few normal values, anomalies are of the least
magnitude they can have.

*Features* is what the extractor makes of it: one window per device, shared by
the stream consumer and the prediction routes; the median of what is in it, the
normalised deviation and its clipping, in halves because a median may be one. A
batch whose scoring raises has left its readings in the windows; so has a
prediction.

### LeaderElection, ConfigSync, Membership, VersionVector (coordination)

*LeaderElection*: every command is a step on the server, every reply a step on
the node. Time is discrete: `Tick` passes for all and waits for what is due, so
`MaxDelay` bounds a command or reply under way. The code has no such bound; the
runs and theorems say for which values they hold. `failures` counts attempts in
a row that raised. A restarted node draws a new node id, so restarts are new
nodes. The shutdown sequence follows `main()`: `release()` first, cancellation
of the loop afterwards.

*ConfigSync*: one key; a value is named by the version of the write it belongs
to, so an entry is genuine when both numbers agree. `set_config` is four
commands, `sync_from_leader` two GETs per key, then the subscription.

*Membership*: one node's `ClusterState` of its peers: the RPC handlers, the ping
listener, the timeout check and the gossip round, which marks peers one by one
between awaits. `silent` counts ticks since `last_heartbeat`, up to the point
beyond which nothing changes. The cluster version is kept modulo the number of
peers plus one. Only a peer itself sends its heartbeats; they may be late.

*VersionVector*: a vector is a partial function, as the dict is; the system
around it (nodes that count updates, publish copies and merge what others
published, late or twice) is the one the docstrings describe. `heard` is the
causal history the vectors are compared with.

The gRPC server registers none of the servicers, and nothing calls
`set_redis`, `set_config`, `set_leader`, `remove_node`, the version vectors or
the OTA coordinator: these modules say what the classes do when they are used
as their docstrings say.

### OTARollout (coordination)

A rollout is a coroutine: SET the target version of the node in hand
(`UpdateNode`), poll the cluster state until the node is ALIVE or time is up
(`PollHealth`), go on, or delete the target and stop (`Rollback`). A canary
watches its first node twice. Membership enters as the set `alive`, which may
change between any two polls. Rollouts may overlap, commands may raise, the
coordinator may stop.

### BatchJobs, TrainingJobs (batch-analytics, ml-training)

The event loop submits and cancels, an executor thread works; each read and
each write of a status is a step, because nothing locks it. In *BatchJobs* the
pool has `PoolSize` threads and a job waits for one; the Spark computation
returns or raises. In *TrainingJobs* a task loads the data, then hands over to a
thread; the epochs, the metrics, the model and the experiment record are
written one after the other, and the cancellation has its own two writes.
`SplitSizes` is the split of rows into training and validation, with its edges.

*JobLifecycle* is what the two have in common, and what a client of either API
may rely on: a job's worker begins once and ends once, leaves its output (the
result, the model) before its verdict "completed", gives up without one only if
the job was cancelled, and a cancel request is a look at the record and, later,
a mark. It does not say that a cancelled job is never begun or that its record
stays "cancelled": neither engine keeps that. `WorkerOfJob` and
`WorkerOfTraining` with the INSTANCEs behind them are the refinement mappings;
the task and the thread of a training are one worker, and the status of its
experiment is not part of the lifecycle.

### CloudStore (cloud-api)

`StoreBatch` is one INSERT and COMMIT per message, over HTTP or as a message of
a gRPC stream; a sender without an answer sends again. A client pages by offset
over rows sorted by time, newest first (`CountRows`, `ReadPage`), while rows
arrive anywhere in that order. A registration takes its creation time when it
begins and commits later.

### DeviceManager (device-manager)

An HTTP call is its reads, each an await, and one statement with its COMMIT;
others slip in between. Approval locks the request's row. Writes are followed
by XADD to `device_events`, which may fail after the commit. The gauge of active
devices counts only upwards, as in the code. A rollout has an id of its own: its
record is SET in Redis for a day (`StoreRollout`, `ExpireRollout`) and announced
afterwards (`Announce`), and either command may take effect and lose its reply. The
event outlives the record: who reads it after that day is answered 404.

### Scheduler (scheduler)

Reports have an age; the three policies are operators on the fresh reports, in
units of 1/10000 of a score; a task is placed in its request (`SubmitTask`) or by the
queue's loop (`EnqueueTask`, `DrainQueue`). Clients may choose the task id and use it
again, queued or placed: the new placement overwrites the old one. The loop runs, but
nothing in the repository calls `enqueue_task`. `trend` is the class of the adaptive
policy's average, fed by latencies of edge inferences only.

### Gateway (middleware)

A request passes lookup, INCR, EXPIRE, the handler, and a second time the
handler when the rate limiter's `except` clause calls `call_next` again; every
Redis command may fail before or after it has taken effect. Counters live in
the window they are named after and may outlive it. An admin creates a key in
two SETs and deletes it in two DELETEs.

### Ingestion (data-ingestion, simulator)

The fleet publishes a cycle of readings over one transport: MQTT with QoS 1 to
the broker and QoS 0 from there, REST or CoAP with their timeouts. The
subscriber connects, handles one message at a time, sleeps with a doubled delay
after each lost connection. `Process` is the validation of a reading and its
XADD; `Start` creates the three groups before anything is accepted.

### Dashboard (dashboard)

A page's connection has a cursor; each tick reads at most `FeedCount` of the
newest entries and sends those beyond the cursor, one by one, while entries are
added and trimmed and the stream is evicted. Stack commands run `subprocess.run` on the event loop, so
nothing else of the dashboard moves while one runs.

## The runs

| run | instance | shows |
|---|---|---|
| `persist_safety` | 2 workers, 3 readings, batches of 2; everything at once, evictions with crashes and lost replies, flush failures, orderly stops | acknowledged readings are stored; no two rows for one reading; pending ids and buffers agree and replicas hold different readings; flush failures and stops leave nothing behind; refinement of ReadingLifecycle |
| `persist_settled` | 2 workers, 2 readings, fair; outages of PostgreSQL; failing XACKs; crashes with evictions | delivered readings are settled, buffered ones stored, after outages end; queued ones are read if workers are restarted now and then |
| `persist_not_redelivered` | 1 worker, crashes | **violated**: unacknowledged messages "will be redelivered" |
| `persist_poisoned_buffer` | 1 worker, lost commit replies | **violated**: the buffer is "retried on the next flush cycle" |
| `inference` | 2 detectors, 3 readings, evictions with crashes and with nothing else; 2 reloads, 3 versions, every file kind per version; 1 device of each type, 5 readings, windows of 3 | alerts are exact and come; one whole model is in use, a reload brings an older one only for one that was withdrawn, and the service comes back; deviations tell faults |
| `swap_crash_loop` | 1 request, models ONNX Runtime rejects, crashes | **violated**: a rejected model stops the service for good at its next start |
| `coordination` | 2 nodes, time to live 11; 2 replicas, 2 calls, 3 writes; 2 peers; 2 vectors, 3 updates each | one acting leader, no stolen lock, a leader again; genuine caches that never go back and converge; no false deaths, legal status moves, crashes found; vectors capture causality |
| `elect_reacquired` | 2 nodes, orderly shutdown only | **violated**: a stopped node holds no lock |
| `devices` | 2 calls, about 2 devices and 2 provisioning requests or about 2 firmware versions and 2 rollouts; overlap, crashes, Redis failures | approval changes request and device together; announced rollouts were recorded, and of versions in the catalog once; what the checks guarantee without overlap; who revives a decommissioned device |
| `services` | 2 jobs on 1 thread; a training of 0, 1 or 3 epochs and rows; 3 readings of 2 senders, pages of 2, 3 models; 2 nodes, 2 rollouts, 1 poll; 1 task id used again and again, 2 nodes | cancelled jobs yield nothing, completed ones a result; both engines implement JobLifecycle; accepted readings are stored and pages miss none; at most one unproven node; placements have room; everything ends |
| `adaptive_shifted` | 1 idle node, 1 task | **violated**: the adaptive policy shifts to the cloud "until conditions improve" |
| `edge` | 2 requests, a key and a token of one user, 2 windows; 2 devices, 2 cycles, each transport; feed of 2 over a stream of 3, 2 stack commands | limits hold, refused requests reach no handler, keys agree; accepted readings are in the stream, in a device's order; the feed is faithful; requests, readings and the feed get through |

Bounds, each a constant or named as a bound in its module: `MaxEntries`
readings, `MaxVersion` model versions, `MaxWrites` config writes, `MaxUpdates`,
`MaxFailures` consecutive failed attempts, `MaxCycles`, `MaxOutages`,
`MaxDuplicates`, `MaxConnections`, `MaxWindow`, `MaxPolls`, `MaxChanges`,
`MaxModels`, `MaxTries`, `MaxGauge`, `MaxReadings`, `Slots`, `RolloutIds`, and the sizes of the
sets of processes. Why they are enough:

* Two replicas are the least that interfere and what is deployed; three readings
  with batches of two give a full and a partial batch, a retry of both, and
  trimming under the reader (`StreamMaxLen` 2).
* `Ttl = 11` is the smallest for which
  `(MaxFailures + 1) * (Interval + 4 * MaxDelay) < Ttl` with the others 1. The
  deployed values (15 s, 2 s) satisfy it if at most one attempt in a row fails
  and a command or reply takes at most one second.
* `MaxVersion = 3` gives the baked model and two published ones, so that two
  overlapping reloads may fetch different versions, and so that a withdrawal of
  the third makes the second, not yet downloaded, the latest again. Versions are
  withdrawn where reloads do not overlap, with good and rejected files.
* One task id suffices for the scheduler: ids do not influence one another, and
  one is submitted and queued any number of times. The policies are checked for
  all twelve requests, two of which are submitted.
* Two rollouts of one firmware version are the least that a record per version
  would confuse.
* In `devices` the calls of a behaviour are about devices or about firmware: the two
  share no table, and the theorems are about both at once.
* Windows of 3 with 2 values of history reach a full window that slides, an odd
  and an even median, and a window that is mostly faulty.
* A pool of one thread makes the second job wait, which is when cancellation
  goes wrong; counts {0, 1, 3} are the edges of the split and of the epoch loop.
* Loads at and just above 85 and 90 are the policies' limits; the limits of a
  request lie below, between and above the latencies.
* Two windows and a key and a token of one user let a counter outlive its
  window and be shared; a feed of 2 over a stream of 3 is both outrun and
  trimmed under.

Symmetry is used only in runs without liveness properties
(`persist_safety`, `devices`). Deadlock is checked where the system runs for
ever; `services`, `edge` and `devices` may stop when all requests are
answered, and their configurations say so.

## Fairness

* The event loop runs a coroutine to its next await, and every await ends with
  a result or an exception: weak fairness of a process's steps *and failures
  together*, so that a failure may always be the outcome (`DetectFairness`,
  `ConfigFairness`, `OtaFairness`, `GatewayProgress`,
  `IngestProgress`, `DashboardProgress`).
* Where a property says that outages end (`persist_settled`), the successful
  outcome of an operation tried for ever gets strong fairness.
* Executor threads run: weak fairness of a thread's steps (`BatchFairness`,
  `TrainFairness`). A cancel request that has passed its check goes on.
* The scheduling loop polls its queue: `SchedulerFairness`. In
  `adaptive_shifted` nodes also go on reporting and tasks go on coming.
* Timers expire: weak fairness of `Tick` and `IntervalElapses`; in `Membership`
  strong fairness of `TimePasses`, whose guard (no running peer is overdue with
  its heartbeat) a peer that keeps crashing and returning would otherwise use to
  stop the clock.
* Crashed processes are restarted (`restart: unless-stopped`): weak fairness of
  `Restart` in `StreamToPostgres` and of `Start` in `ModelSwap`. That anything
  that creates a group starts after an eviction is nobody's duty: `RestartsReadOn`
  supposes it, and `IngestionStarts` has no fairness.
* Nobody is obliged to send telemetry, request a reload, submit a job, write a
  configuration, press a button, join, leave, crash or shut down.

## The proofs

Eight modules of theorems, checked by TLAPS for every value of the constants
that satisfies the named assumptions of the modules they extend. Every safety
invariant and every action property of a passing run is a theorem; TLC has
checked it, and the inductive invariant behind it, on small instances first. The
theorems speak of the component's specification without its fairness where they
need none. A hypothesis a theorem adds is a condition the code depends on; they
are five, and each names the values deployed:

| hypothesis | of | deployed |
|---|---|---|
| `Timely` | election | 15 s against 2 s; no timeouts on commands, so not guaranteed |
| `2 * BatchSize - 1 <= MaxInsertRows` | nothing is left behind | 199 of 5461 rows |
| `HeartbeatEvery <= 2 * Timeout` | no false death | 2 s, 10 s |
| `CheckEvery <= Timeout` | suspected before dead | 2 s, 10 s |
| `NoReset` | whole approvals | not guaranteed: the API takes a PUT of "registered" |

**StreamToPostgres.** `Spec => []IInv` for any number of workers and readings,
any batch size, any row limit and any scenarios, evictions included. Neither `AckedIsStored` nor
`NoDuplicateRows` is inductive. What is missing is why a worker that is about
to acknowledge may do so, and why a retried INSERT cannot slip through:

* `GroupInv`: what was delivered is pending or acknowledged and never both, so
  the next delivery brings entries nobody has seen;
* `BatchInv`: what a worker has yet to look at is pending, unstored and not in
  its `pending_ids`; `DeliveredInv`: only delivered entries that parse are held
  or stored;
* `FlushedInv`: in the phases after a commit the buffer is empty, so with
  `PendingIsBufferedOrStored` everything the XACK covers is stored;
* `ExclusiveHolders`: what two workers hold is disjoint;
* `RowsInv`: an entry has one row, counting those a worker has in its buffer: a
  repeated INSERT brings the same row and collides, never another one.

From it: `TypeCorrect`, `AckedReadingsAreStored`, `RowsAreUnique`,
`HoldingsAreConsistent`, and `WorkersImplementLifecycle`, the refinement: each
action moves each reading along one edge of `Moves` or leaves it.

`NothingStaysBehind` needs more, `LeftBehindInv`: everything pending is in
somebody's hands (`InHandsInv`), which an ordinary stop keeps only because its
final flush succeeds. It does if the row ids are new (`IdsInv`: an id is drawn
once, by one worker, and a committed row has left the buffer) and if the buffer
fits into one INSERT. `FitsInv` counts: a flush begins with at most `BatchSize - 1`
rows left over and one batch on top, which is where the hypothesis comes from.

**AnomalyDetector.** `DetectInv` says of a detector's batch what its phase
promises: `FreshInv` (what was not delivered is neither flagged nor alerted),
`BatchInv` (batches are pending and disjoint), `ScoreInv` and `PublishInv` (the
commands still to be executed are exactly the alerts that are missing, the XACK
behind them). From it `AlertsAlwaysExact`: a second alert would need a second
delivery, and an eviction brings none (`EvictionPreservesDetectInv`).

**ModelSwap.** `SwapInv`: `PublishedInv` (what a request or the disk holds was
published), `EngineInv` (the fields of the engine and the statistics), `OrderInv` (unless
another overlaps, a request in progress is for a version that is not on disk, nor
older than the session, if that is still active). A version published later cannot
be in use yet, so that a session once withdrawn stays so. From it `OneModelAlways`
and, as an action property, `ReloadsAlwaysMoveOn`.

**Features.** `DeviationsAlwaysTell` rests on a fact about medians that the code's
comment takes for granted ("the median keeps a single spike from polluting the
next readings"): the k-th smallest of a window is at least `low` if fewer than k
of its values lie below, and likewise above (`RankedIsInside`). With less than
half of a window faulty, both middle ranks lie in the normal range
(`MedianIsInside`), and the bounds of the deviation, clipping included, are
arithmetic (`DeviationBounds`). `FeatureInv` carries it to the system: each
extractor's window is the tail of all the device gave it, whatever raised
afterwards, and each row was computed from the window before it.

**LeaderElection.** `ElectSpec => []IInv` under `Timely`, for any number of nodes,
with failing attempts, crashes and orderly shutdowns. `OneLeader` cannot be
proved by saying that a leader owns the lock: a node that has released it may
still have a SET EX under way, which overwrites the lock of its successor while
that goes on believing. What holds is about claims. A node `Claims` the lock while it
acts as leader, owns it, or is about to renew or delete it; one that has deleted
it claims nothing, whatever its loop still does. `ClaimInv` says that one node at
most claims, and that the time `left` on the lock, whosever name is in it,
exceeds what is `Due` at that node: its next SET EX or the end of its belief
(`Slack`, in terms of where its loop is and how many attempts have failed in a
row), or its DELETE (`StopSlack`). A tick takes one from both sides, any SET EX
restores `Ttl`, `Timely` makes the sum fit, and so nobody can find the lock free, or
delete it, while another claims it. From it: `TypeCorrect` and `LeaderIsUnique`.
Where nobody shuts down, `BeliefInv` adds that believers own the lock:
`BelieversHoldTheLock`, `LockIsNeverStolen`. `Timely` is an assumption of the theorems,
not a fact about the code: the client sets no timeouts. With orderly shutdowns
`NeverSteals` is false (`elect_reacquired`).

**VersionVector.** `DominanceIsStrictOrder`, `ExactlyOneRelation` and
`MergeIsLeastUpperBound` are about the operators, for all vectors over any nodes,
with different keys in their dicts. `VectorsAreCausal` is about the system: each
counter is the number of that node's updates heard of, from which all three
comparisons follow.

**ConfigSync.** `CachesAlwaysSound`. `EntriesInv`: no version in a cache or a
message is ahead of the counter, and where nodes do not start during writes each
is that of its value. `WritersInv`: where writes do not overlap, the one under
way has the counter's version, so that the unconditional assignment to the
writer's own cache cannot take it back.

**Membership.** `HeardInv`: a running peer that is known was heard of within
`HeartbeatEvery`; gossip may suspect it but only silence kills it, which gives
`DeathsAlwaysTrue`. `AliveInv`: who is ALIVE has been silent for at most `Timeout`
plus the time since the last check, so the checker meets it as suspect first:
`MovesAlwaysLegal`, which also rests on `KnownInv`, since a gossip round writes
to peers it chose before an await.

**BatchJobs.** `ResultsAndVerdictsMatch`, for any pool and any jobs. `BatchInv`
ties the status to where the thread is: "completed" only from behind the store,
and a cancellation marked before the thread reads the status is what it reads.
`BatchJobsAlwaysBehave` adds the refinement of JobLifecycle, action by action
(`BatchStepInLifecycle`): the thread gives up only on a job that was marked and
has no result, which is a conjunct of `BatchInv`.

**JobLifecycle.** `RecordsAlwaysTrue` and `EndsAreFinal` are about the abstract
specification, and so about every engine that implements it.

**TrainingJobs.** `TrainingAlwaysReported`. A job's invariant has one part per
writer: `EpochsInv` (what the thread has counted at each of its places),
`MarkedInv` (a cancellation shows in all places at once, and no more than the
epoch in hand follows), `VerdictInv` (a verdict is the thread's last place).
`TrainingJobsAlwaysBehave` is the refinement of JobLifecycle. Every action
changes one record, so the mapping is taken record by record
(`LifecycleOfOthers`, `LifecycleSets`): an action is a step of the worker, a step of
the loop, or leaves alone what JobLifecycle sees (`UnseenChange`). That a failed
training has no model is the part of `EpochsInv` that says where one exists.

**OTARollout.** `RolloutsAlwaysSafe`. The node in hand is `First(todo)`, and
`CarriersInv` says that a node with the rollout's version is that one or was
found healthy, at each place of the coroutine: what a failed SET or DELETE
leaves is why it speaks of `raised` and of `otaFaults`. `KeptInv`: a version is
overwritten only by another rollout.

**CloudStore.** `CloudAnswersAlwaysTrue`. `StoredInv` is about a sender that tries
again after a lost answer. `PagingInv` is the argument for offset paging: a row
that the client has yet to see has at least `offset` newer ones, and rows that
arrive meanwhile only add to them, so the next page cannot begin beyond it. It
needs that times differ, and "ties" is the disruption that breaks it. That the
page read is the next `Limit` of the sorted rows enters through counting
arguments on finite sets, since sorting is not computed. `CloudAssumption` says that
each reading has one sender.

**Scheduler.** `PlacementsAlwaysJustified` bounds the three policies' scores for
all loads and limits. Where a node has room, latency-first gives it 8000, or
9000 if it is the one that asks; the balanced policy can give the cloud at most
7200 for a small task and 8800 for a large one (`CloudScoreBounds`), and
cost-aware sends small tasks to a node and gives the cloud 5500 for large ones.
So the cloud wins only a large task whose own node has no room. `PlacementInv`
says that reports are of loads and what is queued is a request; the theorem is
about every placement, also that of an id used before.

**Gateway.** `KeysAlwaysAgree`: `KeysInv` says which of a key's two entries exist
at each stage of the admin's request, with a failed command of unknown effect.
`ForwardsAlwaysBounded`: `RequestsInv` relates how often the handler ran and
raised to the place of the request and whether this is the retry.
`LimitAlwaysKept` is a counting argument: `Taken(c)` are the requests that hold a
place in the current window, those past INCR included, and the counter is never
below their number (`CountInv`), though it may be shared with another
credential, outlive its window or count requests that failed.

**Ingestion.** `IngestInv`: the copies of a reading in the stream and in the
subscriber's inbox together are at most the times it was handed over, with what
an answer says of them. `OrderInv`: of two readings of a device, the copies of the
earlier lie ahead of those of the later in stream and inbox, and none is left in
the inbox when the later is in the stream. From them `AcceptedAlwaysInStream`
and `DeviceOrderAlwaysKept`, for any fleet, each transport, and connections and
processes that end anywhere. `IngestionOnlyAdds` joins the service to its
consumers: with its other state hidden, what it does to the stream is
`StreamAdd(FALSE)`, which is how it appears in StreamToPostgres, AnomalyDetector and
under the dashboard.

**Dashboard.** The theorems are about `DashboardOnStream`, where anyone may append
to the stream, or have it evicted, between any two steps. `FeedInv`: what was shown increases and lies
below the batch in hand, which increases and ends at the cursor. `CommandInv`: one
command has the event loop, and when only the monitors are left to do its answer
is that of the compose command. From them `FeedAlwaysFaithful` and
`StackAnswersAlwaysTrue`.

**DeviceManager.** `DeviceInv`: `TableTypeOK`, `RequestInv` (the device of an
approved request has left "registered" unless a PUT may bring it back), `RolloutInv` (an announced rollout is
`Recorded`, though its record may have expired, and the version of a recorded one has one row in
the catalog), `CallGrounded` (what a call has read and
still relies on is true of the tables whatever others have done since). From it
`ApprovalsAreWhole` and `AnnouncementsAreRecorded`. `SequenceInv` adds what holds
where calls do not overlap: at most one is in progress, at most one request per
device is pending, what a call has read is `StillTrue`, and the gauge lags by the
PUT that has yet to count (`GaugeInv`). From it `ChecksAlwaysSuffice` and
`OnlyApprovalsEverRevive`. A PUT may ask for any status; only `ApprovalsAreWhole`
is for those that never ask for "registered" (`NoReset`).

**Only model-checked.**

* All liveness, since TLAPS does not reason about fairness and ENABLED here:
  the properties of `persist_settled`, `GoodModelsComeBack`, `LeadersAreReplaced`,
  `EventuallyConverged`, `DetectionIsRight`, `DeliveredIsEventuallyHandled`,
  `EverythingEnds`, `EdgeAnswers`.
* The five violations: a counterexample is what they show.

## Where code and documentation disagree

With a run (`findings`):

1. `stream_to_postgres.py:49` promises redelivery; nothing reads the pending list.
2. `stream_to_postgres.py:139` promises a retry that cannot succeed after an
   ambiguous commit.
3. `model_manager.py:93` keeps the old model active only until the next restart.
4. `coordination/main.py:231` releases the lock, and the loop may take it again.
5. `adaptive_scheduler.py:37` shifts tasks to the cloud "until conditions
   improve", but only edge inferences feed the average it looks at.

Found while modelling, without a run of their own; the properties named exclude
exactly the scenario in question.

The pipeline:

* `stream_to_postgres.py:107`: a failing XACK of one malformed entry abandons the
  rest of its batch. `:112`, `:152`: entries whose rows are stored but whose
  XACK failed wait for the next flush and are forgotten by a stop. `:120`: beyond
  5461 buffered rows the INSERT exceeds the driver's parameter limit for ever.
* `stream_to_postgres.py:79`, `anomaly_detector.py:66`: after an eviction of the
  stream consumers that keep running read nothing, and workers flush nothing,
  until some service that creates the group is started (`NothingGetsStuck` asks
  for restarts).
* `anomaly_detector.py:125-142`: one refused XADD loses its alert, since the
  XACK behind it is executed (`AlertsAreExact`).
* `inference_engine.py:64`: a sidecar without `error_threshold` leaves the new
  session with the old threshold; `routers/models.py:96`: one without
  `feature_stats` leaves the old statistics (`OneModelInUse`).
  `routers/models.py:79`: of two overlapping reloads the older may be swapped in last
  (`ReloadsMoveOn`). `model_manager.py:154` looks for a file and compares no versions:
  after a deletion in the registry a reload "for a newer model" brings an older one,
  if that was never downloaded.
* `model_manager.py:60` asks `/models/latest`, which in cloud-api is no route but a
  malformed id (422), and reads `download_url`, where cloud-api answers `file_url`: as
  deployed, every reload reports "unchanged". *ModelSwap* is about a registry that
  behaves like cloud-api's and answers in the form `model_manager.py` expects.
  `model_manager.py:83`: a file cut off while written is loaded at the next
  start (`GoodModelsComeBack`).
* Predictions over the API share the windows of the stream's extractor, and a
  batch whose scoring raises has entered them. A NaN in a payload makes the
  median NaN, which clipping turns into 1000.
* `temperature_sensor.py:85`: drifts accumulate beyond "up to 20 deg C".
* The subscriber asks for QoS 0 though publishers use QoS 1; `disconnect` drops
  queued publications; `total_published` counts failed ones; the REST publisher
  catches URLError only, so a read timeout ends the simulator; a CoAP reading
  may be stored after its failure was reported.

Coordination:

* `leader_election.py:59`, `:79`: a renewal or release that takes longer than the
  lock lasts takes or deletes another's lock (`Timely`).
* `config_sync.py:118`: "source of truth" pulled in two reads caches an old
  value under a new version (`CachesAreSound`); `:52`: overlapping writes leave
  Redis with the older value; `:145`: writes before the subscription are missed;
  `:149`: a broken subscription ends the task.
* `cluster_state.py:85` says a heartbeat sets a node ALIVE: not one that is DEAD
  or LEAVING. `:90`: the recovery does not count `cluster_version`.
  `coordination/main.py:122`: gossip has no client and suspects every peer it
  picks.
* `ota_coordinator.py`: the health check accepts an ALIVE seen before the update;
  rollback deletes the key rather than restore the previous version; the
  failure of a canary leaves no event; `add_node` replaces the node object whose
  metadata a rollout holds.

The services:

* A batch job cancelled while it waits for a thread runs all the same
  (`job_runner.py:151`). A training cancelled while its data loads ends as
  "running" for ever; `data_loader.py:88` fails for one row.
* Device updates and approvals check in one await and write in another: under
  overlap a decommissioned device is revived, and an approval does so even
  without. The gauge of active devices is never taken down
  (`device_service.py:107`). A rollout's record expires a day after it was stored
  (`firmware_service.py:115`), also while the rollout lasts; nothing updates it.
* `scheduler_engine.py:104`: a task id used again overwrites the placement of the
  first task.
* cloud-api counts and reads a page in two statements, and nobody creates its
  `alerts` table.
* The adaptive policy's docstring shifts "if any edge node is overloaded", the
  code uses a healthy node; the latency-first docstring promises the cloud as a
  fallback, while the engine takes the highest score of all policies.
* The rate limiter calls itself a sliding window and is a fixed one; a request
  counted after its counter expired counts from one; its `except` clause covers
  `call_next`, so that a handler that raises runs twice; responses to errors
  have no correlation id and are not logged; timeouts of upstreams become 500;
  `POST /telemetry` does not match the upstream's route.
* A dashboard page shows the newest 50 again after reconnecting, and a stack
  command blocks its event loop for up to 300 seconds.

## What is not modelled

* **Redis losing data**, but for the eviction of the telemetry stream under its
  consumers: the last second of the append-only file, and evictions of other
  keys. *Ingestion* counts the groups it has created as if none were evicted.
* **Client-side retries.** The models assume that the Redis client does not
  resend a command whose reply was lost.
* **The numbers.** Model inference, Spark jobs, training and the learned scale of
  the features are computations on reals; the model has their outcomes. The
  training scripts and `register_model`, run by hand, are left out.
* **Reads that change nothing**: analytics queries, device and experiment lists,
  health endpoints; also formatting, metrics, logging and the stream monitor,
  which only sets gauges.
* **Operations nobody calls**: `remove_node`, `set_leader`, `clear_window`,
  `clear_all`, `stream_pending`, `stream_trim`.
* **CoAP across a crash.** *Ingestion* has duplicates of a request, but not a
  confirmable one that is sent again when the service has crashed and come back
  while its client still waits: it would be stored a second time.
* **The dashboard's other buttons** (simulator, test runner, each one docker
  command), its status feed and rendering; the start of the Spark session.
* **Clocks that jump.** Membership and LeaderElection count time in ticks that
  are the same for all.
* **Deployment**: replica counts, restart policies and Redis settings are taken as
  assumptions.

## Plan

Done: every service has its module, every safety property the runs check is a
theorem, and the two refinements (readings, jobs) are proved. What a later
version could add: the last second of the append-only file, which undoes
commands that were answered, and with it a Redis that restarts.
