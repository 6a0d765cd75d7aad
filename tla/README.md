# Verification of metrics-overseer

TLA+ models of the metrics-overseer agent and server, the TLC runs that check
them on small instances, and TLAPS proofs about the agent, its executors and its
sender, the server with its middlewares, handlers and file, the audit trail,
the database and the configuration. Paths are relative to the repository;
`PROJECT.json` maps every definition to the lines it models.

## The system

An **agent** polls runtime metrics into shared accumulators and reports them
over HTTP to a **server**, which keeps them in memory, in a file or in
PostgreSQL, and audits every update.

| part | state | operations | what is hard |
|---|---|---|---|
| `internal/agent/accumulation` | per metric: pending delta, pending samples, staged copies | accumulate, stage, commit, roll back | two pollers and the reporter share it; a rollback meets samples polled meanwhile |
| `internal/agent/{poller,reporter,agent}.go` | tickers, context, wait group | poll, report, final report, stop | partly failed reports; shutdown races |
| `internal/agent/reporting` | channels and worker goroutines | Execute, Shutdown | channel capacities, closing channels |
| `internal/agent/sending`, `internal/retrying` | attempt, delay | SendMetric, SendMetricArray, Run(f) | lost and late answers, retries of what was done |
| `internal/handler/middleware`, `internal/{compress,encrypt}` | none | sign, encrypt, compress and the reverse; response writers | the order on both sides, combinations of keys, headers that must agree with bodies |
| `internal/handler`, `internal/service` | none | update by path, by body, by batch; value, page, ping | which error becomes which status; reads beside writes; a panic under a lock |
| `internal/repository/memstorage.go` | map of metrics, one mutex | SetGauge, AddCounter, BatchUpdate, GetByID, GetAllSorted, SetAll | half applied batches; pointers to live metrics leave the mutex |
| `internal/repository/filestorage.go` | the file, a ticker goroutine | load, store, Close | concurrent stores, crash while writing, restart |
| `internal/repository/dbstorage.go` | table METRICS | the same over SQL | validation outside the transaction, row locks, retries |
| `internal/audit` | buffer, file | OnMetricsUpdate, flush, Close | failing writes, shutdown |
| `internal/server/server.go` | process phase | signal, Shutdown, Close | grace period, order of the Close calls |
| `internal/config` | settings | flags, environment, file, defaults | a given zero and a missing value look alike |

The pollers and the reporter meet in the accumulators. The reporter hands
staged metrics to an executor, which calls the sender, which calls the retrier.
The sender meets the middlewares and the handlers over HTTP. Handlers call the service, the service
calls the storage and then the auditors. `Run` stops handlers, storage and audit
writer in this order.

What makes each part correct: the accumulators neither lose nor repeat nor
reorder; a report resolves what it staged; the executor gives each metric one
result and ends; delivery is at least once, and what is counted twice is bounded
by the requests without a definite answer; an update passes the middlewares
exactly when the keys of both sides fit, and every answer can be decoded; a read
shows no state older than its request; a file holds nothing the memory did not
hold and a graceful stop loses nothing; a database counter is the sum of the
calls that took effect; the audit trail is ordered and complete but for known
losses; a setting that is given is the one that is used.

## Modules

| module | models | variables and actions |
|---|---|---|
| `Accumulator` | `accumulator.go` | operators on one MetricAccumulator |
| `Agent` | pollers, reporter, `Agent.Run`, over `Accumulator` | one action per step of a goroutine between two points where another can run |
| `SampleLedger` | what the accumulators promise | owed increments and samples; accumulate, acknowledge |
| `Executor` | what `reporting.Executor` promises | one result per metric, then return |
| `WorkerPool` | `pooler.go` | feeder, workers, collector, the two channels with their capacities |
| `Retrying` | `internal/retrying` | operators on one call of `Executor.Run`; `Delivery` and `Postgres` keep its record in their state |
| `Delivery` | one counter from accumulator to storage | agent, network, server; composes `Accumulator` and `Retrying` |
| `MemStorage` | `memstorage.go`, `model/metrics.go` | operators under `ms.mutex` |
| `Wire` | sender, middlewares and response writers, on one message | operators: what each layer makes of a request or a response |
| `Gateway` | `GetRouter`, all handlers, service, memory storage | composes `Wire` and `MemStorage`; one goroutine per request, agents, other programs and readers as clients |
| `Server` | the update handlers, service, FileStorage, `Run` | over `MemStorage`; both storing modes, crash and restart |
| `Postgres` | `dbstorage.go` | committed table, open transactions, open listings, retries |
| `AuditWriter` | `internal/audit`, `notifyAuditors` | buffer, file, flush loop, Close |
| `Config` | `servercfg.Read`, `agentcfg.Read` | one action per source of settings |
| `MCAgent`, `MCGateway`, `MCServer`, `MCPostgres`, `MCConfig` | instances for TLC | |
| `AgentProofs`, `WorkerPoolProofs`, `DeliveryProofs`, `ServerProofs`, `GatewayProofs`, `PostgresProofs`, `AuditWriterProofs`, `ConfigProofs` | theorems and proofs about the module of that name | |

Names follow the source. A definition whose name has an underscore and says
`Faulty variant` in its comment is a plausible bug of the definition after it;
nothing uses it except mutation checks, which put it in place of the original
and see the property named with it in `PROJECT.json` violated.

### Abstractions

* A counter's increment is 1 in the agent (`storeCounterMetric` is only called
  with 1) and any integer on the server, negative ones too, as the server and
  its tests allow; a gauge sample is the number of its poll. Widths are left
  out: an int64 delta would have to pass 2^63 for it to matter.
* A metric of the memory is its ID (as a rank in the lexicographic order), its
  type and the field the type uses. A row of the database, and a metric of a
  batch for it, has both fields: nobody compares them with the type before
  `batchSet` writes them. `Nil` is a nil pointer or SQL NULL, `NaN` the gauge
  values `encoding/json` refuses.
* What a copy or a read may show is stated by history variables that keep the
  values there have been (`held` in `Server`, `since` in `Gateway` and
  `Postgres`): counters go up and down, so no comparison of values would do.
* `GetAll` of the accumulation storage returns a lazy iterator over the map
  after the lock is released, and `MType` is written outside the mutex: in
  `Agent` both are separate steps, and a range that meets an insertion may see
  the new key, miss it, or crash the process.
* `FileStorage.store` lists pointers under the mutex and serialises the live
  metrics after it: `GetAllSorted`, `SerializeNext` (one metric), `Truncate`
  and `Write` are separate actions of every goroutine that stores. Two writes
  over one truncation may leave a mixed file.
* A body is a content under layers (gzip, an envelope for a key pair), so that a
  layer taken off in the wrong order, or one that is missing, is seen. A key
  opens only its own envelopes, and two signatures are equal when key and body
  are. Compression levels, nonces and the text of answers are left out.
* `Gateway` has one action for all the middlewares of a request, which touch
  nothing that is shared, and then one for every part of a handler between two
  points where another request can be seen: a lock, one metric of a batch, one
  metric of a listing. The file and the database are in `Server` and `Postgres`;
  here a storage error is possible in every request.
* Of `os.WriteFile`, the network, proxies, PostgreSQL (READ COMMITTED, row
  locks, deadlock detection) and crashes only the effects are modelled; their
  definitions are marked external. An error of class 08 from PostgreSQL is
  taken to mean that the statement had no effect; a connection lost after the
  effect is no PgError and is not retried.

## Runs

`tlc -config X.cfg M` for every line of the table.

| run | checks | shows |
|---|---|---|
| `agent_pool` (MCAgent) | TypeOK, CounterConserved, GaugeConserved, StagedHasOneOwner, FinalReportDelivers, InFlightIsStable, ImplementsLedger | with one request per metric, reports that are partly committed and partly rolled back lose, repeat and reorder nothing; what is in flight does not change; the agent implements `SampleLedger` |
| `agent_batch` (MCAgent) | StopsAfterSignal, StagedIsResolved | with one request per report, which is made also when nothing is staged: after a signal `Run` returns and no metric stays staged, unless a request never ends (that nothing is lost or repeated in this mode, too, is proved) |
| `worker_pool` | OneResultEach, NoSendOnClosedChannel, PoolMakesProgress, ImplementsExecutor | more metrics than the channels hold do not deadlock the pool; it implements `Executor` |
| `delivery` | TypeOK, RetriesAreExact, CommittedIsStored, NoDoubleAccumulation, EventuallyStored | at-least-once delivery over a faulty network; double counting bounded by requests without a definite answer; retries and delays as the policy says |
| `delivery_batch_loss` | CommittedIsStored | **violated**, see findings |
| `delivery_store_error` | NoDoubleAccumulation | **violated**, see findings |
| `gateway` (MCGateway) | FittingKeysDeliver, UpdatesAreGenuine, ResponseIsReadable, ReadsAreCurrent, RequestsEnd | for every combination of signing and encryption an update gets through exactly when the keys fit; nothing else reaches the storage; every response can be decoded; reads beside half applied batches are current; a handler that panics under the mutex leaves the server usable |
| `server` (MCServer) | TypeOK, FileIsBehind, GracefulStopPersists, SynchronousStore, ServerMakesProgress | stores by ticker, by the handlers themselves and by Close, two at once, crash in any step, restart in the same or the other mode |
| `server_batch` (MCServer) | BatchIsAllOrNothing | **violated**, see findings |
| `postgres` (MCPostgres) | TypeOK, CountersAreExact, TypeChangesOnlyInRace, ReadsAreOneState, CallsReturn | concurrent batches, deadlock, retries and lost connections keep the counters exact; a listing that was interrupted and retried shows one committed state |
| `audit` (AuditWriter) | TypeOK, AuditIsInOrder, EventsAreAccountedFor, GracefulStopFlushes, BufferIsFlushed | audit events are written in order and once |
| `config_zero` (MCConfig) | ZeroMeansSynchronous | **violated**, see findings |

### Bounds

* Agent: three metrics (a counter and two gauges, over both pollers and both
  reads of the second one), two polls per poller in `agent_pool`, so that a
  metric is polled while an earlier sample of it is staged, in flight or about
  to be rolled back; reports are not bounded. `agent_batch` has one poll per
  poller, enough for a signal in every phase of a report.
* WorkerPool: four metrics, more than the channel capacity and the workers can
  hold together, so that the feeder blocks.
* Delivery: three increments, three faults of any kind but `ErrStore` (which
  `delivery_store_error` has alone), two retries: one report can use up its
  retries, and a late request can meet the next report.
* Gateway: an agent, another program and a reader, two metrics, three requests
  in any order: a read that overlaps a batch and sees an update between them,
  and a request after a panic; a counter is raised and lowered. Six configurations of keys: none, a key on one
  side only, the same on both, with encryption, all different. The other
  program sends one request of each malformed kind.
* Server: two handlers, two metrics, two updates and two starts, each in either
  mode: an update during a store, a store beside a store, and a restart from
  every file the first process can leave.
* Postgres: two handlers, two rows, three calls, two faults: the smallest
  deadlock, a third call that interferes with a retry or between the
  validation and the transaction of another, and a listing that breaks off
  while a batch commits.
* AuditWriter: two handlers, four events, one failing write, two starts: a torn
  line followed by a successful write.

### Fairness

Go runs every goroutine that can run: weak fairness for a goroutine's steps,
strong fairness where it waits for a mutex (`sync.Mutex` does not starve) or for
a `select` branch that competes with another (Go chooses at random). Tickers
keep firing. That a request of the agent ends is not assumed: its client has no
timeout, so `StopsAfterSignal`, `StagedIsResolved` and `EventuallyStored` say
what follows unless a request stays open for ever. `WorkerPool`, which is about
the channels, takes a send to end, as do the models of the server with posts to
the audit service and with storage calls. In `Gateway` weak fairness is enough, as
the number of requests is bounded and a waiting handler gets the mutex at last. PostgreSQL
detects deadlocks. Faults are finitely many (`FaultLimit`). Polls, signals,
requests, faults (`StorageFails` of `Gateway` among them) and crashes are never
forced, so none of them can be what ends a request.

## Proofs

`tlapm M.tla` for every proof module. The theorems hold for every value of the
constants that satisfies the ASSUME of the module, which TLC evaluates in the
runs: any set of metrics, poll lists, handlers, requests and settings, any
policy of retries, any bound on polls, faults, events, updates and starts.

| module | theorem | states |
|---|---|---|
| `AgentProofs` | `TypeCorrect`, `NothingLostOrRepeated`, `GaugesKeepOrder`, `StagedIsOwned`, `FinalReportIsComplete` | TypeOK, CounterConserved with GaugeConserved, GaugeConserved, StagedHasOneOwner, FinalReportDelivers are invariants |
| | `SentIsStable` | every step satisfies InFlightIsStable |
| | `AgentImplementsLedger` | the agent implements `SampleLedger` |
| `WorkerPoolProofs` | `OneResultForEach`, `NeverPanics` | OneResultEach, NoSendOnClosedChannel are invariants |
| | `PoolImplementsExecutor` | the pool implements `Executor` |
| `DeliveryProofs` | `TypeCorrect`, `RetriesFollowPolicy` | TypeOK, RetriesAreExact are invariants, in both ways of sending |
| | `CommitImpliesStored` | CommittedIsStored is an invariant if `FailuresAreReported` |
| | `DoubleCountIsBounded` | NoDoubleAccumulation is an invariant if `StoreErrorsHaveNoImpact` |
| `ServerProofs` | `TypeCorrect`, `FileNeverAhead`, `GracefulStopIsDurable`, `AnsweredIsStored` | TypeOK, FileIsBehind, GracefulStopPersists, SynchronousStore are invariants |
| `GatewayProofs` | `ResponsesAreReadable`, `AgentsGetThrough`, `ReadersAreCurrent` | ResponseIsReadable, FittingKeysDeliver, ReadsAreCurrent are invariants |
| | `OnlyGenuineUpdates` | every step satisfies UpdatesAreGenuine if `SignedAsSent` |
| `PostgresProofs` | `TypeCorrect`, `CountersExact`, `ReadsOfOneState` | TypeOK, CountersAreExact, ReadsAreOneState are invariants |
| | `TypesChangeOnlyInRace` | every step satisfies TypeChangesOnlyInRace |
| `AuditWriterProofs` | `TypeCorrect`, `AuditStaysInOrder`, `NoEventIsLost` | TypeOK, AuditIsInOrder, EventsAreAccountedFor are invariants |
| | `CloseFlushesAll` | every step satisfies GracefulStopFlushes |
| `ConfigProofs` | `DefaultedIsNotZero` | a setting with a default is not zero after Read, whatever is given |

### Assumptions

The constants are of their types, and values that stand for the absence of
something are told apart from the others: `NoDelta` (a nil `Delta`) is no
number, `Absent` no stored metric and no row, `Nobody` and the goroutines
`"ticker"` and `"main"` no handlers; in `Postgres` `Nil` (NULL) is no number and
`Absent` no type. Metrics and handlers of the modules that count them are
finitely many; so are the IDs of the table, whose primary key bounds their
length (nothing of the kind is assumed in `Gateway`: that the memory holds
finitely many metrics is part of its invariant). In `Gateway` the name of a key is not that of another part of a
message, agents are not also other programs or readers, and agents send
well-formed metrics; what other programs send may be any request, with any
layers, signatures and metrics. Deltas are any integers. Three theorems have a
hypothesis. `FailuresAreReported` says that metrics are sent one by one or that
storage errors do not happen. Without it `CommittedIsStored` is false, as
`delivery_batch_loss` shows: in this model the finding is the only way to lose
a committed increment. `StoreErrorsHaveNoImpact` says that metrics are sent in
batches or that `ErrStore` does not happen. Without it `NoDoubleAccumulation` is
false, as `delivery_store_error` shows. `SignedAsSent` says that no other program signs
the inside of the body it sends. Without it `UpdatesAreGenuine` is false as it
is stated: a proxy that unpacks such a body makes its signature hold. The agent
signs the compressed body, so an unpacked one is refused. The instances of the
runs `delivery` and `gateway` satisfy them.

### Inductive invariants

Few of the properties are inductive. What is added, and why:

* **Agent.** That `Commit` may forget the staged part needs that exactly the
  acknowledged metrics are in `successIDs`; that a rollback restores it needs
  that it was not acknowledged; both need to know which part of the report owns
  a staged metric and that a metric outside the report has empty staged fields.
  `AgentInv` adds the well-formedness of every accumulator (what is not staged
  has no staged content, a counter has no samples and a gauge no delta), the
  position of each poller in its list, and the phase of the report.
  One lemma per method of the accumulator gives the types, and the sum or the
  concatenation it preserves. `FinalReportDelivers` adds that the storage has
  every metric that was polled (`KeysOK`) and that those the final report has
  not visited yet are ahead of it (`FinalOK`).
* **Ledger.** Conservation makes the refinement short: what is owed is
  determined by what was polled and what was acknowledged (sums can be
  subtracted, and a sequence cancelled from the front of another), so a step
  that changes neither changes nothing in the ledger.
* **WorkerPool.** That taking a result from a channel resolves one metric needs
  that no metric is in two places and none is twice in a channel; that nobody
  sends on a closed channel needs when each is closed (`PoolInv`).
* **Delivery.** The attempts count the requests of a report, and the delay is
  the one of the last attempt. For `CommittedIsStored`, a success seen by the
  agent belongs to a request that was handled. For `NoDoubleAccumulation`, the
  requests still on their way may be counted in any order: the bound is kept as
  one on every partial sum of them.
* **Server.** The two properties about a server at rest follow from what a
  store in progress has serialised so far (`Fresh`), which holds while no other
  goroutine is in `store` (`AloneOK`, what `spoilt` records) and no update
  follows its listing (`Quiet`). `FileIsBehind` is kept because what is
  serialised is what the memory holds at that step, and the memory keeps the
  type of every metric it has.
* **Gateway.** Everything a request passes through depends on the exchange of
  its client, the keys and the memory, so the invariant is a formula about one
  exchange (`ClientOK`), and one lemma (`StepKeeps`) covers what the other
  clients do meanwhile: they may change the memory, which never forgets the
  type of a metric, so an update that was refused would still be
  (`StillRefuses`). What arrives has the content that was sent and some of its
  layers (`Same`); it is on its way unchanged, or shorter after a proxy
  (`ArrivingOK`), which is why no signature of the whole holds for a part. An
  agent's request in a handler has its plain form, or is an envelope no handler
  reads (`AgentOK`): `AgentArrives` composes what the sender put on with what
  each middleware takes off, for every combination of keys. The writer that a
  handler gets is fresh and compresses only if the client accepts it.
  `ReaderInv` adds the reads: while one goes on, `since` has the memory as it is
  (`Has`) and as it was at every step since the request, each row rendered is
  one of those states of its metric (`RowOK`), the rows are before the metrics
  still to render (`InOrder`), and the two together have every metric there was
  (`Covers`). A history is needed because counters go down as well as up.
* **Postgres.** A row changes its type only at the commit of a batch, long after
  the validation, with retries of either query in between. `RaceInv` keeps, per
  handler, that the types it saw fit its batch once the validation has returned
  nil (an error that is retried or final never counts as one), and that what a
  transaction has written are metrics of that batch and is gone when the query
  ends in any way. `CountInv` says that no two transactions have written the
  same row (`LocksOK`), so that what is committed meanwhile does not change what
  one of them will add, and that an open transaction has added to its rows
  exactly the deltas of the metrics it has upserted (`SoFar`). `ReadInv` says
  that `since` has the table as it is while a read goes on, and that the rows a
  listing has got and those still to arrive are together one of the states in
  `since`.
* **Sums and listings.** The provers have no induction over data, so neither is
  defined by recursion: `SumOfDeltas` counts the units of the positive
  deltas less those of the negative ones (`Cardinality` of a disjoint union
  each), and `SortedIDs` puts each ID at its rank.
  That the sum grows by the delta of the next metric, and that the listing is
  ordered and complete, then follow from the theorems about finite sets.
* **AuditWriter.** File and buffer are read as one trail, all of whose events
  are earlier than the next one; a graceful stop flushes because no handler
  runs once Shutdown has returned.
* **Config.** The last stage replaces every zero that has a default.

The strengthened invariants were checked with TLC on the instances of the runs
before they were proved.

### Only model-checked

* All liveness: StopsAfterSignal, StagedIsResolved, PoolMakesProgress,
  EventuallyStored, ServerMakesProgress, CallsReturn, BufferIsFlushed,
  RequestsEnd. They rest on fairness and ENABLED, which the prover does not
  handle.

Every invariant and every action property of a passing run is proved, three of
them under the hypotheses named under *Assumptions*.

## Findings

* `delivery_batch_loss`: `updateBatch` answers 200 to every storage error but
  `ErrIncorrectAccess`, where its comment promises 500. The agent then commits
  increments that are in no storage.
* `delivery_store_error`: `processUpdateMetric` says of an `ErrStore` that it has
  "no impact on main flow, only log this", logs it and falls through to the
  answer 500. The agent keeps the increment, which the memory has counted, and
  sends it again: it counts twice. `ErrStore` comes from the synchronous mode
  only, which `config_zero` shows cannot be selected today.
* `server_batch`: `MemStorage.BatchUpdate` validates against the stored metrics
  only. A batch with two types for one new ID is half applied and answered 200,
  where the interface promises that all data is discarded.
* `config_zero`: the defaults are merged into zero fields, so an explicit
  `--store-interval 0` ("0 for synchronous store") becomes 300. The synchronous
  mode of `FileStorage` cannot be selected today; `server` checks it as the
  component offers it.

Two more disagreements have no run of their own. A batch metric without its
delta or value, or with the other one's, is written to the database as received
and answered 200, where `handlers.go:302-304` says 400; a missing delta leaves the
counter NULL (`CountersAreExact` excepts these counters). A zero given by flag or
variable loses to the configuration file as well, where
`servercfg/config.go:90-91` says the file is used if neither is specified.

Behaviour that the properties except by name: a lost or late answer makes the server count twice
(`NoDoubleAccumulation` bounds it); two synchronous stores at once can leave the
older one in the file (`SynchronousStore` excepts it); a batch changes a type
when another client creates the metric between validation and transaction
(`TypeChangesOnlyInRace`); a failed flush drops its audit events, and
a torn line spoils the next one (`EventsAreAccountedFor`); a shutdown that times
out does not close the audit writer. Batches are never signed, and a server
accepts unsigned requests; a server without a key answers 401 to an agent that
signs, because `secretKey == nil` never holds; a server with a private key
refuses every update by path, whose empty body is no envelope
(`FittingKeysDeliver` states all of these as cases of `KeysFit`). A page shows
every metric as it is when it is rendered, so it may show a part of a batch
(`ReadsAreCurrent`). A JSON `null` in place of a metric makes the handler panic;
net/http closes the connection and the deferred unlock runs (`RequestsEnd`). A
NaN gauge makes every later store fail (`GracefulStopPersists` excepts it).
`wg.Done()` runs before
`executor.Shutdown()` in `Reporter.Start`, so the process may end without the
latter.

## Not modelled

* `ResetAll`: no caller in the running system.
* gzip, RSA, AES, SHA-256 and base64 are library code, taken to do what they
  promise. `calculateHash` appends the digest to the shared key slice; with keys
  of more than 512 bytes concurrent requests could meet in its spare capacity,
  which is below the abstraction of `Wire`.
* int64 overflow of counters: `AddCounter` wraps, and no property depends on it
  below 2^63.
* The server address of the agent (one regular expression), the migration (before
  the first request), pprof, logging, build information, generated code and
  mocks, the linter, the generator and the other tools under `cmd/`.
* `internal/pool`: a list of free objects under one mutex that no code uses.

## Plan

Done in this order: accumulators and agent with their ledger, worker pool,
retries and delivery, memory and file storage with the server, database, audit,
configuration, the middlewares on both sides with all handlers, reads beside
writes in memory and in the database. The components that are left have no
behaviour of the running system in them. Proved in the same order, as the table
above says. What is left to the runs alone is named under *Only model-checked*.
