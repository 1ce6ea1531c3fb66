# deepCab in TLA+

deepCab trains, serves and promotes models that predict New York taxi fares. This
directory holds TLA+ models of the parts whose correctness depends on order (several
threads, processes or coroutines taking turns, steps that fail half way, processes that
die) and of the algorithms those parts rely on. The models are checked with TLC on small
instances, and the main properties are proved with TLAPS for all. Line numbers refer to
`src/deepCab/`.

## 1. The system

| Component | State | Operations | Talks to |
|---|---|---|---|
| Micro-batcher `serving/batcher.py` | queue, worker task, closed flag, a future per caller | `start`, `submit`, `stop`, the worker loop | ONNX runtime; callers on the same event loop |
| Model state `api/state.py` | `STATE.model`, task table | `set_model`, `upsert_task` | every reader and every training thread of the process |
| Training `training/train.py`, `api/services/train.py` | task record, run directory, MLflow run | `POST /train`, `run`, artifact hooks | state, registry, runtimes, bucket |
| Run directory and pointer `registry/dispatcher.py` | `runs/<id>/`, `LATEST`, `LATEST.tmp` | `save_full_state`, `load_state_from_disk`, `read_latest_run_id` | training (writes), API start (reads) |
| Runtime registry `serving/runtime.py` | one ONNX runtime per kind, the active kind | `register`, `activate`, `active` | training (writes), predictions (read) |
| API `api/lifespan.py`, `api/deps.py`, `api/services/predict.py` | the handle a request captured | autoload, `predict_one/many/stream` | state, runtime registry |
| Promotion `registry/promotion.py` | aliases in the MLflow registry | `maybe_promote`, `set_alias` | MLflow, notifications |
| Notifications `obs/notify.py`, `slack.py`, `telegram.py` | none | `post`; backends never raise | operators |
| Agent `agent/` | budget counters, trace file, replay cache, metric window, error counts | `run_improve`, `run_one_turn`, `restore`, `replay` | LLM, tools (which train, evaluate, search) |
| Flows `flow_v2/` | window cursor in MLflow tags, process environment | bench (`run_nightly`), `simulate_flow`, `retrain_flow` | training, promotion, MLflow, VM |
| Explanations `explain/` | a cache per process, Redis | `get_global_summary` | estimator, background rows |
| GraphQL `api/routers/graphql.py`, gRPC `grpc/server.py` | none; several reads of `STATE.model` per answer | `predict`, `train` | state |
| Data `data/`, `training/preprocess.py` | Parquet partitions, lineage table | `migrate`, `load`, `clean`, splits, `write_edge` | BigQuery, every training |
| Features and intervals `features/`, `explain/aggregate.py`, `models/conformal.py` | residuals, `alpha_t` | column layout, `bracket`, `update` (no caller in the program) | estimators, predictions |
| Search `training/hpo.py`, `agent/memory.py`, `models/` | trials, best epoch | `tune`, early stopping, `list_runs`, `propose_next_experiment` | trainings, agent |
| Export `models/onnx_export.py`, `serving/quantize.py` | files | `export_to_onnx`, `quantize` (no caller in the program) | runtimes |
| Settings `schemas/settings.py`, `api/deps.py`, `api/app.py` | cached settings | `get_settings`, key guard, CORS | everything |

How they interact. A training runs in a pool thread of the API process (or in a flow or
a job): it publishes the fitted handle in `STATE`, then saves it to a run directory,
then moves `LATEST`, then uploads and records, then registers an ONNX runtime. Requests
read `STATE.model` once and the runtime registry later. After a restart the API loads
what `LATEST` names. A promotion is separate: it compares two registered versions and
moves aliases; nothing but the MLflow server serialises promotions of different
processes. The API reads `@champion` at start but serves `LATEST` (lifespan.py:80-105).

What is hard, and what must be right:

- **Batcher.** Rows cross from queue to batch to runtime while callers are cancelled,
  the deadline races a new row and `stop()` comes at any moment. No row may be lost or
  answered twice; answers go to their own callers in order; failures stay in their batch
  and are real; the worker ends when asked.
- **Trainings.** Two of them share `LATEST.tmp`, the runtime registry and `STATE`, and
  the process may die between any two steps. `LATEST` may never name half a run; what was
  reported as succeeded must survive; memory, disk and runtimes must agree when nothing
  is under way; every accepted task must report.
- **Predictions.** Point and interval come from two places read at two moments.
- **Promotions.** Read, compare and write are separate calls. The champion may only
  improve; the rollback target must be a version that was live; operators must be told
  the truth.
- **Agent loop.** It may die between any two steps, also in the middle of a line of its
  trace, and be resumed. The caps must hold across lives; a call whose result is recorded
  must not be repeated; the loop must end, and not while it improves.
- **Flows.** Windows must follow one another without gap, a chunk's entry must be about
  the run of that chunk, the environment must be restored on every way out, and success
  may be posted only of a complete run.
- **Explanations and GraphQL.** Workers share Redis and a pointer but not `STATE`; a summary
  may be served only for a model like the one it was computed of, a request may fail only
  by its model, and an answer put together from several reads must come from models that
  were live.
- **Data.** What is held out must be held out; folds must look back; every column of the
  features must be explained once.

`PROJECT.json` lists the hazards line by line with the properties that watch them.

## 2. Modules

| Module | What it is |
|---|---|
| `RowService` | what the batcher promises: a line of rows served from its head, at most `MaxBatch` at a time, each with its own number or all with one error |
| `Batcher` | `serving/batcher.py`, step by step; refines `RowService` |
| `ModelStore` | what the trainings of one process promise: a model is served, then kept, then the one that comes back; reports are made once and are true |
| `ModelLifecycle` | trainings, crash and restart, pointer, runtimes and predictions of one API process; refines `ModelStore` |
| `Promotion` | calls of `maybe_promote` over one alias registry |
| `ToolLedger` | what the trace promises about tool calls: a result is entered once, for a call that took effect, and what has an entry takes no effect any more |
| `AgentLoop` | the improve loop, its turns, budget and trace, with death and resume; refines `ToolLedger` |
| `Flows` | bench, simulation (local or on a VM) and retraining around one MLflow experiment |
| `Serving` | worker processes: trainings that publish, restarts, Redis, SHAP summaries, GraphQL queries |
| `TrainingData` | store, migration, loading and cleaning, holdout and calibration rows, folds, columns, interval, lineage: operators |
| `Search` | configurations, search spaces, `tune`, early stopping, ranking and proposals of the agent's memory: operators |
| `Artifacts`, `Settings` | routes of the ONNX export, batches of the quantizer; sources of a setting, key guard, CORS: operators |
| `MCBatcher`, `MCModelLifecycle`, `MCPromotion`, `MCAgentLoop`, `MCFlows`, `MCServing` | instances for TLC |
| `DataChecks`, `SearchChecks`, `ArtifactChecks` | facts about the operators over bounded inputs, as assumptions that TLC evaluates in the runs `flows` and `agent` |
| `BatcherProofs`, `ModelLifecycleProofs`, `PromotionProofs`, `AgentLoopProofs`, `FlowsProofs`, `ServingProofs`, `TrainingDataProofs`, `SearchProofs` | theorems and proofs |

An operator named `X_<fault>` is a variant of `X` with a plausible slip in it. No action
uses it; `PROJECT.json` pairs it with a property that TLC finds violated when it takes
the place of `X`, which shows that the property speaks about the code.

### Batcher

`queue` is `self._queue`, `batch` the local list of `_collect_batch`, `worker` the place
of the worker task, `fut` what each caller sees. asyncio runs one coroutine until it
awaits something that is not ready, so a place of the worker is either *waiting*
(created, in `queue.get()`, in `wait_for()`), where others may step, or *running*, where
nobody else can. `submit` is one step because `put()` on an unbounded queue does not
suspend. Time is not modelled: at each look at the clock the deadline may have passed.
Rows are good, misshapen (`np.stack` or the session raises) or empty: size zero, what the
code takes for the sentinel. `kind`, `val` and `log` record what a caller sent, whose row
its number came from, and the order of submission.

`RowService` has no worker, no batch and no deadline. `Batcher` refines it with
`line = batch \o queue`: collecting is invisible, a runtime call serves a prefix.
The service may give up rows when the loop ends, and nothing else loses one.

### ModelLifecycle

`pc[j]` is the statement the thread of training `j` has reached. `fd[j]` is the file it
has open while it writes the pointer: `write_text` opens (creates or truncates), writes
and closes, and a rename moves a file under whoever has it open, so a late write lands in
`LATEST` itself or in a file without a name. A run directory is absent, partial or
complete. Training `j`, its run id, its handle and its ONNX export share the name `j`;
`kindOf[j]` is the backend kind. Fitting and everything before it is one step that may
fail. Of a partial directory the autoload may or may not make a handle: it depends on
which files were there. `Answer` reads the runtime registry at that moment and the handle
captured before. `calm` records that no two trainings have overlapped and that nothing
has failed after publication: what the code promises to one training at a time.

A crash drops everything but the disk. Queued tasks die with the process; nothing starts
them again. Failures of the model card and of the lineage edge are swallowed by the code
and change nothing else, so they are part of `Emit`.

`ModelStore` has no phases, no files and no threads. `ModelLifecycle` refines it with
`kept` the runs that are complete on disk and `back` what `LATEST` names, if it names a run:
opening, truncating and writing `LATEST.tmp` are invisible, a rename moves what comes back,
and so does a write to a file that was renamed to `LATEST` under its writer. Trainings that
overlap may leave nothing to come back, but never a run that is not kept.

### Promotion

`alias` is the registry, `pc[p]` where call `p` is, `old[p]` the champion it read.
Loading and scoring a version is `metric[v]`: champion and challenger are scored on the
same slice. `set_alias` is two steps, the write and the ping, and without a tracking
server the write is skipped while the ping is sent. Metrics are integers and the
threshold a percentage; floating-point rounding at the threshold is not modelled. `Abort`
stands for an exception of the registry or of the scoring and for the death of the
process: nothing is undone in either case. `overlapped`, `blind` and `broken` record
whether two calls were under way at once, whether the read of an existing champion
failed, and whether a call broke off.

### AgentLoop

`pc` is where the generator is: at the head of the loop, planning, at the head of the turn,
asking the LLM, at a call, running it, recording it, or measuring what the turn brought. A
call is a tool name with its arguments, the key of the replay cache. The trace is what
`replay()` is read for: how many plan events and good results it has, the dollars, the
result of each call, and whether its last line is torn. LLM and tools answer anything, fail
or time out. A tool that timed out may still take effect, since leaving the pool waits for
it, and so may one that raised: `train` publishes to `STATE` before it saves, uploads and
pushes (train.py:195, 238), and `dispatch` makes an error of what these raise. What a reply
costs is billed and then booked; it is not booked when the reply has no usage or its model
no price (`waived`), nor when the process dies in between. `Crash` stands for the death of
the process, an exception of the LLM client and a consumer that goes away; it can tear the
line being written. `Resume` is `run_improve` with the `loop_run_id` of the loop that died
(the API and the command line always begin a new one). What a metric says is abstracted to
which model it was measured on.

`ToolLedger` has no turns, caches or budgets. `AgentLoop` refines it with the results on the
trace as entries, and a result is lost by a death or by an effect that was reported as a
failure. `Left` lists what a run
has left, from lives down to the rest of one call; `StepsRunOut` compares it
lexicographically before and after each step.

### Flows

Time is counted in units and a slice is the half-open WHERE clause of a chunk. `env` is
what `DATA_SOURCE` and `DATA_BQ_WHERE` select in this process, `saved` what each overlay
found when it was entered: the bench nests the chunk's overlay in its own. `runs` is the
MLflow experiment: the cursor is read from the tags there, and the run of a VM is looked up
by its name, which every simulation gives anew. A VM may start late, never, or after the
poll has given up. Any statement may raise; exceptions go up through the overlays. One flow
runs at a time: the commands are processes of their own.

### Serving

Each worker has its own `STATE`, its own cache and one attempt to connect to Redis for
life; they share `LATEST` and Redis. A restarted worker loads what `LATEST` names, and what
`load()` makes of it depends on the backend: four come back with the default configuration,
`torch_mlp` without its weights. The summary and the query run on the event loop without an
await, so one request at a time is on the loop of a worker, while trainings publish from
pool threads in between. The pointer moves some time after publication, or never. SHAP or
the aggregation raises on the estimators in `Unexplained`, which may be trained or restored
ones (explainer.py:102-113, aggregate.py:61-62): the rows are drawn with a fixed seed, so that
it raises for a model every time or never.

### TrainingData, Search, Artifacts, Settings

Functions of the program as operators: no state, no order. Rows are records with the fields
the code tests; fares, residuals and levels are integers (hundredths, ten-thousandths);
floating point is not modelled.

## 3. Runs

| Run | Bounds | Shows |
|---|---|---|
| `batcher` | 3 callers, 2 rows a batch, 1 runtime fault | all eight properties below hold |
| `batcher_drain` | same | `DrainedOnStop` (batcher.py:13) does not hold |
| `lifecycle` | 2 trainings both in flight, 2 kinds, 1 request of 2 rows, 1 crash | the six properties below hold |
| `lifecycle_pointer` | same | `PointerAtomic` (dispatcher.py:55-56) does not hold for two savers |
| `lifecycle_interval` | same | `PointMatchesInterval` (predict.py:78-80) does not hold |
| `lifecycle_hooks` | same | `HooksNonFatal` (train.py:140-141) does not hold |
| `promotion` | 3 calls, 3 versions, 4 metrics around the threshold | the five properties below hold |
| `promotion_gate` | 2 calls, 2 versions, 2 metrics | `ThresholdGated` (promotion.py:10) does not hold when a read fails |
| `agent` | 4 calls (2 trainings, 1 evaluation, 1 other), 2 metrics, 3 iterations, 2 tool calls, 1 dollar, LLM calls of 1 dollar, 2 steps, replies of 2 calls, 1 death | the nine properties below hold |
| `flows` | year of 5 units walked by 3, simulations of two chunks, the second cut, 3 flows, cursor over 2 runs | the six properties below hold |
| `flows_cursor` | year of 2 units walked by 1, 4 flows | `AdvancesOneChunk` (nightly.py:4-5, 12) does not hold |
| `serving` | 2 workers, 2 requests, 3 trainings, 1 restart, 1 outage or expiry of Redis | the four properties below hold |

Why the bounds are enough. *Batcher:* three rows fill one batch and leave one behind, which
is what losing, overtaking and mixing neighbours need; one fault can hit any batch; the
sentinel adds a fourth item, so that a batch can hold a row and the sentinel. *Lifecycle:*
the races are between two savers or between one training and one request; one crash can fall
between any two steps and is followed by a restart and by trainings not yet begun; kinds are
chosen freely in the initial states, so that both the same and different kinds occur.
*Promotion:* three calls in a row make a champion, replace it and replace it again, so that
the rollback target is overwritten once; any two of them may overlap the third; 94 against
100 improves by more than 5 percent, 95 against 100 by exactly 5, 90 improves on 95 but not
on 94. *Agent:* a reply of two calls crosses the cap of two in its middle; two trainings
with different arguments publish one after the other, with an evaluation of either; three
iterations leave one for a second life although a resume counts twice. A reply that is
booked spends the cap on dollars, one without a price or usage spends nothing, so that each
of the three caps may be the one that ends a loop; the death may come with a reply billed
and not booked. *Flows:* the walk of five by three ends
in a shorter window and wraps; two chunks are the least with a neighbour and a cut; three
flows let a bench follow a bench that broke off, and a simulation find the run of the one
before it. *Serving:* two trainings differ in the configuration only, and one is of the kind
that loses its weights, with too few rows for an interval; two workers are the least that
share; SHAP raises on one model of the three while it serves predictions; two requests in
one worker, or one in each, are the least that race. The bounds (`MaxFaults`, `MaxActive`,
`MaxRows`, `MaxCrashes`, `MaxReply`, `Costs`, `MaxCost`, `MaxFlows`, `MaxSaving`, `MaxRestarts`,
`MaxOutages`) are constants and stand in the guards.

Deadlock is not checked in these runs: a batcher whose loop has ended, a system whose
trainings, requests or flows are over, a finished loop and a set of finished promotions
have nothing left to do.

### What holds

- `ExactlyOnce`, `FirstComeFirstServed`, `NoSpuriousError`, `ServiceSpec`: no row lost or
  computed twice, none overtaken, no exception without a cause; the batcher is the row
  service, so that nobody gets a second answer.
- `Served`, `CollectedIsAnswered`, `StopEnds`: rows are answered unless the batcher is
  closed first; a row already taken is answered even then; `stop()` returns.
- `LatestComplete`: every interleaving of savers and every crash leaves `LATEST` naming
  complete runs only.
- `AtRestCoherent`, `PointerAtomicWhenCalm`: one training at a time leaves memory, disk and
  runtimes in agreement, and the pointer is never empty.
- `StoreSpec`: the process is the model store, whatever interleaves and wherever it dies: a
  restart serves what `LATEST` named and nothing else, each training is reported once, and
  while trainings do not overlap a success is what a restart would serve and a failure
  leaves nothing behind.
- `TaskSettles`: an accepted task reports, unless the process dies.
- `ChampionImproves`, `RollbackTarget`: one promotion at a time only improves, and `@legacy`
  is what the champion improved on, also after calls that broke off half way.
- `RollbackWasChampion`: `@legacy` was champion once, whatever overlaps or fails.
- `PingsTellTheRegistry`: without overlap and failure the last pings are the aliases.
- `NeverRerun`: a recorded call never runs again.
- `LedgerSpec`: the trace is the tool ledger, in all lives: a result is written once and
  never changes, no call has one that did not take effect, and a call takes effect once, and
  once more for each death and each effect that was reported as a failure.
- `IterationsBounded`, `ToolRunsBounded`, `BillBounded`: the caps bound all lives of a loop
  together, each up to a stated excess: the cap on calls by one reply and one run per death,
  the cap on dollars by what is never booked, one reply, one planner call per iteration and
  one reply per death.
- `MetricIsTheModels`: the metric of a turn is that of the model that serves, unless its
  last measure was replayed or a `train` after it published and then reported a failure.
- `StepsRunOut`, `LoopEnds`: every step uses up something that no later one gives back;
  every loop ends. That a loop which improves by `plateau_eps` is not stopped as a plateau
  (`ProgressGoesOn`) is proved for every window; `MCAgentLoop` evaluates the check itself
  (`PlateausFallShort`) on all windows of up to five small metrics. With a window of one
  every metric below `plateau_eps` stops the loop: improve.py:156-158 compares it with
  nothing.
- `EnvRestored`, `ChunkIsItsOwn`, `SuccessIsComplete`: on every way out the environment is
  as it was; what a result says of a chunk is about that chunk's run and model; success is
  posted of complete simulations only.
- `WindowsContiguous`: no window carries the cursor without one that ends where it begins.
- `FlowEnds`: every flow ends, on a VM too.
- `SummaryOfTheModel`, `FailsOnlyByTheModel`, `QueryCoherent`: what one worker caches suits
  the models of the other; Redis fails no request; the parts of an answer are of models that
  were live, and of one if nothing was published meanwhile.

### What does not

- *Drain on stop* (batcher.py:70): the worker looks at the flag before the queue. A row
  submitted before `stop()`, for instance before the worker's first step, waits for ever.
- *Atomic pointer* (dispatcher.py:99): savers share one temporary name. B truncates
  `LATEST.tmp` after A wrote it and before A renames it: `LATEST` is empty until B writes,
  and B's own rename then fails its training with FileNotFoundError. A crash in between
  leaves an empty pointer and a restart without a model.
- *Interval of another fit* (predict.py:84): from the publication of a new model until the
  registration of its export, or for good when the export fails, the active runtime is an
  earlier fit of the same kind.
- *Fatal hooks* (train.py:150-152): upload and provenance stand outside any `try`, so
  either fails a training whose model is already live and already named by `LATEST`.
- *Ungated promotion* (promotion.py:94): every exception of the read means "no champion".
  Overlapping calls can regress the champion as well, which is why `ChampionImproves` is
  stated for one call at a time.
- *Sliding window* (nightly.py:89): the cursor is the greatest tag among the latest 100 runs.
  Once a run carries the horizon the bench trains its first window at every run, until that
  run has fallen out of the list.

### Observed without a run

*Promotion.* Without a tracking server `maybe_promote` reports `promoted=True` and sends
pings though no alias was written; the simulation passes the MLflow run id where a registry
version is expected (simulate.py:311-313).

*Agent.* A resume counts two plan events for an iteration (improve.py:59, 63) and a replayed
result as a new tool call, and refunds calls that failed and replies whose charge was lost;
error counts, the metric window and the turn that was cut off are not restored. The
planner's LLM calls are never charged, nor is a model that is not in `_PRICES`: max_usd does
not hold for it. A `train` that fails after publication tells the LLM of an error while its
model serves. The last permitted iteration plans and then executes nothing. The breaker's
key is the tool and the error, because results carry no arguments (improve.py:4 names
triples). `evaluate` with the same arguments is answered from the cache within a live turn
too, and is measured on all validation rows while the run's own metric leaves the
calibration rows out (`EvaluatedIsMore`).

*Flows.* A VM leaves `STATE.model` empty, so a simulation on a VM raises at its first
evaluation although simulate.py:21 offers it, and a bench without a reachable server raises
although nightly.py:18-20 says it fails soft. The reference week is trained on by the last
window of the walk. A broken-off simulation posts no event.

*Data.* With `DATA_SOURCE=query` the split is ignored, so validation and calibration rows are
training rows (`QueryHoldsNothingOut`; conformal.py:43 asks for a disjoint set). From the
store a trip is loaded for both splits when it is in the training file of the one size and in
the validation file of the other, and only then (`LocalHoldsOut`, `FilesMayOverlap`); a store
without the column `split` is loaded whole for either. Migrating a
second split overwrites the months both have (`LaterMigrationReplaces`). `clean()` calls
`unique()`, which keeps no order, so that the calibration tail is one of positions, not of
time. A LIMIT returns the earliest rows, no sample. The schemas of validate.py are called
by tests only, though the module says *every IO boundary*. Lineage hashes name the data and not
its bytes (`SharingIsByName`; lineage_store.py:5), and its table has no manifest hash
(provenance.py:5-6). The adaptive level never adapts: `update()` has no caller.

*Search.* Three good LightGBM runs make the agent propose LightGBM (`SameKindProposals`),
and its proposals alone reach two of the six backends (`TwoBackendsOnly`). Gains of less
than a millionth per epoch count as none. One trial that raises ends a study and loses the
trials before it (`StudiesReturn`; hpo.py:159 catches nothing). The pruner never sees an
intermediate value.

*Serving.* A restored `torch_mlp` never gets its weights (torch_mlp.py:148) and fails every
request; the fingerprint of a restored tuned tree model is that of the default one; weights
and training data are not in it at all (cache.py:3-4 says *model identity*). A failed
connection to Redis is remembered for the life of a process. The gRPC process never loads a
model and aborts every call.

*Settings.* `file:` references are resolved from the environment in three groups of seven, and
never from a .env file (settings.py:67-68 says either). An empty `DEEPCAB_ENV` selects the
.env file of `APP_ENV` and then fails the validation of the name. The name itself may come
from the .env file: a `DEEPCAB_ENV` there wins over an `APP_ENV` of the environment, though the
file was chosen by the latter (pydantic-settings merges the sources name by name, then takes
the first name).

### Fairness

- *Batcher:* weak fairness of the worker, because the event loop runs every ready task,
  the runtime call returns or raises, and the timer of `wait_for` fires; and of the return
  of `stop()`. Callers owe nothing: `start`, `submit`, `stop`, cancelling may never happen.
- *Lifecycle:* weak fairness of each training, because the pool runs what it was given and
  a thread makes progress. Requests, crashes and restarts owe nothing.
- *Promotion:* a call that has begun goes on until it returns, raises or dies. None of its
  properties needs it.
- *Agent:* weak fairness of the loop's own steps: the consumer asks for the next event, LLM
  and tools answer or raise. Starting, resuming and dying owe nothing.
- *Flows:* weak fairness of the flow's own steps, the deadline of the poll among them. VMs
  owe nothing.
- *Serving:* none; all its properties are of safety.

## 4. Proofs

The theorems hold for every number of callers, trainings, kinds, versions, calls, workers,
flows, requests, crashes and faults, and every batch size, horizon, chunk, cap and
threshold. They assume only the named assumptions on the constants: that the special values
(`Sentinel`, `NoRow`, `None`, ...) are none of the ordinary ones, that a batch has room for
a row, that bounds and metrics are natural numbers, the threshold lies between 0 and 100
percent, caps, horizons and chunk lengths are positive, and a period ends after it begins.

**Batcher.** `TypeCorrect` is inductive as it stands, because the type invariant says
that the worker holds rows exactly between taking the first and calling the runtime.
`ImplementsService` shows that each step is a step of `RowService` or leaves its variables
alone. The step of the runtime needs that the batch is a prefix of the line (`DropPrefix`)
and that matching by position gives each caller its own number (`OwnNumber`).
`RowsExactlyOnce` is proved about the service and carried over: uniqueness alone is not
inductive, since a cancelled caller's row stays in line and a row of no features leaves it
unanswered. `FuturesSettleOnce` follows from the steps. `ErrorsHaveACause` needs `Blamed`:
the kind of a row is fixed by its submission, so a cause stays on record. `AnsweredInOrder`
needs `Ordered` (two rows of the line stand in the order of the log) and `Logged` (who has
not submitted is not in the log); that a batch is a prefix of the line comes from the
refinement, and does the rest.

**ModelLifecycle.** `TypeOK` is not inductive: the active kind could lack a runtime.
`Registered` adds that it never does. `Persisted` says how far each training's directory is
from its place, and that not only `LATEST` but also `LATEST.tmp` names complete runs: it
gives `PointerNamesCompleteRun` and `SuccessIsDurable` for all interleavings. `Alone`
(at most one training in flight, so `LATEST.tmp` is its own) and `Coherent` (what each phase
has already brought into agreement) give `PointerAtomicOneByOne` and `CoherentAtRest`.
`ImplementsStore` needs all of these, and `Held`: where a training stands says whether it
was reported, whether its directory is complete, and, while calm, whether its model is the
one that is served.

**Promotion.** `Reigned` (what a call has read was champion) gives `LegacyWasChampion`
for all interleavings. `Alone` and `Fresh` (what a call has read is still the case, and what
it decided follows from it) give `PromotionsImprove` and `LegacyIsRollbackTarget`.
`BeatsImproves` is the arithmetic between the code's comparison and the property's. `Told`
(an alias differs from its ping only while the one call stands between the two) gives
`OperatorsAreTold`.

**AgentLoop.** Each bound is a sum over lives that no counter of the program holds, so each
needs an invariant that relates history to trace and trace to counters. `Counted`: the trace
has between one and two plan events for each iteration begun, and the counter of a live loop
is at least the iterations begun. `Billed`: the bill is what is on the trace and what was
waived, plus at most one planner call per plan event due and one call per death. `Worked`:
what was completed is on the trace, except what is at hand or was lost by a death. `Once`
and `Answered`: what was recorded is in the cache of every turn, and a call runs only when
it is not. `Current`: until a measure is replayed, or a train that published reports a
failure, the metric follows the model. `ImplementsLedger` adds `Backed`: a result on its way
to the trace is of a call that took effect, or is the entry itself, replayed.

`PlateausAreFlat` needs `Measured` (only metrics are measured, so only metrics are looked
back on, and a loop that ended as a plateau is one the check calls so) and a fact about
sums: if each entry is below the one before it by eps, every entry of the older half is at
least eps above every entry of the newer one (`HalvesApart`), and so are the means
(`MeansApart`); a single entry has the mean of nothing to be compared with
(`SingleIsComparedWithNone`). A sum is a fold and so a recursive function, about which
nothing can be proved by induction: `SumsExist` shows by least counterexample that partial
sums exist, and `SumBounded` bounds them in the same way. `RunsAreFinite` goes through the
actions one by one and shows which of the eight numbers of `Left` falls; `NoEndlessDescent`
is the well-foundedness of their order, by the least element of each place in turn. Together
they say that every run is finite, for any caps; that a loop which is not over has a next
step, and takes it, is left to TLC (`LoopEnds`).

**Flows.** `Ready` says which flow comes to which statement and what it has there; `Nested`
what each overlay has saved, so that leaving it gives back the environment of the caller
(`EnvironmentIsRestored`). `Owned` follows a chunk from its fit to its entry: the model in
memory is the one just fitted on it, and a VM leaves none (`ChunksAreTheirOwn`). `Walking`
says that the window of a bench begins where a run ends that is older than its own, which
survives benches that break off anywhere (`TheBenchLeavesNoHole`). `Covering`, `DoneFollow`
and `Counted` say that what is left follows on what was handled, to the end of the period
(`SuccessCoversThePeriod`). `ChunksCover` is the arithmetic of cutting a period.

**Serving.** `Loop` says who is on the loop of a worker and that it is there alone; `Alive`
and `Sourced` say that whatever a request has read was live in its worker while it ran;
`Single` that the parts read so far agree while nothing was published; `Remembered`, `Stored`
and `Found` that every entry of the caches suits its key.

**TrainingData, Search.** These theorems are about operators, for all rows, sizes, losses and
runs. Induction over natural numbers is out of the prover's reach, so a claim about every
epoch, every fold or every run takes the least number for which it fails and shows that it
cannot be the first: that a set of naturals has a least element follows from the
well-foundedness of `<` on Nat.

Proved, and checked by TLC through a refinement only: `SettledOnce` (the steps of
`RowService` settle a future once), `EffectsBounded` (the guard of `TakeEffect` in
`ToolLedger`) and `SucceededIsDurable` (the guard of `Succeeded` in `ModelStore`, but for its
second half, that there is a `LATEST` at all).

Only model-checked: the liveness properties (`Served`, `CollectedIsAnswered`, `StopEnds`,
`TaskSettles`, `LoopEnds`, `FlowEnds`), which need fairness and are out of the prover's reach;
and the facts of the three modules of checks, which are about functions defined by recursion
or about single inputs.

## 5. What could come next

The promotion as an implementation of an abstract register of champion and rollback target;
ranks like `Left` for a flow and for a training; the poll of a task as a reader of its own,
which sees `succeeded` before the run id (train.py:50); trainings of one process that overlap
inside the environment overlay.

## 6. Not modelled

Numerical work (fitting, SHAP values, distances, angles, geohashes, quantization itself),
shuffled folds, seeding, model cards, metrics, logs and tracing exporters (the JSONL tracer
has no caller), routes, middleware, command-line parsing, generated gRPC code and the
notebooks. They are sequential, have no state the properties depend on, or live in
libraries; where they can fail inside a modelled operation, that operation has a failing
step. GraphQL's `train` mutation runs a whole training on the event loop and is left out;
`run_id` of a task and the order in which the service writes it as well.

## 7. Running

    tlc -config MCBatcher.cfg MCBatcher.tla
    tlapm BatcherProofs.tla

and likewise for the others. The largest passing run takes about two minutes.
