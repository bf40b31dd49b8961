# TrainLM: verification models

TLA+ models of the stateful parts of TrainLM, checked with TLC on small
instances and proved with TLAPS for every value of the constants. All paths below
are relative to the repository.

## 1. The system

TrainLM trains causal language models. A public front end (`api.py`) builds a
model, data, optimizer and schedule and hands them to an engine (`Trainer`)
that runs callbacks, evaluates, saves and resumes. Data comes from packed
shards through a partitioned reader and a prefetching thread. On a TPU the
front end launches one worker process per rank; the ranks save a checkpoint
together, shard by shard.

| Part | State it keeps | Operations | What makes it correct | Model |
|---|---|---|---|---|
| Trainer lifecycle (`training/`) | phase, failure, step, stop flags, one-shot control flags, last saved step | prepare, train, evaluate, save, load, request_stop, finalize; hooks run at every boundary | failures stick; the finally chain always ends in FINALIZED; due saves and the last update are saved; a stop costs one update at most | `TrainerLifecycle`, `TrainerLifecycleProofs` |
| Prefetcher (`data/prefetch.py`) | queue, slots, stop event, thread, counters | start, next, close; one producer thread | order, bounded read-ahead, no lost slot, nobody waits for ever | `OrderedStream`, `Prefetcher`, `PrefetcherProofs` |
| TPU checkpoint (`_tpu_checkpoint.py`) | shard files, manifest, votes of the ranks | save, load, find_latest | commits are atomic, whole and loadable; ranks agree; nobody is stranded | `CheckpointStore`, `TpuCheckpoint`, `TpuCheckpointProofs` |
| Scratch run directory (`api.py`) | run_config.json, checkpoint files, pending budget | construct, train, resume, save, extend the budget | the directory can be resumed wherever a process dies; schedules fit budgets | `ScratchRun`, `PretrainingRunProofs` |
| Retention (`checkpoint/retention.py`) | ownership markers | mark and prune after each save | never prunes the new save; limit kept | `ScratchRun`, `PretrainingRunProofs` |
| Local training checkpoint (`api.py`) | trainer_state.pt, live components, the loader's generator and position | save, preflight, load, replay | a resume is all or nothing and stands where the save stood | `LocalCheckpoint`, `PartsProofs` |
| Training arguments and requests (`api.py`, `cli.py`) | arguments, request, command line | check, build a local engine, launch a worker | nothing asked for is lost on the way | `TrainingRequest`, `PartsProofs` |
| TPU coordinator and workers (`_tpu_coordinator.py`, `scripts/`) | process group, log, markers, summaries, metrics | run, wait, terminate; launcher and ranks | a success is a success of this request; a call comes back | `TpuLaunch`, `TpuLaunchProofs` (the save of its ranks: `TpuCheckpoint`) |
| Async checkpoint lifecycle (`checkpoint/lifecycle.py`) | phase, transaction, durable, retained | begin, complete, fail, shutdown | nothing is called durable that is not on disk | `CheckpointManifests`, `PartsProofs` |
| Resume and export manifests (`checkpoint/`) | artifacts, states, cursors, topology | construct, plan a resume, plan an export | only a whole manifest is granted, to the world that wrote it | `CheckpointManifests`, `PartsProofs` |
| Packed data (`data/`) | layout, partition plan, cursor of a dataset object | locate, plan, partition, iterate, save and restore, write shards | every sample once; ranks in step; exact resume | `PackedSchedule`, `PackedScheduleProofs`, `DataFeed`, `DataFeedProofs`; the writer in `PretrainingRun` |
| Token budgets and schedules (`training/`) | global and per-rank counters, place of the schedule | restore, count, reduce, stop, log | no rank waits for one that left, unless that one raised on its batch or was stopped alone; the budget is global | `TokenBudget`, `PartsProofs`; horizons in `TrainingRequest` |
| Optimization (`optimization/`) | plan, module tree, patched forwards, transaction | inspect, resolve, plan, apply, roll back, commit | transforms are atomic; policies are honoured | `ModelTransforms`, `PartsProofs` |
| Packed layouts and round trip (`optimization/`, `checkpoint/roundtrip.py`) | projection specifications, state dicts, ties | pack, train, save, resume, export | an export is what an unpacked training would have made | `StateLayouts`, `PartsProofs` |
| Front end run (`pretraining*.py`, `_notebook_resume.py`) | tokenizer, shards, cache file, report | prepare, run, report, restore | no run on a mixture; a report can be restored | `PretrainingRun`, `PretrainingRunProofs` |
| Runtimes (`runtime/`) | devices, compiled shapes, random state | reduce, average, guard, save and load state | collectives and guards as the loop needs them | in `TokenBudget` and `LocalCheckpoint` |
| Tasks, models, evaluation, kernels | tensors | forward, loss | numerical | only the token count, in `TokenBudget` |
| Configuration, monitoring, benchmark, release | none or files written once | validate, format | field-wise checks | not modelled |

How they interact: `TrainLMTrainer.train` calls `Trainer.load_checkpoint` and
`Trainer.train`; the trainer calls callbacks and the runtime's hooks (which may
fail or set control flags), pulls batches from a data loader behind which the
prefetcher may run, and calls the checkpoint saver, which is
`TrainLMTrainer._save_training_checkpoint` (local) or
`save_tpu_worker_checkpoint` (one per rank). The coordinator talks to its
workers by files and signals only.

What is hard to test here: failures inside nested `finally` blocks and hooks;
ranks that leave the training loop alone; a thread and a consumer around a
queue; ranks that fail at different points of a collective save; processes
killed between any two file operations, and the next process that finds the
leftovers. `PROJECT.json` lists these hazards one by one, each at its line.

## 2. What is modelled

### TrainerLifecycle

One trainer and its callers. `phase`, `failure`, `step`, `flags` (`is_training`,
`should_stop`) are `TrainerState`; `ctl` is `TrainerControl`; `lastCkpt` is
`_last_checkpoint_step`; `runtime` is whether the backend is new, live or
released. `pc` is the place inside `train()`, `finalize()` or at rest; `opKind`,
`opPrev` and `opAt` are the nested operation under way and the phase it will
restore. `disk` is the set of steps with a durable checkpoint. `ends`, `finals`
count the end and finalize hooks, `reqStep` remembers when a stop was first
asked for; both are history.

Each hook point may return, fail or raise control flags. A step, a save or a
load may fail anywhere. `finalize()` may be called whenever no other operation
runs: on a trainer that was only created it asks for a move the table refuses,
and fails without a change (`FinalizeRefused`). `NewProcess` is a restart that
keeps `disk` only. Left out: a hook that calls the trainer it is run by
(`evaluate()`, `save_checkpoint()` or `finalize()` from a callback), so nothing
here is shown about such calls; metrics and data iterators; budgets and
accumulation, which are in `TokenBudget`.

### Prefetcher and OrderedStream

`OrderedStream` is the promise: batches `Start..Stop-1` in order, then
exhausted, or failed after the earlier ones, or closed. `Prefetcher` is
`AsyncBatchPrefetcher` at the grain of its shared operations: the semaphore
(`slots`), the queue, the stop event, the counters under the lock; `ppc` is
the line of the producer, `cpc` that of the consumer. Source and transfer may
fail at any batch; `close()` may come between any two calls and its join may
time out. A refinement mapping makes `OrderedDelivery` the implementation
statement.

### TpuCheckpoint and CheckpointStore

Every rank runs the save line by line: stage and publish the shard, vote,
barrier, the primary stages and publishes the manifest, vote, barrier. A vote
(`reduce_sum`) is answered when all ranks have entered it; `entered` counts
collectives, so a rank can never see the answer of another round. A rank may be
killed between any two steps; its peers wait until the launcher reclaims the
group; the next run finds what is on disk and may resume from any directory the
caller names. File contents are the number of the run that wrote them, which is
what a checksum tells apart. `CheckpointStore` is the promise: a checkpoint
appears whole, once, and never changes.

### ScratchRun

`TrainLMTrainer.from_scratch` binds `output_dir` to a configuration. One
process lives at a time; each action is one file operation or one decision
between two of them, and `Exit` may come after any. `config`/`configTmp` are
`run_config.json` and its temporary; `state`, `horizon`, `leftover`, `marker`
are the files of `checkpoint-N`; `active`, `pending`, `extended` are the three
private attributes that carry a budget extension. Budgets pay for `Span`
updates each, so that a larger budget has a larger horizon, as
`_validate_scratch_budget_extension` demands. The other settings are the same
in all processes. With fewer than twenty updates the derived cadence is one
update, which is why a save follows each update.

### PackedSchedule and DataFeed

`PackedSchedule` holds the pure part: batches per shard, `locate`, the global
batch order and a rank's share of it. `DataFeed` follows one rank through
processes and trainers: `cursor` is `PackedBinDataset._cursor`, `taken` the
position of `Trainer._train_iterator`, `draw` how often its sampler's generator
was used, `micro` is `micro_step`, `store` the checkpoints. Four loaders are
looked at: the packed dataset read without loader workers (its cursor is
saved), with loader workers, a shuffled map-style dataset, and the stream of a
TPU worker; the position of the last three is rebuilt by replaying `micro`
batches, one `Skip` or `Rewind` at a time. A dataset object may be used for
another trainer (`Again`), with the cursor where the last one left it. torch's
DataLoader and sampler are external: loader workers are asked in turn, and a
permutation is a function of the generator's uses. `seen`, `used` and `origin`
are history. A digest of the seed is an order given as a constant, a
permutation of the shards; the world, the batch size and the number of loader
workers do not change between runs. A partition that would leave a rank without
a batch is refused by the code when it is planned, so `DataAssumption` has none.

`PassesAreWhole` joins what one rank sees in a pass (`EachPassOnce`) with the
shares of all ranks (`RanksPartition`).

### PretrainingRun

`run_pretraining` over one output directory, on top of `ScratchRun`, whose
trainer it builds. A session asks for dataset settings, a budget, an extension
and a checkpoint; `at` is the place in `_prepare_scratch_training` and in
`run_pretraining`. `tokenizer`, `shard`, `cache` and `report` are the files;
a file's content is the settings it was made from, so that a mixture shows. The
tokenizer directory is replaced in two steps (`torn`), a shard in three:
data, offsets, manifest last. `Killed` may come anywhere, `Raises` wherever
Python code may raise. `RestoreCall` is `restore_pretraining_report`. Its
session goes on with the settings, the checkpoint and the extension flag that
`build_resume_report` wrote. Restoring is looked at right after the session
that wrote the report (`fresh`). A setting of `Scarce` yields too little text
for a larger budget.

### TpuLaunch

Two calls of `_TPUCoordinator.run` in one notebook. `pc` is the place in `run`,
`_run_stage`, `_wait_with_heartbeat` and `_terminate_process_group`;
`launcher[n]` and `place[n][r]` are the processes of call `n`; `summary`,
`metrics`, `marker` and `record` are `summary.json`, `metrics.jsonl`, the fatal
markers in the log and `coordinator_summary.json`, each with the call that wrote
it. Ranks hang, dump core, fail a preflight or raise; `KernelDies` ends the
notebook and leaves the group behind, whose ranks go on writing. A device is
held by one process. A request may have one flaw that the ranks will find.

### LocalCheckpoint

Sessions over one output directory. Each has a loader (built by the facade, or
the caller's own, in order or shuffled), a kind of dataset, a runtime and a
seed. `disk` is the last `trainer_state.pt`, `initial` the private
`_train_loader_generator_initial_state`, `loader` what the generator and the
position really are. A resume reads a payload with one flaw or none: a section
absent, malformed, of another model or machine, or wrong in a field of the
optimizer, scheduler or trainer state. `Preflight` goes through the sections
as `_preflight_training_checkpoint` does; `Load` restores them in the code's
order, and a section it did not look at may raise in the middle (`Disturbed`).
The data itself may raise while it is replayed (`Unreadable`): the components
before it are restored then, and the session ends.

### TrainingRequest

One training from its arguments to its schedule. `args` is what the caller gave,
`options` what an engine or worker got, a record of option names. Both checks
are there, the facade's and the worker's parser with its own defaults, and so
is the command line between them. `horizon` is what `_make_scheduler` or the
worker chose.

### TokenBudget

The training loop of every rank as the collectives see it. A rank runs by itself
until it needs a reduction; `Reduce` happens when all wait for the same one. The
configurations are constants: budget, accumulation, averaging before clipping,
shape guard, tokens counted or not, a schedule by tokens, log interval, tokens
seen before a resume, and for each rank the update after which its own flags ask
for a stop. A batch may have no supervised token, which raises on the rank that
drew it (`BatchRaises`); the other ranks know nothing of it.

### ModelTransforms and StateLayouts

`ModelTransforms` inspects a model, resolves an adapter, makes a plan under a
policy and applies it: `tree` is the module at each path, `forward` the
wrappers around a module's forward, `applied` the transaction. Packing and
rematerialization check before they change anything; a foreign handler may raise
anywhere, in a rollback too. Modules may be shared and paths nested.

`StateLayouts` holds a state dict as tensors of rows, each with its origin and
its number of updates. Packing concatenates, training updates rows, a resume
checks the layout manifest, an export splits and restores ties; `reference` is
what an unpacked model would hold. A source may have one defect.

### CheckpointManifests

The lifecycle object with one writer that may report late or never, and the
manifests it publishes: the right one with a slip (an artifact, state or cursor
left out, repeated, misplaced). A constructor accepts or refuses it; a planner
grants a resume or an export, or does not. The planners are asked between
saves.

### Parts, MCParts

These six components share no state with each other. `Parts` puts them side by
side, and `MCParts` gives its constants their values; a behaviour is one of the
part the initial state names and the others stand still. Each part's properties
are stated, checked and proved of `PartsSpec`. `TokenBudget` is extended, so
that its properties are checked under their own names; its ranks have begun
nothing (`LoopOff`) in the behaviours of the other five, which are instances.
`Chosen` says which parts a configuration looks at, so the violation runs use
the same module.

## 3. What the runs show

All runs are complete searches. `CHECK_DEADLOCK FALSE` is set where the modelled
program may stop for good: a trainer, a prefetcher or a process that nobody
calls any more.

| Run | Instance | Shows |
|---|---|---|
| TrainerPeriodic | 3 updates, save every 2, evaluate every 3, one restart | `LegalTransitions`, `FailureIsTerminal`, `NoSaveAfterFailure`, `StopAtBoundary`, `CompletedRunIsSaved`, `PeriodicSaveDone`, `TrainLeavesCleanly`, `TrainReturns` |
| PrefetchAhead | 4 batches from index 1, capacity 2 | `SlotsConserved`, `ReadAheadBounded`, `OrderedDelivery`, `NextReturns`, `CloseReturns` |
| TpuCheckpointPair | 2 ranks, 2 saves, 3 launches | `LatestLoads`, `SavesAgree`, `RestoreTogether`, `SaveEnds`, `AtomicStore` |
| PretrainKill | 2 budgets of 2 updates, limit 2, 2 dataset settings, 3 sessions and 3 trainers, failing removals | `RunResumable`, `SchedulesFit`, `RetentionSafe`, `PreparedIsWhole`, `ReportConstructs`, `BoundDataKept` |
| FeedRestarts | 2 datasets of 11 batches, 2 ranks of 5 each, batches of 2, 2 micro steps per update, budgets of 2 and 4 updates, 3 trainers | `ExactResume`, `PassesAreWhole`, `ChangedDataRejected`, `ReplayReaches` |
| LaunchPair | 2 calls, a training after a training or a preflight, 2 ranks, 1 update, 1 fault | `CompletedIsOurs`, `CallEnds` |
| EngineParts | the six components of `Parts` | `TrainsAsAsked`, `TransformsAtomic`, `PolicyHonoured`, `LayoutRoundTrip`, `RanksStayTogether`, `BudgetIsGlobal`, `GrantedIsWhole`, `DurableIsPublished`, `ResumeAllOrNothing`, `ReplayIsExact` |
| LaunchReclaim | violation, 2 faults | `Reclaimed`: a rank that hangs outlives the termination of its failed training (`_tpu_coordinator.py:292`) |
| BudgetCrossing | violation | `CrossingCompletes`: a budget met inside an update fails (`ACCUMULATION.md:26`) |
| ScratchRetry | violation | `ExtensionRestartsSchedule`: a second `train()` keeps the exhausted schedule (`AI_AGENT_GUIDE.md:80`) |

`TypeOK` of the trainer and the prefetcher, `ClosedIsQuiet` and
`FailureAfterEarlier` are proved and need no run; so are `TypeOK` of the modules
that have one, and `CommittedIntact` and `ReturnedIsCommitted` of
`TpuCheckpoint`.

What the properties of `EngineParts` say in their modules: `TrainsAsAsked`, a
TPU worker has every option as asked, and refuses nothing the facade accepted
but a sequence of one token. `TransformsAtomic`, a failed or retracted plan
leaves each path as it was, a committed one is in effect as a whole.
`PolicyHonoured`, no fallback answers a required policy unless it was named.
`LayoutRoundTrip`, an export equals the reference. `RanksStayTogether`, a rank
waits for one that has left only if that one's batch raised or it was stopped
alone, and all others leave after the same update. `BudgetIsGlobal`, the counter
is the sum over ranks and a run ends within one micro-batch of its budget.
`GrantedIsWhole`, a granted plan can be carried out whatever the writer left
out. `DurableIsPublished`, the lifecycle claims only what is on disk.
`ResumeAllOrNothing`, a refused resume changed nothing unless the CUDA states, a
runtime or a dataset without validation were at fault. `ReplayIsExact`, a
resumed loader stands where the saved one stood.

Why the bounds are enough. Trainer: two updates between saves and three between
evaluations give boundaries with neither, with one, with the other, and a final
update that no periodic save covered; the saves of a first process are what the
second one loads. Prefetcher: more batches than capacity, a start other than
zero, and room to be ahead by more than one. TPU checkpoint: the third launch
meets the leftovers of one that itself met leftovers, and the second step lets a
run resume behind an existing directory. Scratch run: a fresh process, an
extension and the process after it; two updates per budget let an extension
start behind the last checkpoint of the smaller budget. Pretraining: two
settings, one of them too small for the larger budget, over three sessions: one
that is cut short, one with other settings, one that is restored. Data feed: a
rank owns five samples and reads them by two, so that a pass ends with a half
batch and in the middle of an update; eight micro steps cross two ends of a
pass; a shard shorter than a batch and a batch too many for two ranks are the
remainders; and the third trainer resumes what a resumed one saved. Only the
dataset of the cursor loader may be swapped in FeedRestarts: the other loaders
have nothing to notice it by (see below). Launch: a second call meets the files,
the log and the orphans of a first one, a training or a preflight (a preflight
starts with the steps of a probe), with one fault in either of them. In
LaunchReclaim the second fault is the hang of a rank whose peer has failed.
Request: every combination of the arguments that meet in a check. Transforms: a
plan of up to four transforms, nested and shared paths, providers that lack a
feature, handlers that are missing or belong to another inverse. Layouts: equal,
grouped and not divisible heads, one projection that is left alone, ties within
and across packed keys. Budget: a budget met by one micro-batch, in the middle
of an update, after several and never; three ranks, each of which counts no
token, one or two, and which are stopped together or at updates of their own.
Manifests: two transactions, two ranks, one slip each. Checkpoint: three
sessions, because a wrong generator state shows two resumes later; passes of two
batches and three micro steps, so that a position lies in a second pass.

Every property is tied to a mutant: a named variant of one definition, written
beside it, that changes it the way a slip in the code would (`_OffByOne`,
`_NoFinally`, `_KeepsSlot`, ...). Under its run TLC then finds the property
violated. They are listed in `PROJECT.json`.

### Fairness

- Trainer: weak fairness of the steps inside `train()`: Python code that was
  entered runs on, and hooks return. None for the caller's own calls.
- Prefetcher: weak fairness of each thread's steps. The thread is scheduled,
  source and transfer return; the consumer inside a call runs on. Nobody has to
  call.
- TPU checkpoint: weak fairness of each rank inside a save. Nobody has to kill,
  reclaim or launch; so `SaveEnds` holds without the help of the launcher as
  long as all processes live.

- Data feed: weak fairness of the replay, which is a loop in one process.
- Launch: weak fairness of the coordinator's own steps and of the processes of
  the calls, together: the operating system runs them unless they hang. Nobody
  has to interrupt. A training has no limit on inactivity, so `CallEnds` excepts
  a training with a rank that hangs.

## 4. What is proved

The theorems hold for all values of the constants that satisfy the named
assumptions of the modules: `ConfigAssumption` (cadences and budgets are
naturals, switches are Booleans), `RangeAssumption` (`Start <= Stop`, a positive
capacity), `WorldAssumption` (the primary is one of the ranks),
`ScratchAssumption` and `PretrainingAssumption` (positive horizons, naturals as
bounds), `LaunchAssumption` (rank 0 is one of the ranks, a training has an
update), `LoopAssumption` (finitely many ranks, configurations as
`TrainingArguments` and a checkpoint can hold them, naturals as counts),
`FeedAssumption` and `DataAssumption` (positive sizes, an order that lists each
shard once, a batch for each rank), `PlannerAssumption` (`Ancestors` are the
proper prefixes of a path, a transformation has targets among the paths,
providers are finitely many and ranked by integers), `ManifestAssumption` (a
transaction is not 0, a world has a rank, at least one checkpoint is retained),
`EngineAssumption` (a loader has a batch, no seed is the 0 that stands for
none), `LayoutAssumption` (heads and widths are naturals, an alias group is a
sequence of keys). TLC evaluates each of them in a run.

Each proof goes through an inductive invariant, called `IInv` unless said
otherwise, which TLC checked on the run's instance before it was proved; where a
conjunct ranges over all sequences, TLC checked it over their domains instead.

**Trainer** (`TrainerLifecycleProofs`). The invariant joins the type invariant
with: which phases each place of `train()` allows, with and without a nested
operation; which phase a nested operation may restore; that a recorded failure
excludes the productive phases; how `ends`, `finals` and `runtime` grow along
the finally chain; that a stop request is still visible to the loop check while
`step` may be one ahead; and that `lastCkpt` is on `disk`. It is needed because
`FailureIsTerminal` says nothing about the phase remembered by a nested
operation, and `CompletedRunIsSaved` nothing about the places between the final
save and FINALIZED. `Inductive` gives all safety invariants of the run;
`NothingSavedAfterFailure` and `TrainEndsClean` are action properties from it,
and so is `PhasesMoveLegally`: each operation and step of the finally chain moves
the phase as the table of `TrainerState` has it, from the phase it is in at that
moment, also where a failure came in between.

**Prefetcher** (`PrefetcherProofs`). The invariant adds to the types: the slot
equation; the queue holds consecutive batches from `Start + consumed` up to the
producer's index, an end or failure item being the last; what each consumer
place implies for `state`; and that the thread has ended once a join returned.
From it follow the safety invariants, `FailuresInOrder`, and `Refines`: every
step is a step of `OrderedStream` or a stutter.

**TPU checkpoint** (`TpuCheckpointProofs`), for any set of ranks, steps and runs.
A save is four collectives, so `entered` tells how far a rank is in its run
(`Counted`), and no rank is more than one collective ahead of another (`Skew`).
That is what makes a vote that is read the vote on the same save (`Met`,
`Unanimous`). `ShardsTruthful` and `Drafted` say that what the primary is about
to list are the shards of its own run, `ManifestTruthful` that a manifest that is
there lists what is there, `NotYet` that the steps ahead of a run were not
committed by it. From these follow `RanksAgree`, `CommittedStaysIntact`,
`RestoredTogether`, `LatestCanBeLoaded` (the highest committed step is found by
well-founded induction), and `Refines`: the directory is a `CheckpointStore`.

**Scratch run and its sessions** (`PretrainingRunProofs`), for any budgets,
horizons, limits and failing file operations. `Started` says which of two
budgets a process is bound to at each place, `Kept` that a checkpoint of the
older budget stays until `run_config.json` names the newer one, `Pruning` what
retention may still remove. They give `AlwaysResumable` and `RetentionIsSafe`
for `ScratchRun`. `SessionsRefine` shows that whatever `run_pretraining` does is
a behaviour of `ScratchRun`, so both carry over. `SessionInv` adds where a
session's schedule ends and what its tokenizer, shards and cache are made from;
from it follow `SchedulesAlwaysFit`, `TrainsOnWholeData`, `ReportsRestore` and
the action property `BoundDataStays`. `SchedulesFit` is a theorem about the
sessions only: of `ScratchRun` alone it is false, which is finding 1 below.

**Coordinator and workers** (`TpuLaunchProofs`), for any number of ranks, calls,
updates and faults. Ranks of several calls may be alive together, and they
write files of the same names; `Exclusive` says that of two calls that have had
a rank's device the older does not come back to it, `InStep` that the ranks of a
call are at most a barrier apart, `Answered` what the call that holds rank 0's
device has written. `CompletedIsOurs` alone is not inductive: it says nothing of
a summary that is written while its call still waits.

**Token budget** (`PartsProofs`), for any finite set of ranks and any
configuration. Between two reductions a rank runs on its own, along a path its
counts do not decide; `Meet` is where that path ends, with all the values that
decide it, and for a rank that raised on its batch or was stopped by its own
flags where it would have ended otherwise. A step of a rank leaves its `Meet`
alone and a reduction, which needs every rank, changes all of them alike
(`SameMeet`). So ranks that have not `Parted` leave in the same way and at the
same update, and one that waits for ever waits for one that has (`EachAsked`:
nobody was asked to stop before an update it is in): `RanksAlwaysTogether`.
`Tallied` says that the counter is the sum over the ranks of what they have
counted; the laws of `SumFunction` it needs are proved by induction over the
cardinality of a set. With `Sane`, the bounds of each rank's own fields, it
gives `BudgetAlwaysGlobal`.

The other parts are proved in the same module, each of its own invariant; the
last section takes them to `PartsSpec`.

**Manifests**, for any transactions, backends, world and number of slips.
`ManifestInv` says what the lifecycle object and its writer know of each other:
a transaction in the writer's hands has published nothing until it is written,
and is not retained; what is durable was retained last. `DurableAlwaysPublished`
needs it because nothing in the lifecycle object looks at the disk. For
`GrantedAlwaysWhole` an attempt of the writer is a right manifest after any
number of slips (`AttemptShape`); a manifest of that shape that the constructor
accepts, and that a planner does not refuse, has for each rank of the world a
shard, a random state and a cursor (`GrantInv`).

**Local checkpoint**, for any loader length, seeds, flaws and number of sessions.
`After[n]` is the place of a loader from which `n` batches were taken, over as
many passes as that takes. `PositionInv` says that the live loader stands at
`After[micro]`, that a resume in progress has replayed what it has not `left`,
and that a payload was saved there; hence `ReplayAlwaysExact`. `RestoredInv` says
that the sections before `next` are those of the payload. A section that passed
the preflight is sound to load (`OptimizerSound`, `SchedulerSound`,
`TrainerSound`), so that `Load` raises only where there is no check, which is
what `ResumeAlwaysWhole` excepts.

**Request**, for any budgets. The command line and the parser's defaults
give back every option as asked (`CommandCarries`); what the facade
accepted, the parser accepts, but for a sequence of one token. `RequestInv`
carries this to `TrainsAlwaysAsAsked`.

**Transforms**, for any module tree, transformations, providers, adapters,
policies and handlers. `PlannerShape` says what a plan is, `PlannerTrees` how the
tree and the wrappers differ from those before: a path that no applied
transformation reaches is as it was, and the wrappers of a module are a stack of
those applied (`StackIs`). An item remembers what a rollback needs, because no
earlier item replaced its target or a module above it; `PlannerUndo` says that a
rollback has put back what the items it visited had changed, and
`PlannerEffects` that what is applied is in effect until it is undone.
`TransformsAtomic` alone is not inductive: it is silent while a plan is applied or
rolled back. A packed module can
only be out of a rollback's reach below one that a foreign handler replaced and
did not give back, which the registry reports (`Excused`).
`PolicyAlwaysHonoured` follows from `PlannerShape`, as `First` picks from the
candidates the policy leaves.

**Layouts**, for any sequences of projections, alias groups, defects and number
of updates. `Holds` says that a packed tensor has the rows of each part behind
`Offset`, and one kind and one flag for all of them; `Sync` that a packed state is
the reference with the parts replaced by such tensors. `from_separate` establishes
`Sync` (`Transformed`), an update of both keeps it (`TrainSync`), since one flag
decides for all rows of a packed tensor, and it makes a split give back the
reference (`ExportedIs`), the outputs of a forward the rows of their projections
(`ViewsAre`). Restoring ties changes nothing where tied tensors agree
(`WithTiesSame`), which `from_separate` asks for. `LayoutInv` carries `Sync` through
saves and resumes to `LayoutsAlwaysRoundTrip`. The offsets are the running sums
whose laws `PackedScheduleProofs` has for the batches of shards.

**Packed data.** `PackedScheduleProofs` proves of `RankBatches`, for every order
and every positive number of ranks: shares have one length (`EqualShares`), are
disjoint when no batch comes twice in the order (`DisjointShares`), and leave
out fewer than one batch per rank (`CompleteShares`). The argument is that
what is retained is `world` times the share (`WholeShares`) and that a share
ends before the next one begins (`Within`). Of `_global_batch_order` it proves
that every batch of every shard is listed once (`GlobalOrderIs`), and of
`locate` that it finds a batch where that order put it (`LocateIs`): a number up
to a sum of parts lies in one part and no other (`InOnePart`, `InNoOther`), and
the items of a flattened sequence stand behind those of the members before them
(`FlattenItems`).

`DataFeedProofs` proves of the resume, for every dataset, partition, batch size,
number of loader workers and budget: `ResumesExactly`, `TrainsOnOneDataset` and
`PassesStayWhole`.
`Trail` is the sequence of batches of a run that is never interrupted. `Stands`
says how many batches along it a trainer is, from what the program has: the
cursor, or the iterators made and the batches taken from the last one; `Trained`
and `Stored` that what was trained on, by the running trainer and before every
checkpoint, is the trail up to there. The theorems about it have the hypothesis
`Named`: only the dataset that keeps a cursor may be exchanged between runs.
The replayed loaders have no name for their data in a checkpoint, so without it
the statements are false (see "Seen while modelling" below).

`PassesStayWhole` needs, beside the invariant, that one pass of each loader holds
each sample once (`PassDeals`). `Deals(f, P, s)` says that `f` takes the places
in the batches `P` one to one to the items of `s`; it is shown of a reader's
chunks by division with remainder, of the loader workers' stripes likewise, of a
shuffled order as a permutation, and of the turns of the workers by composing
these (`TurnsDeal`, `Regrouped`). A whole pass of the trail then trains on as
many samples as the share has, and on those (`PassCovers`).

Sums and concatenations are folds, whose library induction theorems take an
operator. Here induction over the naturals is replaced by the least
counterexample (`LeastNumber`, `AllNumbers`), and over sets by well-founded
induction on cardinality.

Only model-checked:

- Every liveness property (`TrainReturns`, `NextReturns`, `CloseReturns`,
  `SaveEnds`, `CallEnds`, `ReplayReaches`): fairness and ENABLED are outside the
  prover.

Every invariant and every other action property of a passing run is stated by a
theorem. The three properties of section 5 fail, and have none.

## 5. Disagreements between code and documents

Each of these is a run:

1. A failed catch-up of `run_config.json` leaves a flag that makes a second
   `train()` extend the run under the exhausted schedule (`api.py:975`).
2. A failed training signals its process group after the launcher was reaped: the
   wait for the launcher returns at once, and no rank that hangs is waited for
   or sent SIGKILL (`_tpu_coordinator.py:292`).
3. A budget met in the middle of an accumulated update raises in the shape guard
   (`trainer.py:532`, `shape_guard.py:78`).

Seen while modelling, not run:

- `finalize()` on a trainer that was only created, or from a hook while it
  evaluates or saves, asks for STOPPING, which the table refuses
  (`trainer.py:775`). Control flags set outside a step are reset, not handled
  (`trainer.py:129`, `control.py:15`). A finalized trainer can be evaluated
  (`trainer.py:637`, `LIFECYCLE.md:34`). "latest" is the highest step, which
  after an extension from an older checkpoint is one that is refused
  (`api.py:290`). A TPU worker's checkpoint, and one made with loader workers,
  names no data: changed shards are not rejected
  (`trainlm_tpu_training.py:716`).
- Arguments: the local engine always uses the causal-LM loss and ignores
  `logits_chunk_size`; `per_device_eval_batch_size` is ignored on the TPU; a
  sequence length of one is accepted by the facade and refused by the worker; a
  local `wsd` schedule fails when it is built; linear and cosine schedules ignore
  `warmup_steps`; with `max_tokens` alone they last one update (`api.py:862`).
- Loop: a batch without supervised tokens raises on its rank alone
  (`causal_lm.py:354`), and the others wait in the next reduction; so they do
  when only one rank asks for a stop (`trainer.py:219`). Both are in the model,
  and `RanksStayTogether` names them (`Parted`). Without a budget and without
  averaging a token schedule is placed by the rank's own tokens times the world.
- Checkpoint: after a resume under another seed the next checkpoint names the
  generator state of that seed, not the one its data was drawn with
  (`api.py:838`, `1036`, `1893`), which `ReplayIsExact` excepts.
  `_preflight_training_checkpoint` says "before mutating trainer
  state" (`api.py:1465`), which does not hold for CUDA states, for a runtime
  without `validate_state_dict` and for a dataset without that hook.
- Manifests: `complete()` and `fail()` carry no token; a sharded state may list
  some shards only, or a shard index twice; `reversed_transform_ids` is never
  compared; the retained list does not survive a restart. Where such a gap
  matters to a plan, the planner refuses it in another check, which is what
  `GrantedIsWhole` shows.
- Transforms: nested targets are not compared; `commit()` is accepted after a
  rollback that raised; no catalogued family adapter can match an inspected
  model; `to_canonical` restores ties before it validates them.

## 6. Plan

Done: the models of section 2, and the proofs of section 4. What is out of reach
of the prover is listed there.

Not modelled, and why: tensor arithmetic, kernels and learning rates (real
numbers, no protocol); configuration dataclasses, monitoring, benchmark and
release evidence (checks of one field at a time, files written once);
formatting of reports and logs; downloads and tokenizing; compilation and FSDP
placement, which are torch's; power loss below the file system (no fsync in the
code, see the hazards).
