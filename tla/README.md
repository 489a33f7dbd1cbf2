# A verification of weibo

Weibo (`src/`) is a stream processing engine in Go: a source, a chain of
operators and a sink run as goroutines connected by channels, with checkpoints
in the manner of Chandy and Lamport; around it a control plane runs jobs in
containers and a compiler turns workflow documents into jobs. This directory
holds TLA+ models of it, the TLC configurations that check them, and TLAPS
proofs. `PROJECT.json` lists every component, the lines each definition models,
the runs, the mutations that show a property is not vacuous, the hazards and the
theorems.

## The system

| Part | State | Operations | Talks to |
|---|---|---|---|
| Execute (`mailer.go`) | ctx, hardCtx, the restored checkpoint | recover, wire, run, stop in two phases | everything below |
| injectBarriers (`mailer.go`) | aligned offset map, checkpoint counter | forward, tick barrier, shutdown barrier, final barrier | source, coordinator, first stage |
| Stages (`pipeline/`) | bounded channels, worker state, merge alignment | plan, route, broadcast markers, aligned merge, pump the sink | operators, barrier snapshots |
| Operators (`operator/`, `window/`) | windows, reduce state, watermark | process, fire, evict, snapshot, restore | state backend, dead letters |
| State backends (`state/`) | values, lists with sequence counters | put, append, checkpoint, restore | files |
| Coordinator (`checkpoint/coordinator.go`) | pending checkpoints, events and fatal channels | register offsets and snapshots, finalize, abort, stop | storage, sink |
| FileStorage (`checkpoint/checkpoint.go`) | `checkpoint-<id>.json`, `latest.json`, `latest-completed.json` | Save, UpdateStatus, Load, LoadLatestCompleted | disk |
| TxnKafkaSink (`sink/kafka_txn.go`) | open transaction, latched produce error, waiters | Write, Commit, Abort, WasCommitted | Kafka, coordinator |
| Plain sinks (`sink/`) | batch buffer, failure counters, dead letters | batch, flush, retry, drain | outside systems |
| Kafka source (`source/`) | offsets consumed and restored, readers, pending commits | fetch, seek, reconcile partitions, commit, drain | Kafka |
| Job agent and SDK (`jobagent/`, `sdk/`) | phase, savepoint request | run, cancel, savepoint | Execute, blob store |
| Control plane (`control/`) | jobs, runs and transitions in SQLite, desired state | submit, cancel, restart, savepoint, reconcile | container backend, agent |
| Workflow compiler (`workflow/`) | directories and pools it opens | validate, compile, field operators, filters | builds a pipeline |

What is hard about it: five goroutines and two stores take part in one
checkpoint; the process may die between any two file renames or with a commit on
the wire; an error may come back from a commit that happened; shutdown has a
graceful and a forced phase that race with all of it; and above, requests and a
reconciler act on what they read from the store some calls ago. The hazards, each
at its line, are in `PROJECT.json`.

## Modules

A component is one module. Its constants are the configuration, the bounds and
`Faults`, the set of things that may go wrong. An action is one step of one
goroutine: what happens between two points where another goroutine, an outside
system or a crash can act. Record contents are dropped wherever a property does
not look at them; a record is its position in the input.

| Module | Models | State and actions against the code |
|---|---|---|
| `Delivery` | the contract of `CheckpointedSink` | Records become visible in order, a batch at a time, each once. |
| `ExactlyOnce` | coordinated checkpointing | See below. |
| `CoordinatorStop` | `Coordinator.Stop` against `OnSinkPrepared` | `halted`, `sendWg`, `events` and `once` are the fields; `Prepared`, `Send` and `SendDone` one `OnSinkPrepared`; `StopHalt`, `StopWait`, `StopClose` and `StopReturn` one `Stop`; a send on the closed channel sets `panicked`. |
| `MarkerOrder` | what a parallel stage promises | Output is input; markers are fences; records of a lane keep their order. |
| `AlignedStage` | `KeyedStage.Run`, `StatelessStage.runParallel`, `alignedMerge` | One sequence per channel. `Router*`, `Worker*`, `Fwd*` and `Merge*` are the steps of the four kinds of goroutine, each select with its cancelled branch. |
| `Pipeline` | `Execute` without a transactional sink | `SourceEmit`, the injector's branches, the operator's snapshot at a barrier (`AddBarrierSnapshot`), the sink's Write loop with the record it `held`, `SaveCheckpoint`, drain, unwind, crash, and the next `Execute`. |
| `Planner` | `BuildPlan` | One step is one iteration; `stages` is the plan, `counts` and `clones` the owner names. |
| `KafkaSerial` | consumer-group mode of the source | `pc` walks `runSerial`: fetch, deserialize, emit, commit; `Wm*` is `WatermarkSource` around it; `Drain` and `Restart` the ends of a run. |
| `KafkaParallel` | partition manager and readers | `readers` holds every reader goroutine ever started; `Tick` and `reconcile` are the manager's, `Fetch`, `Emit` and `FetchFails` a reader's. |
| `SinkPath` | `SinkStage.Run`, `batchWriter.run`, the flush functions | Three kinds of goroutine: the stage, the loop, and background flushes (`flights`). |
| `DeadLetters` | `ProcessOperator` workers and the queues | `Take`, `HandleFailure`, then the write: lock, bytes, sync for the file, one call for Kafka. |
| `Retries` | five retry loops | Attempts, pauses as 64-bit durations (`Int64`), cancellation in a call or a pause. |
| `Windows` | `WatermarkSource`, `WindowOperator`, `ReduceOperator` | `win` and `seqs` are the window state, `acc` and `frontier` reduce's; `todo` holds what a watermark pass still has to fire. |
| `Assigners`, `WindowAssign` | the window assigners and keys | Operators on integers and token sequences; `WindowAssign` compares them with reference definitions. |
| `KeyedState` | the `StateBackend` interface | A value and a list for each key, until closed; a checkpoint keeps both. |
| `StateBackends` | memory maps and Pebble | `db` is an ordered map from encoded keys; `seqs` the list positions in memory. |
| `ControlPlane` | controller, reconciler, store | `runs` is the store's table, `cont` the containers; `pc[p]` and `loc[p]` the place and the local copies of a request or of the reconciler, one store or backend call a step. |
| `Backends` | Docker and Kubernetes `Launch`, `Stop`, `Status`, `Remove` | `objs` are the objects a run has in the backend; every call may succeed, fail, or fail after taking effect (`Outcomes`). |
| `JobProcess` | SDK `Serve`, agent, savepoints | `main` walks `Serve`; HTTP handlers act at any time; `cps`, `latest` and `torn` are the directory, `blobs` and `tmp` the blob store. |
| `Capacity` | slot counts of three backends | One state is one call. |
| `Restarts` | restart policy and backoff | One step is one failure or launch; waits in 64 bits. |
| `Workflow` | `Validate` and the compiler's steps | One step is one stage of `CompileWorkflow`, with what it creates on disk or connects. |
| `JobDirs` | directory layout of jobs | Names and paths as sequences of characters and segments. |
| `Fields` | set, rename and select on JSON objects | A heap, because Go maps are shared by reference. |
| `Comparison` | filter comparisons | Integers with the rounding and formatting of float64 scaled down. |
| `Int64` | Go's 64-bit integers | A set of bit positions. |
| `MC*` | model checking | See Runs. |
| `*Proofs`, `ExactlyOnceRestart` | theorems | See Proofs. |

How they fit together: `ExactlyOnce` takes from `AlignedStage` that stages keep
the order of markers (`MarkerOrder`), from `CoordinatorStop` that a queued event
is finished or dropped, and from the source that it resumes at the restored
offset, which `KafkaParallel` shows and `KafkaSerial` does not (departure
`ks_eo_rewind`). `Pipeline` is the same for plain sinks; its sink takes a record and
writes it in two steps, and `SinkPath` says what a batching sink makes of that. `Windows` uses
`Assigners` and one backend's list behaviour, which is `StateBackends`' subject.
`ControlPlane` reduces a backend to what `Backends` details, and a job to a
container that runs or exits, which is `JobProcess`.

### ExactlyOnce and the code

The log is one partition of `NumRecords` records. The stages between injector and
sink preserve order, so what is in flight is determined by `pos` (next record to
inject), `sinkPos` (next record for the sink) and `at[id]` (the record a barrier
stands in front of). Record contents and operator state are abstracted away:
the properties are about which records are committed. Checkpoint ids are drawn
from one counter, which stands for the run nonce in `mkID`.

- *Injector.* `InjectRecord`, `TickBarrier`, `ShutdownBarrier`, `FinalBarrier` and
  `DrainEnd` are the branches of the select in `injectBarriers`. `offsets` starts
  at `NoOffset` in every run, as the map there starts empty.
- *Sink.* `SinkRecord`, `SinkBarrier` and `SinkReturn` are `Write` with its
  deferred abort. Produce errors latch in `produceErr`. When hardCtx ends, `Write`
  may return while the coordinator still has the checkpoint in hand (`InHand`) and
  abort the transaction it is about to commit; that is the fault `overtake`,
  which the results below exclude by name.
- *Coordinator.* `finalize` is the program counter `coord`. `Save` and
  `UpdateStatus` are two and three steps, one for each renamed file, because a
  crash or an error can come between them. A call of `Commit` and its outcome are
  separate steps, so hardCtx, the deferred abort or a crash can come in between.
  With no transaction left to end, `EndTransaction` returns nil and `finalize`
  goes on to mark the checkpoint completed; with one open and hardCtx ended it
  returns an error, whether or not the broker committed.
- *Process.* `Shutdown` cancels ctx, `HardCancel` is the fatal watcher, the
  timer or another stage's error (`stage`), `Exit` the orderly end (a queued event is dropped by `Stop`), `Crash` the
  disorderly one. `Forget` drops the memory; files and Kafka stay.
- *Recovery.* One action for each row of `resolveCoordinatedRecovery`; promotion
  uses the three `UpdateStatus` steps and can be interrupted too. The new
  producer's fence is part of `StartRun`, after the probe, as in the code.
- *External.* `BrokerCommit`, `LateCommit` and `Crash` model Kafka and the
  operating system from how the code uses them: a commit is atomic, and a new
  producer with the same transactional id aborts what is left open.

Abstractions: the advisory `CommitOffsets` after a completed checkpoint and
`OnCompleted` change nothing recovery reads. The test hooks in `step` are not
modelled. An unreadable checkpoint directory ends `Execute` like a failed probe.
The source is one that resumes at the restored offset.

## Runs

A run over one of the modules `MCEngine`, `MCConnectors`, `MCState`, `MCControl`,
`MCWorkflow` and `MCExactlyOnce` checks several components, each in the scenarios
that its table of constants lists: the variable `on` names the scenario of a
behaviour and never changes, and the variables of the other components keep the
value `Off`. A scenario is there because some property needs its configuration
or its faults, and each property says in which scenarios it is claimed.

| Run | Scenarios | Shows |
|---|---|---|
| `eo_restart` | 3 records, 2 ticks, 2 starts; faults commit, abort, probe, stage | recovery resumes behind the committed output (`RestorePoint`); `ExactlyOnce` implements `Delivery` (`ExactlyOnceDelivery`) |
| `eo_agreement` | 1/1/3; every fault but overtake | files and transactions agree (`CompletedIsCommitted`, `CommittedIsLogged`) |
| `eo_live` | `quiet` (2/2/2, none), `faulty` (2/1/2, every fault), `errors` (3/1/2, all but update and late) | nothing is committed twice (`NoneTwice`); everything is delivered in the end (`AllDelivered`); a cancelled pipeline ends (`ShutdownEnds`) |
| `engine` | `stop`: 3 announcements, 2 calls of `Stop`; stages `keyed`, `roundRobin` with panics, `forced`, `idle`; pipelines `restarts`, `crashes`; `plan` | `NoSendOnClosed`, `StopIsFinal`; stages implement `MarkerOrder`, tell the truth (`ResultTrue`), complete (`Completes`) and unwind (`Unwinds`); `CheckpointConsistent`; `PlanSound` |
| `connectors` | `ks*` and `kp*`: the two source modes; `kafka`, `kafkaFail`, `http`, `postgres`: batching sinks; `dlq*`; `retries` | `CommitCovered`, `GracefulLosesNothing`, `ExactlyOnceState`; `Accounted`; `OneFate`; `RetriesTell`; `Delivers`, `StopEnds` |
| `state` | `tumbling`, `sliding`, `session`, `stop`, `native`: windows; `pebble`, `values`, `memory`: backends; `assign` | `EveryWindowOnce`, `ReduceExact`, `SessionsAreComponents`, `LatenessHonoured`; backends implement `KeyedState` (`Implements`); `AssignedExactly` |
| `control` | `fence`, `serial`, `converge`, `restart`, `blind`, `kube`: controller; `docker`, `fenced`, `k8s`, `order`, `lost`: backends; `agent`, `resume`, `exit`: job process; `capacity`; `waits` | `SingleLive`, `LaunchWhole`, `SavepointsHold`, `AvailableIsLargest`, `RestartsBounded`; `StoppedConverges`, `Progresses` |
| `workflow` | `compile`, `fields`, `compare`, `dirs` | `ValidCompiles`, `OperatorsExact`, `Trichotomy`, `DefaultsApart` |
| `eo_stale_pointer` | 2/2/3, no fault | violates `FallBackIsNewest` |
| `eo_abort_race` | 2/2/1, produce | violates `NoGaps` |
| `eo_update_error` | 2/2/2, update | violates `NoDuplicates` |
| `eo_overtake` | 1/0/2, overtake | violates `CompletedIsCommitted` |

In the `eo_` runs crashes and shutdowns always may happen while a start is left;
`commit` is a commit whose outcome is unknown, `late` a dead process's commit
that arrives after the probe, and `overtake` a deferred abort of `Write` that
comes before the commit of a prepared checkpoint. The comment above each property in the MC modules
says what it means for the code; the component's own module has the definition.
Every component's `TypeOK` also holds in all of these scenarios; those of
`ExactlyOnce` and `CoordinatorStop` are proved.

### Bounds and why they are enough

- *Coordinated checkpointing.* Two records let one be committed and the next be
  in flight; three let a transaction hold two. Two ticks with the shutdown or
  final barrier of each start give up to four checkpoints, so one can be
  completed, one committed and one prepared. Two starts are a crash and its
  recovery; the agreement run takes a third because recovery itself writes files. The safety properties proved below do not depend on these bounds.
- *Stop.* Three senders and a channel of one: one event taken, one queued, one
  sender blocked. Proved for any number.
- *Stages.* Two workers and channels of one element: a full channel, a parked
  forwarder and a waiting merge at once. Three items are a marker between two
  records or two markers in a row.
- *Pipeline.* Two ticks and three records leave room for a barrier with records
  on both sides; `SnapLimit` is the code's 8 and is not reached, which is what
  the departure `pipe_evict` is about.
- *Plan.* Chains of up to four operators contain every neighbourhood of three
  kinds, and a repeated one.
- *Kafka source.* Four offsets are two commit batches of two; two partitions, of
  which one is added while the job runs; up to three readers, so a partition can
  come back; two lives.
- *Sinks.* Batches of two or three, up to five records, a barrier in the middle
  or at the end of a batch; one retry; two tables.
- *Dead letters, retries, restarts.* Two workers with three bad records of four;
  option values around zero and up to four retries; policies whose cap lies
  below, at and above a doubling.
- *Windows.* Event times 0 to 4 with windows of 2 or 3 and lateness 1 or 2: a
  record can be early, in time and late, and belong to three windows.
- *Backends.* Five or six operations on two keys and two values: two entries for
  one key, a checkpoint, a later write and the restore.
- *Control plane.* Two requests at a time and three in all, with the reconciler,
  one crash of the controller, and up to three attempts. Restart requests come
  without automatic restarts, one at a time (`serial`) where a single process is
  claimed and two at a time (`restart`) or with failing reads (`blind`) where only
  convergence is; the combinations that break the fence are departures. Two launches of one job
  for the backends; up to three lives of a job's process.
- *Workflow.* The variants of one area of the document at a time, the other areas
  being those of a valid one; two field operators on two records;
  names of two characters; numbers below and above the scaled-down 2^53 and 10^6,
  so that both rounding and exponents happen.

### Fairness

Weak fairness only, of a goroutine that can take a step, as the Go scheduler
gives it: the injector, `Write`, the coordinator and recovery in `ExactlyOnce`;
router, workers, forwarders and merge in `AlignedStage`; `Stop`'s callers and the
finalize worker in `CoordinatorStop`; the reader, `Drain` and the consumer of a
source; the stage, loop and flushes of a sink; requests under way and the
reconciler, which has a ticker. Where a
select has several ready branches, a goroutine's steps are one fair action, so
nothing is assumed about which branch wins. Ticks, of which there are finitely
many in a bounded behaviour, cannot starve the rest. Further:

- hardCtx is cancelled `shutdownTimeout` after ctx (`HardCancel`);
- a supervisor starts an ended process again (`AllDelivered`, `Completes` with
  crashes): the control plane's restart policy or the operator of the job;
- calls to outside systems are answered, with success or an error; a process told
  to end ends, and a pod whose Job and inputs exist starts (`Progresses`).

Nothing makes a tick, a request, a crash, a shutdown or an error happen.

### What the violating runs show

Each is a disagreement between the code and something the repository says; the
quotations are under `findings`.

1. *Stale pointer.* The process dies after a checkpoint file says completed and
   before `latest-completed.json` does. The next start resumes from that
   checkpoint and leaves the pointer as it is. If the first checkpoint of that run
   is prepared and not committed, the start after it falls back one checkpoint too
   far.
2. *Abort race.* `abortFatal` unblocks `Write` before the fatal error gets to
   hardCtx. A barrier already in the channel can then be committed, over the
   aborted interval.
3. *Update error.* `UpdateStatus` fails after the commit, and the next checkpoint
   is saved as prepared before the pipeline stops. Recovery looks at the newest
   file only and falls back behind the committed one.
4. *Overtaken commit.* hardCtx ends while `finalize` saves a prepared checkpoint:
   `Write` stops waiting, returns, and aborts the transaction. `Commit` finds none
   open and returns nil, so the checkpoint is marked completed although its output
   was aborted, and the next start resumes behind it.

## Proofs

The assumptions on the constants are `SizeAssumption` and `FaultAssumption`
(`ExactlyOnce`) and `StopAssumption` (`CoordinatorStop`: finitely many
announcements, room for one event).

`ExactlyOnceProofs` proves, for every value of the constants and any number of
restarts, `TypeOK` and `CommittedIsLogged` with any faults and
`CompletedIsCommitted` with any but `overtake`, with which run `eo_overtake` refutes
it. The two safety invariants are not inductive: that a commit concerns the
checkpoint just saved depends on how `Write` and the coordinator hand it over.
`Handshake` states that: the checkpoint in the channel or in `finalize` is the
barrier `Write` took last, and while its transaction is open `Write` waits. `Held`
says that a checkpoint on its way to its commit has that transaction open, unless
`Write` overtook it. `Logged` states what is on disk at each step of `finalize`, and
for a commit on the wire after a crash. `Agreement` is the conjunction.

`ExactlyOnceRestart` proves `RestorePoint`, `NoDuplicates` and `Spec =>
Delivery!Spec` under `OneRestart`: at most two starts, and none of the faults
`produce`, `save`, `update`, `late` and `overtake`. Every part of the hypothesis is
needed: with a third start, or with any one of these five faults, TLC finds
`RestorePoint`, `NoDuplicates` or `ExactlyOnceDelivery` violated (`save` leads to
the same abort race as `produce`, and a third start to the stale pointer).
`RestartInv` says that some checkpoint L
is the newest committed one with exactly the records before its cut visible
(`Delivered`); that the open transaction holds what lies between that cut and the
sink (`Filled`) and the barriers in flight are in order (`Stream`); that files of
the first run restore to their own cut (`Restorable`); and that where recovery
could fall back, `latest-completed.json` names L (`Pointer`). A commit moves L to
its own checkpoint, and that is the one kind of step `Delivery` sees.

`CoordinatorStopProofs` proves, for any number of announcements, of callers of
`Stop` and of places in the channel, that `OnSinkPrepared` never sends on the
closed channel (`StopIsSafe`) and that once a `Stop` has returned nothing more is
finalized (`StopEndsAll`). `NoSendOnClosed` alone is not inductive: that the
channel is open while someone sends rests on the counter. `Registered` says
`sendWg` is the number of sends under way, `Closing` that `halted` is set before
the wait and that behind it nobody sends, `Finished` that the worker leaves only a
closed and empty channel and that `Stop` returns after it. `StopInv` is their
conjunction with `TypeOK`; the cardinality step is `PreparedCounts`.

Only model-checked: every liveness property, since fairness is outside the
prover, and the properties of the other modules on the instances above.

## Departures

While modelling, TLC also found the components to disagree with what the
repository says of them where a scenario of the passing runs is widened. Each
entry gives the module and the property that TLC finds violated, the line, the
disagreement, and the constants of the configuration (`SPECIFICATION Spec`, or
the one named first; `CHECK_DEADLOCK FALSE`). The passing runs claim these
properties only for scenarios that exclude the cause.

### Engine

- **eo_quiet_restart** `ExactlyOnce!RestoredOffsetCarried`, src/mailer.go:524. injectBarriers starts every run with an empty offset map, so a checkpoint taken before a record has passed holds no offset and a restart from it begins at the configured start. src/source/kafka_offset_tracker.go:65 says "a partition that receives no new message this run still carries its restored position into the next checkpoint".
  `NumRecords = 2; MaxTicks = 1; MaxStarts = 2; Faults = {}`
- **eo_late_commit** `ExactlyOnce!NoDuplicates`, src/sink/kafka_txn.go:405. The probe runs before the new producer fences the old one, so a commit request of the dead process that is still on its way takes effect after the probe said no. src/sink/kafka_txn.go:405 says "WasCommitted runs only during recovery, when the sink is not producing, so the marker topic is static".
  `NumRecords = 2; MaxTicks = 2; MaxStarts = 2; Faults = {"late"}`
- **stage_panic** `AlignedStage!PanicContained`, src/pipeline/keyed_stage.go:165. The operators of a keyed worker run in goroutines of their own (go clone.Process), outside the recover at src/pipeline/keyed_stage.go:141, so a panic in user code ends the process. src/pipeline/keyed_stage.go:93 says "a worker panic cancels the whole stage so the router, remaining workers, and merge unwind instead of deadlocking".
  `N = 2; Keyed = TRUE; MaxLen = 3; MaxKey = 1; Cap = 1; Faults = {"panic"}`
- **stage_idle** `AlignedStage!MarkersGetThrough`, src/operator/window.go:193. A window operator with an idle timeout returns and closes its worker's output; alignedMerge still counts to the number of workers, parks the others at the next marker and never emits it. src/pipeline/markers.go:12 says "each marker was sent to every worker, so it arrives len(workerOuts) times. The merge emits it downstream exactly once".
  `FairSpec; N = 2; Keyed = TRUE; MaxLen = 2; MaxKey = 1; Cap = 1; Faults = {"idle"}`
- **pipe_evict** `Pipeline!Aligned`, src/mailer.go:665. When more than eight checkpoints have snapshots waiting, addBarrierSnapshot deletes an arbitrary other one, which may be of a barrier still on its way; collectSnapshots then takes the live state under the aligned offset. src/mailer.go:663: "Bound the map: a checkpoint whose barrier never reaches the" end of the pipeline would leak.
  `NRec = 2; Cap = 11; MaxBarriers = 11; SnapLimit = 8; MaxLives = 1; Faults = {}`
- **pipe_held** `Pipeline!CheckpointCovers`, src/pipeline/stage.go:152. The stage waits until the sink's Write loop has dequeued every record ahead of the barrier, not until it has written them, so the checkpoint can hold the offset of the record Write is busy with; a crash then loses it. src/mailer.go:406 says offsets "must never be durable for records the sink never" received, src/README.md:454 promises "at-least-once **output**".
  `NRec = 1; Cap = 2; MaxBarriers = 1; SnapLimit = 8; MaxLives = 2; Faults = {"crash"}`
- **pipe_snap** `Pipeline!Aligned`, src/pipeline/planner.go:188. A barrier snapshot that fails is printed and dropped, and saveCheckpoint then stores the operator's live state, which already holds records after the barrier, with the barrier's offsets. src/operator/operator.go:96: "records — is the only race-free point: the operator is quiescent".
  `NRec = 3; Cap = 2; MaxBarriers = 2; SnapLimit = 8; MaxLives = 1; Faults = {"snap"}`
- **pipe_stop** `Pipeline!FinalCovers`, src/mailer.go:551. On ctx.Done the injector sends the shutdown barrier first and forwards the rest of the source's channel after it; those records are written and replayed by the next run. src/jobagent/agent.go:77: "records and takes a final checkpoint before Run returns." after draining.
  `NRec = 3; Cap = 2; MaxBarriers = 2; SnapLimit = 8; MaxLives = 1; Faults = {"stop"}`
- **pipe_quiet** `Pipeline!StateExact`, src/mailer.go:524. The offsets map starts empty in every run, so a barrier before the first record stores a checkpoint with restored state and no offset; the next run starts its source from the beginning under that state. src/mailer.go:523: "records reflected in the map — the alignment invariant."
  `NRec = 1; Cap = 2; MaxBarriers = 2; SnapLimit = 8; MaxLives = 3; Faults = {"crash"}`

### Kafka source

- **ks_wm_loss** `KafkaSerial!GracefulLosesNothing`, src/source/watermark.go:74. With KafkaWithWatermarks the fetch loop hands records to WatermarkSource's own channel and commits them; on cancellation WatermarkSource returns without draining that channel. src/README.md:231 says "cancelling the context stops the source; everything downstream drains through cascading channel closes".
  `Parts = {0}; LogLen = 2; PoisonOffsets = {}; DeserPolicy = "drop"; Batch = 0; ExactlyOnce = FALSE; CommitPolicy = "skip"; Retries = 1; Watermarks = TRUE; Checkpointing = FALSE; Cap = 2; MaxLives = 1; Faults = {"stop"}`
- **ks_rewind** `KafkaSerial!ExactlyOnceState`, src/source/kafka_reader_supervisor.go:18. RestoreOffset fills offsetTracker.restored, which only parallel readers consult; the group reader resumes at the committed offset, which runSerial moves with every record. src/README.md:158 says "sources rewind to the saved offsets, state is restored", src/source/source.go:38 "RestoreOffset seeks the source to the position saved by CheckpointOffset".
  `Parts = {0}; LogLen = 2; PoisonOffsets = {}; DeserPolicy = "drop"; Batch = 0; ExactlyOnce = FALSE; CommitPolicy = "skip"; Retries = 1; Watermarks = FALSE; Checkpointing = TRUE; Cap = 2; MaxLives = 2; Faults = {"crash"}`
- **ks_eo_rewind** `KafkaSerial!ExactlyOnceState`, src/source/kafka.go:373. In exactly-once group mode the reader resumes at the broker's offset, so a crash after the checkpoint and before (or a failure of) CommitOffsets replays records the checkpoint already contains. src/source/kafka.go:370 says "Advisory (consumer-lag visibility) - recovery reads the checkpoint file, never the broker".
  `Parts = {0}; LogLen = 2; PoisonOffsets = {}; DeserPolicy = "drop"; Batch = 0; ExactlyOnce = TRUE; CommitPolicy = "skip"; Retries = 1; Watermarks = FALSE; Checkpointing = TRUE; Cap = 2; MaxLives = 2; Faults = {"crash"}`
- **ks_drain** `KafkaSerial!DrainCommits`, src/source/kafka.go:149. runOnce closes the reader when runSerial returns, and SourceStage calls Drain after that, so the pending batch cannot be committed. src/source/kafka.go:356 says "Drain flushes pending offset commits. Called during graceful shutdown to commit offsets for records that were read but not yet committed".
  `Parts = {0}; LogLen = 2; PoisonOffsets = {}; DeserPolicy = "drop"; Batch = 2; ExactlyOnce = FALSE; CommitPolicy = "skip"; Retries = 1; Watermarks = FALSE; Checkpointing = FALSE; Cap = 2; MaxLives = 1; Faults = {"stop"}`
- **ks_deser_fail** `KafkaSerial!FailPolicyStops`, src/source/kafka_delivery_coordinator.go:47. toRecord answers nil under DeserFailureFail as under the other policies and both loops continue on nil. src/source/failure.go:34 says "DeserFailureFail returns an error and stops the pipeline".
  `Parts = {0}; LogLen = 2; PoisonOffsets = {0}; DeserPolicy = "fail"; Batch = 0; ExactlyOnce = FALSE; CommitPolicy = "skip"; Retries = 1; Watermarks = FALSE; Checkpointing = FALSE; Cap = 2; MaxLives = 1; Faults = {}`
- **kp_flap** `KafkaParallel!PartitionOrder`, src/source/kafka_partition_manager.go:122. A partition missing from one discovery answer is cancelled without being waited for; when it is back, a new reader starts at the restored or configured offset, whatever the old one had emitted. src/source/kafka_delivery_coordinator.go:16 says "Per-partition ordering is preserved because each partition's reader loop calls toRecord/emit sequentially".
  `Parts = {0, 1}; Seed = {0}; LogLen = 2; Latest = FALSE; Cap = 2; MaxReaders = 3; MaxLives = 1; Faults = {"flap"}`
- **kp_latest** `KafkaParallel!Replays`, src/source/kafka_partition_manager.go:142. A partition without a record before the last checkpoint has no restored offset; with OffsetLatest its reader starts behind everything the crashed run had read. src/README.md:454 says "replay after recovery re-emits records the sink already wrote".
  `Parts = {0}; Seed = {0}; LogLen = 1; Latest = TRUE; Cap = 2; MaxReaders = 2; MaxLives = 2; Faults = {"crash"}`

### Sinks, dead letters, retries

- **sink_checkpoint** `SinkPath!CheckpointCovers`, src/pipeline/stage.go:151. OnBarrier is called once the pumped channel is empty, but a batching sink still holds the dequeued records in its batch or in a flush; a crash then loses records below the saved offsets. src/pipeline/stage.go:148 says "Saving earlier would make source offsets durable for records still sitting in this buffer - lost on crash, violating at-least-once", src/README.md:454 promises "at-least-once **output**".
  `NRec = 3; BarrierAfter = {2}; Kind = "kafka"; BatchSize = 2; Interval = FALSE; Retries = 1; Policy = "drop"; Odd = {}; Tables = 1; Cap = 2; Faults = {}`
- **sink_inflight** `SinkPath!HardDrain`, src/sink/batch.go:195. A flush started before the cancellation runs on the cancelled context: its attempts fail and the records go to the failure policy, however healthy the destination. src/sink/batch.go:67 says "flushes what it collected using a fresh background context, so records already accepted by the pipeline are not lost to the cancelled one".
  `NRec = 4; BarrierAfter = {}; Kind = "kafka"; BatchSize = 2; Interval = FALSE; Retries = 1; Policy = "drop"; Odd = {}; Tables = 1; Cap = 2; Faults = {"hard"}`
- **sink_deadline** `SinkPath!HardDrain`, src/sink/batch.go:173. shutdownCtx is created before drain with the same timeout as the drain's deadline, so after a drain that ends by its deadline the final flush has an expired context. src/sink/batch.go:171 says "The cancelled ctx can't carry the final write, so the drain-and-flush runs on a fresh bounded context".
  `NRec = 4; BarrierAfter = {}; Kind = "http"; BatchSize = 3; Interval = FALSE; Retries = 1; Policy = "drop"; Odd = {}; Tables = 1; Cap = 2; Faults = {"deadline", "hard"}`
- **dlq_torn** `DeadLetters!AckedReadable`, src/sink/dlq.go:144. A write that fails after some bytes leaves the front of a line without a newline, and the next Write appends its line to it. src/sink/dlq.go:77: "and the output is directly greppable. Each line is a self-contained" envelope.
  `Workers = {"w1", "w2"}; Records = {1, 2, 3, 4}; Bad = {1, 2, 3}; Policies = {"dlq"}; Targets = {"file"}; Sync = TRUE; Faults = {"short"}`
- **dlq_lost** `DeadLetters!NothingVanishes`, src/operator/process.go:118. handleFailure prints the queue's error and returns, so the record is in no output and the pipeline goes on. src/sink/dlq.go:25: "too, the record has nowhere left to go, and failing loudly beats" discarding it silently.
  `Workers = {"w1", "w2"}; Records = {1, 2, 3, 4}; Bad = {1, 2, 3}; Policies = {"dlq"}; Targets = {"file"}; Sync = TRUE; Faults = {"err"}`
- **retry_forever** `Retries!PausesGrow`, src/source/kafka.go:236. 1<<attempt seconds overflows int64 at attempt 34 and the cap only looks at values above 30 seconds, so from then on the pause is negative, and zero from attempt 55: the loop calls FetchMessage without a wait. src/source/kafka.go:220 says "with exponential backoff. If fetchMaxRetries is -1, retries forever."
  `Loops = {"fetch"}; Options = {1}; NegativeFor = {"fetch"}; AttemptBound = 60; AskSeconds = 5`
- **retry_none** `Retries!NilMeansAccepted`, src/sink/kafka.go:168. With KafkaSinkMaxRetries(-1) the loop body never runs and lastErr is nil, so flushBatch counts a batch as written that was never sent. src/sink/kafka.go:165 says "times with exponential backoff. Returns nil on success."
  `Loops = {"kafka"}; Options = {1}; NegativeFor = {"kafka"}; AttemptBound = 8; AskSeconds = 5`

### Windows and state

- **windows_native** `Windows!EveryWindowOnce`, src/state/pebble.go:127. RestoreFrom brings the buffered records back but resets the in-memory list positions, so the first record added to a restored window is written over its first buffered record. src/mailer.go:892 says any other restore would "drop it to the inline path, find no inline bytes, and lose its" buffered windows and watermark.
  `Keys = {"a"}; MaxTs = 2; NRec = 2; Assigner = "tumbling"; Size = 2; Slide = 2; Lateness = 1; Native = TRUE; Folded = FALSE; MaxLives = 2; Faults = {"crash"}`
- **win_negative** `WindowAssign!TumblingContains`, src/window/tumbling.go:66. `(aligned / sizeUnix) * sizeUnix` truncates towards zero, so when the timestamp lies before the epoch (a record without a timestamp has one) or before the offset, the window starts after the timestamp. src/window/tumbling.go:56: "WindowStart calculates the start of the window that contains the given" timestamp, and line 64: "Align to offset, then floor to window boundary."
  `Ticks = {0, 1, 2, 3, 4}; EpochAt = 3; MaxSize = 4; Offsets = {0}; MaxKeyLen = 3`
- **win_example** `WindowAssign!SlidingExample`, src/window/sliding.go:49. A window is assigned only when it does not start after the timestamp, so a record at 00:03 is in [23:59, 00:04) and not in [00:04, 00:09). src/window/sliding.go:18: "A record at 00:03 belongs to windows: [00:00-00:05], [00:01-00:06]," and line 19 goes on to [00:04-00:09].
  `Ticks = {3}; EpochAt = 0; MaxSize = 5; Offsets = {0}; MaxKeyLen = 1`
- **win_adjacent** `WindowAssign!AdjacentMerged`, src/window/session.go:58. MergeSessions merges on strict overlap only and returns two touching sessions unmerged. src/window/session.go:54: "MergeSessions merges overlapping or adjacent session windows."
  `Ticks = {0, 1, 2}; EpochAt = 0; MaxSize = 4; Offsets = {0}; MaxKeyLen = 3`
- **win_plainkey** `WindowAssign!PlainKeyKept`, src/operator/reduce.go:225. stateKeyWindowEnd accepts any key whose last two fields parse as RFC3339Nano, so a plain key built from two times is read as a window's and can be evicted. src/operator/reduce.go:214: "a plain (non-windowed) key that happens to contain slashes must never be mistaken for a window and evicted."
  `Ticks = {0}; EpochAt = 0; MaxSize = 4; Offsets = {0}; MaxKeyLen = 4`
- **windows_single** `Windows!SingleResult`, src/source/watermark.go:70. On a graceful stop the source sends the maximum watermark, which fires windows that are still filling; the restarted job takes the rest of their records and reports the same windows again. src/operator/window.go:29: "all its buffered records are emitted as a single result." and src/source/watermark.go:35: "This guarantees correct end-of-stream behavior for both batch and streaming sources."
  `Keys = {"a"}; MaxTs = 5; NRec = 3; Assigner = "tumbling"; Size = 2; Slide = 2; Lateness = 1; Native = FALSE; Folded = FALSE; MaxLives = 2; Faults = {"stop"}`
- **windows_frontier** `Windows!OwnWindowAtFrontier`, src/operator/reduce.go:157. A watermark pass fires windows in the backend's key order, not by end time, so a record of an earlier window can follow one of a later window; its accumulator is created below the frontier and stays until the frontier moves again. src/operator/reduce.go:155: "Emit first, then evict: the record's own window is at the frontier, never below it, so its accumulator survives."
  `Keys = {"a", "b"}; MaxTs = 5; NRec = 3; Assigner = "tumbling"; Size = 2; Slide = 2; Lateness = 1; Native = FALSE; Folded = FALSE; MaxLives = 1; Faults = {}`
- **state_restore** `StateBackends!ListsMatch`, src/state/pebble.go:127. RestoreFrom sets `p.seqs = make(map[seqKey]uint64)` while the restored database holds entries at positions 0, 1, ...; the next Append to such a key writes over position 0. src/state/state.go:60: "each key gets an append-only list."
  `Backend = "pebble"; NulKeys = FALSE; Values = {1, 2}; MaxOps = 6; Faults = {"restart"}`
- **state_leftover** `StateBackends!ListsMatch`, src/state/pebble.go:61. OpenPebble opens whatever database is in the owner's directory and nothing wipes it when there is no checkpoint to restore, so a job that died before its first checkpoint starts with its predecessor's state and the source from the beginning. src/state/factory.go:32: "The working DB is disposable (unsynced writes); durability comes from checkpoints."
  `Backend = "pebble"; NulKeys = FALSE; Values = {1, 2}; MaxOps = 6; Faults = {"fresh"}`
- **state_nul** `StateBackends!ListsMatch`, src/state/pebble.go:291. GetAll and Clear scan the prefix l, ns, key, 0, which is also a prefix of the entries of any key that continues with a zero byte. src/state/pebble.go:327: "robust even when a key itself contains \x00, because the structure is positional", and src/state/state.go:3: "each key gets its own isolated state."
  `Backend = "pebble"; NulKeys = TRUE; Values = {1, 2}; MaxOps = 6; Faults = {}`

### Control plane and job process

- **cp_two_live** `ControlPlane!SingleLive`, src/control/controller.go:425. launch checks the latest run (src/control/controller.go:425) long before it records its own (line 485), and requests and the reconciler run in different goroutines, so a restart and an automatic restart both launch. src/control/controller.go:422 says "never run two containers for one job at once", src/control/README.md:175 "the controller refuses to launch a second container while one is live".
  `Handlers = {h1}; Requests = {"submit", "restart"}; MaxRequests = 2; MaxAttempts = 2; Backend = "docker"; Faults = {}`
- **cp_k8s_stop** `ControlPlane!SingleLive`, src/control/backend/kubernetes.go:376. Stop deletes the Job with background propagation and returns; doRestart then finishes the run and launches while the old pod is still in its grace period. src/control/backend/backend.go:170 says of Stop "waiting up to timeout before killing", src/control/controller.go:422 "never run two containers for one job at once".
  `Handlers = {h1}; Requests = {"submit", "restart"}; MaxRequests = 2; MaxAttempts = 1; Backend = "kubernetes"; Faults = {}`
- **cp_read** `ControlPlane!SingleLive`, src/control/controller.go:425. launch and doRestart (line 295) drop the error of LatestRun, and a failed read gives a nil run: a restart then stops nothing, and the fence lets its launch pass beside the live container. src/control/controller.go:422 says "never run two containers for one job at once".
  `Handlers = {h1}; Requests = {"submit", "restart"}; MaxRequests = 2; MaxAttempts = 1; Backend = "docker"; Faults = {"read"}`
- **cp_crash_orphan** `ControlPlane!NoOrphans`, src/control/controller.go:485. The run is inserted after backend.Launch has started the container; a crash in between leaves a container that ActiveRuns never returns. src/control/README.md:185 says "a controller crash never loses track of a running job".
  `Handlers = {h1}; Requests = {"submit"}; MaxRequests = 1; MaxAttempts = 1; Backend = "docker"; Faults = {"crash"}`
- **cp_stop_error** `ControlPlane!StoppedConverges`, src/control/controller.go:270. Cancel ignores the error of backend.Stop and finishes the run, so the reconciler never looks at the container again. src/control/controller.go:253 says "Cancel sets the job's desired state to stopped and stops its live container gracefully".
  `FairSpec; Handlers = {h1}; Requests = {"submit", "cancel"}; MaxRequests = 2; MaxAttempts = 1; Backend = "docker"; Faults = {"stop"}`
- **cp_crash_restart** `ControlPlane!FailedIsRestarted`, src/control/reconcile.go:84. handleExit finishes the run before maybeRestart launches the next one; after a crash in between (or in the backoff) the job is desired running with no active run, and Reconcile only looks at active runs. src/control/README.md:192 says the reconciler "enforces desired state, applies the restart policy to crashed containers".
  `FairSpec; Handlers = {h1}; Requests = {"submit"}; MaxRequests = 1; MaxAttempts = 2; Backend = "docker"; Faults = {"crash"}`
- **cp_stale_desired** `ControlPlane!NoLaunchWhenStopped`, src/control/reconcile.go:92. maybeRestart tests the Desired of the job read before Status, before the exit was handled and before the backoff; a cancel in that time is overridden by a launch, which only the next reconcile undoes. src/control/lifecycle/lifecycle.go:93 says "Only unexpected failures restart; a clean Finished or a user Cancelled does not".
  `Handlers = {h1}; Requests = {"submit", "cancel"}; MaxRequests = 2; MaxAttempts = 2; Backend = "docker"; Faults = {}`
- **cp_revived** `ControlPlane!TerminalStays`, src/control/reconcile.go:51. The reconciler refreshes the port by UpdateRun with the run it read from ActiveRuns, whose Stopped is nil; a cancel that finished the run in between is undone. src/control/lifecycle/lifecycle.go:50 says "terminal states may only re-enter Starting via an explicit restart, which creates a NEW run rather than transitioning the old one".
  `Handlers = {h1}; Requests = {"submit", "cancel"}; MaxRequests = 2; MaxAttempts = 1; Backend = "docker"; Faults = {"status"}`
- **job_cancel** `JobProcess!CancelEnds`, src/jobagent/agent.go:78. Cancel returns without a trace while a.cancel is nil, which it is from the moment the control server listens until Run; POST /cancel still answers 202. src/jobagent/agent.go:75: "Cancel requests a graceful shutdown. It is idempotent and a no-op once" the job is terminal, with no word of a job that has not started.
  `FairSpec; Labels = {"s1", "s2"}; Checkpointing = TRUE; NRec = 2; MaxCkpts = 3; MaxLives = 1; Faults = {}`
- **job_labels** `JobProcess!EveryLabelStored`, src/jobagent/agent.go:100. RequestSavepoint overwrites savepointLabel while the job drains, so an earlier label that was answered with 202 is never stored. src/jobagent/http.go:69: "checkpoint; the runner promotes it to the named savepoint as the" process winds down.
  `Labels = {"s1", "s2"}; Checkpointing = TRUE; NRec = 2; MaxCkpts = 3; MaxLives = 1; Faults = {}`
- **job_hard** `JobProcess!AcceptedIsPromoted`, src/sdk/sdk.go:152. The promotion does not ask whether Execute wrote a final checkpoint: after a drain that was cut off, CreateSavepoint promotes whatever completed checkpoint is latest. src/checkpoint/savepoint.go:17: "stop-with-savepoint: the job has drained and written its final".
  `Labels = {"s1", "s2"}; Checkpointing = TRUE; NRec = 2; MaxCkpts = 3; MaxLives = 1; Faults = {"hard"}`
- **job_torn** `JobProcess!StartsFromWhole`, src/checkpoint/archive.go:168. ExtractCheckpoint truncates and rewrites the state files of the checkpoint in place; when that checkpoint is the directory's latest, a crash in between leaves a completed record over half-written state, and the next start without the label resumes from it. src/checkpoint/checkpoint.go:80: "Writes are atomic (write to temp file, then rename)."
  `Labels = {"s1"}; Checkpointing = TRUE; NRec = 2; MaxCkpts = 3; MaxLives = 3; Faults = {"crash"}`
- **job_list** `JobProcess!ListsSavepoints`, src/checkpoint/blob.go:142. List returns every file under the prefix, the .blob-* temporaries of a process that died in Put included. src/checkpoint/savepoint.go:60: "ListSavepoints returns the labels of all savepoints in bs."
  `Labels = {"s1"}; Checkpointing = TRUE; NRec = 2; MaxCkpts = 3; MaxLives = 2; Faults = {"crash"}`
- **restart_cap** `Restarts!WaitIsCapped`, src/control/lifecycle/lifecycle.go:108. The cap is compared only after a doubling, so the wait after the first failure is BaseBackoff even when that exceeds MaxBackoff. src/control/lifecycle/lifecycle.go:103 says "Exponential, capped at MaxBackoff."
  `Attempts = {3}; Bases = {120}; Caps = {60}; RunBound = 12`
- **restart_zero** `Restarts!ZeroDisables`, src/control/controller.go:80. NewController takes a policy of zeros for an absent one and installs five attempts. src/control/lifecycle/lifecycle.go:81 says "0 disables automatic restart".
  `Attempts = {0, 3}; Bases = {0, 2}; Caps = {0, 60}; RunBound = 12`
- **backend_cancel** `Backends!OneProcess`, src/control/backend/docker.go:251. ContainerRemove after a failed ContainerStart uses the same context; when that context ended, the removal fails too, its error is dropped, Launch reports an error and the started container stays. src/control/controller.go:422: "Single-live-run fencing: never run two containers for one job at" once.
  `Backend = "docker"; Runs = {"r1", "r2"}; Fenced = TRUE; Removes = FALSE; Faults = {"cancel"}`
- **backend_pull** `Backends!LocalNeverPulled`, src/control/backend/docker.go:90. An error of HasImage counts as absent, so the image is pulled although it is local. src/control/backend/backend.go:148: "Local-only images (e.g. a dev-built runner tag) are never pulled."
  `Backend = "docker"; Runs = {"r1", "r2"}; Fenced = FALSE; Removes = FALSE; Faults = {"has"}`
- **backend_gc** `Backends!OldRemoved`, src/control/controller.go:299. doRestart stops the old container and launches a new one, and nothing in the controller calls Remove. src/control/controller.go:255: "a later Restart or GC removes it."
  `FairSpec; Backend = "docker"; Runs = {"r1", "r2"}; Fenced = TRUE; Removes = FALSE; Faults = {}`
- **cap_zero** `Capacity!SlotsAddUp`, src/control/backend/docker.go:482. With default CPU and memory of zero (or a host that reports neither) and no job limit, available is the largest int and used plus available overflows to a negative total. src/control/backend/backend.go:74: "containers can run now. Nil slot values mean the backend cannot determine" them accurately.
  `MaxInt = 7; MaxTotal = 3; Defaults = {0, 1}`
- **cap_max** `Capacity!WithinMax`, src/control/controller.go:363. The limit only enters the reported capacity; Submit and launch never read it. src/control/cmd/weibo/main.go:93: "maximum concurrent jobs; 0 = resource-limited only".
  `SubmitSpec; MaxInt = 7; MaxTotal = 3; Defaults = {1}`

### Workflows

- **dirs_shared** `JobDirs!StateApart`, src/workflow/compiler/runtime.go:104. A workflow named state with the state directory data/a and a workflow named a without one both use data/a/state. src/workflow/compiler/runtime.go:103: "in the path, so distinct workflows get distinct Pebble databases."
  `NameLen = 1; Configured = TRUE`
- **wf_filter** `Workflow!FiltersExist`, src/workflow/validate.go:202. Validate only asks for a non-empty comparison; FilterConfig.Validate, which knows the supported ones, is called by no production code, and Compare's error drops every record. src/workflow/compiler/compiler.go:81: "an invalid workflow never reaches the runtime."
  `Areas = {"operator"}; MaxOps = 1`
- **wf_panic** `Workflow!NeverPanics`, src/sink/postgres.go:62. The constructors the compiler calls last in each step panic on what they cannot use: a DSN that pgxpool rejects, TLS files that do not load (src/sink/kafka.go:104, src/sink/kafka_txn.go:148, src/source/auth.go:31), and nothing between them and the caller of Compile recovers. src/workflow/compiler/compiler.go:61: "It returns an error without producing" an environment if the workflow references anything it cannot build.
  `Areas = {"ends"}; MaxOps = 2`
- **wf_guarantee** `Workflow!GuaranteeHolds`, src/workflow/compiler/compiler.go:151. Any checkpointed workflow without a transactional sink is called at-least-once, also when onError is drop, the default, or the Kafka sink is asynchronous. src/workflow/compiler/compiler.go:25: "DeliveryGuarantee is the end-to-end guarantee a compiled workflow provides."
  `Areas = {"sink"}; MaxOps = 1`
- **wf_touch** `Workflow!ValidationTouchesNothing`, src/control/controller.go:412. Only the default data root is replaced by a temporary one: directories the document configures are created by Validate and CompileRuntime on the controller's host and stay. src/control/controller.go:396: "a throwaway data dir so validation never touches real job state."
  `Areas = {"env"}; MaxOps = 1`
- **fields_same** `Fields!RenameMoves`, src/workflow/operators/rename.go:55. With equal paths the value is set and then deleted, and with one path below the other part of it is. src/workflow/operators/rename.go:10: "FieldRename moves a field from one dotted path to another."
  `MaxOps = 1; Consts = {"leaf"}; IntoConst = TRUE; Related = TRUE; Nulls = FALSE`
- **fields_const** `Fields!Independent`, src/workflow/operators/set.go:49. SetField stores the configuration's own map in every record; a later rename into it changes the configuration, and the next record carries the field of the one before. src/workflow/operators/set.go:10: "FieldSet assigns a constant value to a dotted field path."
  `MaxOps = 2; Consts = {"obj"}; IntoConst = TRUE; Related = FALSE; Nulls = FALSE`
- **fields_nan** `Fields!PassedUnchanged`, src/workflow/operators/select.go:70. The transform changes Parsed in place, so the record that is returned when the encoding fails has been changed, and Value and Parsed disagree. src/workflow/operators/select.go:58: "is passed through unchanged"
  `MaxOps = 1; Consts = {"nan"}; IntoConst = TRUE; Related = FALSE; Nulls = FALSE`
- **fields_null** `Fields!NoPanic`, src/workflow/record/json.go:76. Decoding null leaves the map nil without an error, and assigning a field to it panics. src/workflow/record/json.go:50: "operators can start from scratch). Non-empty Value that is not a JSON" object (a string, array, number, or malformed) returns an error.
  `MaxOps = 1; Consts = {"leaf"}; IntoConst = TRUE; Related = FALSE; Nulls = TRUE`
- **cmp_large** `Comparison!Trichotomy`, src/workflow/operators/compare.go:115. Equality compares integers exactly, order compares their float64 values, so neighbours above 2^53 are unequal and in no order. src/workflow/operators/compare.go:9: "path, and numbers are json.Number (exact, no float rounding)."
  `MaxNum = 16; Exact = 8; ExpFrom = 4`
- **cmp_format** `Comparison!SameInBothFormats`, src/workflow/operators/compare.go:167. A JSON document's number is a float64, already rounded, and is formatted with an exponent from 10^6 on, which sends equality to the float comparison, where the same YAML document compares exactly. The text looked for in a string differs too (looseString, line 205): 1000000 for YAML's int, 1e+06 for JSON's float64. src/workflow/operators/compare.go:53: "Coercion makes YAML and JSON configs behave identically: record"
  `MaxNum = 16; Exact = 8; ExpFrom = 4`

## Not modelled

- *Checkpoint storage.* `SweepOrphans` has no caller in the repository; the
  removal of an aborted checkpoint's native state directories changes nothing a
  recovery reads.
- *Transactional sink.* The choice of a partition and the poll loop of the marker
  probe are reduced to their outcome.
- *Savepoint archives.* Tar entries, path checks and key cleaning: an archive is
  the checkpoint it was made of, whole or torn.
- *Control plane.* Secrets, the audit log, listings and log retrieval read or
  append without touching what the properties are about. Registry credentials,
  live statistics and the in-memory backend's test controls are left out, and so
  are read-only routes, authentication, the UI and the command line.
- *Sources and sinks.* SASL and TLS set-up, connection options, body formats and
  counters are configuration; whether a constructor accepts them is one flag of
  the document in `Workflow`. The slice and generator sources and the console
  sinks have no state to go wrong.
- *Workflows.* Parsing of YAML and JSON, the number formatting of the count and
  sum reducers, and the Postgres row mapper are conversions of data this project
  abstracts; the runner's log output is output only.
- *Stream API, records, metadata, metrics.* Builders, types and counters without
  concurrent state of their own. User functions are arbitrary.

Native state directories are one value in the checkpoint everywhere but in
`StateBackends`, `Windows` and `JobProcess`. Clocks appear only as order: a tick,
a timer or a deadline may come at any moment, and durations count only in
`Retries` and `Restarts`.
