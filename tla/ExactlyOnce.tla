---------------------------- MODULE ExactlyOnce -----------------------------
(***************************************************************************)
(* Coordinated (exactly-once) checkpointing of one pipeline: the barrier   *)
(* injector, the transactional Kafka sink, the checkpoint coordinator, the *)
(* files of FileStorage, and what a restarted process does with them.      *)
(*                                                                         *)
(* The source log is records 0 .. NumRecords - 1 of one partition.  The    *)
(* stages between the injector and the sink are a FIFO, so the records in  *)
(* flight are sinkPos .. pos - 1 and barrier id stands in front of record  *)
(* at[id].  A process start ("run") draws its checkpoint ids from the      *)
(* increasing counter nextId, which stands for the nonce that keeps ids of *)
(* different runs apart.                                                   *)
(***************************************************************************)
EXTENDS Integers, FiniteSets

CONSTANTS
    NumRecords,     \* length of the source log
    MaxTicks,       \* bound: ticker barriers over all runs
    MaxStarts,      \* bound: process starts
    Faults          \* which of FaultKinds may happen, besides crashes

\* What can go wrong: a failing call, a stage that fails ("stage"), a commit that
\* reaches the broker after the probe ("late"), and Write's deferred abort running
\* ahead of the commit of a checkpoint the coordinator has in hand ("overtake").
FaultKinds == {"produce", "save", "commit", "abort", "update", "probe", "stage", "late", "overtake"}

ASSUME SizeAssumption == NumRecords \in Nat /\ MaxTicks \in Nat /\ MaxStarts \in Nat
ASSUME FaultAssumption == Faults \subseteq FaultKinds

Recs    == 0 .. NumRecords - 1
Ids     == 1 .. MaxTicks + MaxStarts
NoId    == 0
\* A checkpoint of a run whose injector had seen no record: "{}" in the file.
NoOffset == -1
Offsets == NoOffset .. NumRecords

VARIABLES
    \* FileStorage: survives a crash
    files,           \* checkpoint-<id>.json: status and source offset
    latest,          \* latest.json
    latestCompleted, \* latest-completed.json
    \* Kafka: survives a crash
    visible,         \* how often each record was committed to the output topic
    markers,         \* checkpoint ids whose marker is read_committed-visible
    txnOpen, txnRecs, txnMarker,  \* the sink's transaction
    inFlight,        \* the process died with EndTxn(commit) on the wire
    \* the process
    mode,            \* "down", "recover", "init", "running"
    starts,          \* process starts so far
    stop, fatal, hard,            \* ctx cancelled, Fatal() reported, hardCtx cancelled
    \* injectBarriers
    inj,             \* "run", "drain" (after the shutdown barrier), "closed"
    pos,             \* next record of the log to read
    offsets,         \* the aligned offset map: NoOffset until a record passes
    nextId, ticks,
    at,              \* stream position of each barrier
    pending,         \* offsets registered with the coordinator per barrier
    \* TxnKafkaSink.Write
    sink,            \* "run", "wait" (for Commit or Abort of sinkId), "done"
    sinkPos, sinkId, \* next record to take; last barrier taken
    produceErr,      \* the latched produce error
    \* Coordinator
    coord, cur,      \* program counter of finalize, and its checkpoint
    event, eventErr  \* the prepared checkpoint in the events channel

storageVars == <<files, latest, latestCompleted>>
txnVars     == <<txnOpen, txnRecs, txnMarker>>
brokerVars  == <<visible, markers, txnVars, inFlight>>
procVars    == <<mode, starts, stop, fatal, hard>>
injVars     == <<inj, pos, offsets, nextId, ticks, at, pending>>
sinkVars    == <<sink, sinkPos, sinkId, produceErr>>
coordVars   == <<coord, cur, event, eventErr>>
vars == <<storageVars, brokerVars, procVars, injVars, sinkVars, coordVars>>

Statuses == {"none", "prepared", "completed"}
CoordPCs == {"idle", "save", "saveLatest", "commit", "committing", "update", "updateLatest",
             "updatePointer", "abort", "report"}

TypeStorage ==
    /\ files \in [Ids -> [status : Statuses, offset : Offsets]]
    /\ latest \in Ids \cup {NoId} /\ latestCompleted \in Ids \cup {NoId}

TypeBroker ==
    /\ visible \in [Recs -> Nat] /\ markers \subseteq Ids
    /\ txnRecs \subseteq Recs /\ txnMarker \in Ids \cup {NoId}

TypeProcess ==
    /\ mode \in {"down", "recover", "init", "running"} /\ starts \in 0 .. MaxStarts

TypeInjector ==
    /\ inj \in {"run", "drain", "closed"}
    /\ pos \in 0 .. NumRecords /\ offsets \in Offsets
    /\ nextId \in 1 .. MaxTicks + MaxStarts + 1 /\ ticks \in 0 .. MaxTicks
    /\ at \in [Ids -> 0 .. NumRecords] /\ pending \in [Ids -> Offsets]

TypeSink ==
    /\ sink \in {"run", "wait", "done"} /\ sinkPos \in 0 .. NumRecords
    /\ sinkId \in Ids \cup {NoId}

TypeCoordinator ==
    /\ coord \in CoordPCs /\ cur \in Ids \cup {NoId} /\ event \in Ids \cup {NoId}

TypeFlags ==
    /\ txnOpen \in BOOLEAN /\ inFlight \in BOOLEAN
    /\ stop \in BOOLEAN /\ fatal \in BOOLEAN /\ hard \in BOOLEAN
    /\ produceErr \in BOOLEAN /\ eventErr \in BOOLEAN

\* Every variable keeps its type; in particular a restored position is a
\* position of the log, also when the checkpoint holds no offset.
TypeOK ==
    /\ TypeStorage /\ TypeBroker /\ TypeProcess /\ TypeInjector /\ TypeSink
    /\ TypeCoordinator /\ TypeFlags

Init ==
    /\ files = [i \in Ids |-> [status |-> "none", offset |-> NoOffset]]
    /\ latest = NoId /\ latestCompleted = NoId
    /\ visible = [r \in Recs |-> 0] /\ markers = {}
    /\ txnOpen = FALSE /\ txnRecs = {} /\ txnMarker = NoId /\ inFlight = FALSE
    /\ mode = "down" /\ starts = 0 /\ stop = FALSE /\ fatal = FALSE /\ hard = FALSE
    /\ inj = "closed" /\ pos = 0 /\ offsets = NoOffset /\ nextId = 1 /\ ticks = 0
    /\ at = [i \in Ids |-> 0] /\ pending = [i \in Ids |-> NoOffset]
    /\ sink = "done" /\ sinkPos = 0 /\ sinkId = NoId /\ produceErr = FALSE
    /\ coord = "idle" /\ cur = NoId /\ event = NoId /\ eventErr = FALSE

Fault(f) == f \in Faults

-----------------------------------------------------------------------------
(* Barrier injector (mailer.go, injectBarriers) *)

Running == mode = "running"

\* A record passes the injector and advances the aligned offset map; after
\* the shutdown barrier what is left in the source channel still drains.
InjectRecord ==
    /\ Running /\ inj \in {"run", "drain"} /\ pos < NumRecords
    /\ pos' = pos + 1 /\ offsets' = pos + 1
    /\ UNCHANGED <<inj, nextId, ticks, at, pending>>
    /\ UNCHANGED <<storageVars, brokerVars, procVars, sinkVars, coordVars>>

\* registerAlignedOffsets, then the barrier record behind everything so far.
InjectBarrier ==
    /\ nextId \in Ids
    /\ at' = [at EXCEPT ![nextId] = pos]
    /\ pending' = [pending EXCEPT ![nextId] = offsets]
    /\ nextId' = nextId + 1
    /\ UNCHANGED <<pos, offsets>>
    /\ UNCHANGED <<storageVars, brokerVars, procVars, sinkVars, coordVars>>

TickBarrier ==
    /\ Running /\ inj = "run" /\ ticks < MaxTicks
    /\ ticks' = ticks + 1 /\ inj' = inj
    /\ InjectBarrier

\* ctx.Done(): the shutdown barrier, then drain without another barrier.
ShutdownBarrier ==
    /\ Running /\ inj = "run" /\ stop
    /\ inj' = "drain" /\ ticks' = ticks
    /\ InjectBarrier

\* Bug: the stream ends without a last barrier.
FinalBarrierMissing ==
    /\ Running /\ inj = "run" /\ (pos = NumRecords \/ stop)
    /\ inj' = "closed"
    /\ UNCHANGED <<pos, offsets, nextId, ticks, at, pending>>
    /\ UNCHANGED <<storageVars, brokerVars, procVars, sinkVars, coordVars>>

\* The source closed its channel, at the end of a finite log or because ctx
\* was cancelled: a final barrier, and the stream ends.
FinalBarrier ==
    /\ Running /\ inj = "run" /\ (pos = NumRecords \/ stop)
    /\ inj' = "closed" /\ ticks' = ticks
    /\ InjectBarrier

DrainEnd ==
    /\ Running /\ inj = "drain"
    /\ inj' = "closed"
    /\ UNCHANGED <<pos, offsets, nextId, ticks, at, pending>>
    /\ UNCHANGED <<storageVars, brokerVars, procVars, sinkVars, coordVars>>

-----------------------------------------------------------------------------
(* Transactional sink (sink/kafka_txn.go) *)

BarrierNext == sinkId + 1 < nextId /\ at[sinkId + 1] = sinkPos

\* Bug: a record that cannot be produced is logged, and nothing is latched.
SinkRecordErrorLost ==
    /\ Running /\ sink = "run" /\ sinkPos < pos /\ ~BarrierNext
    /\ sinkPos' = sinkPos + 1
    /\ txnRecs' \in {txnRecs, txnRecs \cup {sinkPos}} /\ produceErr' = produceErr
    /\ UNCHANGED <<sink, sinkId, txnOpen, txnMarker, visible, markers, inFlight>>
    /\ UNCHANGED <<storageVars, procVars, injVars, coordVars>>

\* Write takes a record and produces it into the open transaction; a record
\* that cannot be serialized or produced latches produceErr instead.
SinkRecord ==
    /\ Running /\ sink = "run" /\ sinkPos < pos /\ ~BarrierNext
    /\ sinkPos' = sinkPos + 1
    /\ \/ txnRecs' = txnRecs \cup {sinkPos} /\ produceErr' = produceErr
       \/ Fault("produce") /\ txnRecs' = txnRecs /\ produceErr' = TRUE
    /\ UNCHANGED <<sink, sinkId, txnOpen, txnMarker, visible, markers, inFlight>>
    /\ UNCHANGED <<storageVars, procVars, injVars, coordVars>>

\* Write takes a barrier: the marker joins the transaction (or latches the
\* error, and then the transaction never commits), Flush, then the error goes
\* to the coordinator and Write blocks.  The events channel has room: the
\* sink prepares one checkpoint at a time.
SinkBarrier ==
    /\ Running /\ sink = "run" /\ BarrierNext /\ event = NoId
    /\ sink' = "wait" /\ sinkId' = sinkId + 1
    /\ txnMarker' = sinkId + 1
    /\ event' = sinkId + 1
    /\ \/ produceErr' = produceErr
       \/ Fault("produce") /\ produceErr' = TRUE
    /\ \E flushErr \in {FALSE, hard} : eventErr' = (flushErr \/ produceErr')
    /\ UNCHANGED <<sinkPos, coord, cur>>
    /\ UNCHANGED <<txnOpen, txnRecs, visible, markers, inFlight>>
    /\ UNCHANGED <<storageVars, procVars, injVars>>

\* Bug: Write waits for Commit or Abort only, not for ctx.Done().
SinkReturnAtEndOnly ==
    /\ Running
    /\ sink = "run" /\ inj = "closed" /\ sinkPos = pos /\ sinkId + 1 = nextId
    /\ sink' = "done"
    /\ txnOpen' = FALSE /\ txnRecs' = {} /\ txnMarker' = NoId
    /\ UNCHANGED <<sinkPos, sinkId, produceErr, visible, markers, inFlight>>
    /\ UNCHANGED <<storageVars, procVars, injVars, coordVars>>

\* A checkpoint is prepared and the coordinator has not committed it yet.
InHand ==
    \/ event # NoId /\ ~eventErr
    \/ coord \in {"save", "saveLatest", "commit", "committing"}

\* Write returns, at the end of the stream or because hardCtx ended; its
\* deferred call aborts the transaction that is still open, be it the one the
\* coordinator is about to commit.
SinkReturn ==
    /\ Running /\ sink # "done"
    /\ \/ hard /\ (InHand => Fault("overtake"))
       \/ sink = "run" /\ inj = "closed" /\ sinkPos = pos /\ sinkId + 1 = nextId
    /\ sink' = "done"
    /\ txnOpen' = FALSE /\ txnRecs' = {} /\ txnMarker' = NoId
    /\ UNCHANGED <<sinkPos, sinkId, produceErr, visible, markers, inFlight>>
    /\ UNCHANGED <<storageVars, procVars, injVars, coordVars>>

\* EndTxn(commit) at the broker: records and marker become visible at once.
BrokerCommit ==
    /\ visible' = [r \in Recs |-> visible[r] + IF r \in txnRecs THEN 1 ELSE 0]
    /\ markers' = markers \cup ({txnMarker} \ {NoId})

\* Begin the next transaction, forget the old one's error, unblock Write.
NextTxn ==
    /\ txnOpen' = TRUE /\ txnRecs' = {} /\ txnMarker' = NoId
    /\ produceErr' = FALSE
    /\ sink' = IF sink = "wait" THEN "run" ELSE sink
    /\ UNCHANGED <<sinkPos, sinkId, inFlight>>

-----------------------------------------------------------------------------
(* Coordinator.finalize (checkpoint/coordinator.go) and the file writes of *)
(* FileStorage.saveLocked, each of which is one atomic rename              *)

Goto(pc) == coord' = pc /\ UNCHANGED <<cur, event, eventErr>>

\* Bug: the sink commits before the checkpoint is saved.
TakeEventCommitFirst ==
    /\ Running /\ coord = "idle" /\ event # NoId
    /\ cur' = event /\ event' = NoId /\ eventErr' = FALSE
    /\ coord' = IF eventErr THEN "abort" ELSE "commit"
    /\ UNCHANGED <<storageVars, brokerVars, procVars, injVars, sinkVars>>

\* The coordinator's goroutine takes a prepared checkpoint from the channel.
TakeEvent ==
    /\ Running /\ coord = "idle" /\ event # NoId
    /\ cur' = event /\ event' = NoId /\ eventErr' = FALSE
    /\ coord' = IF eventErr THEN "abort" ELSE "save"
    /\ UNCHANGED <<storageVars, brokerVars, procVars, injVars, sinkVars>>

\* Save(prepared): checkpoint-<id>.json, then latest.json.
SavePrepared ==
    /\ Running /\ coord = "save"
    /\ \/ /\ files' = [files EXCEPT ![cur] = [status |-> "prepared", offset |-> pending[cur]]]
          /\ Goto("saveLatest")
       \/ Fault("save") /\ files' = files /\ Goto("abort")
    /\ UNCHANGED <<latest, latestCompleted>>
    /\ UNCHANGED <<brokerVars, procVars, injVars, sinkVars>>

SaveLatest ==
    /\ Running /\ coord = "saveLatest"
    /\ \/ latest' = cur /\ Goto("commit")
       \/ Fault("save") /\ latest' = latest /\ Goto("abort")
    /\ UNCHANGED <<files, latestCompleted>>
    /\ UNCHANGED <<brokerVars, procVars, injVars, sinkVars>>

\* CommitSink(hardCtx, id) is called.
CallCommit ==
    /\ Running /\ coord = "commit"
    /\ Goto("committing")
    /\ UNCHANGED <<storageVars, brokerVars, procVars, injVars, sinkVars>>

\* TxnKafkaSink.Commit succeeds.  When Write's deferred abort has ended the
\* transaction there is nothing to end: EndTransaction returns nil, and Commit
\* reports a commit that made nothing visible.
CommitSink ==
    /\ Running /\ coord = "committing"
    /\ BrokerCommit /\ NextTxn /\ Goto("update")
    /\ UNCHANGED <<storageVars, procVars, injVars>>

\* Bug: a failed commit is logged and the checkpoint completed all the same.
CommitErrorIgnored ==
    /\ Running /\ coord = "committing" /\ (Fault("commit") \/ (hard /\ txnOpen))
    /\ \/ UNCHANGED <<visible, markers>>
       \/ BrokerCommit
    /\ txnOpen' = FALSE /\ txnRecs' = {} /\ txnMarker' = NoId
    /\ Goto("update")
    /\ UNCHANGED <<inFlight, storageVars, procVars, injVars, sinkVars>>

\* EndTransaction or the BeginTransaction after it returns an error, as the
\* former does for an open transaction once hardCtx has ended: it may or may
\* not have committed, and Write stays blocked.
CommitError ==
    /\ Running /\ coord = "committing" /\ (Fault("commit") \/ (hard /\ txnOpen))
    /\ \/ UNCHANGED <<visible, markers>>
       \/ BrokerCommit
    /\ txnOpen' = FALSE /\ txnRecs' = {} /\ txnMarker' = NoId
    /\ Goto("report")
    /\ UNCHANGED <<inFlight, storageVars, procVars, injVars, sinkVars>>

\* abortFatal: TxnKafkaSink.Abort discards the transaction, if Write has not
\* done so, and unblocks Write.
AbortSink ==
    /\ Running /\ coord = "abort" /\ (txnOpen => ~hard)
    /\ NextTxn /\ Goto("report")
    /\ UNCHANGED <<visible, markers, storageVars, procVars, injVars>>

AbortError ==
    /\ Running /\ coord = "abort" /\ (Fault("abort") \/ hard)
    /\ Goto("report")
    /\ UNCHANGED <<storageVars, brokerVars, procVars, injVars, sinkVars>>

\* reportFatal: the channel holds one error, later ones are dropped.
ReportFatal ==
    /\ Running /\ coord = "report"
    /\ fatal' = TRUE /\ Goto("idle")
    /\ UNCHANGED <<mode, starts, stop, hard>>
    /\ UNCHANGED <<storageVars, brokerVars, injVars, sinkVars>>

\* UpdateStatus(completed): the same three files, by the coordinator after a
\* commit or by recovery after the marker probe.  An error is fatal to the
\* run, and makes recovery refuse to start.
UpdateError ==
    /\ Fault("update")
    /\ Goto(IF Running THEN "report" ELSE "idle")
    /\ mode' = IF Running THEN mode ELSE "down"
    /\ UNCHANGED <<storageVars, pos>>

UpdateStatus ==
    /\ coord = "update"
    /\ \/ /\ files' = [files EXCEPT ![cur].status = "completed"]
          /\ Goto("updateLatest") /\ UNCHANGED <<latest, latestCompleted, mode, pos>>
       \/ UpdateError
    /\ UNCHANGED <<starts, stop, fatal, hard, inj, offsets, nextId, ticks, at, pending>>
    /\ UNCHANGED <<brokerVars, sinkVars>>

UpdateLatest ==
    /\ coord = "updateLatest"
    /\ \/ /\ latest' = cur
          /\ Goto("updatePointer") /\ UNCHANGED <<files, latestCompleted, mode, pos>>
       \/ UpdateError
    /\ UNCHANGED <<starts, stop, fatal, hard, inj, offsets, nextId, ticks, at, pending>>
    /\ UNCHANGED <<brokerVars, sinkVars>>

\* restoreSourceOffset: an empty offset map restores nothing, and the source
\* starts where it is configured to, at the head of the log.
RestoreOffset(off) == pos' = IF off = NoOffset THEN 0 ELSE off

UpdatePointer ==
    /\ coord = "updatePointer"
    /\ \/ /\ latestCompleted' = cur /\ Goto("idle")
          /\ \/ Running /\ UNCHANGED <<mode, pos>>
             \/ ~Running /\ mode' = "init" /\ RestoreOffset(files[cur].offset)
          /\ UNCHANGED <<files, latest>>
       \/ UpdateError
    /\ UNCHANGED <<starts, stop, fatal, hard, inj, offsets, nextId, ticks, at, pending>>
    /\ UNCHANGED <<brokerVars, sinkVars>>

-----------------------------------------------------------------------------
(* Process life cycle (mailer.go, Execute and resolveCoordinatedRecovery) *)

Shutdown ==
    /\ Running /\ ~stop /\ starts < MaxStarts
    /\ stop' = TRUE
    /\ UNCHANGED <<mode, starts, fatal, hard>>
    /\ UNCHANGED <<storageVars, brokerVars, injVars, sinkVars, coordVars>>

\* The watcher of Fatal(), the shutdownTimeout timer or a stage that returned
\* an error cancels hardCtx.
HardCancel ==
    /\ Running /\ ~hard /\ (fatal \/ stop \/ Fault("stage"))
    /\ hard' = TRUE
    /\ UNCHANGED <<mode, starts, stop, fatal>>
    /\ UNCHANGED <<storageVars, brokerVars, injVars, sinkVars, coordVars>>

\* What a process that ended leaves of its memory: nothing.
Forget ==
    /\ mode' = "down" /\ stop' = FALSE /\ fatal' = FALSE /\ hard' = FALSE
    /\ inj' = "closed" /\ pos' = 0 /\ offsets' = NoOffset
    /\ sink' = "done" /\ sinkPos' = 0 /\ sinkId' = NoId /\ produceErr' = FALSE
    /\ coord' = "idle" /\ cur' = NoId /\ event' = NoId /\ eventErr' = FALSE
    /\ UNCHANGED <<starts, nextId, ticks, at, pending>>

\* Every stage returned; coord.Stop halts the coordinator (a prepared event
\* still queued is dropped) after waiting for the finalize in progress.
Exit ==
    /\ Running /\ sink = "done" /\ coord = "idle"
    /\ Forget
    /\ UNCHANGED <<storageVars, brokerVars>>

\* The process dies between any two of its steps.  Its transaction dangles;
\* a commit request may already be on its way to the broker.
Crash ==
    /\ mode # "down" /\ starts < MaxStarts
    /\ Forget
    /\ inFlight' = (Running /\ coord = "committing" /\ txnOpen)
    /\ UNCHANGED <<storageVars, visible, markers, txnVars>>

Restart ==
    /\ mode = "down" /\ starts < MaxStarts
    /\ mode' = "recover" /\ starts' = starts + 1
    /\ UNCHANGED <<stop, fatal, hard>>
    /\ UNCHANGED <<storageVars, brokerVars, injVars, sinkVars, coordVars>>

\* Storage.Load and the decision table.
Recovering == mode = "recover" /\ coord = "idle"

RecoverTo(off) ==
    /\ mode' = "init" /\ RestoreOffset(off)
    /\ UNCHANGED <<starts, stop, fatal, hard, inj, offsets, nextId, ticks, at, pending>>
    /\ UNCHANGED <<storageVars, brokerVars, sinkVars, coordVars>>

RecoverFresh == Recovering /\ latest = NoId /\ RecoverTo(NoOffset)

RecoverCompleted ==
    /\ Recovering /\ latest # NoId /\ files[latest].status = "completed"
    /\ RecoverTo(files[latest].offset)

Undecided == Recovering /\ latest # NoId /\ files[latest].status = "prepared"

\* WasCommitted finds the marker: promote, then restore.
RecoverPromote ==
    /\ Undecided /\ latest \in markers
    /\ cur' = latest /\ coord' = "update" /\ UNCHANGED <<event, eventErr>>
    /\ UNCHANGED <<storageVars, brokerVars, procVars, injVars, sinkVars>>

\* Bug: recovery falls back without probing the marker.
RecoverFallBackUnprobed ==
    /\ Undecided
    /\ RecoverTo(IF latestCompleted = NoId THEN NoOffset ELSE files[latestCompleted].offset)

\* Bug: recovery restores the checkpoint it has just found uncommitted.
RecoverFallBackToLatest ==
    /\ Undecided /\ latest \notin markers
    /\ RecoverTo(files[latest].offset)

\* WasCommitted finds no marker: LoadLatestCompleted.
RecoverFallBack ==
    /\ Undecided /\ latest \notin markers
    /\ RecoverTo(IF latestCompleted = NoId THEN NoOffset ELSE files[latestCompleted].offset)

\* The probe fails: refuse to start.
ProbeError ==
    /\ Undecided /\ Fault("probe")
    /\ Forget
    /\ UNCHANGED <<storageVars, brokerVars>>

\* The stages start.  The new producer's InitProducerID fences the old one,
\* which aborts a dangling transaction, and the sink begins its first one.
StartRun ==
    /\ mode = "init"
    /\ mode' = "running" /\ inj' = "run" /\ offsets' = NoOffset
    /\ sink' = "run" /\ sinkPos' = pos /\ sinkId' = nextId - 1 /\ produceErr' = FALSE
    /\ txnOpen' = TRUE /\ txnRecs' = {} /\ txnMarker' = NoId /\ inFlight' = FALSE
    /\ UNCHANGED <<starts, stop, fatal, hard, pos, nextId, ticks, at, pending>>
    /\ UNCHANGED <<visible, markers, storageVars, coordVars>>

\* The broker handles the dead process's commit request before the fence.
LateCommit ==
    /\ Fault("late") /\ inFlight /\ mode # "running"
    /\ BrokerCommit
    /\ txnOpen' = FALSE /\ txnRecs' = {} /\ txnMarker' = NoId /\ inFlight' = FALSE
    /\ UNCHANGED <<storageVars, procVars, injVars, sinkVars, coordVars>>

\* The last run ended and nobody starts another: the system stays as it is.
Ended == mode = "down" /\ starts = MaxStarts /\ UNCHANGED vars

-----------------------------------------------------------------------------
Injector    == InjectRecord \/ TickBarrier \/ ShutdownBarrier \/ FinalBarrier \/ DrainEnd
Sink        == SinkRecord \/ SinkBarrier \/ SinkReturn
Coordinator == \/ TakeEvent \/ SavePrepared \/ SaveLatest \/ CallCommit \/ CommitSink \/ CommitError
               \/ AbortSink \/ AbortError \/ ReportFatal
               \/ UpdateStatus \/ UpdateLatest \/ UpdatePointer
Recovery    == \/ RecoverFresh \/ RecoverCompleted \/ RecoverPromote \/ RecoverFallBack
               \/ ProbeError \/ StartRun
Process     == Shutdown \/ HardCancel \/ Exit \/ Crash \/ Restart

Next == Injector \/ Sink \/ Coordinator \/ Recovery \/ Process \/ LateCommit \/ Ended

Spec == Init /\ [][Next]_vars

\* injectBarriers gets to its end, with or without a last barrier.
InjectorEnds == ShutdownBarrier \/ FinalBarrier \/ DrainEnd

\* Every goroutine keeps running, and a supervisor starts the process again
\* after it ended.  Nothing forces a tick, a shutdown, a crash or an error.
Fairness ==
    /\ WF_vars(InjectRecord) /\ WF_vars(InjectorEnds)
    /\ WF_vars(Sink) /\ WF_vars(Coordinator) /\ WF_vars(Recovery)
    /\ WF_vars(HardCancel) /\ WF_vars(Exit) /\ WF_vars(Restart)

FairSpec == Spec /\ Fairness

-----------------------------------------------------------------------------
(* Properties.  The promise of coordinated mode (README, Delivery           *)
(* Guarantees) is that every record's output is committed exactly once.    *)

\* Execute resumes exactly behind the committed output: when recovery has
\* chosen a checkpoint and the source is about to start at pos, the records
\* before pos are the ones visible downstream, each once.  It takes that Write
\* does not overtake a commit: with "overtake" the output of the completed
\* checkpoint may be missing.
RestorePoint ==
    mode = "init" => \A r \in Recs : visible[r] = IF r < pos THEN 1 ELSE 0

Promise == INSTANCE Delivery

\* The pipeline with its crashes and restarts implements in-order delivery
\* in batches, each record once: what Coordinator and TxnKafkaSink are for.
\* Like RestorePoint, it takes that no commit is overtaken.
ExactlyOnceDelivery == Promise!Spec

\* No record is committed to the output topic twice.
NoDuplicates == \A r \in Recs : visible[r] <= 1

\* No record is skipped: the output never has a later record without an
\* earlier one.  (Failing the pipeline after an abort is there for this.)
NoGaps == \A r, s \in Recs : r < s /\ visible[s] > 0 => visible[r] > 0

\* A checkpoint file says completed only if its transaction did commit,
\* whoever wrote the status: the coordinator after CommitSink, or recovery
\* after the marker probe.  It fails when Write's deferred abort overtakes the
\* commit, since EndTransaction returns nil with no transaction left to end.
CompletedIsCommitted == \A i \in Ids : files[i].status = "completed" => i \in markers

\* The commit decision is logged first: a committed transaction has its
\* checkpoint file, and latest.json does not point to an older one, so
\* recovery always gets to decide about the newest commit.
CommittedIsLogged == \A i \in markers : files[i].status # "none" /\ i <= latest

\* LoadLatestCompleted returns the newest completed checkpoint whenever
\* recovery calls it.
FallBackIsNewest ==
    Undecided /\ latest \notin markers =>
        \A i \in Ids : files[i].status = "completed" => i <= latestCompleted

\* The offset of a checkpoint is the position of its barrier, also when no
\* record passed the injector since the run started from a restored offset.
RestoredOffsetCarried ==
    \A i \in Ids : files[i].status # "none" /\ at[i] > 0 => files[i].offset = at[i]

=============================================================================
