---------------------------- MODULE MCConnectors ----------------------------
(***************************************************************************)
(* Model checking of the connectors: the two modes of the Kafka source,    *)
(* the batching sinks, the dead-letter queues and the retry loops. A       *)
(* behaviour is one of one part, with the constants of one scenario; the   *)
(* variables of the other parts keep the value Off.                        *)
(***************************************************************************)
EXTENDS Integers, Sequences, FiniteSets

VARIABLES
    on,  \* the scenario
    \* KafkaSerial
    pos, committed, consumed, pc, hand, tries, pending, result, wm, inner, drained, raw,
    stop, aligned, state, ckpt, lives, emitted, applied,
    \* KafkaParallel
    kpTopic, end, restored, readers, running, mgr, fatal, kpResult, kpStop, kpOut,
    kpAligned, kpState, kpCkpt, kpLives, owed,
    \* SinkPath
    at, barrier, stage, pumping, pumped, sinkClosed, hard, bw, after, batch, flights, errCh,
    sinkResult, last, saved, dest, dlq, dropped,
    \* DeadLetters
    policy, target, todo, dlqPc, cur, lock, file, durable, dlqTopic, dlqClosed, dlqOut,
    acked, panicked, up,
    \* Retries
    loop, option, max, retryPc, attempt, calls, pause, asked, longest, cancelled, live,
    late, accepted, permanent, retryResult

Off == "off"

\* The consumer-group source: batched commits with every fault; commits that
\* fail under the policies "fail" and "skip"; a graceful stop; watermarks.
SerialBase ==
  [parts |-> {0}, len |-> 4, poison |-> {}, batch |-> 0, policy |-> "skip", wm |-> FALSE,
   ckpts |-> FALSE, cap |-> 2, lives |-> 2, faults |-> {"stop"}]
Serials ==
  [ksCommit  |-> [SerialBase EXCEPT !.poison = {1}, !.batch = 2, !.ckpts = TRUE, !.cap = 1,
                                    !.faults = {"fetch", "commit", "stop", "crash"}],
   ksDeliver |-> [SerialBase EXCEPT !.parts = {0, 1}, !.len = 3, !.poison = {0}, !.policy = "fail",
                                    !.lives = 1, !.faults = {"commit"}],
   ksSkip    |-> [SerialBase EXCEPT !.parts = {0, 1}, !.len = 3, !.poison = {0}, !.batch = 2,
                                    !.lives = 1, !.faults = {"commit"}],
   ksStop    |-> [SerialBase EXCEPT !.parts = {0, 1}, !.len = 2, !.faults = {"commit", "stop"}],
   ksMarks   |-> [SerialBase EXCEPT !.wm = TRUE]]

Serial(c) == INSTANCE KafkaSerial WITH
    Parts <- c.parts, LogLen <- c.len, PoisonOffsets <- c.poison, DeserPolicy <- "drop",
    Batch <- c.batch, ExactlyOnce <- FALSE, CommitPolicy <- c.policy, Retries <- 1,
    Watermarks <- c.wm, Checkpointing <- c.ckpts, Cap <- c.cap, MaxLives <- c.lives,
    Faults <- c.faults

\* The source with a reader for each partition: resuming from a checkpoint;
\* failing readers and discovery; partitions that come and go; the newest offset.
Parallels ==
  [kpResume    |-> [len |-> 2, latest |-> FALSE, readers |-> 2, lives |-> 2, faults |-> {"crash", "discovery"}],
   kpSupervise |-> [len |-> 1, latest |-> FALSE, readers |-> 2, lives |-> 1, faults |-> {"discovery", "fetch", "stop"}],
   kpStop      |-> [len |-> 1, latest |-> FALSE, readers |-> 3, lives |-> 1, faults |-> {"fetch", "flap", "stop"}],
   kpOrder     |-> [len |-> 2, latest |-> TRUE,  readers |-> 3, lives |-> 2, faults |-> {"crash", "stop"}]]

Parallel(c) == INSTANCE KafkaParallel WITH
    Parts <- {0, 1}, Seed <- {0}, LogLen <- c.len, Latest <- c.latest, Cap <- 1,
    MaxReaders <- c.readers, MaxLives <- c.lives, Faults <- c.faults, topic <- kpTopic,
    result <- kpResult, stop <- kpStop, out <- kpOut, aligned <- kpAligned,
    state <- kpState, ckpt <- kpCkpt, lives <- kpLives

\* Batching sinks: asynchronous Kafka with a dead-letter queue, and with the
\* policy "fail"; HTTP; Postgres with two tables.
Sinks ==
  [kafka     |-> [recs |-> 4, bar |-> 3, kind |-> "kafka", size |-> 2, timer |-> FALSE, tries |-> 1,
                  policy |-> "dlq", odd |-> {}, tables |-> 1, faults |-> {"dlq", "hard", "lostack", "write"}],
   kafkaFail |-> [recs |-> 5, bar |-> 2, kind |-> "kafka", size |-> 2, timer |-> FALSE, tries |-> 0,
                  policy |-> "fail", odd |-> {}, tables |-> 1, faults |-> {"write"}],
   http      |-> [recs |-> 4, bar |-> 2, kind |-> "http", size |-> 2, timer |-> TRUE, tries |-> 1,
                  policy |-> "drop", odd |-> {3}, tables |-> 1, faults |-> {"hard", "lostack", "permanent", "write"}],
   postgres  |-> [recs |-> 5, bar |-> 2, kind |-> "postgres", size |-> 3, timer |-> TRUE, tries |-> 1,
                  policy |-> "dlq", odd |-> {2}, tables |-> 2, faults |-> {"deadline", "dlq", "hard", "write"}]]

Sink(c) == INSTANCE SinkPath WITH
    NRec <- c.recs, BarrierAfter <- {c.bar}, Kind <- c.kind, BatchSize <- c.size,
    Interval <- c.timer, Retries <- c.tries, Policy <- c.policy, Odd <- c.odd,
    Tables <- c.tables, Cap <- 2, Faults <- c.faults, result <- sinkResult,
    closed <- sinkClosed

\* Dead-letter queues: crashes around a write; every policy and a torn write;
\* no fault.
Letters ==
  [dlqSafe  |-> [policies |-> {"dlq"}, targets |-> {"file", "kafka"}, faults |-> {"close", "crash", "err"}],
   dlqOnce  |-> [policies |-> {"dlq", "drop", "fail"}, targets |-> {"file", "kafka", "nil"},
                 faults |-> {"close", "crash", "err", "short"}],
   dlqWhole |-> [policies |-> {"dlq", "drop", "fail"}, targets |-> {"file", "kafka", "nil"}, faults |-> {}]]

Letter(c) == INSTANCE DeadLetters WITH
    Workers <- {"w1", "w2"}, Records <- 1 .. 4, Bad <- 1 .. 3, Policies <- c.policies,
    Targets <- c.targets, Sync <- TRUE, Faults <- c.faults, pc <- dlqPc, topic <- dlqTopic,
    closed <- dlqClosed, out <- dlqOut

Retry == INSTANCE Retries WITH
    Loops <- {"commit", "fetch", "http", "kafka", "postgres"}, Options <- {0, 1, 2, 4},
    NegativeFor <- {"fetch", "http"}, AttemptBound <- 8, AskSeconds <- 5, pc <- retryPc,
    result <- retryResult

serialVars == <<pos, committed, consumed, pc, hand, tries, pending, result, wm, inner,
                drained, raw, stop, aligned, state, ckpt, lives, emitted, applied>>
parallelVars == <<kpTopic, end, restored, readers, running, mgr, fatal, kpResult, kpStop,
                  kpOut, kpAligned, kpState, kpCkpt, kpLives, owed>>
sinkVars == <<at, barrier, stage, pumping, pumped, sinkClosed, hard, bw, after, batch,
              flights, errCh, sinkResult, last, saved, dest, dlq, dropped>>
letterVars == <<policy, target, todo, dlqPc, cur, lock, file, durable, dlqTopic, dlqClosed,
                dlqOut, acked, panicked, up>>
retryVars == <<loop, option, max, retryPc, attempt, calls, pause, asked, longest, cancelled,
               live, late, accepted, permanent, retryResult>>
connectorsVars == <<on, serialVars, parallelVars, sinkVars, letterVars, retryVars>>

NoSerial ==
  /\ pos = Off /\ committed = Off /\ consumed = Off /\ pc = Off /\ hand = Off
  /\ tries = Off /\ pending = Off /\ result = Off /\ wm = Off /\ inner = Off
  /\ drained = Off /\ raw = Off /\ stop = Off /\ aligned = Off /\ state = Off
  /\ ckpt = Off /\ lives = Off /\ emitted = Off /\ applied = Off
NoParallel ==
  /\ kpTopic = Off /\ end = Off /\ restored = Off /\ readers = Off /\ running = Off
  /\ mgr = Off /\ fatal = Off /\ kpResult = Off /\ kpStop = Off /\ kpOut = Off
  /\ kpAligned = Off /\ kpState = Off /\ kpCkpt = Off /\ kpLives = Off /\ owed = Off
NoSink ==
  /\ at = Off /\ barrier = Off /\ stage = Off /\ pumping = Off /\ pumped = Off
  /\ sinkClosed = Off /\ hard = Off /\ bw = Off /\ after = Off /\ batch = Off
  /\ flights = Off /\ errCh = Off /\ sinkResult = Off /\ last = Off /\ saved = Off
  /\ dest = Off /\ dlq = Off /\ dropped = Off
NoLetter ==
  /\ policy = Off /\ target = Off /\ todo = Off /\ dlqPc = Off /\ cur = Off /\ lock = Off
  /\ file = Off /\ durable = Off /\ dlqTopic = Off /\ dlqClosed = Off /\ dlqOut = Off
  /\ acked = Off /\ panicked = Off /\ up = Off
NoRetry ==
  /\ loop = Off /\ option = Off /\ max = Off /\ retryPc = Off /\ attempt = Off
  /\ calls = Off /\ pause = Off /\ asked = Off /\ longest = Off /\ cancelled = Off
  /\ live = Off /\ late = Off /\ accepted = Off /\ permanent = Off /\ retryResult = Off

ConnectorsInit ==
  \/ /\ NoParallel /\ NoSink /\ NoLetter /\ NoRetry
     /\ \E s \in DOMAIN Serials : on = s /\ Serial(Serials[s])!Init
  \/ /\ NoSerial /\ NoSink /\ NoLetter /\ NoRetry
     /\ \E s \in DOMAIN Parallels : on = s /\ Parallel(Parallels[s])!Init
  \/ /\ NoSerial /\ NoParallel /\ NoLetter /\ NoRetry
     /\ \E s \in DOMAIN Sinks : on = s /\ Sink(Sinks[s])!Init
  \/ /\ NoSerial /\ NoParallel /\ NoSink /\ NoRetry
     /\ \E s \in DOMAIN Letters : on = s /\ Letter(Letters[s])!Init
  \/ /\ NoSerial /\ NoParallel /\ NoSink /\ NoLetter
     /\ on = "retries" /\ Retry!Init

ConnectorsNext ==
  \/ /\ \E s \in DOMAIN Serials : on = s /\ Serial(Serials[s])!Next
     /\ UNCHANGED <<on, parallelVars, sinkVars, letterVars, retryVars>>
  \/ /\ \E s \in DOMAIN Parallels : on = s /\ Parallel(Parallels[s])!Next
     /\ UNCHANGED <<on, serialVars, sinkVars, letterVars, retryVars>>
  \/ /\ \E s \in DOMAIN Sinks : on = s /\ Sink(Sinks[s])!Next
     /\ UNCHANGED <<on, serialVars, parallelVars, letterVars, retryVars>>
  \/ /\ \E s \in DOMAIN Letters : on = s /\ Letter(Letters[s])!Next
     /\ UNCHANGED <<on, serialVars, parallelVars, sinkVars, retryVars>>
  \/ /\ on = "retries" /\ Retry!Next
     /\ UNCHANGED <<on, serialVars, parallelVars, sinkVars, letterVars>>

\* The fairness of each part, in the scenarios whose progress is checked.
SerialFairness ==
  \A s \in {"ksDeliver", "ksSkip", "ksStop"} :
    /\ WF_serialVars(on = s /\ Serial(Serials[s])!Reader)
    /\ WF_serialVars(on = s /\ Serial(Serials[s])!Drain)
    /\ WF_serialVars(on = s /\ Serial(Serials[s])!Take)
ParallelFairness ==
  LET K == Parallels.kpSupervise IN
  /\ WF_parallelVars(on = "kpSupervise" /\ Parallel(K)!Tick)
  /\ WF_parallelVars(on = "kpSupervise" /\ Parallel(K)!Manager)
  /\ WF_parallelVars(on = "kpSupervise" /\ Parallel(K)!Take)
  /\ \A i \in 1 .. 2 :
       WF_parallelVars(on = "kpSupervise" /\ i \in DOMAIN readers /\ Parallel(K)!ReaderStep(i))
SinkFairness ==
  /\ WF_sinkVars(on = "kafka" /\ Sink(Sinks.kafka)!Stage)
  /\ WF_sinkVars(on = "kafka" /\ Sink(Sinks.kafka)!Loop)
  /\ WF_sinkVars(on = "kafka" /\ \E f \in flights : Sink(Sinks.kafka)!FlushStep(f))
RetryFairness == WF_retryVars(on = "retries" /\ Retry!Loop)

ConnectorsSpec == ConnectorsInit /\ [][ConnectorsNext]_connectorsVars /\ SerialFairness /\ ParallelFairness /\ SinkFairness /\ RetryFairness

-----------------------------------------------------------------------------
(* The Kafka source. *)

\* The group's offset never runs ahead of delivery: every message below it was
\* handed to the output channel in this or an earlier incarnation, or was rejected
\* by the deserializer, whatever commits failed, were skipped or batched (runSerial
\* commits after emit); and the reader leaves no message behind that was not.
CommitCovered ==
  \A s \in DOMAIN Serials : on = s =>
    Serial(Serials[s])!CommitCovered /\ Serial(Serials[s])!NoSkip

\* After a graceful stop, once Drain has returned and the engine has emptied
\* the channel, every committed message has been applied.
GracefulLosesNothing == on = "ksStop" => Serial(Serials.ksStop)!GracefulLosesNothing

\* Operator state sees every message once and without gaps across a restart
\* from a checkpoint, while the topic grows and readers of all partitions
\* interleave: each partition resumes at the offset that belongs to the state,
\* and what was processed after the checkpoint is read again.
ExactlyOnceState ==
  on = "kpResume" =>
    Parallel(Parallels.kpResume)!ExactlyOnceState /\ Parallel(Parallels.kpResume)!Replays

-----------------------------------------------------------------------------
(* Sinks, dead letters and retries. *)

\* A sink that returns nil has accounted for every record it was handed: each
\* is in the destination, in the dead-letter queue, or was declined by the
\* mapper or discarded by the policy "drop" - across batches, tables, retries,
\* background flushes and the final partial batch.  Under the policy "fail" none
\* is passed over in silence, although background flushes report to a channel of
\* one, and a synchronous sink writes in input order.
Accounted ==
  \A s \in DOMAIN Sinks : on = s =>
    Sink(Sinks[s])!Accounted /\ Sink(Sinks[s])!FailSurfaces /\ Sink(Sinks[s])!InOrder

\* A record that an operator rejects has one fate: it never both goes on and is
\* dead-lettered, and is dead-lettered once; it can be read back when its write
\* succeeded, also after a crash; and without faults it is somewhere when the
\* workers rest, unless the job has failed or was configured to drop.
OneFate ==
  /\ \A s \in DOMAIN Letters : on = s => Letter(Letters[s])!OneFate
  /\ on = "dlqSafe" => Letter(Letters.dlqSafe)!AckedReadable
  /\ on = "dlqWhole" => Letter(Letters.dlqWhole)!NothingVanishes

\* A retry loop's result is true: nil means that a call was accepted, and giving
\* up on retryable errors that the first attempt and all retries were made; after
\* ctx is done at most one more call is made, also by the sinks, which look at ctx
\* only while they pause, and when the timer wins the select.
RetriesTell ==
  on = "retries" => Retry!NilMeansAccepted /\ Retry!AllTriesMade /\ Retry!CancelStops

-----------------------------------------------------------------------------
(* Progress. *)

\* The source delivers: commits that are retried, or fail for good and are
\* skipped, never stall it, and only the policy "fail" ends it, with the commit's
\* error; and every partition the topic has is read in the end, also one added
\* while discovery kept failing.
Delivers ==
  (on \in {"ksDeliver", "ksSkip", "kpSupervise"})
  ~> \/ on = "ksDeliver" /\ (result = "commit" \/ emitted = {0, 1} \X {1, 2})
     \/ on = "ksSkip" /\ result = "none" /\ emitted = {0, 1} \X {1, 2}
     \/ on = "kpSupervise" /\ (mgr = "returned" \/ \A p \in kpTopic : running[p] # 0)

\* What is told to stop, or has failed, ends: Run and Drain return whatever the
\* fetch loop is blocked on; a reader that fails takes its siblings and the
\* manager with it, and run returns only after every reader it ever started has
\* closed; the sink stage returns wherever the sink, the pump and the barrier wait
\* are; a retry loop returns, although it may retry for ever.
StopEnds ==
  /\ [](\A s \in DOMAIN Parallels : on = s => Parallel(Parallels[s])!NoLeak)
  /\ (\/ on = "ksStop" /\ stop
      \/ on = "kpSupervise" /\ \E i \in DOMAIN readers : readers[i].st = "closed"
      \/ on = "kafka"
      \/ on = "retries" /\ cancelled)
     ~>
     (\/ on = "ksStop" /\ (drained \/ ~stop)
      \/ on = "kpSupervise" /\ (mgr = "returned" \/ readers = <<>>)
      \/ on = "kafka" /\ stage = "returned"
      \/ on = "retries" /\ retryPc = "returned")
=============================================================================
