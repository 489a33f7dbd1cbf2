--------------------------- MODULE KafkaParallel ---------------------------
(***************************************************************************)
(* The Kafka source in parallel mode: the partition manager, which keeps   *)
(* one reader goroutine per partition of a topic that may grow, supervises *)
(* them and stops them together, and the offset tracker that seeks the     *)
(* readers after a restart from a checkpoint.  A message is a pair         *)
(* <<partition, offset>>.  Behind the source, an engine takes records,     *)
(* applies them and saves checkpoints with barrier-aligned offsets.        *)
(***************************************************************************)
EXTENDS Integers, Sequences, FiniteSets

CONSTANTS Parts,        \* partitions the topic may come to have
          Seed,         \* the partitions it has at first
          LogLen,       \* bound on the messages of a partition
          Latest,       \* KafkaStartFrom(OffsetLatest) instead of earliest
          Cap,          \* capacity of the output channel
          MaxReaders,   \* bound on the readers started in one incarnation
          MaxLives,     \* bound on process incarnations
          Faults        \* subset of {"fetch", "discovery", "flap", "stop", "crash"}

VARIABLES
  topic,     \* the partitions the topic has
  end,       \* log end offset of each partition
  restored,  \* offsetTracker.restored, -1 where absent
  readers,   \* the reader goroutines of this incarnation
  running,   \* partitionManager.running: index into readers, 0 for none
  mgr,       \* partitionManager.run: "start" | "run" | "stopping" | "returned"
  fatal,     \* the fatal channel, of capacity one
  result,    \* what run returned
  stop,      \* the graceful context is cancelled
  out,       \* the output channel
  aligned,   \* injectBarriers' offsets map, -1 where absent
  state,     \* how often each message has been applied to operator state
  ckpt,      \* the latest completed checkpoint
  lives,     \* process incarnations so far
  owed       \* history: messages applied before the restart that the
             \* restored checkpoint does not contain

mgrVars == <<readers, running, mgr, fatal, result>>
engineVars == <<aligned, state, ckpt>>
procVars == <<restored, stop, lives, owed>>
vars == <<topic, end, mgrVars, out, engineVars, procVars>>

Messages == Parts \X (0 .. LogLen - 1)
Absent == -1

Init ==
  /\ topic = Seed
  /\ end = [p \in Parts |-> 0]
  /\ restored = [p \in Parts |-> Absent]
  /\ readers = <<>> /\ running = [p \in Parts |-> 0]
  /\ mgr = "start" /\ fatal = "none" /\ result = "none"
  /\ stop = FALSE /\ out = <<>>
  /\ aligned = restored
  /\ state = [m \in Messages |-> 0]
  /\ ckpt = [offsets |-> restored, state |-> state]
  /\ lives = 1 /\ owed = {}

----------------------------------------------------------------------------
(* The topic. *)

Produce(p) ==
  /\ p \in topic /\ end[p] < LogLen
  /\ end' = [end EXCEPT ![p] = @ + 1]
  /\ UNCHANGED <<topic, mgrVars, out, engineVars, procVars>>

AddPartition(p) ==
  /\ p \notin topic
  /\ topic' = topic \cup {p}
  /\ UNCHANGED <<end, mgrVars, out, engineVars, procVars>>

----------------------------------------------------------------------------
(* The partition manager. *)

\* Mutant of NewReader: the reader is never seeked.
NewReaderUnseeked(p) ==
  LET off == IF Latest THEN Absent ELSE 0
  IN  [part |-> p, pos |-> off, start |-> off, st |-> "fetch", live |-> TRUE]

\* startReader: a partition of the restored checkpoint is seeked to its offset,
\* any other starts at the configured offset.  A reader that starts at the
\* latest offset looks it up with its first fetch (position Absent until then).
NewReader(p) ==
  LET off == IF restored[p] # Absent THEN restored[p] ELSE IF Latest THEN Absent ELSE 0
  IN  [part |-> p, pos |-> off, start |-> off, st |-> "fetch", live |-> TRUE]

gone(want) == {p \in Parts : running[p] # 0 /\ p \notin want}

\* reconcile: cancel the readers of partitions that are gone without waiting
\* for them, and start readers for the partitions that appeared.
reconcile(want) ==
  LET new == {p \in want : running[p] = 0}
      order == CHOOSE s \in [1 .. Cardinality(new) -> new] :
                 \A i, j \in DOMAIN s : s[i] = s[j] => i = j
      kept == [i \in DOMAIN readers |->
                 IF \E p \in gone(want) : running[p] = i
                   THEN [readers[i] EXCEPT !.live = FALSE] ELSE readers[i]]
  IN  /\ Len(readers) + Cardinality(new) <= MaxReaders
      /\ readers' = kept \o [i \in DOMAIN order |-> NewReader(order[i])]
      /\ running' = [p \in Parts |->
                       IF p \in gone(want) THEN 0
                       ELSE IF p \in new
                         THEN Len(readers) + (CHOOSE i \in DOMAIN order : order[i] = p)
                         ELSE running[p]]

\* run's first reconcile, against the partitions found at construction.
StartRun ==
  /\ mgr = "start" /\ mgr' = "run"
  /\ reconcile(topic)
  /\ UNCHANGED <<topic, end, fatal, result, out, engineVars, procVars>>

\* A tick of run: discover the partitions and reconcile.  A failed discovery
\* changes nothing; with "flap", a broker whose metadata lags answers without
\* some of the partitions that were added.
Tick ==
  /\ mgr = "run"
  /\ \E want \in {topic} \cup (IF "flap" \in Faults THEN {w \in SUBSET topic : Seed \subseteq w} ELSE {}) :
       reconcile(want)
  /\ UNCHANGED <<topic, end, mgr, fatal, result, out, engineVars, procVars>>

DiscoveryFails ==
  /\ mgr = "run" /\ "discovery" \in Faults
  /\ UNCHANGED vars

\* stopAll cancels every running reader; run then waits for all goroutines.
stopAll(why) ==
  /\ readers' = [i \in DOMAIN readers |->
                   IF \E p \in Parts : running[p] = i
                     THEN [readers[i] EXCEPT !.live = FALSE] ELSE readers[i]]
  /\ running' = [p \in Parts |-> 0]
  /\ mgr' = "stopping" /\ result' = why

\* run leaves its loop on a cancelled context or on a reader's fatal error.
Leave ==
  /\ mgr = "run"
  /\ \/ stop /\ stopAll("nil") /\ UNCHANGED fatal
     \/ fatal # "none" /\ stopAll(fatal) /\ fatal' = "none"
  /\ UNCHANGED <<topic, end, out, engineVars, procVars>>

WaitAll ==
  /\ mgr = "stopping"
  /\ \A i \in DOMAIN readers : readers[i].st = "closed"
  /\ mgr' = "returned"
  /\ UNCHANGED <<topic, end, readers, running, fatal, result, out, engineVars, procVars>>

----------------------------------------------------------------------------
(* A reader goroutine: readerHandle's loop and startReader's epilogue. *)

Live(i) == readers[i].live /\ ~stop

\* A latest-offset reader finds its position.
Resolve(i) ==
  /\ readers[i].st = "fetch" /\ readers[i].pos = Absent
  /\ readers' = [readers EXCEPT ![i].pos = end[readers[i].part], ![i].start = end[readers[i].part]]
  /\ UNCHANGED <<topic, end, running, mgr, fatal, result, out, engineVars, procVars>>

Fetch(i) ==
  /\ readers[i].st = "fetch" /\ readers[i].pos \in 0 .. end[readers[i].part] - 1
  /\ readers' = [readers EXCEPT ![i].st = "emit"]
  /\ UNCHANGED <<topic, end, running, mgr, fatal, result, out, engineVars, procVars>>

Emit(i) ==
  /\ readers[i].st = "emit" /\ Len(out) < Cap
  /\ out' = Append(out, <<readers[i].part, readers[i].pos>>)
  /\ readers' = [readers EXCEPT ![i].st = "fetch", ![i].pos = @ + 1]
  /\ UNCHANGED <<topic, end, running, mgr, fatal, result, engineVars, procVars>>

\* The loop ends because its context is cancelled; the error is the wind-down.
Cancelled(i) ==
  /\ readers[i].st # "closed" /\ ~Live(i)
  /\ readers' = [readers EXCEPT ![i].st = "closed"]
  /\ UNCHANGED <<topic, end, running, mgr, fatal, result, out, engineVars, procVars>>

\* Its fetch retries are exhausted while its context is live: the error goes to
\* the manager unless one is there already.
FetchFails(i) ==
  /\ readers[i].st = "fetch" /\ "fetch" \in Faults /\ Live(i)
  /\ readers' = [readers EXCEPT ![i].st = "closed"]
  /\ fatal' = "fetch"
  /\ UNCHANGED <<topic, end, running, mgr, result, out, engineVars, procVars>>

----------------------------------------------------------------------------
(* The engine and the process. *)

Take ==
  /\ out # <<>> /\ out' = Tail(out)
  /\ aligned' = [aligned EXCEPT ![Head(out)[1]] = Head(out)[2] + 1]
  /\ state' = [state EXCEPT ![Head(out)] = @ + 1]
  /\ UNCHANGED <<topic, end, mgrVars, ckpt, procVars>>

Checkpoint ==
  /\ ckpt' = [offsets |-> aligned, state |-> state] /\ ckpt' # ckpt
  /\ UNCHANGED <<topic, end, mgrVars, out, aligned, state, procVars>>

Stop ==
  /\ "stop" \in Faults /\ ~stop /\ stop' = TRUE
  /\ UNCHANGED <<topic, end, mgrVars, out, engineVars, restored, lives, owed>>

\* A new process: state and offsets of the latest checkpoint are restored and
\* the partitions are discovered again.
Restart ==
  /\ "crash" \in Faults /\ lives < MaxLives
  /\ lives' = lives + 1
  /\ restored' = ckpt.offsets
  /\ owed' = {m \in Messages : state[m] > ckpt.state[m]}
  /\ readers' = <<>> /\ running' = [p \in Parts |-> 0]
  /\ mgr' = "start" /\ fatal' = "none" /\ result' = "none" /\ stop' = FALSE /\ out' = <<>>
  /\ aligned' = [p \in Parts |-> Absent]
  /\ state' = ckpt.state
  /\ UNCHANGED <<topic, end, ckpt>>

Idle == mgr = "returned" /\ UNCHANGED vars

ReaderStep(i) == Resolve(i) \/ Fetch(i) \/ Emit(i) \/ Cancelled(i)

Manager == StartRun \/ Leave \/ WaitAll

Next ==
  \/ \E p \in Parts : Produce(p) \/ AddPartition(p)
  \/ StartRun \/ Tick \/ DiscoveryFails \/ Leave \/ WaitAll
  \/ \E i \in DOMAIN readers : ReaderStep(i) \/ FetchFails(i)
  \/ Take \/ Checkpoint \/ Stop \/ Restart \/ Idle

\* Goroutines are scheduled and the ticker keeps ticking.
Fairness ==
  /\ WF_vars(Manager) /\ WF_vars(Tick) /\ WF_vars(Take)
  /\ \A i \in 1 .. MaxReaders : WF_vars(i \in DOMAIN readers /\ ReaderStep(i))

Spec == Init /\ [][Next]_vars /\ Fairness

----------------------------------------------------------------------------
(* Properties. *)

TypeOK ==
  /\ topic \subseteq Parts /\ end \in [Parts -> 0 .. LogLen]
  /\ restored \in [Parts -> Absent .. LogLen] /\ aligned \in [Parts -> Absent .. LogLen]
  /\ Len(readers) <= MaxReaders /\ running \in [Parts -> 0 .. MaxReaders]
  /\ \A p \in Parts : running[p] # 0 =>
       running[p] \in DOMAIN readers /\ readers[running[p]].part = p /\ readers[running[p]].live
  /\ mgr \in {"start", "run", "stopping", "returned"}
  /\ fatal \in {"none", "fetch"} /\ result \in {"none", "nil", "fetch"}
  /\ Len(out) <= Cap /\ stop \in BOOLEAN /\ lives \in 1 .. MaxLives

\* Operator state sees every message once and without gaps, across a restart
\* from a checkpoint, while the topic grows and readers of all partitions
\* interleave: each partition resumes at the offset that belongs to the state.
ExactlyOnceState ==
  \A m \in Messages :
    /\ state[m] <= 1
    /\ state[m] = 1 => \A o \in 0 .. m[2] : state[<<m[1], o>>] = 1

\* What was processed before a restart and is not in the checkpoint is read
\* again: no reader starts behind such a message.
Replays ==
  \A i \in DOMAIN readers : readers[i].start # Absent =>
    \A m \in owed : m[1] = readers[i].part => readers[i].start <= m[2]

\* Records of one partition reach the engine in offset order within one
\* incarnation (each partition has one sequential reader loop).
PartitionOrder == [][lives' = lives => \A p \in Parts : aligned'[p] >= aligned[p]]_vars

\* run returns only after every reader goroutine it ever started has ended and
\* closed its reader, those of removed partitions included.
NoLeak == mgr = "returned" => \A i \in DOMAIN readers : readers[i].st = "closed"

=============================================================================
