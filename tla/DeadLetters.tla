----------------------------- MODULE DeadLetters -----------------------------
(***************************************************************************)
(* Process operators on several workers that share one dead-letter queue,  *)
(* and the two queues: a local file of JSON lines and a Kafka topic.       *)
(*                                                                         *)
(* The file is the sequence of what was appended: a whole line, or the     *)
(* front of one that a write cut short.                                    *)
(***************************************************************************)
EXTENDS Integers, Sequences, FiniteSets, SequencesExt

CONSTANTS Workers, Records,
          Bad,        \* the records the user function rejects
          Policies,   \* failure policies tried, of "drop", "dlq" and "fail"
          Targets,    \* queues tried, of "file", "kafka" and "nil"
          Sync,       \* fsync after every line
          Faults      \* subset of {"err", "short", "crash", "close"}

VARIABLES policy, target,    \* the configuration
          todo,       \* records not yet taken
          pc, cur,    \* of each worker: where it is, the record in hand
          lock,       \* the holder of FileDLQ.mu, as an empty or singleton set
          file, durable,     \* appended pieces; how many of them are on disk
          topic, closed,
          out,        \* records sent downstream
          acked,      \* records whose Write returned nil
          panicked, up

queueVars == <<file, durable, topic, closed>>
config == <<policy, target>>
vars == <<config, todo, pc, cur, lock, queueVars, out, acked, panicked, up>>

Line(r) == [whole |-> TRUE, rec |-> r]
Part(r) == [whole |-> FALSE, rec |-> r]

Init ==
  /\ policy \in Policies /\ target \in Targets
  /\ todo = Records
  /\ pc = [w \in Workers |-> "idle"] /\ cur = [w \in Workers |-> {}]
  /\ lock = {} /\ file = <<>> /\ durable = 0 /\ topic = {} /\ closed = FALSE
  /\ out = {} /\ acked = {} /\ panicked = FALSE /\ up = TRUE

\* ProcessOne: the function's result goes on, its error to handleFailure.
Take(w, r) ==
  /\ up /\ ~panicked /\ pc[w] = "idle" /\ r \in todo
  /\ todo' = todo \ {r}
  /\ IF r \in Bad
       THEN pc' = [pc EXCEPT ![w] = "failed"] /\ cur' = [cur EXCEPT ![w] = {r}] /\ UNCHANGED out
       ELSE out' = out \cup {r} /\ UNCHANGED <<pc, cur>>
  /\ UNCHANGED <<config, lock, queueVars, acked, panicked, up>>

Idle(w) == pc' = [pc EXCEPT ![w] = "idle"] /\ cur' = [cur EXCEPT ![w] = {}]

\* handleFailure: drop; or no queue is configured; or panic, which the stage
\* turns into its error.
HandleFailure(w) ==
  /\ up /\ pc[w] = "failed"
  /\ \/ /\ policy = "drop" \/ (policy = "dlq" /\ target = "nil")
        /\ Idle(w) /\ UNCHANGED panicked
     \/ /\ policy = "dlq" /\ target # "nil"
        /\ pc' = [pc EXCEPT ![w] = "write"] /\ UNCHANGED <<cur, panicked>>
     \/ /\ policy = "fail"
        /\ panicked' = TRUE /\ Idle(w)
  /\ UNCHANGED <<config, todo, lock, queueVars, out, acked, up>>

\* An error of the queue is printed; the worker goes on with the next record.
WriteFailed(w) == Idle(w)

\* FileDLQ.Write appends the line under the lock ...
FileWrite(w) ==
  /\ up /\ target = "file" /\ pc[w] = "write" /\ lock = {}
  /\ \E r \in cur[w] :
     \/ /\ ~closed
        /\ file' = Append(file, Line(r)) /\ lock' = {w}
        /\ pc' = [pc EXCEPT ![w] = "sync"] /\ UNCHANGED cur
     \/ /\ "short" \in Faults /\ ~closed
        /\ file' = Append(file, Part(r)) /\ WriteFailed(w) /\ UNCHANGED lock
     \/ /\ closed \/ "err" \in Faults
        /\ WriteFailed(w) /\ UNCHANGED <<file, lock>>
  /\ UNCHANGED <<config, todo, durable, topic, closed, out, acked, panicked, up>>

\* Mutant of FileSync: acknowledges before the fsync.
FileSyncLater(w) ==
  /\ up /\ pc[w] = "sync"
  /\ acked' = acked \cup cur[w]
  /\ lock' = {} /\ Idle(w)
  /\ UNCHANGED <<config, todo, file, durable, topic, closed, out, panicked, up>>

\* ... and, unless told not to, fsyncs before it returns.
FileSync(w) ==
  /\ up /\ pc[w] = "sync"
  /\ \/ /\ durable' = IF Sync THEN Len(file) ELSE durable
        /\ acked' = acked \cup cur[w] /\ Idle(w)
     \/ "err" \in Faults /\ Sync /\ WriteFailed(w) /\ UNCHANGED <<durable, acked>>
  /\ lock' = {}
  /\ UNCHANGED <<config, todo, file, topic, closed, out, panicked, up>>

\* KafkaDLQ.Write: one synchronous message.
KafkaWrite(w) ==
  /\ up /\ target = "kafka" /\ pc[w] = "write"
  /\ \/ topic' = topic \cup cur[w] /\ acked' = acked \cup cur[w] /\ Idle(w)
     \/ "err" \in Faults /\ topic' \in {topic, topic \cup cur[w]} /\ WriteFailed(w) /\ UNCHANGED acked
  /\ UNCHANGED <<config, todo, lock, file, durable, closed, out, panicked, up>>

\* Close waits for the lock; the caller may call it too early.
Close ==
  /\ "close" \in Faults /\ up /\ lock = {} /\ ~closed
  /\ closed' = TRUE
  /\ UNCHANGED <<config, todo, pc, cur, lock, file, durable, topic, out, acked, panicked, up>>

\* A crash keeps what was fsynced and any more of the file.
Crash ==
  /\ "crash" \in Faults /\ up
  /\ up' = FALSE
  /\ \E n \in durable .. Len(file) : file' = SubSeq(file, 1, n)
  /\ durable' = Len(file')
  /\ UNCHANGED <<config, todo, pc, cur, lock, topic, closed, out, acked, panicked>>

Rested == todo = {} /\ \A w \in Workers : pc[w] = "idle"
Done == (~up \/ panicked \/ Rested) /\ UNCHANGED vars

Next ==
  \/ \E w \in Workers :
       \/ \E r \in Records : Take(w, r)
       \/ HandleFailure(w) \/ FileWrite(w) \/ FileSync(w) \/ KafkaWrite(w)
  \/ Close \/ Crash \/ Done

Spec == Init /\ [][Next]_vars

\* A line can be read back when what precedes it ended with a newline.
Readable ==
  topic \cup {file[k].rec : k \in {j \in DOMAIN file :
                 file[j].whole /\ (j = 1 \/ file[j - 1].whole)}}

----------------------------------------------------------------------------
(* Properties. *)

TypeOK ==
  /\ todo \subseteq Records /\ out \subseteq Records /\ acked \subseteq Bad
  /\ durable \in 0 .. Len(file) /\ Cardinality(lock) <= 1
  /\ \A w \in Workers : pc[w] \in {"idle", "failed", "write", "sync"} /\ Cardinality(cur[w]) <= 1

\* A record whose dead-letter write succeeded can be read back, also after a crash.
AckedReadable == acked \subseteq Readable

\* No record disappears: when the workers rest, each is downstream or in the
\* dead-letter queue, unless the job has failed
\* or was configured to drop.
NothingVanishes ==
  up /\ Rested /\ policy # "drop" /\ target # "nil" => panicked \/ Records = out \cup acked

\* A record never both goes on and is dead-lettered, and is dead-lettered once.
OneFate ==
  /\ out \cap acked = {}
  /\ \A j, k \in DOMAIN file : file[j].whole /\ file[k].whole /\ file[j].rec = file[k].rec => j = k
=============================================================================
