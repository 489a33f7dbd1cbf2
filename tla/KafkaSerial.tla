---------------------------- MODULE KafkaSerial ----------------------------
(***************************************************************************)
(* The Kafka source in consumer-group mode: one reader, the fetch loop of  *)
(* runSerial with its commit modes and failure policies, the optional      *)
(* WatermarkSource around it, the SourceStage goroutine that drains it,    *)
(* and what a restart from a checkpoint does to the reader's position.     *)
(* A message is a pair <<partition, offset>>; each partition's log holds   *)
(* the offsets 0 .. LogLen-1.  The engine behind the source is reduced to  *)
(* taking records, applying them to its state and saving checkpoints with  *)
(* the barrier-aligned offsets.                                            *)
(***************************************************************************)
EXTENDS Integers, Sequences, FiniteSets, FiniteSetsExt

CONSTANTS Parts,          \* partitions of the topic
          LogLen,         \* messages in each partition
          PoisonOffsets,  \* the offsets whose messages the deserializer rejects
          DeserPolicy,    \* "drop" | "fail" (the dead-letter write adds nothing here)
          Batch,          \* KafkaCommitBatch; 0 commits every message
          ExactlyOnce,    \* KafkaExactlyOnce: commits only after checkpoints
          CommitPolicy,   \* "skip" | "fail"
          Retries,        \* fetchMaxRetries and commitMaxRetries
          Watermarks,     \* KafkaWithWatermarks: Run wraps runOnce in a WatermarkSource
          Checkpointing,  \* the engine saves checkpoints
          Cap,            \* capacity of each channel
          MaxLives,       \* bound on process incarnations
          Faults          \* subset of {"fetch", "commit", "stop", "crash"}

VARIABLES
  pos,        \* the reader's next offset per partition
  committed,  \* the consumer group's committed offsets, kept by the broker
  consumed,   \* offsetTracker.consumed
  pc,         \* the fetch loop: "fetch" | "emit" | "commit" | "returned"
  hand,       \* the messages the loop is working on
  tries,      \* attempts of the current fetch or commit that failed
  pending,    \* KafkaSource.pending
  result,     \* what runOnce returned
  wm,         \* WatermarkSource.Run: "run" | "returned"
  inner,      \* its records channel
  drained,    \* SourceStage: Drain has returned and raw is closed
  raw,        \* the channel from the source to the engine
  stop,       \* the graceful context is cancelled
  aligned,    \* injectBarriers' offsets map, -1 where a partition is absent
  state,      \* how often each message has been applied to operator state
  ckpt,       \* the latest completed checkpoint
  lives,      \* process incarnations so far
  emitted,    \* history: messages runSerial handed to its channel
  applied     \* history: messages the engine took

readerVars == <<pos, consumed, pc, hand, tries, pending, result>>
wrapVars == <<wm, inner, drained>>
engineVars == <<aligned, state, ckpt, applied>>
vars == <<readerVars, wrapVars, engineVars, committed, raw, stop, lives, emitted>>

Messages == Parts \X (0 .. LogLen - 1)
Poison == Parts \X PoisonOffsets
Marker == <<-1, 0>>     \* a watermark record
Absent == -1

Init ==
  /\ committed = [p \in Parts |-> 0]
  /\ pos = committed
  /\ consumed = [p \in Parts |-> Absent]
  /\ pc = "fetch" /\ hand = <<>> /\ tries = 0 /\ pending = <<>> /\ result = "none"
  /\ wm = "run" /\ inner = <<>> /\ drained = FALSE
  /\ raw = <<>> /\ stop = FALSE
  /\ aligned = [p \in Parts |-> Absent]
  /\ state = [m \in Messages |-> 0]
  /\ ckpt = [offsets |-> aligned, state |-> state]
  /\ lives = 1 /\ emitted = {} /\ applied = {}

----------------------------------------------------------------------------
(* The fetch loop. *)

\* toRecord answers nil for every message the deserializer rejects, whatever
\* the policy: the loop drops it and fetches the next one.
toRecord(m) == IF m \in Poison THEN <<>> ELSE <<m>>

\* Return from runSerial; runOnce's deferred closeAll closes the reader.
Return(why) ==
  /\ pc' = "returned" /\ result' = why /\ hand' = <<>> /\ tries' = 0
  /\ UNCHANGED <<pos, consumed, pending>>

\* fetchWithRetry obtains the next message of some partition, which is
\* tracked and converted before anything else happens to it.
Fetch ==
  /\ pc = "fetch"
  /\ \E p \in Parts :
       /\ pos[p] < LogLen
       /\ pos' = [pos EXCEPT ![p] = @ + 1]
       /\ consumed' = [consumed EXCEPT ![p] = pos[p] + 1]
       /\ hand' = toRecord(<<p, pos[p]>>)
       /\ pc' = IF hand' = <<>> THEN "fetch" ELSE "emit"
  /\ tries' = 0
  /\ UNCHANGED <<pending, result, wrapVars, engineVars, committed, raw, stop, lives, emitted>>

FetchError ==
  /\ pc = "fetch" /\ "fetch" \in Faults /\ ~stop
  /\ IF tries = Retries
       THEN Return("fetch")
       ELSE tries' = tries + 1 /\ UNCHANGED <<pos, consumed, pc, hand, pending, result>>
  /\ UNCHANGED <<wrapVars, engineVars, committed, raw, stop, lives, emitted>>

\* A cancelled context ends a blocked fetch, emit or commit.
Cancelled ==
  /\ pc # "returned" /\ stop
  /\ Return("cancelled")
  /\ UNCHANGED <<wrapVars, engineVars, committed, raw, stop, lives, emitted>>

\* What the loop does once a record has been handed over: nothing in
\* exactly-once mode, collect it in commit-batch mode, commit it otherwise.
afterEmit(ms) ==
  IF ExactlyOnce THEN pc' = "fetch" /\ hand' = <<>> /\ UNCHANGED pending
  ELSE IF Batch > 0
    THEN IF Len(pending) + 1 >= Batch
           THEN pc' = "commit" /\ hand' = pending \o ms /\ pending' = <<>>
           ELSE pc' = "fetch" /\ hand' = <<>> /\ pending' = pending \o ms
    ELSE pc' = "commit" /\ hand' = ms /\ UNCHANGED pending

emit ==
  /\ pc = "emit"
  /\ IF Watermarks
       THEN Len(inner) < Cap /\ inner' = inner \o hand /\ UNCHANGED raw
       ELSE Len(raw) < Cap /\ raw' = raw \o hand /\ UNCHANGED inner
  /\ emitted' = emitted \cup {hand[1]}
  /\ afterEmit(hand)
  /\ UNCHANGED <<pos, consumed, tries, result, wm, drained, engineVars, committed, stop, lives>>

\* The group offset after CommitMessages(ms): one past the last message of
\* each partition that ms mentions.
Commits(ms) ==
  [p \in Parts |->
     LET offs == {ms[i][2] : i \in {j \in DOMAIN ms : ms[j][1] = p}}
     IN  IF offs = {} THEN committed[p] ELSE Max(offs) + 1]

\* Mutant of CommitMessages: the partition's fetch position is committed.
CommitPosition ==
  /\ pc = "commit"
  /\ committed' = [p \in Parts |-> IF \E i \in DOMAIN hand : hand[i][1] = p
                                     THEN Min({LogLen, Commits(hand)[p] + 1}) ELSE committed[p]]
  /\ pc' = "fetch" /\ hand' = <<>> /\ tries' = 0
  /\ UNCHANGED <<pos, consumed, pending, result, wrapVars, engineVars, raw, stop, lives, emitted>>

CommitMessages ==
  /\ pc = "commit"
  /\ committed' = Commits(hand)
  /\ pc' = "fetch" /\ hand' = <<>> /\ tries' = 0
  /\ UNCHANGED <<pos, consumed, pending, result, wrapVars, engineVars, raw, stop, lives, emitted>>

\* Mutant of CommitError: the attempts start again instead of ending.
CommitErrorForever ==
  /\ pc = "commit" /\ "commit" \in Faults /\ ~stop
  /\ tries' = (tries + 1) % (Retries + 1)
  /\ UNCHANGED <<pos, consumed, pc, hand, pending, result,
                 wrapVars, engineVars, committed, raw, stop, lives, emitted>>

\* commitWithRetry after a failed attempt: retry, then the commit policy.
CommitError ==
  /\ pc = "commit" /\ "commit" \in Faults /\ ~stop
  /\ CASE tries < Retries ->
            tries' = tries + 1 /\ UNCHANGED <<pos, consumed, pc, hand, pending, result>>
       [] tries = Retries /\ CommitPolicy = "fail" -> Return("commit")
       [] OTHER -> /\ pc' = "fetch" /\ hand' = <<>> /\ tries' = 0
                   /\ UNCHANGED <<pos, consumed, pending, result>>
  /\ UNCHANGED <<wrapVars, engineVars, committed, raw, stop, lives, emitted>>

----------------------------------------------------------------------------
(* WatermarkSource.Run, when the source is watermark-aware. *)

\* Its Run returns after an attempt to send the maximal watermark, which is
\* given up when the channel stays full.
WmReturn ==
  /\ wm' = "returned"
  /\ raw' \in {raw} \cup (IF Len(raw) < Cap THEN {Append(raw, Marker)} ELSE {})
  /\ UNCHANGED <<readerVars, drained, engineVars, committed, stop, lives, emitted>>

WmForward ==
  /\ Watermarks /\ wm = "run" /\ inner # <<>> /\ Len(raw) < Cap
  /\ raw' = Append(raw, Head(inner)) /\ inner' = Tail(inner)
  /\ UNCHANGED <<readerVars, wm, drained, engineVars, committed, stop, lives, emitted>>

WmTick ==
  /\ Watermarks /\ wm = "run" /\ emitted # {} /\ Len(raw) < Cap
  /\ raw' = Append(raw, Marker)
  /\ UNCHANGED <<readerVars, wm, inner, drained, engineVars, committed, stop, lives, emitted>>

\* On cancellation it returns at once, whatever its records channel holds;
\* once the inner source has returned it returns when that channel is empty.
WmStop ==
  /\ Watermarks /\ wm = "run" /\ stop
  /\ WmReturn /\ UNCHANGED inner

WmEnd ==
  /\ Watermarks /\ wm = "run" /\ pc = "returned" /\ inner = <<>>
  /\ WmReturn /\ UNCHANGED inner

----------------------------------------------------------------------------
(* SourceStage, the engine and the process. *)

runReturned == IF Watermarks THEN wm = "returned" ELSE pc = "returned"

\* Mutant of Drain: what the channel still holds is thrown away.
DrainDiscards ==
  /\ runReturned /\ ~drained
  /\ drained' = TRUE /\ raw' = <<>>
  /\ UNCHANGED <<readerVars, wm, inner, engineVars, committed, stop, lives, emitted>>

\* SourceStage's goroutine calls Drain after Run has returned and then closes
\* raw.  Drain commits the pending messages through the primary reader, which
\* closeAll has closed unless runOnce is still running behind the wrapper.
Drain ==
  /\ runReturned /\ ~drained
  /\ drained' = TRUE
  /\ IF ExactlyOnce \/ pending = <<>> \/ pc = "returned"
       THEN UNCHANGED committed
       ELSE committed' \in {committed, Commits(pending)}
  /\ UNCHANGED <<readerVars, wm, inner, engineVars, raw, stop, lives, emitted>>

\* The engine takes a record: injectBarriers advances the partition's aligned
\* offset and the operators apply the record.
Take ==
  /\ raw # <<>> /\ raw' = Tail(raw)
  /\ IF Head(raw) = Marker
       THEN UNCHANGED <<aligned, state, applied>>
       ELSE /\ aligned' = [aligned EXCEPT ![Head(raw)[1]] = Head(raw)[2] + 1]
            /\ state' = [state EXCEPT ![Head(raw)] = @ + 1]
            /\ applied' = applied \cup {Head(raw)}
  /\ UNCHANGED <<readerVars, wrapVars, ckpt, committed, stop, lives, emitted>>

\* A checkpoint completes; in exactly-once mode the coordinator then commits
\* its offsets, which may fail without consequence for the checkpoint.
Checkpoint ==
  /\ Checkpointing
  /\ ckpt' = [offsets |-> aligned, state |-> state]
  /\ ckpt' # ckpt
  /\ committed' \in {committed} \cup
       (IF ExactlyOnce
          THEN {[p \in Parts |-> IF aligned[p] > 0 THEN aligned[p] ELSE committed[p]]}
          ELSE {})
  /\ UNCHANGED <<readerVars, wrapVars, aligned, state, applied, raw, stop, lives, emitted>>

Stop ==
  /\ "stop" \in Faults /\ ~stop /\ stop' = TRUE
  /\ UNCHANGED <<readerVars, wrapVars, engineVars, committed, raw, lives, emitted>>

\* A new process: Execute restores the checkpoint's state and hands its offsets
\* to RestoreOffset, which only fills the tracker; the group reader starts at
\* the committed offset.
Restart ==
  /\ lives < MaxLives
  /\ "crash" \in Faults \/ (stop /\ drained /\ raw = <<>>)
  /\ lives' = lives + 1
  /\ pos' = committed /\ consumed' = ckpt.offsets
  /\ pc' = "fetch" /\ hand' = <<>> /\ tries' = 0 /\ pending' = <<>> /\ result' = "none"
  /\ wm' = "run" /\ inner' = <<>> /\ drained' = FALSE /\ raw' = <<>> /\ stop' = FALSE
  /\ aligned' = [p \in Parts |-> Absent]
  /\ state' = ckpt.state
  /\ UNCHANGED <<committed, ckpt, emitted, applied>>

\* Nothing left to do: every log is read, or the source has been drained.
Idle ==
  /\ raw = <<>>
  /\ drained \/ (pc = "fetch" /\ inner = <<>> /\ \A p \in Parts : pos[p] = LogLen)
  /\ UNCHANGED vars

Loop == Fetch \/ FetchError \/ Cancelled \/ emit \/ CommitMessages \/ CommitError
Reader == Fetch \/ emit \/ CommitMessages \/ CommitError \/ Cancelled
Wrapper == WmForward \/ WmTick \/ WmStop \/ WmEnd
Next == Loop \/ Wrapper \/ Drain \/ Take \/ Checkpoint \/ Stop \/ Restart \/ Idle

\* The goroutines are scheduled; messages, commits and their failures come from
\* the broker, whose answers are not lost for ever.
Fairness ==
  /\ WF_vars(Reader) /\ WF_vars(WmForward) /\ WF_vars(WmStop \/ WmEnd)
  /\ WF_vars(Drain) /\ WF_vars(Take)

Spec == Init /\ [][Next]_vars /\ Fairness

----------------------------------------------------------------------------
(* Properties. *)

TypeOK ==
  /\ pos \in [Parts -> 0 .. LogLen] /\ committed \in [Parts -> 0 .. LogLen]
  /\ consumed \in [Parts -> Absent .. LogLen] /\ aligned \in [Parts -> Absent .. LogLen]
  /\ pc \in {"fetch", "emit", "commit", "returned"}
  /\ tries \in 0 .. Retries
  /\ result \in {"none", "fetch", "commit", "cancelled"}
  /\ Len(raw) <= Cap /\ Len(inner) <= Cap /\ (Len(pending) < Batch \/ pending = <<>>)
  /\ wm \in {"run", "returned"} /\ drained \in BOOLEAN /\ stop \in BOOLEAN
  /\ lives \in 1 .. MaxLives

\* A commit never runs ahead of delivery: every message below a partition's
\* committed offset was handed to the output channel in this or an earlier
\* incarnation, or was rejected by the deserializer, whatever commits failed,
\* were skipped or batched (runSerial commits after emit).
CommitCovered ==
  \A m \in Messages : m[2] < committed[m[1]] => m \in emitted \cup Poison

\* The group never skips a message the pipeline has not had: the reader's
\* position leaves behind only messages that were emitted, rejected, or are in
\* the running loop's hand (fetchWithRetry, track, toRecord, emit, commit in
\* this order), also after a restart at the committed offset.
NoSkip ==
  pc # "returned" =>
    \A m \in Messages :
      m[2] < pos[m[1]] => m \in emitted \cup Poison \cup {hand[i] : i \in DOMAIN hand}

\* After a graceful stop, once Drain has returned and the engine has emptied
\* the channel, every committed message has been applied: the commits that
\* runSerial made cover nothing that the wind-down threw away.
GracefulLosesNothing ==
  stop /\ drained /\ raw = <<>> =>
    \A m \in Messages : m[2] < committed[m[1]] => m \in applied \cup Poison

\* Operator state sees every message once and without gaps, across restarts
\* from a checkpoint.
ExactlyOnceState ==
  \A m \in Messages :
    /\ state[m] <= 1
    /\ state[m] = 1 =>
         \A o \in 0 .. m[2] : <<m[1], o>> \in Poison \/ state[<<m[1], o>>] = 1

\* After Drain returned without a commit failing on the broker's side, no
\* message that was read and delivered is left uncommitted.
DrainCommits ==
  drained /\ ~ExactlyOnce => \A m \in emitted : m[2] < committed[m[1]]

\* Under the deserialization policy "fail" a rejected message stops the source:
\* nothing behind it is fetched.
FailPolicyStops ==
  DeserPolicy = "fail" => \A m \in Poison : pos[m[1]] <= m[2] + 1

=============================================================================
