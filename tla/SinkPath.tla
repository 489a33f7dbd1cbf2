------------------------------ MODULE SinkPath ------------------------------
(***************************************************************************)
(* The end of a pipeline with a plain sink: SinkStage.Run, which pumps     *)
(* records into the sink and reports barriers (uncoordinated               *)
(* checkpointing), the batchWriter loop every batching sink uses, and the  *)
(* sinks' flush functions with their retries, failure policy and           *)
(* dead-letter queue.  Records are 1 .. NRec in input order.               *)
(***************************************************************************)
EXTENDS Naturals, Sequences, FiniteSets, SequencesExt

CONSTANTS NRec,          \* records the upstream delivers
          BarrierAfter,  \* the records that a checkpoint barrier follows
          Kind,          \* "kafka" | "http" | "postgres" | "s3"
          BatchSize,     \* batchWriter.batchSize
          Interval,      \* a flush interval is set
          Retries,       \* maxRetries
          Policy,        \* FailurePolicy: "drop" | "dlq" | "fail"
          Odd,           \* records the mapper declines (postgres) or the serializer rejects
          Tables,        \* number of tables the postgres mapper writes to
          Cap,           \* capacity of the pumped channel
          Faults         \* subset of {"write", "permanent", "lostack", "dlq", "hard", "deadline"}

VARIABLES
  at,        \* the record SinkStage takes next
  barrier,   \* a barrier is next in the input
  stage,     \* SinkStage.Run: "pump" | "align" | "closing" | "returned"
  pumping,   \* its local of that name
  pumped,    \* the channel to the sink
  closed,    \* pumped is closed
  hard,      \* hardCtx is cancelled
  bw,        \* batchWriter.run: "loop" | "flush" | "drain" | "wait" | "returned"
  after,     \* why it flushes or waits: "loop" | "closed" | "cancelled" | "error"
  batch,     \* its local of that name
  flights,   \* flushes in progress
  errCh,     \* an error of a background flush waits to be seen
  result,    \* what Write returned
  last,      \* the last record handed to the sink
  saved,     \* the last record covered by a saved checkpoint
  dest,      \* what the destination holds, in order of arrival
  dlq,       \* what the dead-letter queue holds
  dropped    \* what the policy "drop" discarded

pumpVars == <<at, barrier, stage, pumping, last, saved>>
bwVars == <<bw, after, batch, result>>
destVars == <<dest, dlq, dropped>>
vars == <<pumpVars, pumped, closed, hard, bwVars, flights, errCh, destVars>>

Async == Kind = "kafka"
Declined == IF Kind = "postgres" THEN Odd ELSE {}
Unserializable == IF Kind \in {"http", "s3"} THEN Odd ELSE {}

Init ==
  /\ at = 1 /\ barrier = FALSE /\ stage = "pump" /\ pumping = TRUE /\ last = 0 /\ saved = 0
  /\ pumped = <<>> /\ closed = FALSE /\ hard = FALSE
  /\ bw = "loop" /\ after = "loop" /\ batch = <<>> /\ result = "none"
  /\ flights = {} /\ errCh = FALSE
  /\ dest = <<>> /\ dlq = {} /\ dropped = {}

----------------------------------------------------------------------------
(* SinkStage.Run. *)

\* Mutant of SinkDied: the barrier wait does not watch the sink.
SinkDiedPump ==
  /\ stage = "pump" /\ pumping /\ bw = "returned"
  /\ stage' = "returned"
  /\ UNCHANGED <<at, barrier, pumping, last, saved, pumped, closed, hard, bwVars, flights, errCh, destVars>>

\* The sink has returned while the stage still pumps: its error is returned.
SinkDied ==
  /\ stage \in {"pump", "align"} /\ pumping /\ bw = "returned"
  /\ stage' = "returned"
  /\ UNCHANGED <<at, barrier, pumping, last, saved, pumped, closed, hard, bwVars, flights, errCh, destVars>>

Pump ==
  /\ stage = "pump" /\ ~barrier /\ at <= NRec
  /\ \/ pumping /\ Len(pumped) < Cap /\ pumped' = Append(pumped, at) /\ last' = at /\ UNCHANGED pumping
     \/ pumping /\ hard /\ pumping' = FALSE /\ UNCHANGED <<pumped, last>>
     \/ ~pumping /\ UNCHANGED <<pumping, pumped, last>>
  /\ at' = at + 1 /\ barrier' = (at \in BarrierAfter)
  /\ UNCHANGED <<stage, saved, closed, hard, bwVars, flights, errCh, destVars>>

\* A barrier: wait until the sink has dequeued everything ahead of it.
Barrier ==
  /\ stage = "pump" /\ barrier
  /\ barrier' = FALSE /\ stage' = IF pumping THEN "align" ELSE "pump"
  /\ UNCHANGED <<at, pumping, last, saved, pumped, closed, hard, bwVars, flights, errCh, destVars>>

AlignHard ==
  /\ stage = "align" /\ hard /\ pumped # <<>>
  /\ pumping' = FALSE /\ stage' = "pump"
  /\ UNCHANGED <<at, barrier, last, saved, pumped, closed, hard, bwVars, flights, errCh, destVars>>

\* OnBarrier saves the checkpoint.
OnBarrier ==
  /\ stage = "align" /\ pumped = <<>>
  /\ saved' = at - 1 /\ stage' = "pump"
  /\ UNCHANGED <<at, barrier, pumping, last, pumped, closed, hard, bwVars, flights, errCh, destVars>>

\* The input ends: after its last record, or early once upstream is aborted.
CloseInput ==
  /\ stage = "pump" /\ ((at > NRec /\ ~barrier) \/ hard)
  /\ stage' = "closing" /\ closed' = TRUE
  /\ UNCHANGED <<at, barrier, pumping, last, saved, pumped, hard, bwVars, flights, errCh, destVars>>

StageReturns ==
  /\ stage = "closing" /\ bw = "returned"
  /\ stage' = "returned"
  /\ UNCHANGED <<at, barrier, pumping, last, saved, pumped, closed, hard, bwVars, flights, errCh, destVars>>

HardCancel ==
  /\ "hard" \in Faults /\ ~hard /\ hard' = TRUE
  /\ UNCHANGED <<pumpVars, pumped, closed, bwVars, flights, errCh, destVars>>

----------------------------------------------------------------------------
(* batchWriter.run. *)

Return(r) == bw' = "returned" /\ result' = r

\* doFlush of the items bs: inline for a synchronous sink, else in a goroutine
\* of its own, in which case the loop goes on (or waits, at the end).
doFlush(bs, ctx, why) ==
  LET f == [todo |-> bs, ok |-> <<>>, phase |-> "encode", tries |-> 0, ctx |-> ctx]
  IN  /\ batch' = <<>> /\ after' = why
      /\ IF bs = <<>>
           THEN flights' = flights /\ bw' = IF why = "loop" THEN "loop" ELSE "wait"
           ELSE /\ flights' = flights \cup {f}
                /\ bw' = IF ~Async THEN "flush" ELSE IF why = "loop" THEN "loop" ELSE "wait"

\* convert and add.
added(r) == IF r \in Declined THEN batch ELSE Append(batch, r)

Receive ==
  /\ bw = "loop" /\ pumped # <<>>
  /\ pumped' = Tail(pumped)
  /\ IF Len(added(Head(pumped))) >= BatchSize /\ Head(pumped) \notin Declined
       THEN doFlush(added(Head(pumped)), "run", "loop")
       ELSE batch' = added(Head(pumped)) /\ UNCHANGED <<bw, after, flights>>
  /\ UNCHANGED <<pumpVars, closed, hard, result, errCh, destVars>>

Tick ==
  /\ bw = "loop" /\ Interval /\ batch # <<>>
  /\ doFlush(batch, "run", "loop")
  /\ UNCHANGED <<pumpVars, pumped, closed, hard, result, errCh, destVars>>

\* Mutant of InputClosed: the rest of the batch is left behind.
InputClosedNoFlush ==
  /\ bw = "loop" /\ closed /\ pumped = <<>>
  /\ bw' = "wait" /\ after' = "closed"
  /\ UNCHANGED <<pumpVars, pumped, closed, hard, batch, result, flights, errCh, destVars>>

InputClosed ==
  /\ bw = "loop" /\ closed /\ pumped = <<>>
  /\ doFlush(batch, "run", "closed")
  /\ UNCHANGED <<pumpVars, pumped, closed, hard, result, errCh, destVars>>

\* A background flush has failed: wait for the others and report it.
SeeError ==
  /\ bw = "loop" /\ errCh
  /\ bw' = "wait" /\ after' = "error"
  /\ UNCHANGED <<pumpVars, pumped, closed, hard, batch, result, flights, errCh, destVars>>

SeeCancel ==
  /\ bw = "loop" /\ hard
  /\ bw' = "drain" /\ after' = "cancelled"
  /\ UNCHANGED <<pumpVars, pumped, closed, hard, batch, result, flights, errCh, destVars>>

DrainRecord ==
  /\ bw = "drain" /\ pumped # <<>>
  /\ pumped' = Tail(pumped) /\ batch' = added(Head(pumped))
  /\ UNCHANGED <<pumpVars, closed, hard, bw, after, result, flights, errCh, destVars>>

\* The drain ends with the input or with its deadline.  The final flush runs
\* on a context created before the drain with the same timeout: after the
\* deadline it has expired.
DrainEnd ==
  /\ bw = "drain"
  /\ \/ closed /\ pumped = <<>> /\ doFlush(batch, "fresh", "cancelled")
     \/ "deadline" \in Faults /\ doFlush(batch, "expired", "cancelled")
  /\ UNCHANGED <<pumpVars, pumped, closed, hard, result, errCh, destVars>>

\* wg.Wait and asyncErr.
WaitAll ==
  /\ bw = "wait" /\ flights = {}
  /\ Return(IF errCh THEN "flush" ELSE IF after = "cancelled" THEN "cancelled" ELSE "nil")
  /\ errCh' = FALSE
  /\ UNCHANGED <<pumpVars, pumped, closed, hard, after, batch, flights, destVars>>

----------------------------------------------------------------------------
(* flush: flushBatch (kafka, http, s3) or insertBatch (postgres). *)

Dead(f) == (f.ctx = "run" /\ hard) \/ f.ctx = "expired"

\* The flush f has come to an end, with or without an error.
EndFlush(f, failed) ==
  /\ flights' = flights \ {f}
  /\ IF Async
       THEN errCh' = (errCh \/ failed) /\ UNCHANGED <<bw, result>>
       ELSE /\ UNCHANGED errCh
            /\ IF failed THEN Return("flush")
               ELSE bw' = (IF after = "loop" THEN "loop" ELSE "wait") /\ UNCHANGED result

Becomes(f, g) == flights' = (flights \ {f}) \cup {g} /\ UNCHANGED <<bw, result, errCh>>

\* applyFailurePolicy for the record r; the flush fails when it answers an error.
applyFailurePolicy(r, f, next) ==
  \/ Policy = "drop" /\ dropped' = dropped \cup {r} /\ UNCHANGED <<dest, dlq>> /\ next
  \/ Policy = "dlq" /\ dlq' = dlq \cup {r} /\ UNCHANGED <<dest, dropped>> /\ next
  \/ Policy = "dlq" /\ "dlq" \in Faults /\ UNCHANGED destVars /\ EndFlush(f, TRUE)
  \/ Policy = "fail" /\ UNCHANGED destVars /\ EndFlush(f, TRUE)

\* Serialization: a rejected record goes to the failure policy, not to the body.
Encode(f) ==
  /\ f.phase = "encode"
  /\ IF f.todo = <<>>
       THEN /\ UNCHANGED destVars
            /\ IF f.ok = <<>> THEN EndFlush(f, FALSE)
               ELSE Becomes(f, [f EXCEPT !.phase = "write", !.todo = f.ok, !.ok = <<>>])
       ELSE IF Head(f.todo) \in Unserializable
         THEN applyFailurePolicy(Head(f.todo), f, Becomes(f, [f EXCEPT !.todo = Tail(@)]))
         ELSE UNCHANGED destVars /\ Becomes(f, [f EXCEPT !.todo = Tail(@), !.ok = Append(@, Head(f.todo))])

\* The records written by one request: those of the first record's table for
\* postgres, all of them otherwise.
Group(f) ==
  IF Kind = "postgres" THEN SelectSeq(f.todo, LAMBDA r : r % Tables = Head(f.todo) % Tables) ELSE f.todo
Rest(f) == SelectSeq(f.todo, LAMBDA r : r \notin Range(Group(f)))

NextGroup(f) ==
  IF Rest(f) = <<>> THEN EndFlush(f, FALSE)
  ELSE Becomes(f, [f EXCEPT !.phase = "write", !.todo = Rest(f), !.tries = 0])

Write(f) ==
  /\ f.phase = "write" /\ ~Dead(f)
  /\ dest' = dest \o Group(f) /\ UNCHANGED <<dlq, dropped>>
  /\ NextGroup(f)

\* A failed attempt, whose records may have arrived all the same: retry, or turn
\* to the policy.  A cancelled context ends the retries early, and postgres then
\* returns without applying the policy.
WriteFails(f) ==
  /\ f.phase = "write" /\ (Dead(f) \/ "write" \in Faults)
  /\ dest' \in {dest} \cup (IF "lostack" \in Faults THEN {dest \o Group(f)} ELSE {})
  /\ UNCHANGED <<dlq, dropped>>
  /\ \/ f.tries < Retries /\ Becomes(f, [f EXCEPT !.tries = @ + 1])
     \/ (f.tries = Retries \/ (Kind = "http" /\ "permanent" \in Faults) \/ (Dead(f) /\ Kind # "postgres"))
        /\ Becomes(f, [f EXCEPT !.phase = "policy", !.ok = Group(f)])
     \/ f.tries < Retries /\ Dead(f) /\ Kind = "postgres" /\ EndFlush(f, TRUE)

ApplyPolicy(f) ==
  /\ f.phase = "policy"
  /\ applyFailurePolicy(Head(f.ok), f,
       IF Len(f.ok) = 1 THEN NextGroup(f) ELSE Becomes(f, [f EXCEPT !.ok = Tail(@)]))

FlushStep(f) ==
  /\ Encode(f) \/ Write(f) \/ WriteFails(f) \/ ApplyPolicy(f)
  /\ UNCHANGED <<pumpVars, pumped, closed, hard, after, batch>>

----------------------------------------------------------------------------

Stage == SinkDied \/ Pump \/ Barrier \/ AlignHard \/ OnBarrier \/ CloseInput \/ StageReturns
Loop == Receive \/ Tick \/ InputClosed \/ SeeError \/ SeeCancel \/ DrainRecord \/ DrainEnd \/ WaitAll
Done == stage = "returned" /\ UNCHANGED vars
Next == Stage \/ HardCancel \/ Loop \/ (\E f \in flights : FlushStep(f)) \/ Done

\* Goroutines are scheduled and requests are answered or time out.
Fairness == WF_vars(Stage) /\ WF_vars(Loop) /\ WF_vars(\E f \in flights : FlushStep(f))
Spec == Init /\ [][Next]_vars /\ Fairness

----------------------------------------------------------------------------
(* Properties. *)

TypeOK ==
  /\ at \in 1 .. NRec + 1 /\ barrier \in BOOLEAN /\ pumping \in BOOLEAN /\ hard \in BOOLEAN
  /\ stage \in {"pump", "align", "closing", "returned"} /\ saved \in 0 .. NRec /\ last \in 0 .. NRec
  /\ Len(pumped) <= Cap /\ closed \in BOOLEAN /\ errCh \in BOOLEAN
  /\ bw \in {"loop", "flush", "drain", "wait", "returned"}
  /\ after \in {"loop", "closed", "cancelled", "error"}
  /\ hard \/ Len(batch) < BatchSize
  /\ result \in {"none", "nil", "flush", "cancelled"}
  /\ dlq \cup dropped \subseteq 1 .. NRec

\* A sink that returns nil has accounted for every record it was handed: each is in the
\* destination, in the dead-letter queue, or was declined by the mapper or
\* discarded by the policy "drop" - across batches, tables, retries, background
\* flushes and the final partial batch.
Accounted ==
  result = "nil" => 1 .. last = Range(dest) \cup dlq \cup dropped \cup (Declined \cap 1 .. last)

\* Under the policy "fail" a record that could not be written is never passed
\* over in silence: if Write has returned nil, everything it converted is in
\* the destination, although background flushes report to a channel of one.
FailSurfaces ==
  Policy = "fail" /\ result = "nil" => 1 .. last \subseteq Range(dest) \cup Declined

\* A synchronous sink writes in input order, at most one request at a time: a
\* record first arrives after all earlier ones that arrive at all (per table
\* for postgres).
InOrder ==
  ~Async =>
    /\ Cardinality(flights) <= 1
    /\ \A i, j \in DOMAIN dest :
         i < j /\ dest[i] % Tables = dest[j] % Tables /\ dest[i] > dest[j] =>
           \E k \in 1 .. i - 1 : dest[k] = dest[j]

\* A saved checkpoint covers only records the sink has disposed of.
CheckpointCovers ==
  \A r \in 1 .. saved : r \in Range(dest) \cup dlq \cup dropped \cup Declined

\* Records the sink had accepted when hardCtx was cancelled are written: with a
\* destination that takes every write, none of them is missing at the end.
HardDrain ==
  bw = "returned" => dropped = {} /\ dlq = {} /\ pumped = <<>>

=============================================================================
