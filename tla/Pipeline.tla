------------------------------ MODULE Pipeline ------------------------------
(***************************************************************************)
(* A job without a transactional sink: the source stage, the barrier       *)
(* injector behind it, a stateful operator, and the sink stage that saves  *)
(* the checkpoint when a barrier arrives; graceful stop, forced unwind,    *)
(* crash, and the next Execute on the same storage.                        *)
(*                                                                         *)
(* Record n is the n-th of one partition.  The operator counts records, so *)
(* its state is right after record n exactly when it is n.                 *)
(***************************************************************************)
EXTENDS Integers, Sequences, FiniteSets, Functions, TLC

CONSTANTS NRec,         \* records of the source
          Cap,          \* edge capacity, the element in the stage's hands included
          MaxBarriers,  \* bound on periodic barriers
          SnapLimit,    \* the 8 of addBarrierSnapshot
          MaxLives,     \* runs of Execute
          Faults        \* subset of {"stop", "hard", "crash", "snap", "save"}

VARIABLES run,        \* "up", "returned" or "dead"
          ctxDone,    \* the caller cancelled
          next, srcCh,           \* source: next record; edge to the injector
          inj, offset, nb,       \* injector: phase, aligned position, barriers made
          opCh, state,           \* edge to the operator; its count
          pendingOffsets, snaps, \* by barrier
          sinkCh,                \* edge to the sink stage and the buffer behind it
          held,                  \* the record Write has taken and not written yet
          delivered, dropped,    \* history: records written; records lost in Write's hands
          emitted,               \* history: records this run's source produced
          saved,                 \* the latest checkpoint, as an empty or singleton set
          from, base,            \* history: where this run began, and with what state
          lives

srcVars == <<next, srcCh, emitted>>
injVars == <<inj, offset, nb>>
opVars == <<opCh, state, snaps>>
sinkVars == <<sinkCh, held, delivered, dropped>>
startVars == <<from, base, lives>>
vars == <<run, ctxDone, srcVars, injVars, opVars, pendingOffsets, sinkVars, saved, startVars>>

Rec(n) == [kind |-> "record", n |-> n]
Bar(id) == [kind |-> "barrier", n |-> id]
Up == run = "up"

\* The injector's map has no entry before the first record of a run.
NoOffset == -1
NoRec == 0

----------------------------------------------------------------------------
(* Source stage: a cancelled context ends it, and it closes its edge. *)

SourceEnded == ctxDone \/ next > NRec

SourceEmit ==
  /\ Up /\ ~SourceEnded /\ Len(srcCh) < Cap
  /\ srcCh' = Append(srcCh, next) /\ next' = next + 1 /\ emitted' = next
  /\ UNCHANGED <<run, ctxDone, injVars, opVars, pendingOffsets, sinkVars, saved, startVars>>

----------------------------------------------------------------------------
(* Barrier injector. *)

\* registerAlignedOffsets, then the barrier into the stream.
Inject(last) ==
  /\ Len(opCh) < Cap
  /\ nb' = nb + 1
  /\ pendingOffsets' = (nb + 1) :> last @@ pendingOffsets
  /\ opCh' = Append(opCh, Bar(nb + 1))

Tick ==
  /\ Up /\ inj = "loop" /\ nb < MaxBarriers
  /\ Inject(offset)
  /\ UNCHANGED <<run, ctxDone, srcVars, inj, offset, state, snaps, sinkVars, saved, startVars>>

Forward ==
  /\ Up /\ inj \in {"loop", "drain"} /\ srcCh # <<>> /\ Len(opCh) < Cap
  /\ srcCh' = Tail(srcCh) /\ offset' = Head(srcCh)
  /\ opCh' = Append(opCh, Rec(Head(srcCh)))
  /\ UNCHANGED <<run, ctxDone, next, emitted, inj, nb, state, snaps, pendingOffsets, sinkVars,
                 saved, startVars>>

\* ctx.Done: the shutdown barrier first, what the source left behind it.
ShutdownBarrier ==
  /\ Up /\ inj = "loop" /\ ctxDone
  /\ Inject(offset) /\ inj' = "drain"
  /\ UNCHANGED <<run, ctxDone, srcVars, offset, state, snaps, sinkVars, saved, startVars>>

DrainEnd ==
  /\ Up /\ inj = "drain" /\ srcCh = <<>>
  /\ inj' = "done"
  /\ UNCHANGED <<run, ctxDone, srcVars, offset, nb, opVars, pendingOffsets, sinkVars, saved, startVars>>

FinalBarrier ==
  /\ Up /\ inj = "loop" /\ SourceEnded /\ srcCh = <<>>
  /\ Inject(offset) /\ inj' = "done"
  /\ UNCHANGED <<run, ctxDone, srcVars, offset, state, snaps, sinkVars, saved, startVars>>

----------------------------------------------------------------------------
(* The stateful operator. *)

\* addBarrierSnapshot: beyond the limit any other checkpoint's entry goes.
AddBarrierSnapshot(id, s) ==
  IF Cardinality(DOMAIN snaps) > SnapLimit
  THEN \E stale \in DOMAIN snaps :
         snaps' = id :> s @@ Restrict(snaps, DOMAIN snaps \ {stale})
  ELSE snaps' = id :> s @@ snaps

OpRecord ==
  /\ Up /\ opCh # <<>> /\ Head(opCh).kind = "record" /\ Len(sinkCh) < Cap
  /\ state' = state + 1
  /\ opCh' = Tail(opCh) /\ sinkCh' = Append(sinkCh, Head(opCh))
  /\ UNCHANGED <<run, ctxDone, srcVars, injVars, snaps, pendingOffsets, held, delivered, dropped, saved,
                 startVars>>

\* The snapshot is taken between two records; one that fails is only printed.
OpBarrier ==
  /\ Up /\ opCh # <<>> /\ Head(opCh).kind = "barrier" /\ Len(sinkCh) < Cap
  /\ \/ AddBarrierSnapshot(Head(opCh).n, state)
     \/ "snap" \in Faults /\ UNCHANGED snaps
  /\ opCh' = Tail(opCh) /\ sinkCh' = Append(sinkCh, Head(opCh))
  /\ UNCHANGED <<run, ctxDone, srcVars, injVars, state, pendingOffsets, held, delivered, dropped, saved,
                 startVars>>

----------------------------------------------------------------------------
(* The sink stage, and the sink's Write loop behind its buffer. *)

SinkTake ==
  /\ Up /\ held = NoRec /\ sinkCh # <<>> /\ Head(sinkCh).kind = "record"
  /\ held' = Head(sinkCh).n /\ sinkCh' = Tail(sinkCh)
  /\ UNCHANGED <<run, ctxDone, srcVars, injVars, opVars, pendingOffsets, delivered, dropped, saved, startVars>>

SinkWrite ==
  /\ Up /\ held # NoRec
  /\ delivered' = delivered \cup {held} /\ held' = NoRec
  /\ UNCHANGED <<run, ctxDone, srcVars, injVars, opVars, pendingOffsets, sinkCh, dropped, saved, startVars>>

\* collectSnapshots: the barrier's snapshot, or the live state in its absence.
CollectSnapshots(id) == IF id \in DOMAIN snaps THEN snaps[id] ELSE state

\* takeAlignedOffsets, and what it leaves.
TakeAligned(id) == pendingOffsets[id]

\* Mutant of SaveCheckpoint: saves as the barrier enters the sink's buffer.
SaveCheckpointEarly ==
  /\ Up /\ \E i \in DOMAIN sinkCh :
       LET id == sinkCh[i].n IN
       /\ sinkCh[i].kind = "barrier"
       /\ saved' = {[off |-> TakeAligned(id), state |-> CollectSnapshots(id), from |-> from, base |-> base]}
       /\ snaps' = Restrict(snaps, DOMAIN snaps \ {id})
       /\ pendingOffsets' = Restrict(pendingOffsets, DOMAIN pendingOffsets \ {id})
       /\ sinkCh' = SubSeq(sinkCh, 1, i - 1) \o SubSeq(sinkCh, i + 1, Len(sinkCh))
  /\ UNCHANGED <<run, ctxDone, srcVars, injVars, opCh, state, held, delivered, dropped, startVars>>

\* The barrier's turn: Write has taken everything ahead of it, though the last
\* record may still be in its hands.
Dequeued == sinkCh # <<>> /\ Head(sinkCh).kind = "barrier"

\* OnBarrier.  A save that fails is only printed.
SaveCheckpoint ==
  /\ Up /\ Dequeued
  /\ LET id == Head(sinkCh).n IN
       /\ \/ saved' = {[off |-> TakeAligned(id), state |-> CollectSnapshots(id), from |-> from, base |-> base]}
          \/ "save" \in Faults /\ UNCHANGED saved
       /\ snaps' = Restrict(snaps, DOMAIN snaps \ {id})
       /\ pendingOffsets' = Restrict(pendingOffsets, DOMAIN pendingOffsets \ {id})
  /\ sinkCh' = Tail(sinkCh)
  /\ UNCHANGED <<run, ctxDone, srcVars, injVars, opCh, state, held, delivered, dropped, startVars>>

----------------------------------------------------------------------------
(* Stop, end, crash, next run. *)

Cancel ==
  /\ "stop" \in Faults /\ Up /\ ~ctxDone
  /\ ctxDone' = TRUE
  /\ UNCHANGED <<run, srcVars, injVars, opVars, pendingOffsets, sinkVars, saved, startVars>>

\* The edges close one after the other and Execute returns.
Returns ==
  /\ Up /\ inj = "done" /\ opCh = <<>> /\ sinkCh = <<>> /\ held = NoRec
  /\ run' = "returned"
  /\ UNCHANGED <<ctxDone, srcVars, injVars, opVars, pendingOffsets, sinkVars, saved, startVars>>

\* What Write had taken and not written is gone.
Dies ==
  /\ run' = "dead" /\ held' = NoRec /\ dropped' = dropped \cup ({held} \ {NoRec})
  /\ UNCHANGED <<ctxDone, srcVars, injVars, opVars, pendingOffsets, sinkCh, delivered, saved, startVars>>

\* The shutdown timeout: every stage gives up its edge.
HardCancel == "hard" \in Faults /\ Up /\ ctxDone /\ Dies

Crash == "crash" \in Faults /\ Up /\ lives < MaxLives /\ Dies

\* restoreSourceOffset: the position in the checkpoint, or the source's own start.
RestoreSourceOffset(c) == IF c.off = NoOffset THEN 1 ELSE c.off + 1

\* restoreWorkersFromCheckpoint
RestoreState(c) == c.state

Execute ==
  /\ run \in {"dead", "returned"} /\ lives < MaxLives
  /\ run' = "up" /\ ctxDone' = FALSE /\ lives' = lives + 1
  /\ IF saved = {} THEN next' = 1 /\ state' = 0
     ELSE \E c \in saved : next' = RestoreSourceOffset(c) /\ state' = RestoreState(c)
  /\ emitted' = next' - 1 /\ from' = next' - 1 /\ base' = state'
  /\ srcCh' = <<>> /\ opCh' = <<>> /\ sinkCh' = <<>>
  /\ inj' = "loop" /\ offset' = NoOffset /\ nb' = 0
  /\ pendingOffsets' = <<>> /\ snaps' = <<>>
  /\ UNCHANGED <<held, delivered, dropped, saved>>

Done ==
  /\ run \in {"dead", "returned"} /\ lives = MaxLives
  /\ UNCHANGED vars

Init ==
  /\ run = "up" /\ ctxDone = FALSE /\ lives = 1
  /\ next = 1 /\ srcCh = <<>> /\ emitted = 0
  /\ inj = "loop" /\ offset = NoOffset /\ nb = 0
  /\ opCh = <<>> /\ state = 0 /\ snaps = <<>>
  /\ pendingOffsets = <<>> /\ sinkCh = <<>>
  /\ held = NoRec /\ delivered = {} /\ dropped = {}
  /\ saved = {} /\ from = 0 /\ base = 0

Injector == Forward \/ ShutdownBarrier \/ DrainEnd \/ FinalBarrier
Operator == OpRecord \/ OpBarrier
Sink == SinkTake \/ SinkWrite

Next ==
  \/ SourceEmit \/ Injector \/ Tick \/ Operator \/ Sink \/ SaveCheckpoint
  \/ Cancel \/ Returns \/ HardCancel \/ Crash \/ Execute \/ Done

Spec == Init /\ [][Next]_vars

\* Every goroutine of the pipeline is scheduled; somebody runs the job again.
FairSpec ==
  /\ Spec
  /\ WF_vars(SourceEmit) /\ WF_vars(Injector) /\ WF_vars(Operator) /\ WF_vars(Sink)
  /\ WF_vars(SaveCheckpoint) /\ WF_vars(Returns) /\ WF_vars(Execute)

----------------------------------------------------------------------------
(* Properties. *)

TypeOK ==
  /\ run \in {"up", "returned", "dead"} /\ inj \in {"loop", "drain", "done"}
  /\ next \in 1 .. NRec + 1 /\ offset \in {NoOffset} \cup 1 .. NRec
  /\ Len(srcCh) <= Cap /\ Len(opCh) <= Cap /\ Len(sinkCh) <= Cap
  /\ Cardinality(DOMAIN snaps) <= SnapLimit + 1
  /\ held \in {NoRec} \cup 1 .. NRec /\ Cardinality(saved) <= 1

\* The state in a checkpoint reflects exactly the records before its offset:
\* what the run that made it had consumed, no record more and no record less.
Aligned ==
  \A c \in saved :
    c.state - c.base = IF c.off = NoOffset THEN 0 ELSE c.off - c.from

\* A checkpoint is ahead of the sink by what Write has in its hands and no more:
\* a record before its offset is written, held, or was held when a run died.
NothingSkipped ==
  \A c \in saved : 1 .. c.off \subseteq delivered \cup dropped \cup {held}

\* No record before a checkpoint's offset is lost in a crash.
CheckpointCovers == run = "dead" => \A c \in saved : 1 .. c.off \subseteq delivered

\* A run that returns, on its own or after a cancel, has written every record
\* its source produced.
DrainsAll == run = "returned" => \A n \in from + 1 .. emitted : n \in delivered

\* A run that reached the end of its source leaves a checkpoint of all of it.
EndIsCovered ==
  run = "returned" /\ ~ctxDone /\ from < NRec => \E c \in saved : c.off = NRec

\* After a cancel that drained, the final checkpoint covers what was drained.
FinalCovers ==
  run = "returned" /\ ctxDone /\ from < emitted => \E c \in saved : c.off = emitted

\* Restored state plus replay counts every record once, across runs.
StateExact == run = "returned" => state = emitted

=============================================================================
