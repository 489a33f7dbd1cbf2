--------------------------- MODULE MCExactlyOnce ----------------------------
(***************************************************************************)
(* Model checking of coordinated checkpointing beyond one restart with     *)
(* benign faults: every fault, and progress. A behaviour has the constants *)
(* of one scenario.                                                        *)
(***************************************************************************)
EXTENDS Integers, FiniteSets

VARIABLES
    on,  \* the scenario
    \* ExactlyOnce
    files, latest, latestCompleted, visible, markers, txnOpen, txnRecs, txnMarker, inFlight,
    mode, starts, stop, fatal, hard, inj, pos, offsets, nextId, ticks, at, pending, sink,
    sinkPos, sinkId, produceErr, coord, cur, event, eventErr

\* No faults but crashes and shutdowns; every fault; the errors that end a run.
AllFaults == {"abort", "commit", "late", "overtake", "probe", "produce", "save", "stage", "update"}
Pipelines ==
  [quiet  |-> [recs |-> 2, ticks |-> 2, starts |-> 2, faults |-> {}],
   faulty |-> [recs |-> 2, ticks |-> 1, starts |-> 2, faults |-> AllFaults],
   errors |-> [recs |-> 3, ticks |-> 1, starts |-> 2,
               faults |-> AllFaults \ {"late", "update"}]]

Pipeline(c) == INSTANCE ExactlyOnce WITH
    NumRecords <- c.recs, MaxTicks <- c.ticks, MaxStarts <- c.starts, Faults <- c.faults

pipelineVars == <<files, latest, latestCompleted, visible, markers, txnOpen, txnRecs,
                  txnMarker, inFlight, mode, starts, stop, fatal, hard, inj, pos, offsets,
                  nextId, ticks, at, pending, sink, sinkPos, sinkId, produceErr, coord, cur,
                  event, eventErr>>
exactlyOnceVars == <<on, pipelineVars>>

ExactlyOnceInit ==
  \E s \in DOMAIN Pipelines : on = s /\ Pipeline(Pipelines[s])!Init

ExactlyOnceNext ==
  /\ \E s \in DOMAIN Pipelines : on = s /\ Pipeline(Pipelines[s])!Next
  /\ UNCHANGED on

\* Every goroutine keeps running, hardCtx is cancelled in the end, and a
\* supervisor starts an ended process again.  Nothing forces a tick, a shutdown,
\* a crash or an error.
Progressing == {"faulty", "quiet"}
Fairness ==
  /\ WF_pipelineVars(\E s \in Progressing : on = s /\ Pipeline(Pipelines[s])!InjectRecord)
  /\ WF_pipelineVars(\E s \in Progressing : on = s /\ Pipeline(Pipelines[s])!InjectorEnds)
  /\ WF_pipelineVars(\E s \in Progressing : on = s /\ Pipeline(Pipelines[s])!Sink)
  /\ WF_pipelineVars(\E s \in Progressing : on = s /\ Pipeline(Pipelines[s])!Coordinator)
  /\ WF_pipelineVars(\E s \in Progressing : on = s /\ Pipeline(Pipelines[s])!Recovery)
  /\ WF_pipelineVars(\E s \in Progressing : on = s /\ Pipeline(Pipelines[s])!HardCancel)
  /\ WF_pipelineVars(\E s \in Progressing : on = s /\ Pipeline(Pipelines[s])!Exit)
  /\ WF_pipelineVars(\E s \in Progressing : on = s /\ Pipeline(Pipelines[s])!Restart)

ExactlyOnceSpec == ExactlyOnceInit /\ [][ExactlyOnceNext]_exactlyOnceVars /\ Fairness

\* No record is committed twice across a restart, also when produce requests,
\* Save or a stage fail, the pipeline is torn down, and Write's deferred abort
\* overtakes a commit.
NoneTwice == on = "errors" => Pipeline(Pipelines.errors)!NoDuplicates

\* A finite log is delivered completely in the end: the barrier at the end of
\* the stream covers what the last tick left out.  Shutdowns and crashes may
\* come at any time; a commit that Write overtakes would lose its records.
AllDelivered == (on = "quiet") ~> (on = "quiet" /\ \A r \in DOMAIN visible : visible[r] = 1)

\* A cancelled pipeline ends, whatever fails meanwhile: neither Write nor the
\* coordinator waits for the other forever.
ShutdownEnds == (on = "faulty" /\ mode = "running" /\ stop) ~> (mode = "down")
=============================================================================
