------------------------------ MODULE MCEngine ------------------------------
(***************************************************************************)
(* Model checking of the engine's parts: the coordinator's Stop, parallel  *)
(* stages, the uncoordinated pipeline and the planner.  A behaviour is one *)
(* of one part, with the constants of one scenario; the variables of the   *)
(* other parts keep the value Off, and the coordinator's its first state.  *)
(***************************************************************************)
EXTENDS CoordinatorStop

VARIABLES
    on,                                                             \* the scenario
    input, pos, router, next, todo, win, wout, stageWorker, fwd, held,  \* AlignedStage
    fanIn, resume, merge, item, arrived, out, hard, cancelled, errs, result, crashed,
    run, ctxDone, pipeNext, srcCh, inj, offset, nb, opCh, state,    \* Pipeline
    pendingOffsets, snaps, sinkCh, sinkHeld, delivered, dropped, emitted, saved, from, base, lives,
    ops, i, group, groupPar, counts, clones, stages, planResult     \* Planner

Off == "off"

Stages ==
  [keyed      |-> [keyed |-> TRUE,  len |-> 3, keys |-> 2, faults |-> {}],
   roundRobin |-> [keyed |-> FALSE, len |-> 3, keys |-> 1, faults |-> {"panic"}],
   forced     |-> [keyed |-> TRUE,  len |-> 2, keys |-> 1, faults |-> {"cancel"}],
   idle       |-> [keyed |-> TRUE,  len |-> 1, keys |-> 1, faults |-> {"cancel", "idle"}]]

Stage(c) == INSTANCE AlignedStage WITH
    N <- 2, Cap <- 1, Keyed <- c.keyed, MaxLen <- c.len, MaxKey <- c.keys,
    Faults <- c.faults, worker <- stageWorker

Pipelines ==
  [restarts |-> [recs |-> 3, ticks |-> 2, lives |-> 2, faults |-> {"crash", "hard", "save", "stop"}],
   crashes  |-> [recs |-> 2, ticks |-> 1, lives |-> 3, faults |-> {"crash", "snap"}]]

Pipe(c) == INSTANCE Pipeline WITH
    NRec <- c.recs, Cap <- 2, MaxBarriers <- c.ticks, SnapLimit <- 8, MaxLives <- c.lives,
    Faults <- c.faults, next <- pipeNext, held <- sinkHeld

Plan == INSTANCE Planner WITH MaxOps <- 4, Pars <- {0, 1, 2}, result <- planResult

stageVars == <<input, pos, router, next, todo, win, wout, stageWorker, fwd, held, fanIn, resume,
               merge, item, arrived, out, hard, cancelled, errs, result, crashed>>
pipeVars == <<run, ctxDone, pipeNext, srcCh, inj, offset, nb, opCh, state, pendingOffsets, snaps,
              sinkCh, sinkHeld, delivered, dropped, emitted, saved, from, base, lives>>
planVars == <<ops, i, group, groupPar, counts, clones, stages, planResult>>
engineVars == <<on, vars, stageVars, pipeVars, planVars>>

NoStage ==
  /\ input = Off /\ pos = Off /\ router = Off /\ next = Off /\ todo = Off /\ win = Off
  /\ wout = Off /\ stageWorker = Off /\ fwd = Off /\ held = Off /\ fanIn = Off
  /\ resume = Off /\ merge = Off /\ item = Off /\ arrived = Off /\ out = Off /\ hard = Off
  /\ cancelled = Off /\ errs = Off /\ result = Off /\ crashed = Off
NoPipe ==
  /\ run = Off /\ ctxDone = Off /\ pipeNext = Off /\ srcCh = Off /\ inj = Off /\ offset = Off
  /\ nb = Off /\ opCh = Off /\ state = Off /\ pendingOffsets = Off /\ snaps = Off
  /\ sinkCh = Off /\ sinkHeld = Off /\ delivered = Off /\ dropped = Off /\ emitted = Off
  /\ saved = Off /\ from = Off /\ base = Off /\ lives = Off
NoPlan ==
  /\ ops = Off /\ i = Off /\ group = Off /\ groupPar = Off /\ counts = Off /\ clones = Off
  /\ stages = Off /\ planResult = Off

EngineInit ==
  /\ Init
  /\ \/ on = "stop" /\ NoStage /\ NoPipe /\ NoPlan
     \/ NoPipe /\ NoPlan /\ \E s \in DOMAIN Stages : on = s /\ Stage(Stages[s])!Init
     \/ NoStage /\ NoPlan /\ \E s \in DOMAIN Pipelines : on = s /\ Pipe(Pipelines[s])!Init
     \/ NoStage /\ NoPipe /\ on = "plan" /\ Plan!Init

EngineNext ==
  \/ on = "stop" /\ Next /\ UNCHANGED <<on, stageVars, pipeVars, planVars>>
  \/ /\ \E s \in DOMAIN Stages : on = s /\ Stage(Stages[s])!Next
     /\ UNCHANGED <<on, vars, pipeVars, planVars>>
  \/ /\ \E s \in DOMAIN Pipelines : on = s /\ Pipe(Pipelines[s])!Next
     /\ UNCHANGED <<on, vars, stageVars, planVars>>
  \/ on = "plan" /\ Plan!Next /\ UNCHANGED <<on, vars, stageVars, pipeVars>>

\* The fairness of each part, while that part runs.
StageFairness ==
  /\ WF_stageVars(\E s \in DOMAIN Stages : on = s /\ Stage(Stages[s])!StageNext)
  /\ \A w \in 1 .. 2 :
       WF_stageVars(\E s \in DOMAIN Stages : on = s /\ Stage(Stages[s])!WorkerNext(w))
PipeFairness ==
  /\ WF_pipeVars(on = "crashes" /\ Pipe(Pipelines.crashes)!SourceEmit)
  /\ WF_pipeVars(on = "crashes" /\ Pipe(Pipelines.crashes)!Injector)
  /\ WF_pipeVars(on = "crashes" /\ Pipe(Pipelines.crashes)!Operator)
  /\ WF_pipeVars(on = "crashes" /\ Pipe(Pipelines.crashes)!Sink)
  /\ WF_pipeVars(on = "crashes" /\ Pipe(Pipelines.crashes)!SaveCheckpoint)
  /\ WF_pipeVars(on = "crashes" /\ Pipe(Pipelines.crashes)!Returns)
  /\ WF_pipeVars(on = "crashes" /\ Pipe(Pipelines.crashes)!Execute)

EngineSpec ==
  EngineInit /\ [][EngineNext]_engineVars /\ Fairness /\ StageFairness /\ PipeFairness

-----------------------------------------------------------------------------
(* Parallel stages. *)

\* The stage implements the marker fence: alignedMerge emits each marker once,
\* behind every record in front of it and ahead of every record behind it
\* ("no post-marker record can overtake the marker downstream"), and a keyed
\* stage keeps the order of each key.
ImplementsMarkerOrder ==
  /\ \A s \in DOMAIN Stages : on = s => Stage(Stages[s])!Promise!Init
  /\ [][\A s \in DOMAIN Stages : on = s =>
          [Stage(Stages[s])!Promise!Next]_<<input, out>>]_engineVars

\* What a stage returns is true: success, without a forced shutdown, means that
\* its whole input went out, and a stage that failed on its own reports the panic
\* and not the cancellation the panic causes in the other workers and the merge.
ResultTrue ==
  \A s \in {"keyed", "roundRobin"} : on = s =>
    Stage(Stages[s])!OkMeansComplete /\ Stage(Stages[s])!CauseReported

-----------------------------------------------------------------------------
(* The pipeline in uncoordinated mode. *)

\* A checkpoint is consistent: its state reflects exactly the records before its
\* offset, which is what the run that made it had consumed, and every record before
\* its offset is written but for one that Write has, or had as its run died, in its
\* hands (SinkStage waits for an empty buffer only); a run that returns, on its own
\* or after a cancel, has written every record its source produced, and at the end
\* of the source has left a checkpoint of all of it.
CheckpointConsistent ==
  /\ on = "restarts" => Pipe(Pipelines.restarts)!Aligned
  /\ \A s \in DOMAIN Pipelines : on = s =>
       Pipe(Pipelines[s])!NothingSkipped /\ Pipe(Pipelines[s])!DrainsAll
  /\ on = "crashes" => Pipe(Pipelines.crashes)!EndIsCovered

-----------------------------------------------------------------------------
(* Progress. *)

\* What goes in comes out: a stage without a fault delivers its whole input and
\* returns, as full channels, parked forwarders and the merge never wait for each
\* other; and with crashes in between, every record is written by a pipeline's sink
\* in the end, unless the sink had it in its hands in a crash.
Completes ==
  (on \in {"crashes", "keyed"})
  ~> \/ on = "keyed" /\ result = "ok" /\ Len(out) = Len(input)
     \/ on = "crashes" /\ 1 .. 2 \subseteq delivered \cup dropped

\* What is told to stop ends: after a forced shutdown, a panic or a return, a
\* stage's Run has returned and no goroutine is left blocked on its channels; and
\* every caller of the coordinator's Stop returns.
Unwinds ==
  (\/ on \in DOMAIN Stages /\ (cancelled \/ result # "none")
   \/ on = "stop" /\ \E p \in Stoppers : stopper[p] = "in")
  ~>
  (\/ on \in DOMAIN Stages /\ result # "none" /\ router = "closed" /\ \A w \in 1 .. 2 : fwd[w] = "done"
   \/ on = "stop" /\ \A p \in Stoppers : stopper[p] # "in")

-----------------------------------------------------------------------------
(* The planner. *)

\* A plan keeps the chain: every operator is placed once and in order, whatever the
\* loop skips; neighbours share a stateless stage exactly when they ask for the
\* same parallelism; a stateful operator runs in the workers of the router before
\* it; no two instances own the same state; and the graph is one path.
PlanSound ==
  on = "plan" => /\ Plan!OrderKept /\ Plan!StatelessGroups /\ Plan!KeyedByRouter
                 /\ Plan!OwnersDistinct /\ Plan!GraphIsPath
=============================================================================
