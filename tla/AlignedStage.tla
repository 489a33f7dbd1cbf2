---------------------------- MODULE AlignedStage ----------------------------
(***************************************************************************)
(* A stage with several workers: KeyedStage.Run and the parallel path of   *)
(* StatelessStage.Run, with the alignedMerge both end in.  A router reads  *)
(* the input, sends every data record to one worker and every marker to    *)
(* all of them; workers hand their output to one forwarder each; the       *)
(* forwarders share the fan-in channel of the merge, and a forwarder that  *)
(* has passed a marker on is parked until the merge resumes it.            *)
(*                                                                         *)
(* The stream is 1 .. Len(input).  Item i is a marker when input[i] is     *)
(* Marker and otherwise a record with key input[i].  Channels are          *)
(* sequences of items of at most Cap elements (internalBuf in the code).   *)
(***************************************************************************)
EXTENDS Integers, Sequences, SequencesExt, FiniteSets

CONSTANTS
    N,             \* workers: kb.Partitions, or Parallelism
    Keyed,         \* KeyedStage (by key) or StatelessStage (round robin)
    MaxLen,        \* bound: length of the stream
    MaxKey,        \* bound: number of keys
    Cap,           \* capacity of the stage's channels
    Faults         \* any of "cancel", "panic" and "idle"

Workers == 1 .. N
Marker  == 0
None    == 0       \* no item held

VARIABLES
    input,         \* the stage's input edge, chosen once
    pos,           \* items the router has taken from it
    router,        \* "recv", "send", "closed"; like the others "dead" after a crash
    next,          \* round-robin cursor of the dispatcher
    todo,          \* workers that still have to get item pos
    win, wout,     \* workerIns, workerOuts
    worker,        \* "run", "idle" (operator returned early), "done" (output closed)
    fwd, held,     \* forwarder: "recv", "send", "park", "drain", "done"; its item
    fanIn, resume, \* the merge's input, and the forwarders it has resumed
    merge,         \* "recv", "send", "resume", "ok", "err"
    item, arrived, \* item to send downstream; copies of the current marker seen
    out,           \* items sent downstream, in order
    hard,          \* hardCtx is cancelled
    cancelled,     \* stageCtx is cancelled
    errs,          \* the first error in errCh: "none", "ctx", "panic"
    result,        \* "none", then Run's result: "ok", "ctx", "panic"
    crashed        \* an unrecovered panic has killed the process

routerVars == <<pos, router, next, todo>>
workerVars == <<win, wout, worker>>
fwdVars    == <<fwd, held>>
mergeVars  == <<merge, item, arrived, out>>
ctxVars    == <<hard, cancelled, errs, result, crashed>>
vars == <<input, routerVars, workerVars, fwdVars, fanIn, resume, mergeVars, ctxVars>>

Items == 1 .. MaxLen
IsMarker(i) == input[i] = Marker

TypeOK ==
    /\ pos \in 0 .. Len(input) /\ next \in Workers /\ todo \subseteq Workers
    /\ router \in {"recv", "send", "closed", "dead"}
    /\ \A w \in Workers : Len(win[w]) <= Cap /\ Len(wout[w]) <= Cap
    /\ Len(fanIn) <= Cap
    /\ arrived \in 0 .. N - 1
    /\ resume \subseteq Workers

Init ==
    /\ input \in UNION {[1 .. n -> 0 .. MaxKey] : n \in 0 .. MaxLen}
    /\ pos = 0 /\ router = "recv" /\ next = 1 /\ todo = {}
    /\ win = [w \in Workers |-> <<>>] /\ wout = [w \in Workers |-> <<>>]
    /\ worker = [w \in Workers |-> "run"]
    /\ fwd = [w \in Workers |-> "recv"] /\ held = [w \in Workers |-> None]
    /\ fanIn = <<>> /\ resume = {}
    /\ merge = "recv" /\ item = None /\ arrived = 0 /\ out = <<>>
    /\ hard = FALSE /\ cancelled = FALSE /\ errs = "none" /\ result = "none" /\ crashed = FALSE

(***************************************************************************)
(* The router of KeyedStage.Run and the dispatcher of runParallel          *)
(***************************************************************************)

\* KeyByOperator.RouteKey: a hash of the key modulo the partitions.
RouteKey(key) == (key % N) + 1

\* KeyByOperator.RouteKey or the round-robin cursor; a marker goes to all.
Targets(i) ==
    IF IsMarker(i) THEN Workers
    ELSE IF Keyed THEN {RouteKey(input[i])} ELSE {next}

\* The record is counted as processed whatever the operators make of it.
RouterTake ==
    /\ router = "recv" /\ pos < Len(input)
    /\ pos' = pos + 1 /\ todo' = Targets(pos + 1) /\ router' = "send"
    /\ next' = IF Keyed \/ IsMarker(pos + 1) THEN next ELSE (next % N) + 1
    /\ UNCHANGED <<input, workerVars, fwdVars, fanIn, resume, mergeVars, ctxVars>>

\* sendRecord to the next worker of the list: a full channel blocks.
RouterSend ==
    /\ router = "send"
    /\ LET w == CHOOSE v \in todo : \A u \in todo : v <= u IN
       /\ Len(win[w]) < Cap
       /\ win' = [win EXCEPT ![w] = Append(@, pos)]
       /\ todo' = todo \ {w}
       /\ router' = IF todo = {w} THEN "recv" ELSE "send"
    /\ UNCHANGED <<input, pos, next, wout, worker, fwdVars, fanIn, resume, mergeVars, ctxVars>>

\* The input is closed, or stageCtx interrupts a receive or a send: the
\* deferred function closes every worker's input.
RouterClose ==
    /\ router \in {"recv", "send"}
    /\ cancelled \/ (router = "recv" /\ pos = Len(input))
    /\ router' = "closed" /\ todo' = {}
    /\ UNCHANGED <<input, pos, next, workerVars, fwdVars, fanIn, resume, mergeVars, ctxVars>>

(***************************************************************************)
(* Workers: the cloned operator chain, or runWorker                        *)
(***************************************************************************)

\* One item passes through the worker's operators.  A marker is forwarded in
\* order by every operator.
WorkerStep(w) ==
    /\ worker[w] = "run" /\ win[w] # <<>> /\ Len(wout[w]) < Cap
    /\ wout' = [wout EXCEPT ![w] = Append(@, Head(win[w]))]
    /\ win' = [win EXCEPT ![w] = Tail(@)]
    /\ UNCHANGED <<input, routerVars, worker, fwdVars, fanIn, resume, mergeVars, ctxVars>>

\* Mutant of WorkerClose: the end of the input is not looked at, and a receive
\* from the closed channel returns at once, again and again.
WorkerCloseIgnored(w) ==
    \/ worker[w] = "run" /\ router = "closed" /\ win[w] = <<>> /\ UNCHANGED vars
    \/ /\ worker[w] = "idle" /\ worker' = [worker EXCEPT ![w] = "done"]
       /\ UNCHANGED <<input, routerVars, win, wout, fwdVars, fanIn, resume, mergeVars, ctxVars>>

\* The worker's input is closed and empty, or its operators have returned:
\* the deferred close ends its output.
WorkerClose(w) ==
    /\ worker[w] = "idle" \/ (worker[w] = "run" /\ router = "closed" /\ win[w] = <<>>)
    /\ worker' = [worker EXCEPT ![w] = "done"]
    /\ UNCHANGED <<input, routerVars, win, wout, fwdVars, fanIn, resume, mergeVars, ctxVars>>

\* stageCtx interrupts the worker: runWorker also while it waits for input,
\* and its context error goes to errCh; a keyed worker only in a send.
WorkerAbort(w) ==
    /\ worker[w] = "run" /\ cancelled
    /\ Keyed => win[w] # <<>>
    /\ worker' = [worker EXCEPT ![w] = "done"]
    /\ errs' = IF ~Keyed /\ errs = "none" THEN "ctx" ELSE errs
    /\ UNCHANGED <<input, routerVars, win, wout, fwdVars, fanIn, resume, mergeVars, hard, cancelled, result, crashed>>

\* WindowOperator with IdleTimeout: no record for that long, the operator
\* flushes and returns, and nobody reads the worker's input any more.
IdleExit(w) ==
    /\ "idle" \in Faults /\ Keyed
    /\ worker[w] = "run" /\ win[w] = <<>>
    /\ worker' = [worker EXCEPT ![w] = "idle"]
    /\ UNCHANGED <<input, routerVars, win, wout, fwdVars, fanIn, resume, mergeVars, ctxVars>>

\* A user function panics on a data record.  runWorker calls the operators in
\* the goroutine that recovers; a keyed worker starts them as goroutines of
\* their own (go clone.Process), which nothing recovers.
Panic(w) ==
    /\ "panic" \in Faults
    /\ worker[w] = "run" /\ win[w] # <<>> /\ ~IsMarker(Head(win[w]))
    /\ IF Keyed
       THEN /\ crashed' = TRUE /\ router' = "dead" /\ merge' = "dead"
            /\ worker' = [v \in Workers |-> "dead"] /\ fwd' = [v \in Workers |-> "dead"]
            /\ UNCHANGED <<cancelled, errs>>
       ELSE /\ worker' = [worker EXCEPT ![w] = "done"]
            /\ errs' = (IF errs = "none" THEN "panic" ELSE errs) /\ cancelled' = TRUE
            /\ UNCHANGED <<crashed, router, merge, fwd>>
    /\ UNCHANGED <<input, pos, next, todo, win, wout, held, fanIn, resume, item, arrived, out, hard, result>>

(***************************************************************************)
(* alignedMerge: one forwarder per worker                                  *)
(***************************************************************************)
FwdTake(w) ==
    /\ fwd[w] = "recv" /\ wout[w] # <<>>
    /\ held' = [held EXCEPT ![w] = Head(wout[w])]
    /\ wout' = [wout EXCEPT ![w] = Tail(@)]
    /\ fwd' = [fwd EXCEPT ![w] = "send"]
    /\ UNCHANGED <<input, routerVars, win, worker, fanIn, resume, mergeVars, ctxVars>>

\* A marker parks the forwarder: this worker's output is not read until
\* every worker has reached the marker.
FwdSend(w) ==
    /\ fwd[w] = "send" /\ Len(fanIn) < Cap
    /\ fanIn' = Append(fanIn, held[w])
    /\ held' = [held EXCEPT ![w] = None]
    /\ fwd' = [fwd EXCEPT ![w] = IF IsMarker(held[w]) THEN "park" ELSE "recv"]
    /\ UNCHANGED <<input, routerVars, workerVars, resume, mergeVars, ctxVars>>

FwdResume(w) ==
    /\ fwd[w] = "park" /\ w \in resume
    /\ resume' = resume \ {w}
    /\ fwd' = [fwd EXCEPT ![w] = "recv"]
    /\ UNCHANGED <<input, routerVars, workerVars, held, fanIn, mergeVars, ctxVars>>

\* Mutant of FwdAbort: a parked forwarder does not listen to hardCtx.
FwdAbortSendOnly(w) ==
    /\ fwd[w] = "send" /\ cancelled
    /\ fwd' = [fwd EXCEPT ![w] = "drain"] /\ held' = [held EXCEPT ![w] = None]
    /\ UNCHANGED <<input, routerVars, workerVars, fanIn, resume, mergeVars, ctxVars>>

\* hardCtx interrupts a blocked send or a parked forwarder, which then
\* discards the worker's output until it is closed.
FwdAbort(w) ==
    /\ fwd[w] \in {"send", "park"} /\ cancelled
    /\ fwd' = [fwd EXCEPT ![w] = "drain"] /\ held' = [held EXCEPT ![w] = None]
    /\ UNCHANGED <<input, routerVars, workerVars, fanIn, resume, mergeVars, ctxVars>>

FwdDrain(w) ==
    /\ fwd[w] = "drain" /\ wout[w] # <<>>
    /\ wout' = [wout EXCEPT ![w] = Tail(@)]
    /\ UNCHANGED <<input, routerVars, win, worker, fwdVars, fanIn, resume, mergeVars, ctxVars>>

FwdDone(w) ==
    /\ fwd[w] \in {"recv", "drain"} /\ worker[w] = "done" /\ wout[w] = <<>>
    /\ fwd' = [fwd EXCEPT ![w] = "done"]
    /\ UNCHANGED <<input, routerVars, workerVars, held, fanIn, resume, mergeVars, ctxVars>>

(***************************************************************************)
(* alignedMerge: the counting loop                                         *)
(***************************************************************************)

\* Mutant of MergeRecv: the first copy of a marker is passed on, the others
\* are swallowed.
MergeRecvFirst ==
    /\ merge = "recv" /\ fanIn # <<>>
    /\ fanIn' = Tail(fanIn)
    /\ LET i == Head(fanIn) IN
       /\ arrived' = IF IsMarker(i) THEN (arrived + 1) % N ELSE arrived
       /\ IF IsMarker(i) /\ arrived > 0
          THEN UNCHANGED <<merge, item>>
          ELSE item' = i /\ merge' = "send"
    /\ UNCHANGED <<input, routerVars, workerVars, fwdVars, resume, out, ctxVars>>

\* A data record is passed on; a marker is held until all N copies arrived.
MergeRecv ==
    /\ merge = "recv" /\ fanIn # <<>>
    /\ fanIn' = Tail(fanIn)
    /\ LET i == Head(fanIn) IN
       IF IsMarker(i) /\ arrived + 1 < N
       THEN arrived' = arrived + 1 /\ UNCHANGED <<merge, item>>
       ELSE /\ item' = i /\ merge' = "send"
            /\ arrived' = IF IsMarker(i) THEN 0 ELSE arrived
    /\ UNCHANGED <<input, routerVars, workerVars, fwdVars, resume, out, ctxVars>>

MergeSend ==
    /\ merge = "send"
    /\ out' = Append(out, item) /\ item' = None
    /\ merge' = IF IsMarker(item) THEN "resume" ELSE "recv"
    /\ UNCHANGED <<input, routerVars, workerVars, fwdVars, fanIn, resume, arrived, ctxVars>>

\* Every forwarder is parked: each gets its token (the channels hold one).
MergeResume ==
    /\ merge = "resume"
    /\ resume' = Workers
    /\ merge' = "recv"
    /\ UNCHANGED <<input, routerVars, workerVars, fwdVars, fanIn, item, arrived, out, ctxVars>>

\* Every forwarder is done, so fanIn is closed, and it is empty.
MergeDone ==
    /\ merge = "recv" /\ fanIn = <<>> /\ \A w \in Workers : fwd[w] = "done"
    /\ merge' = "ok"
    /\ UNCHANGED <<input, routerVars, workerVars, fwdVars, fanIn, resume, item, arrived, out, ctxVars>>

MergeAbort ==
    /\ merge \in {"recv", "send", "resume"} /\ cancelled
    /\ merge' = "err" /\ item' = None
    /\ UNCHANGED <<input, routerVars, workerVars, fwdVars, fanIn, resume, arrived, out, ctxVars>>

(***************************************************************************)
(* Run                                                                     *)
(***************************************************************************)

\* hardCtx fires: shutdown timeout, or a fatal error of another stage.
HardCancel ==
    /\ "cancel" \in Faults /\ ~hard /\ ~crashed
    /\ hard' = TRUE /\ cancelled' = TRUE
    /\ UNCHANGED <<input, routerVars, workerVars, fwdVars, fanIn, resume, mergeVars, errs, result, crashed>>

\* Mutant of Return: the merge's error hides the worker's.
ReturnMergeFirst ==
    /\ result = "none" /\ merge \in {"ok", "err"}
    /\ \A w \in Workers : worker[w] = "done"
    /\ result' = IF merge = "err" THEN "ctx" ELSE IF errs = "none" THEN "ok" ELSE errs
    /\ cancelled' = TRUE
    /\ UNCHANGED <<input, routerVars, workerVars, fwdVars, fanIn, resume, mergeVars, hard, errs, crashed>>

\* The merge has returned and so have the workers: Run reports a worker's
\* error before the merge's, and its deferred stageCancel releases the router.
Return ==
    /\ result = "none" /\ merge \in {"ok", "err"}
    /\ \A w \in Workers : worker[w] = "done"
    /\ result' = IF errs # "none" THEN errs ELSE IF merge = "ok" THEN "ok" ELSE "ctx"
    /\ cancelled' = TRUE
    /\ UNCHANGED <<input, routerVars, workerVars, fwdVars, fanIn, resume, mergeVars, hard, errs, crashed>>

\* Run has returned, or the process is dead; the state may repeat.
Ended ==
    /\ crashed \/ result # "none"
    /\ UNCHANGED vars

WorkerNext(w) ==
    WorkerStep(w) \/ WorkerClose(w) \/ WorkerAbort(w) \/ FwdTake(w) \/ FwdSend(w) \/ FwdResume(w)
        \/ FwdAbort(w) \/ FwdDrain(w) \/ FwdDone(w)

StageNext ==
    RouterTake \/ RouterSend \/ RouterClose \/ MergeRecv \/ MergeSend \/ MergeResume
        \/ MergeDone \/ MergeAbort \/ Return

Next ==
    \/ StageNext
    \/ \E w \in Workers : WorkerNext(w) \/ IdleExit(w) \/ Panic(w)
    \/ HardCancel
    \/ Ended

\* Goroutines that can run do run; cancels, panics and idle timeouts need not happen.
Fairness ==
    /\ WF_vars(StageNext)
    /\ \A w \in Workers : WF_vars(WorkerNext(w))

Spec     == Init /\ [][Next]_vars
FairSpec == Spec /\ Fairness

(***************************************************************************)
(* Properties                                                              *)
(***************************************************************************)

\* The lane an item may not leave: its key in a keyed stage, nothing in a
\* round-robin stage, where every record is a lane of its own.
Lane == [i \in DOMAIN input |->
            IF IsMarker(i) THEN 0 ELSE IF Keyed THEN input[i] ELSE i]

Promise == INSTANCE MarkerOrder WITH input <- Lane, out <- out

\* A stage that reports success without a forced shutdown has delivered its
\* whole input: closing the worker channels in the middle of a marker round
\* loses nothing, and no panic is reported as success.
OkMeansComplete ==
    result = "ok" => hard \/ Len(out) = Len(input)

\* A stage that failed on its own reports the panic and not the cancellation
\* the panic causes in the other workers and in the merge.
CauseReported ==
    result = "ctx" => hard

\* "a worker panic cancels the whole stage so the router, remaining workers,
\* and merge unwind instead of deadlocking" (keyed_stage.go).
PanicContained == ~crashed

\* A marker that entered the stage leaves it: "The merge emits it downstream
\* exactly once - only after ALL workers have delivered their copy".
MarkersGetThrough ==
    \A i \in Items :
        (i <= pos /\ IsMarker(i)) ~> (cancelled \/ i \in Range(out))
=============================================================================
