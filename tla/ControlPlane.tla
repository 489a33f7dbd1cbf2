---------------------------- MODULE ControlPlane ----------------------------
(***************************************************************************)
(* The controller of one job: the API requests (submit, cancel, restart,   *)
(* savepoint), each served in a goroutine of its own, the reconciler loop, *)
(* the SQLite store and the container backend.  A step is one call of the  *)
(* store or of the backend: between two of them any other request, the     *)
(* reconciler, a container or a crash of the controller may act.           *)
(*                                                                         *)
(* The store keeps jobs and runs across a crash of the controller, and     *)
(* containers live on without it.                                          *)
(***************************************************************************)
EXTENDS Integers, Sequences, FiniteSets

CONSTANTS
    Handlers,      \* API requests that can be in progress at once
    Requests,      \* which of RequestKinds are made
    MaxRequests,   \* bound: number of requests
    MaxAttempts,   \* RestartPolicy.MaxAttempts
    Backend,       \* "docker" or "kubernetes"
    Faults         \* which of FaultKinds may happen

RequestKinds == {"submit", "cancel", "restart", "savepoint"}
\* Calls of the backend that fail; inserts and updates of runs ("store"),
\* LatestRun ("read") and SetDesired ("want") that fail; a container lost by its
\* host; a crash of the controller.
FaultKinds   == {"launch", "stop", "status", "store", "read", "want", "vanish", "crash"}

Procs == Handlers \cup {"rec"}

VARIABLES
    desired,       \* jobs.desired_state; "none" before the job exists
    runs,          \* the runs table, in the order of its inserts
    cont,          \* containers ever created, by id: their phase
    pc, loc,       \* where each goroutine is, and its local variables
    clock,         \* started_at of the youngest run begun
    requests,      \* requests made
    crashes        \* crashes of the controller

vars == <<desired, runs, cont, pc, loc, clock, requests, crashes>>

Live == {c \in 1 .. Len(cont) : cont[c] \in {"running", "draining", "stopping"}}
Active == {r \in 1 .. Len(runs) : ~runs[r].stopped}

\* store.LatestRun: the run that started last; 0 when there is none.
LatestRun ==
    IF runs = <<>> THEN 0
    ELSE CHOOSE r \in 1 .. Len(runs) : \A q \in 1 .. Len(runs) : runs[q].start <= runs[r].start

NoLoc == [op |-> "none", run |-> 0, cid |-> 0, attempt |-> 0, start |-> 0, want |-> "none", to |-> "none", todo |-> {}]

ContPhases == {"running", "draining", "stopping", "exit0", "exit1", "gone"}
Labels == {"idle", "find", "stop", "finish", "want", "fence", "start", "record",
           "mark", "next", "status", "port", "backoff"}

\* The types, and the restart policy's bound on the attempt counter.
TypeOK ==
    /\ desired \in {"none", "running", "stopped"}
    /\ \A c \in 1 .. Len(cont) : cont[c] \in ContPhases
    /\ \A r \in 1 .. Len(runs) : runs[r].cid \in 0 .. Len(cont) /\ (runs[r].attempt = 1 \/ runs[r].attempt \in 1 .. MaxAttempts)
    /\ pc \in [Procs -> Labels]
    /\ \A p \in Procs : loc[p].run \in 0 .. Len(runs) /\ loc[p].cid \in 0 .. Len(cont)

Init ==
    /\ desired = "none" /\ runs = <<>> /\ cont = <<>>
    /\ pc = [p \in Procs |-> "idle"] /\ loc = [p \in Procs |-> NoLoc]
    /\ clock = 0 /\ requests = 0 /\ crashes = 0

Goto(p, l) == pc' = [pc EXCEPT ![p] = l]

\* Where launch returns to: a request ends, the reconciler takes its next run.
Back(p) ==
    /\ Goto(p, IF p = "rec" THEN "next" ELSE "idle")
    /\ loc' = [loc EXCEPT ![p] = IF p = "rec" THEN [NoLoc EXCEPT !.op = "rec", !.todo = loc[p].todo] ELSE NoLoc]

Request(h, kind) ==
    /\ pc[h] = "idle" /\ kind \in Requests /\ requests < MaxRequests
    /\ requests' = requests + 1

(***************************************************************************)
(* launch: fence, start the container, record the run                      *)
(***************************************************************************)

\* A call of LatestRun returns a run that is not stopped, or none to stop: the
\* latest one is, or the call failed.
SeesActive == LatestRun # 0 /\ ~runs[LatestRun].stopped
SeesNone   == SeesActive => "read" \in Faults

\* "Single-live-run fencing": an active latest run refuses the launch.  The
\* error of LatestRun is ignored, and the run it returns then is nil.
Fence(p) ==
    /\ pc[p] = "fence"
    /\ \/ SeesActive /\ Back(p) /\ UNCHANGED clock
       \/ /\ SeesNone
          /\ clock' = clock + 1
          /\ loc' = [loc EXCEPT ![p].start = clock + 1]
          /\ Goto(p, "start")
    /\ UNCHANGED <<desired, runs, cont, requests, crashes>>

NewRun(p, cid, phase, port) ==
    [cid |-> cid, start |-> loc[p].start, attempt |-> loc[p].attempt, phase |-> phase,
     port |-> port, stopped |-> phase = "failed"]

\* backend.Launch returns a running container.
Start(p) ==
    /\ pc[p] = "start"
    /\ cont' = Append(cont, "running")
    /\ loc' = [loc EXCEPT ![p].cid = Len(cont) + 1]
    /\ Goto(p, "record")
    /\ UNCHANGED <<desired, runs, clock, requests, crashes>>

\* backend.Launch fails and a failed run is recorded.  Kubernetes may have
\* created the Job before the Service fails; the clean-up deletes it in the
\* background.  An error of the insert is ignored.
StartFails(p) ==
    /\ "launch" \in Faults
    /\ pc[p] = "start"
    /\ cont' \in {cont} \cup (IF Backend = "kubernetes" THEN {Append(cont, "stopping")} ELSE {})
    /\ \/ runs' = Append(runs, NewRun(p, 0, "failed", FALSE))
       \/ "store" \in Faults /\ UNCHANGED runs
    /\ Back(p)
    /\ UNCHANGED <<desired, clock, requests, crashes>>

\* The container's address is looked up (an error leaves the port unknown)
\* and the run is inserted.
Record(p) ==
    /\ pc[p] = "record"
    /\ \E port \in {TRUE} \cup (IF "status" \in Faults THEN {FALSE} ELSE {}) :
          runs' = Append(runs, NewRun(p, loc[p].cid, "running", port))
    /\ Back(p)
    /\ UNCHANGED <<desired, cont, clock, requests, crashes>>

\* CreateRun fails: launch returns the error.
RecordFails(p) ==
    /\ "store" \in Faults
    /\ pc[p] = "record"
    /\ Back(p)
    /\ UNCHANGED <<desired, runs, cont, clock, requests, crashes>>

(***************************************************************************)
(* Stopping a run: backend.Stop, then finishRun                            *)
(***************************************************************************)

\* What Stop leaves behind.  Docker waits for the container to exit, or kills
\* it; Kubernetes deletes the Job in the background.  An exited or vanished
\* container stays what it is.
StopOutcome(phase) ==
    IF phase \notin {"running", "draining"} THEN {phase}
    ELSE IF Backend = "docker" THEN {"exit0", "exit1"} ELSE {"stopping"}

\* The error of Stop is ignored.
StopRun(p) ==
    /\ pc[p] = "stop"
    /\ LET c == runs[loc[p].run].cid IN
       \E phase \in StopOutcome(cont[c]) \cup (IF "stop" \in Faults THEN {cont[c]} ELSE {}) :
          cont' = [cont EXCEPT ![c] = phase]
    /\ Goto(p, "finish")
    /\ UNCHANGED <<desired, runs, loc, clock, requests, crashes>>

\* Mutant of AfterFinish: the last attempt is not made.
AfterFinishOneLess(p) ==
    LET l == loc[p] IN
    CASE l.op = "restart" -> Goto(p, "want") /\ UNCHANGED loc
      [] l.op = "rec" /\ l.to = "failed" /\ l.want = "running" /\ runs[l.run].attempt + 1 < MaxAttempts
                          -> Goto(p, "backoff") /\ UNCHANGED loc
      [] OTHER            -> Back(p)

\* What follows: doRestart goes on to SetDesired, the reconciler to
\* maybeRestart when the run failed, the job is still wanted and the policy
\* has attempts left.
AfterFinish(p) ==
    LET l == loc[p] IN
    CASE l.op = "restart" -> Goto(p, "want") /\ UNCHANGED loc
      [] l.op = "rec" /\ l.to = "failed" /\ l.want = "running" /\ runs[l.run].attempt < MaxAttempts
                          -> Goto(p, "backoff") /\ UNCHANGED loc
      [] OTHER            -> Back(p)

\* finishRun writes the caller's copy of the run back; UpdateRun's error is
\* ignored.
Finish(p) ==
    /\ pc[p] = "finish"
    /\ \/ runs' = [runs EXCEPT ![loc[p].run].stopped = TRUE, ![loc[p].run].phase = loc[p].to]
       \/ "store" \in Faults /\ UNCHANGED runs
    /\ AfterFinish(p)
    /\ UNCHANGED <<desired, cont, clock, requests, crashes>>

(***************************************************************************)
(* API requests                                                            *)
(***************************************************************************)

\* Submit and submitSDK: an invalid document changes nothing; otherwise the
\* job is created and its first run launched.
Submit(h) ==
    /\ Request(h, "submit") /\ desired = "none"
    /\ \/ UNCHANGED <<desired, pc, loc>>
       \/ /\ desired' = "running"
                /\ loc' = [loc EXCEPT ![h] = [NoLoc EXCEPT !.op = "submit", !.attempt = 1]]
          /\ Goto(h, "fence")
    /\ UNCHANGED <<runs, cont, clock, crashes>>

\* Cancel: SetDesired, whose error ends the request.
Cancel(h) ==
    /\ Request(h, "cancel") /\ desired # "none"
    /\ \/ /\ desired' = "stopped"
          /\ loc' = [loc EXCEPT ![h] = [NoLoc EXCEPT !.op = "cancel", !.to = "cancelled"]]
          /\ Goto(h, "find")
       \/ "want" \in Faults /\ UNCHANGED <<desired, pc, loc>>
    /\ UNCHANGED <<runs, cont, clock, crashes>>

Restart(h) ==
    /\ Request(h, "restart") /\ desired # "none"
    /\ loc' = [loc EXCEPT ![h] = [NoLoc EXCEPT !.op = "restart", !.to = "cancelled", !.attempt = 1]]
    /\ Goto(h, "find")
    /\ UNCHANGED <<desired, runs, cont, clock, crashes>>

\* LatestRun of Cancel and doRestart: a stopped run needs no stopping.  Its error
\* ends Cancel; doRestart ignores it.
Find(h) ==
    /\ pc[h] = "find"
    /\ \/ SeesNone /\ loc[h].op = "cancel" /\ Back(h)
       \/ SeesNone /\ loc[h].op = "restart" /\ Goto(h, "want") /\ UNCHANGED loc
       \/ SeesActive /\ Goto(h, "stop") /\ loc' = [loc EXCEPT ![h].run = LatestRun]
    /\ UNCHANGED <<desired, runs, cont, clock, requests, crashes>>

\* doRestart's SetDesired.
Want(h) ==
    /\ pc[h] = "want"
    /\ \/ desired' = "running" /\ Goto(h, "fence") /\ UNCHANGED loc
       \/ "want" \in Faults /\ UNCHANGED desired /\ Back(h)
    /\ UNCHANGED <<runs, cont, clock, requests, crashes>>

\* Savepoint: the agent of the live container accepts the request and drains
\* the job; the desired state follows in a second step.
Savepoint(h) ==
    /\ Request(h, "savepoint")
    /\ LatestRun # 0 /\ ~runs[LatestRun].stopped
    /\ LET c == runs[LatestRun].cid IN
       /\ cont[c] = "running"
       /\ cont' = [cont EXCEPT ![c] = "draining"]
    /\ loc' = [loc EXCEPT ![h] = [NoLoc EXCEPT !.op = "savepoint"]]
    /\ Goto(h, "mark")
    /\ UNCHANGED <<desired, runs, clock, crashes>>

Mark(h) ==
    /\ pc[h] = "mark"
    /\ \/ desired' = "stopped"
       \/ "want" \in Faults /\ UNCHANGED desired
    /\ Back(h)
    /\ UNCHANGED <<runs, cont, clock, requests, crashes>>

(***************************************************************************)
(* The reconciler                                                          *)
(***************************************************************************)

\* RunReconciler's tick: ActiveRuns.  After an error of it nothing happens until
\* the next tick.
List ==
    /\ pc["rec"] = "idle" /\ Active # {}
    /\ loc' = [loc EXCEPT !["rec"] = [NoLoc EXCEPT !.op = "rec", !.todo = Active]]
    /\ Goto("rec", "next")
    /\ UNCHANGED <<desired, runs, cont, clock, requests, crashes>>

\* The next run of the list: GetJob.
TakeRun ==
    /\ pc["rec"] = "next"
    /\ IF loc["rec"].todo = {}
       THEN Goto("rec", "idle") /\ loc' = [loc EXCEPT !["rec"] = NoLoc]
       ELSE /\ \E r \in loc["rec"].todo :
                  loc' = [loc EXCEPT !["rec"].run = r, !["rec"].todo = @ \ {r}, !["rec"].want = desired]
            /\ Goto("rec", "status")
    /\ UNCHANGED <<desired, runs, cont, clock, requests, crashes>>

\* Mutant of Reconciled: a running container is left alone.
ReconciledKeep(phase, want, port) ==
    CASE phase \in {"running", "draining"} -> <<"next", "none">>
      [] want = "stopped"                 -> <<"finish", "cancelled">>
      [] phase = "exit0"                  -> <<"finish", "finished">>
      [] OTHER                            -> <<"finish", "failed">>

\* What reconcileRun and handleExit make of a container's phase: the next
\* step, and the phase the run ends in.
Reconciled(phase, want, port) ==
    CASE phase \in {"running", "draining"} ->
            IF want = "stopped" THEN <<"stop", "cancelled">>
            ELSE IF port THEN <<"next", "none">> ELSE <<"port", "none">>
      [] want = "stopped"                 -> <<"finish", "cancelled">>
      [] phase = "exit0"                  -> <<"finish", "finished">>
      [] OTHER                            -> <<"finish", "failed">>

\* Mutant of ReconcileRun: an error of Status is taken for a vanished container.
ReconcileRunErrorGone ==
    /\ pc["rec"] = "status"
    /\ LET run == runs[loc["rec"].run] IN
       \E phase \in {cont[run.cid]} \cup (IF "status" \in Faults THEN {"gone"} ELSE {}) :
          LET todo == Reconciled(phase, loc["rec"].want, run.port) IN
          Goto("rec", todo[1]) /\ loc' = [loc EXCEPT !["rec"].to = todo[2]]
    /\ UNCHANGED <<desired, runs, cont, clock, requests, crashes>>

\* backend.Status, then reconcileRun.  An error, or one of GetJob before it, skips
\* the run.
ReconcileRun ==
    /\ pc["rec"] = "status"
    /\ LET run == runs[loc["rec"].run]
           todo == Reconciled(cont[run.cid], loc["rec"].want, run.port) IN
       \/ Goto("rec", todo[1]) /\ loc' = [loc EXCEPT !["rec"].to = todo[2]]
       \/ "status" \in Faults /\ Goto("rec", "next") /\ UNCHANGED loc
    /\ UNCHANGED <<desired, runs, cont, clock, requests, crashes>>

\* The run read from ActiveRuns, with a fresh port, is written back whole,
\* stopped_at included; an error is ignored.
RefreshPort ==
    /\ pc["rec"] = "port"
    /\ \/ runs' = [runs EXCEPT ![loc["rec"].run].port = TRUE, ![loc["rec"].run].phase = "running",
                               ![loc["rec"].run].stopped = FALSE]
       \/ "store" \in Faults /\ UNCHANGED runs
    /\ Goto("rec", "next")
    /\ UNCHANGED <<desired, cont, loc, clock, requests, crashes>>

\* maybeRestart after its backoff: launch with the next attempt number.
Backoff ==
    /\ pc["rec"] = "backoff"
    /\ loc' = [loc EXCEPT !["rec"].attempt = runs[loc["rec"].run].attempt + 1]
    /\ Goto("rec", "fence")
    /\ UNCHANGED <<desired, runs, cont, clock, requests, crashes>>

(***************************************************************************)
(* Containers and the controller process                                   *)
(***************************************************************************)

\* The job ends by itself, in success or in failure.
Exit(c) ==
    /\ cont[c] \in {"running", "draining"}
    /\ \E phase \in {"exit0", "exit1"} : cont' = [cont EXCEPT ![c] = phase]
    /\ UNCHANGED <<desired, runs, pc, loc, clock, requests, crashes>>

\* A deleted Kubernetes Job's pod ends.
Terminate(c) ==
    /\ cont[c] = "stopping"
    /\ cont' = [cont EXCEPT ![c] = "gone"]
    /\ UNCHANGED <<desired, runs, pc, loc, clock, requests, crashes>>

\* The host loses a container.
Vanish(c) ==
    /\ "vanish" \in Faults /\ cont[c] # "gone"
    /\ cont' = [cont EXCEPT ![c] = "gone"]
    /\ UNCHANGED <<desired, runs, pc, loc, clock, requests, crashes>>

\* The controller dies and is started again by its supervisor.
Crash ==
    /\ "crash" \in Faults /\ crashes = 0
    /\ crashes' = 1
    /\ pc' = [p \in Procs |-> "idle"] /\ loc' = [p \in Procs |-> NoLoc]
    /\ UNCHANGED <<desired, runs, cont, clock, requests>>

\* No request is under way and the reconciler waits for its tick.
Idle ==
    /\ \A p \in Procs : pc[p] = "idle"
    /\ UNCHANGED vars

ProcNext(p) ==
    Fence(p) \/ Start(p) \/ StartFails(p) \/ Record(p) \/ RecordFails(p) \/ StopRun(p) \/ Finish(p)

HandlerNext(h) == Find(h) \/ Want(h) \/ Mark(h)

RecNext == List \/ TakeRun \/ ReconcileRun \/ RefreshPort \/ Backoff

Next ==
    \/ \E p \in Procs : ProcNext(p)
    \/ \E h \in Handlers : HandlerNext(h) \/ Submit(h) \/ Cancel(h) \/ Restart(h) \/ Savepoint(h)
    \/ RecNext
    \/ \E c \in 1 .. Len(cont) : Exit(c) \/ Terminate(c) \/ Vanish(c)
    \/ Crash
    \/ Idle

\* A request under way and the reconciler go on; a draining job and a
\* deleted pod end.  Requests, faults and exits of running jobs need not come.
Fairness ==
    /\ \A p \in Procs : WF_vars(ProcNext(p))
    /\ \A h \in Handlers : WF_vars(HandlerNext(h))
    /\ WF_vars(RecNext)
    /\ WF_vars(\E c \in 1 .. Len(cont) : cont[c] = "draining" /\ Exit(c))
    /\ WF_vars(\E c \in 1 .. Len(cont) : Terminate(c))

Spec     == Init /\ [][Next]_vars
FairSpec == Spec /\ Fairness

(***************************************************************************)
(* Properties                                                              *)
(***************************************************************************)

\* "never run two containers for one job at once - two live transactional
\* producers with the same id would break exactly-once" (launch).
SingleLive == Cardinality(Live) <= 1

\* "a controller crash never loses track of a running job": a live container
\* belongs to a run the reconciler will look at, or to a launch that is about
\* to record it.
NoOrphans ==
    \A c \in Live :
        \/ \E r \in Active : runs[r].cid = c
        \/ \E p \in Procs : pc[p] = "record" /\ loc[p].cid = c

\* Cancel and Savepoint win in the end: whatever the reconciler was doing with
\* a desired state read earlier, a job that stays stopped has no container.
StoppedConverges == <>[](desired = "stopped" => Live = {})

\* The job should run, nothing runs, and its last run failed with attempts left.
Starving ==
    /\ desired = "running" /\ Live = {} /\ LatestRun # 0
    /\ runs[LatestRun].phase = "failed" /\ runs[LatestRun].attempt < MaxAttempts

\* The reconciler "applies the restart policy to crashed containers": a failed
\* run with attempts left is followed by another one.
FailedIsRestarted == Starving ~> ~Starving

\* "Only unexpected failures restart; a clean Finished or a user Cancelled does
\* not" (ShouldRestart): no container starts while the job should be stopped.
NoLaunchWhenStopped == [][Len(cont') > Len(cont) => desired = "running"]_vars

\* "terminal states may only re-enter Starting via an explicit restart, which
\* creates a NEW run rather than transitioning the old one" (lifecycle.valid).
TerminalStays == [][\A r \in 1 .. Len(runs) : runs[r].stopped => runs'[r].stopped]_vars
=============================================================================
