----------------------------- MODULE MCControl ------------------------------
(***************************************************************************)
(* Model checking of the control plane: the controller with its            *)
(* reconciler, the Docker and Kubernetes backends, the process of a job    *)
(* with its agent and savepoints, the slot counts and the restart policy.  *)
(* A behaviour is one of one part, with the constants of one scenario; the *)
(* variables of the other parts keep the value Off.                        *)
(***************************************************************************)
EXTENDS Integers, Sequences, FiniteSets

VARIABLES
    on,  \* the scenario
    \* ControlPlane
    desired, runs, cont, pc, loc, clock, requests, crashes,
    \* Backends
    spec, launchPc, ret, objs, proc, code, jobStatus, stopped, image, volume,
    \* JobProcess
    main, restore, phase, cancelSet, ctxDone, req, label, calling, accepted, asked, runErr,
    exit, pos, began, final, cps, torn, latest, blobs, tmp, putting, lives,
    \* Capacity
    host, containers, cfg,
    \* Restarts
    given, policy, attempt, state, wait, prev

Off == "off"

\* The controller: every fault but failing reads, without restart requests;
\* restart requests one at a time, two at a time, and with failing reads;
\* convergence on Docker and on Kubernetes.
ControlBase ==
  [handlers |-> {"h1", "h2"}, kinds |-> {"cancel", "savepoint", "submit"}, attempts |-> 1,
   backend |-> "docker", faults |-> {}]
Controls ==
  [fence    |-> [ControlBase EXCEPT !.attempts = 2,
                                    !.faults = {"crash", "launch", "status", "stop", "store", "vanish", "want"}],
   serial   |-> [ControlBase EXCEPT !.handlers = {"h1"}, !.kinds = {"cancel", "restart", "savepoint", "submit"},
                                    !.faults = {"launch", "want"}],
   converge |-> [ControlBase EXCEPT !.attempts = 3],
   restart  |-> [ControlBase EXCEPT !.kinds = {"cancel", "restart", "submit"}],
   blind    |-> [ControlBase EXCEPT !.handlers = {"h1"}, !.kinds = {"cancel", "restart", "submit"},
                                    !.faults = {"read"}],
   kube     |-> [ControlBase EXCEPT !.handlers = {"h1"}, !.attempts = 2, !.backend = "kubernetes", !.faults = {"launch"}]]

Controller(c) == INSTANCE ControlPlane WITH
    Handlers <- c.handlers, Requests <- c.kinds, MaxRequests <- 3,
    MaxAttempts <- c.attempts, Backend <- c.backend, Faults <- c.faults

\* Container backends: two launches on Docker, unfenced and fenced; two on
\* Kubernetes; one with lost answers, a cancelled caller and failing deletes.
LaunchBase ==
  [kind |-> "docker", runs |-> {"r1", "r2"}, fenced |-> FALSE, removes |-> FALSE, faults |-> {"err", "pull"}]
Launches ==
  [docker |-> LaunchBase,
   fenced |-> [LaunchBase EXCEPT !.fenced = TRUE, !.removes = TRUE, !.faults = {"err", "lost", "pull"}],
   k8s    |-> [LaunchBase EXCEPT !.kind = "k8s", !.faults = {"err"}],
   order  |-> [LaunchBase EXCEPT !.kind = "k8s", !.runs = {"r1"}, !.faults = {"cancel", "delete", "err", "lost"}],
   lost   |-> [LaunchBase EXCEPT !.kind = "k8s", !.runs = {"r1"}, !.faults = {"err", "lost"}]]

Launch(c) == INSTANCE Backends WITH
    Backend <- c.kind, Runs <- c.runs, Fenced <- c.fenced, Removes <- c.removes,
    Faults <- c.faults, pc <- launchPc

\* The job's process: two savepoint labels; restores after a crash; failures
\* of the run, of the blob store and of an orderly end.
Jobs ==
  [agent  |-> [labels |-> {"s1", "s2"}, ckpts |-> 2, lives |-> 2, faults |-> {}],
   resume |-> [labels |-> {"s1"}, ckpts |-> 2, lives |-> 3, faults |-> {"crash"}],
   exit   |-> [labels |-> {"s1", "s2"}, ckpts |-> 2, lives |-> 1, faults |-> {"blob", "fail", "hard"}]]

Job(c) == INSTANCE JobProcess WITH
    Labels <- c.labels, Checkpointing <- TRUE, NRec <- 1, MaxCkpts <- c.ckpts,
    MaxLives <- c.lives, Faults <- c.faults

Slots == INSTANCE Capacity WITH
    MaxInt <- 7, MaxTotal <- 2, Defaults <- {1, 2}

Restart == INSTANCE Restarts WITH
    Attempts <- {0, 1, 3, 9}, Bases <- 0 .. 3, Caps <- {0, 3, 4, 10}, RunBound <- 12

controllerVars == <<desired, runs, cont, pc, loc, clock, requests, crashes>>
launchVars == <<spec, launchPc, ret, objs, proc, code, jobStatus, stopped, image, volume>>
jobVars == <<main, restore, phase, cancelSet, ctxDone, req, label, calling, accepted, asked,
             runErr, exit, pos, began, final, cps, torn, latest, blobs, tmp, putting, lives>>
slotsVars == <<host, containers, cfg>>
restartVars == <<given, policy, attempt, state, wait, prev>>
controlVars == <<on, controllerVars, launchVars, jobVars, slotsVars, restartVars>>

NoController ==
  /\ desired = Off /\ runs = Off /\ cont = Off /\ pc = Off /\ loc = Off /\ clock = Off
  /\ requests = Off /\ crashes = Off
NoLaunch ==
  /\ spec = Off /\ launchPc = Off /\ ret = Off /\ objs = Off /\ proc = Off /\ code = Off
  /\ jobStatus = Off /\ stopped = Off /\ image = Off /\ volume = Off
NoJob ==
  /\ main = Off /\ restore = Off /\ phase = Off /\ cancelSet = Off /\ ctxDone = Off
  /\ req = Off /\ label = Off /\ calling = Off /\ accepted = Off /\ asked = Off
  /\ runErr = Off /\ exit = Off /\ pos = Off /\ began = Off /\ final = Off /\ cps = Off
  /\ torn = Off /\ latest = Off /\ blobs = Off /\ tmp = Off /\ putting = Off
  /\ lives = Off
NoSlots ==
  /\ host = Off /\ containers = Off /\ cfg = Off
NoRestart ==
  /\ given = Off /\ policy = Off /\ attempt = Off /\ state = Off /\ wait = Off
  /\ prev = Off

ControlInit ==
  \/ /\ NoLaunch /\ NoJob /\ NoSlots /\ NoRestart
     /\ \E s \in DOMAIN Controls : on = s /\ Controller(Controls[s])!Init
  \/ /\ NoController /\ NoJob /\ NoSlots /\ NoRestart
     /\ \E s \in DOMAIN Launches : on = s /\ Launch(Launches[s])!Init
  \/ /\ NoController /\ NoLaunch /\ NoSlots /\ NoRestart
     /\ \E s \in DOMAIN Jobs : on = s /\ Job(Jobs[s])!Init
  \/ /\ NoController /\ NoLaunch /\ NoJob /\ NoRestart
     /\ on = "capacity" /\ Slots!Init
  \/ /\ NoController /\ NoLaunch /\ NoJob /\ NoSlots
     /\ on = "waits" /\ Restart!Init

ControlNext ==
  \/ /\ \E s \in DOMAIN Controls : on = s /\ Controller(Controls[s])!Next
     /\ UNCHANGED <<on, launchVars, jobVars, slotsVars, restartVars>>
  \/ /\ \E s \in DOMAIN Launches : on = s /\ Launch(Launches[s])!Next
     /\ UNCHANGED <<on, controllerVars, jobVars, slotsVars, restartVars>>
  \/ /\ \E s \in DOMAIN Jobs : on = s /\ Job(Jobs[s])!Next
     /\ UNCHANGED <<on, controllerVars, launchVars, slotsVars, restartVars>>
  \/ /\ on = "capacity" /\ Slots!Next
     /\ UNCHANGED <<on, controllerVars, launchVars, jobVars, restartVars>>
  \/ /\ on = "waits" /\ Restart!Next
     /\ UNCHANGED <<on, controllerVars, launchVars, jobVars, slotsVars>>

\* Requests under way and the reconciler go on, a draining job and a deleted pod
\* end; calls of a Launch are answered and pods start and end; the job's process
\* is scheduled.  Requests, faults and exits of running jobs need not come.
Settling == {"blind", "converge", "kube", "restart"}
ControlFairness ==
  /\ \A p \in {"h1", "h2", "rec"} :
       WF_controllerVars(\E s \in Settling : on = s /\ p \in DOMAIN pc /\ Controller(Controls[s])!ProcNext(p))
  /\ \A h \in {"h1", "h2"} :
       WF_controllerVars(\E s \in Settling : on = s /\ h \in DOMAIN pc /\ Controller(Controls[s])!HandlerNext(h))
  /\ WF_controllerVars(\E s \in Settling : on = s /\ Controller(Controls[s])!RecNext)
  /\ WF_controllerVars(\E s \in Settling : /\ on = s
                      /\ \E c \in 1 .. Len(cont) : cont[c] = "draining" /\ Controller(Controls[s])!Exit(c))
  /\ WF_controllerVars(\E s \in Settling : on = s /\ \E c \in 1 .. Len(cont) : Controller(Controls[s])!Terminate(c))
Answered == {"lost", "order"}
LaunchFairness ==
  /\ WF_launchVars(\E s \in Answered : on = s /\ Launch(Launches[s])!LaunchStep("r1"))
  /\ WF_launchVars(\E s \in Answered : on = s /\ Launch(Launches[s])!PodStep("r1"))
JobFairness ==
  /\ WF_jobVars(on = "exit" /\ Job(Jobs.exit)!Main)
  /\ WF_jobVars(on = "exit" /\ Job(Jobs.exit)!Cancels)

ControlSpec == ControlInit /\ [][ControlNext]_controlVars /\ ControlFairness /\ LaunchFairness /\ JobFairness

-----------------------------------------------------------------------------
(* The controller. *)

\* No two processes of one job run at once: whatever requests, failures and a
\* crash of the controller do between launch's fence and its insert, as long as
\* the fence's own read of the store succeeds and nobody asks for a restart, or
\* asks for one request at a time of a job without automatic restarts; and in a
\* backend behind that fence, also when the answer of a call is lost.  With no
\* faults but failing reads, a live container always belongs to a run the
\* reconciler will look at, or to a launch about to record it.
SingleLive ==
  /\ \A s \in {"fence", "serial"} : on = s => Controller(Controls[s])!SingleLive
  /\ on = "fenced" => Launch(Launches.fenced)!OneProcess
  /\ \A s \in {"blind", "converge", "restart"} : on = s => Controller(Controls[s])!NoOrphans

-----------------------------------------------------------------------------
(* Container backends. *)

\* Launch is all or nothing: one that reported an error has taken back every
\* object it created (only the data volume stays), and a run whose Launch returned
\* an id, and that was not stopped, has its container or Job, its inputs and its
\* Service.  Status says exited only of a process that ended, and 0 only of one
\* that ended with 0.
LaunchWhole ==
  /\ \A s \in {"docker", "k8s"} : on = s =>
       Launch(Launches[s])!FailedIsClean /\ Launch(Launches[s])!LaunchedIsWhole
  /\ on = "k8s" => Launch(Launches.k8s)!StatusTrue

-----------------------------------------------------------------------------
(* The job's process. *)

\* Savepoints hold what they promise: a process that accepted one and exits
\* normally has stored one of its final checkpoint; a label names a whole archive
\* or nothing, also after a process died while it overwrote it; and a process told
\* to restore a label runs from it, even when the directory holds newer
\* checkpoints.
SavepointsHold ==
  /\ on = "agent" => Job(Jobs.agent)!AcceptedIsPromoted
  /\ on = "resume" => Job(Jobs.resume)!RestoresLabel
  /\ \A s \in DOMAIN Jobs : on = s => Job(Jobs[s])!BlobsWhole

-----------------------------------------------------------------------------
(* Capacity and restarts. *)

\* Docker reports the largest number of default-sized jobs that still fit,
\* whichever of the three limits binds, and where only the configured limit does
\* the three backends agree.
AvailableIsLargest ==
  on = "capacity" => Slots!AvailableIsLargest /\ Slots!BackendsAgree

\* A job that always fails runs MaxAttempts times in all; the wait doubles from
\* run to run until it reaches the cap, which the first wait is not above, and
\* then stays.
RestartsBounded ==
  on = "waits" => Restart!Bounded /\ Restart!Doubles /\ Restart!WaitIsCapped

-----------------------------------------------------------------------------
(* Progress. *)

\* Stopping wins in the end: a job that stays stopped has no container, whatever
\* the reconciler was doing with a desired state read earlier; and after a Launch
\* that reported an error no process of that run stays, even when the failing
\* call took effect.
StoppedConverges ==
  <>[](/\ \A s \in Settling : on = s => (desired = "stopped" => Controller(Controls[s])!Live = {})
       /\ on = "lost" => (ret["r1"] = "error" => proc["r1"] # "running"))

\* A failed run with attempts left is followed by another one; a Job whose Launch
\* returned an id has a pod that starts unless it is stopped; and a savepoint
\* request that was accepted ends the job.
Progresses ==
  (\/ on = "converge" /\ Controller(Controls.converge)!Starving
   \/ on = "order" /\ ret["r1"] = "id"
   \/ on = "exit" /\ accepted # <<>>)
  ~>
  (\/ on = "converge" /\ ~Controller(Controls.converge)!Starving
   \/ on = "order" /\ (proc["r1"] # "none" \/ stopped["r1"])
   \/ on = "exit" /\ main \in {"boot", "dead", "exit"})
=============================================================================
