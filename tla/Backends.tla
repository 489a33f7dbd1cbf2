------------------------------ MODULE Backends ------------------------------
(***************************************************************************)
(* The two container backends behind ContainerBackend: Launch, Stop,       *)
(* Status and Remove of control/backend/docker.go and kubernetes.go, call  *)
(* by call.  Every call to the daemon or the API server may fail, may fail *)
(* although it took effect (its answer was lost), or may be cut off by the *)
(* caller's context, which then also cuts off the clean-up that follows.   *)
(*                                                                         *)
(* All runs are launches of one job, so they share its data volume.  The   *)
(* daemon, the API server, the kubelet and the job's process are external. *)
(***************************************************************************)
EXTENDS Naturals, FiniteSets

CONSTANTS
    Backend,   \* "docker" or "k8s"
    Runs,      \* the launches of the job
    Fenced,    \* launch's fence: a launch waits until the last run is over
    Removes,   \* whether the caller ever calls Remove
    Faults     \* subset of {"err", "lost", "cancel", "delete", "has", "pull"}

Codes == {0, 1, 2}                       \* exit codes told apart

VARIABLES
    spec,      \* LaunchSpec of a run: has it a document, an environment
    pc,        \* where its Launch is
    ret,       \* what Launch returned
    objs,      \* the run's objects on the host or in the cluster
    proc,      \* the job's process: "none", "running" or "exited"
    code,      \* its exit code
    jobStatus, \* the Job's status in the API server, which lags behind
    stopped,   \* Stop returned nil
    image,     \* the local image: "none", "local" (built here), "registry"
    volume     \* the job's data volume or claim exists

vars == <<spec, pc, ret, objs, proc, code, jobStatus, stopped, image, volume>>
process == <<proc, code, jobStatus>>

LaunchSpec == [doc : BOOLEAN, env : BOOLEAN]

Init ==
    /\ spec \in [Runs -> LaunchSpec]
    /\ pc = [r \in Runs |-> "idle"]
    /\ ret = [r \in Runs |-> "none"]
    /\ objs = [r \in Runs |-> {}]
    /\ proc = [r \in Runs |-> "none"]
    /\ code = [r \in Runs |-> 0]
    /\ jobStatus = [r \in Runs |-> "active"]
    /\ stopped = [r \in Runs |-> FALSE]
    /\ image \in {"none", "local"}
    /\ volume = FALSE

(***************************************************************************)
(* Calls.  done: it took effect; ok: it returned nil; alive: its context   *)
(* still lets the next call through.                                       *)
(***************************************************************************)
Outcomes ==
    {[done |-> TRUE, ok |-> TRUE, alive |-> TRUE]}
    \cup (IF "err" \in Faults THEN {[done |-> FALSE, ok |-> FALSE, alive |-> TRUE]} ELSE {})
    \cup (IF "lost" \in Faults THEN {[done |-> TRUE, ok |-> FALSE, alive |-> TRUE]} ELSE {})
    \cup (IF "cancel" \in Faults THEN [done : BOOLEAN, ok : {FALSE}, alive : {FALSE}] ELSE {})

\* What the clean-up's deletes leave of the objects S: one container, or four
\* objects deleted one by one; each error is ignored.
Left(S, alive) ==
    CASE ~alive -> {S}
      [] alive /\ "delete" \in Faults -> IF Backend = "docker" THEN {S, {}} ELSE SUBSET S
      [] OTHER -> {{}}

Goto(r, label) == pc' = [pc EXCEPT ![r] = label]

Fails(r) ==
    /\ Goto(r, "done")
    /\ ret' = [ret EXCEPT ![r] = "error"]

Returns(r) ==
    /\ Goto(r, "done")
    /\ ret' = [ret EXCEPT ![r] = "id"]

(***************************************************************************)
(* One create call of Launch at label `at' that adds the object `kind'.    *)
(* `next' is the label after it, "return" the end of Launch; `cleans' says *)
(* whether its error path cleans up what the run already has.              *)
(***************************************************************************)
Create(r, at, kind, next, cleans) ==
    /\ pc[r] = at
    /\ \E o \in Outcomes :
         LET made == objs[r] \cup (IF o.done THEN {kind} ELSE {}) IN
         \/ /\ o.ok
            /\ objs' = [objs EXCEPT ![r] = made]
            /\ IF next = "return" THEN Returns(r)
               ELSE Goto(r, next) /\ UNCHANGED ret
         \/ /\ ~o.ok
            /\ \E left \in Left(made, o.alive /\ cleans) : objs' = [objs EXCEPT ![r] = left]
            /\ Fails(r)
    /\ UNCHANGED <<spec, process, stopped, image, volume>>

Skip(r, at, next) ==
    /\ pc[r] = at
    /\ Goto(r, next)
    /\ UNCHANGED <<spec, ret, objs, process, stopped, image, volume>>

\* The fence in Controller.launch: the previous run is over, as far as the
\* store knows (its Launch failed, or it was stopped, or it was seen exited).
Over(q) ==
    \/ pc[q] = "idle"
    \/ pc[q] = "done" /\ (ret[q] = "error" \/ stopped[q] \/ proc[q] = "exited")

Begin(r) ==
    /\ pc[r] = "idle"
    /\ Fenced => \A q \in Runs \ {r} : Over(q)
    /\ Goto(r, IF Backend = "docker" THEN "pull" ELSE "getpvc")
    /\ UNCHANGED <<spec, ret, objs, process, stopped, image, volume>>

(***************************************************************************)
(* Docker.                                                                 *)
(***************************************************************************)

\* What HasImage may answer: the truth, or an error when the query fails.
HasImage ==
    {IF image # "none" THEN "yes" ELSE "no"} \cup (IF "has" \in Faults THEN {"error"} ELSE {})

\* pullImage under PullIfNotPresent, the policy launch always sets: skip when
\* the image is known to be local, else ask the registry.
PullImage(has, ok) == image' = IF has # "yes" /\ ok THEN "registry" ELSE image

\* The pull and the fall-back to a local image when it failed.
DockerPull(r) ==
    /\ pc[r] = "pull"
    /\ \E has, again \in HasImage, ok \in {TRUE} \cup (IF "pull" \in Faults THEN {FALSE} ELSE {}) :
         /\ PullImage(has, ok)
         /\ IF "yes" \in {has, again} \/ ok
            THEN Goto(r, "volumes") /\ UNCHANGED ret
            ELSE Fails(r)
    /\ UNCHANGED <<spec, objs, process, stopped, volume>>

\* VolumeCreate is idempotent; the per-job volume is shared by every run.
DockerVolumes(r) ==
    /\ pc[r] = "volumes"
    /\ \E o \in Outcomes :
         /\ volume' = (volume \/ o.done)
         /\ IF o.ok THEN Goto(r, "create") /\ UNCHANGED ret ELSE Fails(r)
    /\ UNCHANGED <<spec, objs, process, stopped, image>>

\* An error leaves nothing to remove: the container's id is not known.
DockerCreate(r) ==
    Create(r, "create", "container", IF spec[r].doc THEN "copy" ELSE "start", FALSE)

DockerCopy(r) == Create(r, "copy", "doc", "start", TRUE)

\* Mutant of DockerStart: a container that failed to start is left behind.
DockerStartLeaves(r) ==
    /\ pc[r] = "start"
    /\ \E o \in Outcomes :
         /\ proc' = [proc EXCEPT ![r] = IF o.done THEN "running" ELSE @]
         /\ IF o.ok THEN Returns(r) ELSE Fails(r)
    /\ UNCHANGED <<spec, objs, code, jobStatus, stopped, image, volume>>

\* ContainerStart; on an error the container is removed by force.
DockerStart(r) ==
    /\ pc[r] = "start"
    /\ \E o \in Outcomes :
         \/ /\ o.ok
            /\ proc' = [proc EXCEPT ![r] = "running"]
            /\ Returns(r)
            /\ UNCHANGED objs
         \/ /\ ~o.ok
            /\ \E left \in Left(objs[r], o.alive) :
                 /\ objs' = [objs EXCEPT ![r] = left]
                 /\ proc' = [proc EXCEPT ![r] =
                               IF left # {} /\ o.done THEN "running" ELSE "none"]
            /\ Fails(r)
    /\ UNCHANGED <<spec, code, jobStatus, stopped, image, volume>>

(***************************************************************************)
(* Kubernetes.                                                             *)
(***************************************************************************)

\* ensurePVC: Get, and Create when there is none.
KubeGetPVC(r) ==
    /\ pc[r] = "getpvc"
    /\ \E o \in Outcomes :
         IF ~o.ok THEN Fails(r)
         ELSE Goto(r, IF volume THEN "cm" ELSE "pvc") /\ UNCHANGED ret
    /\ UNCHANGED <<spec, objs, process, stopped, image, volume>>

\* A concurrent launch may have created the claim since: AlreadyExists is nil.
KubeCreatePVC(r) ==
    /\ pc[r] = "pvc"
    /\ \E o \in Outcomes :
         /\ volume' = (volume \/ o.done)
         /\ IF o.ok THEN Goto(r, "cm") /\ UNCHANGED ret ELSE Fails(r)
    /\ UNCHANGED <<spec, objs, process, stopped, image>>

\* The document as a ConfigMap; this error path does not clean up.
KubeConfigMap(r) ==
    IF spec[r].doc THEN Create(r, "cm", "cm", "secret", FALSE) ELSE Skip(r, "cm", "secret")

\* The environment as a Secret.
KubeSecret(r) ==
    IF spec[r].env THEN Create(r, "secret", "secret", "job", TRUE) ELSE Skip(r, "secret", "job")

KubeJob(r) == Create(r, "job", "job", "svc", TRUE)

KubeService(r) == Create(r, "svc", "svc", "return", TRUE)

\* What the Job's pod mounts and reads, from buildJob.
PodNeeds(r) ==
    (IF spec[r].doc THEN {"cm"} ELSE {}) \cup (IF spec[r].env THEN {"secret"} ELSE {})

\* The kubelet starts the Job's pod, once (BackoffLimit 0), when what it
\* mounts is there; it starts it while Launch may still be creating.
PodStarts(r) ==
    /\ Backend = "k8s"
    /\ "job" \in objs[r] /\ proc[r] = "none"
    /\ PodNeeds(r) \subseteq objs[r] /\ volume
    /\ proc' = [proc EXCEPT ![r] = "running"]
    /\ UNCHANGED <<spec, pc, ret, objs, code, jobStatus, stopped, image, volume>>

\* A pod whose Job is deleted ends in the background.
PodTerminates(r) ==
    /\ Backend = "k8s"
    /\ "job" \notin objs[r] /\ proc[r] = "running"
    /\ \E c \in Codes : code' = [code EXCEPT ![r] = c]
    /\ proc' = [proc EXCEPT ![r] = "exited"]
    /\ UNCHANGED <<spec, pc, ret, objs, jobStatus, stopped, image, volume>>

\* The Job controller notices that the pod ended.
JobObserved(r) ==
    /\ Backend = "k8s"
    /\ "job" \in objs[r] /\ proc[r] = "exited" /\ jobStatus[r] = "active"
    /\ jobStatus' = [jobStatus EXCEPT ![r] = IF code[r] = 0 THEN "succeeded" ELSE "failed"]
    /\ UNCHANGED <<spec, pc, ret, objs, proc, code, stopped, image, volume>>

(***************************************************************************)
(* Both.                                                                   *)
(***************************************************************************)

\* The job ends by itself.
Exit(r) ==
    /\ proc[r] = "running"
    /\ \E c \in Codes : code' = [code EXCEPT ![r] = c]
    /\ proc' = [proc EXCEPT ![r] = "exited"]
    /\ UNCHANGED <<spec, pc, ret, objs, jobStatus, stopped, image, volume>>

\* Docker waits for the container to end; Kubernetes deletes the Job.
\* A container that is gone, or has ended, is stopped without an error.
Stop(r) ==
    /\ ret[r] = "id" /\ ~stopped[r]
    /\ stopped' = [stopped EXCEPT ![r] = TRUE]
    /\ IF Backend = "docker"
       THEN /\ objs' = objs
            /\ IF proc[r] = "running"
               THEN /\ proc' = [proc EXCEPT ![r] = "exited"]
                    /\ \E c \in Codes : code' = [code EXCEPT ![r] = c]
               ELSE UNCHANGED <<proc, code>>
       ELSE /\ objs' = [objs EXCEPT ![r] = @ \ {"job"}]
            /\ UNCHANGED <<proc, code>>
    /\ UNCHANGED <<spec, pc, ret, jobStatus, image, volume>>

\* Remove: the container by force, or the run's four objects; never the volume.
Remove(r) ==
    /\ Removes /\ ret[r] = "id" /\ objs[r] # {}
    /\ \E left \in Left(objs[r], TRUE) : objs' = [objs EXCEPT ![r] = left]
    /\ proc' = [proc EXCEPT ![r] = IF Backend = "docker" /\ objs'[r] = {} THEN "none" ELSE @]
    /\ UNCHANGED <<spec, pc, ret, code, jobStatus, stopped, image, volume>>

\* podExitCode: the terminated container's code, or 1 when the pods cannot
\* be listed or are gone.
PodExitCode(r) == {code[r], 1}

\* What Status may report of a run: its phase and, once exited, its code.
Status(r) ==
    IF Backend = "docker"
    THEN {[phase |-> CASE objs[r] = {} -> "gone"
                       [] proc[r] = "running" -> "running"
                       [] OTHER -> "exited",
           code |-> code[r]]}
    ELSE {[phase |-> CASE "job" \notin objs[r] -> "gone"
                       [] jobStatus[r] = "active" -> "running"
                       [] OTHER -> "exited",
           code |-> c] : c \in IF jobStatus[r] = "failed" THEN PodExitCode(r) ELSE {0}}

Done ==
    /\ \A r \in Runs : pc[r] = "done"
    /\ UNCHANGED vars

Next ==
    \/ \E r \in Runs :
         \/ Begin(r) \/ Exit(r) \/ Stop(r) \/ Remove(r)
         \/ DockerPull(r) \/ DockerVolumes(r) \/ DockerCreate(r) \/ DockerCopy(r) \/ DockerStart(r)
         \/ KubeGetPVC(r) \/ KubeCreatePVC(r) \/ KubeConfigMap(r) \/ KubeSecret(r)
         \/ KubeJob(r) \/ KubeService(r)
         \/ PodStarts(r) \/ PodTerminates(r) \/ JobObserved(r)
    \/ Done

Spec == Init /\ [][Next]_vars

\* The next call of a Launch, and what the cluster does with a Job's pod.
LaunchStep(r) ==
    \/ Begin(r) \/ DockerPull(r) \/ DockerVolumes(r) \/ DockerCreate(r)
    \/ DockerCopy(r) \/ DockerStart(r) \/ KubeGetPVC(r) \/ KubeCreatePVC(r)
    \/ KubeConfigMap(r) \/ KubeSecret(r) \/ KubeJob(r) \/ KubeService(r)
PodStep(r) == PodStarts(r) \/ PodTerminates(r)

\* Every call of a Launch is answered, a Job's pod starts and ends with it, and a caller
\* that uses Remove removes what it stopped.
Fairness ==
    \A r \in Runs : WF_vars(LaunchStep(r)) /\ WF_vars(PodStep(r)) /\ WF_vars(Remove(r))

FairSpec == Spec /\ Fairness

----------------------------------------------------------------------------
Kinds == IF Backend = "docker" THEN {"container", "doc"} ELSE {"cm", "secret", "job", "svc"}

\* Type invariant: every run's Launch, objects and process have their kinds of value.
TypeOK ==
    /\ spec \in [Runs -> LaunchSpec]
    /\ pc \in [Runs -> {"idle", "pull", "volumes", "create", "copy", "start", "getpvc",
                        "pvc", "cm", "secret", "job", "svc", "done"}]
    /\ ret \in [Runs -> {"none", "id", "error"}]
    /\ objs \in [Runs -> SUBSET Kinds]
    /\ proc \in [Runs -> {"none", "running", "exited"}]
    /\ code \in [Runs -> Codes]
    /\ jobStatus \in [Runs -> {"active", "succeeded", "failed"}]
    /\ stopped \in [Runs -> BOOLEAN]
    /\ image \in {"none", "local", "registry"}
    /\ volume \in BOOLEAN

\* What the job's process reads when it starts.
Inputs(r) ==
    IF Backend = "docker" THEN IF spec[r].doc THEN {"doc"} ELSE {} ELSE PodNeeds(r)

\* A run whose Launch returned an id, and that was neither stopped nor removed,
\* has every object it needs: its container or Job, its inputs, its Service.
LaunchedIsWhole ==
    \A r \in Runs :
      ret[r] = "id" /\ ~stopped[r] /\ ~Removes =>
        objs[r] = Inputs(r) \cup (IF Backend = "docker" THEN {"container"} ELSE {"job", "svc"})

\* A Launch that reported an error has taken back every object it created
\* (the error paths of Launch; only the data volume stays).
FailedIsClean == \A r \in Runs : ret[r] = "error" => objs[r] = {}

\* Status reports a run as exited only when its process ended, and with code 0
\* exactly when the process ended with 0: the restart policy depends on it.
StatusTrue ==
    \A r \in Runs : \A s \in Status(r) :
      ret[r] = "id" /\ s.phase = "exited" =>
        proc[r] = "exited" /\ (s.code = 0 <=> code[r] = 0)

\* With launch's fence, no two processes of one job run at once.
OneProcess == Cardinality({r \in Runs : proc[r] = "running"}) <= 1

\* An image that was built locally is never replaced by a registry's.
LocalNeverPulled == [][image = "local" => image' = "local"]_vars

\* A stopped run's container or objects are removed once a later launch of the
\* job has succeeded.
OldRemoved ==
    \A q, r \in Runs :
      (q # r /\ stopped[q] /\ ret[r] = "id" /\ ~stopped[r]) ~> (objs[q] = {} \/ stopped[r])

=============================================================================
