------------------------------ MODULE Capacity ------------------------------
(***************************************************************************)
(* Capacity of the three backends: from the containers a backend lists, to *)
(* the job slots it reports as used, available and total.  One state is    *)
(* one call: its host, its containers and its configuration.               *)
(*                                                                         *)
(* CPU and memory are counted in small units; int is modelled with the     *)
(* largest value MaxInt, beyond which a sum wraps around.                  *)
(***************************************************************************)
EXTENDS Integers, FiniteSets, FiniteSetsExt

CONSTANTS
    MaxInt,     \* the largest int
    MaxTotal,   \* the largest host
    Defaults    \* per-job defaults that parse, in units (DefaultJobCPU, DefaultJobMemory)

(***************************************************************************)
(* A container as the daemon lists it.  cpu and mem are the limits it was  *)
(* created with (0: none); seen: ContainerInspect answers.                 *)
(***************************************************************************)
Slot == {"running", "created", "restarting"}
Containers ==
    [state : {"running"}, managed : {FALSE}, cpu : {1}, mem : {1}, seen : {TRUE}]
    \cup [state : {"created", "exited", "paused"}, managed : {TRUE}, cpu : {1}, mem : {1}, seen : {TRUE}]
    \cup [state : {"running"}, managed : {TRUE}, cpu : {0, 1, 2}, mem : {0, 1}, seen : BOOLEAN]

Configs == [max : 0..2, cpu : Defaults, mem : Defaults]
Hosts == [cpu : 0..MaxTotal, mem : 0..MaxTotal]

VARIABLES host, containers, cfg
vars == <<host, containers, cfg>>

Ids == {1, 2}

Init ==
    /\ host \in Hosts
    /\ containers \in UNION {[I -> Containers] : I \in {{}, {1}, Ids}}
    /\ cfg \in Configs

Next == UNCHANGED vars
Spec == Init /\ [][Next]_vars

----------------------------------------------------------------------------
Wrap(n) == IF n > MaxInt THEN n - 2 * (MaxInt + 1) ELSE n
Least(a, b) == IF a < b THEN a ELSE b
AtLeastZero(n) == IF n > 0 THEN n ELSE 0

\* Docker: the managed containers that run or are about to.
Used == {i \in DOMAIN containers : containers[i].managed /\ containers[i].state \in Slot}

\* What they reserve of one dimension: their limit, or the default when they
\* have none or cannot be inspected.
Reserved(dim) ==
    MapThenSumSet(
        LAMBDA i : IF containers[i].seen /\ containers[i][dim] > 0
                   THEN containers[i][dim] ELSE cfg[dim],
        Used)

\* Mutant of ByDimension: the division rounds up.
ByDimensionUp(dim) ==
    IF cfg[dim] > 0 /\ host[dim] > 0
    THEN (AtLeastZero(host[dim] - Reserved(dim)) + cfg[dim] - 1) \div cfg[dim]
    ELSE MaxInt

\* The jobs of default size that still fit in one dimension; unlimited when
\* the default or the host's size is zero.
ByDimension(dim) ==
    IF cfg[dim] > 0 /\ host[dim] > 0
    THEN AtLeastZero(host[dim] - Reserved(dim)) \div cfg[dim]
    ELSE MaxInt

ByMax == IF cfg.max > 0 THEN AtLeastZero(cfg.max - Cardinality(Used)) ELSE MaxInt

DockerAvailable == Least(ByDimension("cpu"), Least(ByDimension("mem"), ByMax))

DockerCapacity ==
    [used |-> Cardinality(Used), available |-> {DockerAvailable},
     total |-> {Wrap(Cardinality(Used) + DockerAvailable)}]

\* Kubernetes: the Jobs with an active pod or with none yet, not those that
\* ended.  Only a configured limit yields slot counts.
KubeCapacity ==
    LET used == Cardinality({i \in DOMAIN containers :
                               containers[i].managed /\ containers[i].state # "exited"})
        available == AtLeastZero(cfg.max - used)
    IN  [used |-> used,
         available |-> IF cfg.max > 0 THEN {available} ELSE {},
         total |-> IF cfg.max > 0 THEN {used + available} ELSE {}]

\* The test backend: without a limit it reports no free slot.
FakeCapacity ==
    LET used == Cardinality({i \in DOMAIN containers :
                               containers[i].managed /\ containers[i].state = "running"})
        available == IF cfg.max > 0 THEN AtLeastZero(cfg.max - used) ELSE 0
    IN  [used |-> used, available |-> {available}, total |-> {used + available}]

\* Controller.Submit launches the job's container; it does not ask Capacity.
Submit(i) ==
    /\ i \notin DOMAIN containers
    /\ containers' = [j \in DOMAIN containers \cup {i} |->
                        IF j = i THEN [state |-> "running", managed |-> TRUE, cpu |-> 0, mem |-> 0, seen |-> TRUE]
                        ELSE containers[j]]
    /\ UNCHANGED <<host, cfg>>

SubmitSpec ==
    /\ Init /\ DOMAIN containers = {}
    /\ [][\E i \in Ids : Submit(i)]_vars

----------------------------------------------------------------------------
\* Type invariant: one call's host, containers and configuration.
TypeOK ==
    /\ host \in Hosts /\ cfg \in Configs
    /\ \A i \in DOMAIN containers : i \in Ids /\ containers[i] \in Containers
    /\ DockerCapacity.available \subseteq 0..MaxInt

\* n more jobs of default size respect the host and the configured limit.
Fits(n) ==
    /\ cfg.cpu > 0 /\ host.cpu > 0 /\ n > 0 => Reserved("cpu") + n * cfg.cpu <= host.cpu
    /\ cfg.mem > 0 /\ host.mem > 0 /\ n > 0 => Reserved("mem") + n * cfg.mem <= host.mem
    /\ cfg.max > 0 /\ n > 0 => Cardinality(Used) + n <= cfg.max

\* Docker reports the largest number of default-sized jobs that still fit beside
\* the ones it runs: never one too many (the host would be overcommitted) and
\* never one too few, whichever of the three limits binds.
AvailableIsLargest ==
    LET n == DockerAvailable IN
      /\ n < MaxInt => Fits(n) /\ ~Fits(n + 1)
      /\ n = MaxInt => \A m \in 0..(2 * MaxTotal) : Fits(m)

\* When only the configured limit binds, the three backends agree on the slots,
\* so what the API shows does not depend on where jobs run.
BackendsAgree ==
    (/\ cfg.max > 0 /\ DockerAvailable = ByMax
     /\ \A i \in DOMAIN containers : containers[i].state \in {"running", "exited"}) =>
      DockerCapacity = KubeCapacity /\ KubeCapacity = FakeCapacity

\* Slots are unknown (no value) or exact: total is used plus available.
SlotsAddUp ==
    \A c \in {DockerCapacity, KubeCapacity, FakeCapacity} :
      \A a \in c.available, t \in c.total : t = c.used + a

\* No more jobs run at once than the configured maximum.
WithinMax == cfg.max > 0 => Cardinality(Used) <= cfg.max

=============================================================================
