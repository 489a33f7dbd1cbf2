------------------------------- MODULE Planner -------------------------------
(***************************************************************************)
(* BuildPlan: the loop that groups a job's operators into stages and gives *)
(* every stateful instance the owner name its state is checkpointed under. *)
(* One step is one iteration; an operator is its place in the chain.       *)
(***************************************************************************)
EXTENDS Integers, Sequences, FiniteSets, SequencesExt

CONSTANTS MaxOps,    \* bound on the length of the chain
          Pars       \* parallelisms and partition counts tried, 0 included

VARIABLES ops,       \* the operators of the job
          i,         \* the next one to place
          group, groupPar,            \* stateless operators not yet in a stage
          counts,    \* stages built so far, by type
          clones,    \* length of workerOps
          stages, result

vars == <<ops, i, group, groupPar, counts, clones, stages, result>>

\* Map, Filter, FlatMap and Process are single processors; Window and Reduce are
\* channel based and cloneable; a user's operator may be channel based only.
Kinds == {"single", "keyby", "stateful", "channel"}
Op == [kind : Kinds, par : Pars]

Parallelism(op) == IF op.par < 1 THEN 1 ELSE op.par

Init ==
  /\ ops \in UNION {[1 .. n -> Op] : n \in 0 .. MaxOps}
  /\ \A k \in DOMAIN ops : ops[k].kind \in {"stateful", "channel"} => ops[k].par = CHOOSE p \in Pars : TRUE
  /\ i = 1 /\ group = <<>> /\ groupPar = 1
  /\ counts = [stateless |-> 0, keyed |-> 0, channel |-> 0]
  /\ clones = 0
  /\ stages = <<[type |-> "source", name |-> <<"source", 0>>, ops |-> <<>>, par |-> 1, owners |-> <<>>]>>
  /\ result = "building"

Stage(type, n, members, par, owners) ==
  [type |-> type, name |-> <<type, n>>, ops |-> members, par |-> par, owners |-> owners]

\* flush: the stages with the pending group appended, and their count.
Flushed ==
  IF group = <<>> THEN stages
  ELSE Append(stages, Stage("stateless", counts.stateless, group, groupPar, <<>>))
FlushedCount == counts.stateless + (IF group = <<>> THEN 0 ELSE 1)

Flush ==
  /\ group' = <<>>
  /\ counts' = [counts EXCEPT !.stateless = FlushedCount]

\* Mutant of TakeStateful: stops before the last one.
TakeStatefulShort(k) ==
  LET run == {j \in k .. Len(ops) - 1 : \A m \in k .. j : ops[m].kind = "stateful"}
  IN  [j \in 1 .. Cardinality(run) |-> k + j - 1]

\* takeStateful: the run of cloneable operators from place k on.
TakeStateful(k) ==
  LET run == {j \in k .. Len(ops) : \A m \in k .. j : ops[m].kind = "stateful"}
  IN  [j \in 1 .. Cardinality(run) |-> k + j - 1]

\* OnClone numbers the clones of all keyed stages in one sequence.
WorkerOwner(w, j, n) == <<"worker", clones + (w - 1) * n + j - 1>>

\* NewKeyedStage: one clone of every operator for each partition.
KeyedOwners(p, n) == [x \in 1 .. p * n |-> WorkerOwner((x - 1) \div n + 1, ((x - 1) % n) + 1, n)]

Rejected ==
  /\ result = "building" /\ i <= Len(ops)
  /\ ops[i].kind = "keyby" /\ ops[i].par <= 0
  /\ result' = "rejected"
  /\ UNCHANGED <<ops, i, group, groupPar, counts, clones, stages>>

Router ==
  /\ result = "building" /\ i <= Len(ops)
  /\ ops[i].kind = "keyby" /\ ops[i].par > 0
  /\ LET taken == TakeStateful(i + 1)
         p == ops[i].par
     IN /\ stages' = Append(Flushed, Stage("keyed", counts.keyed, <<i>> \o taken, p,
                                           KeyedOwners(p, Len(taken))))
        /\ clones' = clones + p * Len(taken)
        /\ i' = i + Len(taken) + 1
  /\ group' = <<>>
  /\ counts' = [counts EXCEPT !.stateless = FlushedCount, !.keyed = @ + 1]
  /\ UNCHANGED <<ops, groupPar, result>>

Starts(par) == group # <<>> /\ par # groupPar

Single ==
  /\ result = "building" /\ i <= Len(ops)
  /\ ops[i].kind = "single"
  /\ LET par == Parallelism(ops[i])
     IN /\ groupPar' = par
        /\ IF Starts(par)
             THEN /\ stages' = Flushed /\ group' = <<i>>
                  /\ counts' = [counts EXCEPT !.stateless = FlushedCount]
             ELSE /\ group' = Append(group, i) /\ UNCHANGED <<stages, counts>>
  /\ i' = i + 1
  /\ UNCHANGED <<ops, clones, result>>

ChannelOp ==
  /\ result = "building" /\ i <= Len(ops)
  /\ ops[i].kind \in {"stateful", "channel"}
  /\ stages' = Append(Flushed, Stage("channel", counts.channel, <<i>>, 1,
                        IF ops[i].kind = "stateful" THEN <<<<"op", i - 1>>>> ELSE <<>>))
  /\ group' = <<>>
  /\ counts' = [counts EXCEPT !.stateless = FlushedCount, !.channel = @ + 1]
  /\ i' = i + 1
  /\ UNCHANGED <<ops, groupPar, clones, result>>

Finish ==
  /\ result = "building" /\ i > Len(ops)
  /\ stages' = Append(Flushed, Stage("sink", 0, <<>>, 1, <<>>))
  /\ Flush
  /\ result' = "built"
  /\ UNCHANGED <<ops, i, groupPar, clones>>

Done == result # "building" /\ UNCHANGED vars

Next == Rejected \/ Router \/ Single \/ ChannelOp \/ Finish \/ Done
Spec == Init /\ [][Next]_vars

\* DescribePlan: one node a stage, one edge between neighbours.
DescribePlan ==
  [nodes |-> {stages[k].name : k \in DOMAIN stages},
   edges |-> {<<stages[k].name, stages[k + 1].name>> : k \in 1 .. Len(stages) - 1}]

----------------------------------------------------------------------------
(* Properties. *)

Placed == FlattenSeq([k \in DOMAIN stages |-> stages[k].ops]) \o group

\* Every operator is placed once and in the order of the chain, at every moment
\* of the loop and whatever it skips.
OrderKept == Placed = [k \in 1 .. i - 1 |-> k]

\* A stateless stage runs all its operators at the parallelism each asked for,
\* and neighbours that could share a stage do.
StatelessGroups ==
  /\ \A k \in DOMAIN stages : stages[k].type = "stateless" =>
       \A m \in DOMAIN stages[k].ops : Parallelism(ops[stages[k].ops[m]]) = stages[k].par
  /\ \A k \in 1 .. Len(stages) - 1 :
       stages[k].type = "stateless" /\ stages[k + 1].type = "stateless" =>
         stages[k].par # stages[k + 1].par

\* A stateful operator runs in the workers of a router exactly when only
\* stateful operators are between the two; otherwise it runs alone.
KeyedByRouter ==
  \A k \in DOMAIN stages : \A m \in DOMAIN stages[k].ops :
    LET j == stages[k].ops[m]
    IN  ops[j].kind = "stateful" =>
          (stages[k].type = "keyed" <=>
             \E r \in 1 .. j - 1 : ops[r].kind = "keyby" /\ \A x \in r + 1 .. j : ops[x].kind = "stateful")

Owners == FlattenSeq([k \in DOMAIN stages |-> stages[k].owners])

\* No two instances of a plan own the same state: every partition of every keyed
\* stage and every operator that runs alone has a name of its own.
OwnersDistinct == \A a, b \in DOMAIN Owners : Owners[a] = Owners[b] => a = b

\* The dashboard's graph is one path over as many nodes as there are stages, so
\* a metric label belongs to one node.
GraphIsPath ==
  result = "built" =>
    /\ Cardinality(DescribePlan.nodes) = Len(stages)
    /\ Cardinality(DescribePlan.edges) = Len(stages) - 1
=============================================================================
