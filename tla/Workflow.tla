------------------------------ MODULE Workflow -------------------------------
(***************************************************************************)
(* A workflow document on its way to an execution environment: Validate,   *)
(* then the compiler's steps in order (workflow/validate.go and            *)
(* workflow/compiler).  A field is kept as far as a check or a step looks  *)
(* at it; wherever several required fields are checked alike, one Boolean  *)
(* stands for "all present".  Directories and names are JobDirs' subject.  *)
(***************************************************************************)
EXTENDS Naturals, SequencesExt

CONSTANTS
    Areas,       \* the parts of the document that vary, one at a time: of
                 \* "structure", "ends", "env", "source", "sink", "postgres",
                 \* "operator" and "pipeline"
    MaxOps       \* longest pipeline

VARIABLES
    wf,          \* the parsed document
    caller,      \* who compiles it: a runner, or Controller.validate
    pc,          \* the next step of CompileWorkflow
    dirs,        \* directories on disk: <<resource, the root it is under>>
    placed,      \* operators on the stream so far
    pool,        \* whether a Postgres connection pool is open
    sink,        \* the sink built: none or its policy
    outcome,     \* "none", "ok", "error" or "panic"
    delivery

vars == <<wf, caller, pc, dirs, placed, pool, sink, outcome, delivery>>

(***************************************************************************)
(* Documents.                                                              *)
(***************************************************************************)
Secret == {"none", "known", "unknown", "malformed"}      \* a ${NAME} in a field
Refs == {"map", "flatMap", "process"}                    \* operators by reference
Built == {"filter", "selectFields", "renameFields", "setFields", "keyBy", "reduce", "window"}

NoWindow == [type |-> "tumbling", size |-> 2, slide |-> 0, gap |-> 0]
\* arg: "ok", "empty" for a missing required field, "unknown" for a comparison
\* or function that does not exist.
OpOf(id, type) ==
    [id |-> id, type |-> type, blocks |-> {type}, arg |-> "ok", win |-> NoWindow]

\* usable: the connector's constructor accepts what it is given: TLS files load,
\* credentials, reader options and the DSN are well formed.
BaseSource ==
    [type |-> "kafka", block |-> TRUE, complete |-> TRUE, eo |-> FALSE, group |-> TRUE,
     parallel |-> FALSE, known |-> TRUE, wm |-> {}, secret |-> "none", usable |-> TRUE]
BaseSink ==
    [type |-> "kafka", block |-> TRUE, complete |-> TRUE, onError |-> "fail", async |-> FALSE,
     known |-> TRUE, safe |-> TRUE, secret |-> "none", usable |-> TRUE,
     mode |-> "", mapping |-> {"k", "v"}, conflict |-> {}, update |-> {}]
\* creatable: the configured directories; refused: the job's directories, below
\* a configured one or the data root, that the file system will not make.
BaseEnv ==
    [buffer |-> TRUE, ckpt |-> {1}, ckptDir |-> FALSE, state |-> "memory", stateDir |-> FALSE,
     creatable |-> TRUE, refused |-> {}]
BaseDoc ==
    [version |-> TRUE, name |-> TRUE, source |-> BaseSource, sink |-> BaseSink,
     env |-> BaseEnv, pipeline |-> <<OpOf(1, "keyBy"), OpOf(2, "reduce")>>]

WithType(r, t) == [r EXCEPT !.type = t]
SourceTypes == {"kafka", "slice", "generator"}
SinkTypes == {"kafka", "txnKafka", "postgres", "stdout", "blackhole"}

Structures ==
    {[BaseDoc EXCEPT !.version = v, !.name = n, !.source = WithType(@, s), !.sink = WithType(@, k)] :
       v \in BOOLEAN, n \in BOOLEAN, s \in SourceTypes \cup {"", "other"},
       k \in SinkTypes \cup {"", "other", "transactional_kafka"}}
Ends ==
    {[BaseDoc EXCEPT !.source = [WithType(@, s) EXCEPT !.eo = e],
                     !.sink = [WithType(@, k) EXCEPT !.usable = u], !.env = [@ EXCEPT !.ckpt = c]] :
       s \in SourceTypes, e \in BOOLEAN, k \in SinkTypes, u \in BOOLEAN, c \in {{}, {0}, {1}}}
Environments ==
    {[BaseDoc EXCEPT !.env = e] :
       e \in [buffer : BOOLEAN, ckpt : {{}, {0}, {1}}, ckptDir : BOOLEAN, stateDir : BOOLEAN,
              state : {"none", "", "memory", "pebble", "other"}, creatable : BOOLEAN,
              refused : SUBSET {"checkpoints", "state"}]}
Sources ==
    {[BaseDoc EXCEPT !.source = s] :
       s \in [type : {"kafka"}, block : BOOLEAN, complete : BOOLEAN, eo : {FALSE}, group : BOOLEAN,
              parallel : BOOLEAN, known : BOOLEAN, wm : {{}, {0}, {1}}, secret : Secret,
              usable : BOOLEAN]}
Sinks ==
    {[BaseDoc EXCEPT !.sink = [@ EXCEPT !.type = t, !.block = b, !.complete = c, !.onError = o,
                               !.async = a, !.known = k, !.secret = s, !.usable = u]] :
       t \in SinkTypes \ {"txnKafka"}, u \in BOOLEAN, b \in BOOLEAN, c \in BOOLEAN, a \in BOOLEAN,
       o \in {"", "drop", "fail", "dlq", "other"}, k \in BOOLEAN, s \in Secret}
Tables ==
    {[BaseDoc EXCEPT !.sink = [@ EXCEPT !.type = "postgres", !.mode = m, !.mapping = mp,
                               !.conflict = cc, !.update = uc, !.safe = s]] :
       m \in {"", "insert", "upsert", "other"}, mp \in SUBSET {"k", "v"},
       cc \in SUBSET {"k", "x"}, uc \in SUBSET {"v", "x"}, s \in BOOLEAN}
Operators ==
    {[BaseDoc EXCEPT !.pipeline = <<OpOf(1, "keyBy"), o>>] :
       o \in [id : {0, 1, 2}, type : Built \cup Refs \cup {"", "other"}, arg : {"ok", "empty", "unknown"},
              blocks : {{}, {"filter"}, {"window"}, {"map"}, {"filter", "map"}}, win : {NoWindow}]
             \cup {[OpOf(2, "window") EXCEPT !.win = w] :
                     w \in [type : {"", "tumbling", "sliding", "session", "other"},
                            size : 0 .. 2, slide : 0 .. 2, gap : 0 .. 1]}
             \cup {[OpOf(2, t) EXCEPT !.arg = a] :
                     t \in Built \cup Refs, a \in {"ok", "empty", "unknown"}}}
Pipelines ==
    {[BaseDoc EXCEPT !.pipeline = [i \in DOMAIN s |-> OpOf(i, s[i])],
                     !.sink = WithType(@, "postgres")] :
       s \in BoundedSeq({"filter", "keyBy", "reduce", "window", "map"}, MaxOps)}

Documents ==
    UNION {CASE a = "structure" -> Structures [] a = "ends" -> Ends [] a = "env" -> Environments
             [] a = "source" -> Sources [] a = "sink" -> Sinks [] a = "postgres" -> Tables
             [] a = "operator" -> Operators [] a = "pipeline" -> Pipelines : a \in Areas}

Init ==
    /\ wf \in Documents
    /\ caller \in {"runner", "controller"}
    /\ pc = "validate" /\ dirs = {} /\ placed = <<>> /\ pool = FALSE /\ sink = {}
    /\ outcome = "none" /\ delivery = "none"

(***************************************************************************)
(* Validate: the document has no problem.  Every check is made whatever    *)
(* the others found.                                                       *)
(***************************************************************************)
structural ==
    /\ wf.version /\ wf.name
    /\ wf.source.type \in SourceTypes /\ wf.sink.type \in SinkTypes
    /\ \A i \in DOMAIN wf.pipeline :
         LET op == wf.pipeline[i] IN
           /\ op.id # 0
           /\ \A j \in 1 .. i - 1 : wf.pipeline[j].id # op.id
           /\ op.type \in Built \cup Refs
           /\ op.blocks = {op.type}

\* Mutant of envConfig: the interval is left to the compiler.
envConfigNoInterval ==
    LET e == wf.env IN
      /\ e.buffer
      /\ e.ckpt # {} /\ e.ckptDir => e.creatable
      /\ e.state \in {"none", "memory", "pebble"}
      /\ e.state = "pebble" /\ e.stateDir => e.creatable

\* A configured directory must be creatable; Validate creates it to find out.
envConfig ==
    LET e == wf.env IN
      /\ e.buffer
      /\ 0 \notin e.ckpt
      /\ e.ckpt # {} /\ e.ckptDir => e.creatable
      /\ e.state \in {"none", "memory", "pebble"}
      /\ e.state = "pebble" /\ e.stateDir => e.creatable

ensureDir ==
    LET e == wf.env IN
      {<<r, "configured">> :
         r \in {x \in {"checkpoints", "state"} :
                  /\ e.creatable
                  /\ x = "checkpoints" => e.ckpt # {} /\ e.ckptDir
                  /\ x = "state" => e.state = "pebble" /\ e.stateDir}}

sourceConfig ==
    LET s == wf.source IN
      s.type = "kafka" =>
        s.block /\ s.complete /\ ~(s.parallel /\ s.group) /\ 0 \notin s.wm

\* Which of the postgres columns fit the mode and the mapping.
columnsFit(s) ==
    /\ CASE s.mode \in {"", "insert"} -> s.conflict = {} /\ s.update = {}
         [] s.mode = "upsert" -> s.conflict # {}
         [] OTHER -> FALSE
    /\ s.conflict \subseteq s.mapping /\ s.update \subseteq s.mapping

sinkConfig ==
    LET s == wf.sink IN
      /\ s.type \in {"kafka", "txnKafka", "postgres"} => s.block /\ s.complete
      /\ s.type = "postgres" => s.mapping # {} /\ columnsFit(s)

windowConfig(w) ==
    CASE w.type = "tumbling" -> w.size > 0
      [] w.type = "sliding" -> w.size > 0 /\ w.slide > 0 /\ w.slide <= w.size
      [] w.type = "session" -> w.gap > 0
      [] OTHER -> FALSE

\* The first block that is set decides what is checked; the comparison of a
\* filter is only required to be there.
configured(op) ==
    LET first == IF "filter" \in op.blocks THEN "filter" ELSE CHOOSE t \in op.blocks : TRUE IN
    op.blocks # {} =>
      CASE first = "window" -> windowConfig(op.win)
        [] first = "reduce" -> op.arg = "ok"
        [] OTHER -> op.arg # "empty"

configuration ==
    envConfig /\ sourceConfig /\ sinkConfig /\ \A i \in DOMAIN wf.pipeline : configured(wf.pipeline[i])

\* pipeline: a keyBy somewhere before a reduce or window, and no reduce between
\* a window and the keyBy it belongs to.
pipelineOrder ==
    LET typeAt(i) == wf.pipeline[i].type
        keyBys(i) == {j \in 1 .. i - 1 : typeAt(j) = "keyBy"} IN
    \A i \in DOMAIN wf.pipeline :
      /\ typeAt(i) \in {"reduce", "window"} => keyBys(i) # {}
      /\ typeAt(i) = "window" =>
           \A r \in 1 .. i - 1 : typeAt(r) = "reduce" => \E j \in keyBys(i) : r < j

sourceEO == wf.source.type = "kafka" /\ wf.source.block /\ wf.source.eo
checkpointed == 1 \in wf.env.ckpt

\* validator.deliveryGuarantee: exactly-once is asked for whole or not at all.
wholeExactlyOnce ==
    LET sinkTxn == wf.sink.type = "txnKafka" IN
      sourceEO \/ sinkTxn => sourceEO /\ sinkTxn /\ checkpointed

----------------------------------------------------------------------------
(***************************************************************************)
(* CompileWorkflow, one action a step; a step that fails returns, and a    *)
(* constructor that rejects its options panics past its callers, whose     *)
(* deferred calls still run.                                               *)
(***************************************************************************)
Go(from, ok, to) ==
    /\ pc = from
    /\ pc' = IF ok THEN to ELSE "return"
    /\ outcome' = IF ok THEN outcome ELSE "error"
Panic ==
    pc' = "return" /\ outcome' = "panic"

Validate ==
    /\ Go("validate", structural /\ configuration /\ pipelineOrder /\ wholeExactlyOnce, "resolve")
    /\ dirs' = dirs \cup ensureDir
    /\ UNCHANGED <<wf, caller, placed, pool, sink, delivery>>

\* A reference that no resolver knows, or that is not of the form ${NAME}, is
\* an error; a sink's references are looked at by its type.
resolved(s) == s \in {"none", "known"}
Resolve ==
    /\ Go("resolve", /\ wf.source.block => resolved(wf.source.secret)
                     /\ wf.sink.type \in {"kafka", "txnKafka", "postgres"} => resolved(wf.sink.secret),
          "source")
    /\ UNCHANGED <<wf, caller, dirs, placed, pool, sink, delivery>>

\* known: startFrom, format and SASL mechanism are among those the compiler has.
compileKafkaSource(s) ==
    s.block /\ s.complete /\ ~s.parallel /\ s.group /\ s.known /\ 0 \notin s.wm
CompileSource ==
    LET s == wf.source
        ok == s.type \in SourceTypes /\ (s.type = "kafka" => compileKafkaSource(s)) IN
    /\ \/ (ok /\ s.type = "kafka" => s.usable) /\ Go("source", ok, "runtime")
       \/ pc = "source" /\ ok /\ s.type = "kafka" /\ ~s.usable /\ Panic
    /\ UNCHANGED <<wf, caller, dirs, placed, pool, sink, delivery>>

jobDirs ==
    {<<"checkpoints", IF wf.env.ckptDir THEN "configured" ELSE "data">> : i \in wf.env.ckpt}
    \cup (IF wf.env.state = "pebble" THEN {<<"state", IF wf.env.stateDir THEN "configured" ELSE "data">>}
          ELSE {})

\* CompileRuntime creates the job's directories, that of the checkpoints first;
\* one that cannot be made is an error.
CompileRuntime ==
    LET made(r) == {d \in jobDirs : d[1] = r /\ r \notin wf.env.refused}
        wanted(r) == {d \in jobDirs : d[1] = r}
        ckptOK == wf.env.buffer /\ 0 \notin wf.env.ckpt /\ made("checkpoints") = wanted("checkpoints")
        stateOK == wf.env.state \in {"none", "", "memory", "pebble"} /\ made("state") = wanted("state") IN
    /\ Go("runtime", ckptOK /\ stateOK, "operators")
    /\ dirs' = dirs \cup (IF ckptOK THEN made("checkpoints") ELSE {})
                    \cup (IF ckptOK /\ stateOK THEN made("state") ELSE {})
    /\ UNCHANGED <<wf, caller, placed, pool, sink, delivery>>

\* applyOperator: only the built-in operators compile.  buildWindowAssigner and
\* buildReducer check again what Validate checked.
compilable(op) ==
    /\ op.type \in Built
    /\ op.type = "reduce" => op.arg = "ok"
    /\ op.type = "window" =>
         CASE op.win.type = "tumbling" -> op.win.size > 0
           [] op.win.type = "sliding" -> op.win.size > 0 /\ op.win.slide > 0
           [] op.win.type = "session" -> op.win.gap > 0
           [] OTHER -> FALSE

ApplyOperator ==
    LET next == Len(placed) + 1 IN
      /\ next <= Len(wf.pipeline)
      /\ Go("operators", compilable(wf.pipeline[next]), "operators")
      /\ placed' = IF pc' = "operators" THEN Append(placed, wf.pipeline[next]) ELSE placed
      /\ UNCHANGED <<wf, caller, dirs, pool, sink, delivery>>

\* What a compiler step checks before it constructs a sink of each type.
compileKafkaSink(s) == s.block /\ s.complete /\ s.known /\ s.onError \in {"", "drop", "fail"}
compileTxnKafkaSink(s) == s.block /\ s.complete /\ s.known
compilePostgresSink(s) ==
    /\ s.block /\ s.complete /\ s.safe /\ s.mapping # {}
    /\ columnsFit(s)
    /\ s.onError \in {"", "drop", "fail"}

compileFailurePolicy(onError) == IF onError = "fail" THEN "fail" ELSE "drop"

deliveryGuarantee ==
    CASE sourceEO /\ wf.sink.type \in {"txnKafka", "transactional_kafka"} /\ checkpointed -> "exactly-once"
      [] ~(sourceEO /\ wf.sink.type \in {"txnKafka", "transactional_kafka"}) /\ checkpointed -> "at-least-once"
      [] OTHER -> "at-most-once"

SinkOK ==
    LET s == wf.sink IN
      CASE s.type = "kafka" -> compileKafkaSink(s)
        [] s.type \in {"txnKafka", "transactional_kafka"} -> compileTxnKafkaSink(s)
        [] s.type = "postgres" -> compilePostgresSink(s)
        [] OTHER -> s.type \in {"stdout", "blackhole"}

\* The sink comes last: constructing a Postgres sink opens its pool.  The other
\* sinks with options to reject are those of Kafka.
CompileSink ==
    LET s == wf.sink
        taken == s.type \in {"stdout", "blackhole"} \/ s.usable IN
      /\ pc = "operators" /\ Len(placed) = Len(wf.pipeline)
      /\ \/ (SinkOK => taken) /\ pc' = "return" /\ outcome' = IF SinkOK THEN "ok" ELSE "error"
         \/ SinkOK /\ ~taken /\ Panic
      /\ sink' = IF outcome' = "ok" THEN {[policy |-> compileFailurePolicy(s.onError), async |-> s.async]}
                 ELSE sink
      /\ pool' = (outcome' = "ok" /\ s.type = "postgres")
      /\ delivery' = IF outcome' = "ok" THEN deliveryGuarantee ELSE delivery
      /\ UNCHANGED <<wf, caller, dirs, placed>>

\* The controller compiled in a throwaway data root, which it removes.
Return ==
    /\ pc = "return" /\ pc' = "returned"
    /\ dirs' = IF caller = "controller" THEN {d \in dirs : d[2] # "data"} ELSE dirs
    /\ UNCHANGED <<wf, caller, placed, pool, sink, outcome, delivery>>

Done == pc = "returned" /\ UNCHANGED vars

Next ==
    \/ Validate \/ Resolve \/ CompileSource \/ CompileRuntime \/ ApplyOperator
    \/ CompileSink \/ Return \/ Done
Spec == Init /\ [][Next]_vars

----------------------------------------------------------------------------
(* Properties. *)

\* A compilation that fails leaves no connection pool behind: the Postgres sink
\* is the last thing that can fail, and it checks everything before it connects.
NoPoolOnError == outcome \in {"error", "panic"} => ~pool

\* Exactly-once is never half configured: a compiled workflow in which either
\* end asks for it has the source, the sink and the checkpoints it takes.
ExactlyOnceWhole ==
    outcome = "ok" /\ (sourceEO \/ wf.sink.type = "txnKafka") => delivery = "exactly-once"

\* The stream that is built has a keyBy before every reduce and window, and no
\* window over the output of a reduce of the same keyBy.
AggregatesKeyed ==
    outcome = "ok" =>
      \A i \in DOMAIN placed :
        placed[i].type \in {"reduce", "window"} =>
          \E j \in 1 .. i - 1 :
            /\ placed[j].type = "keyBy"
            /\ placed[i].type = "window" => \A r \in j .. i - 1 : placed[r].type # "reduce"

\* What only the step the compiler is at knows: the secrets; its formats and
\* mechanisms, that it takes no parallel source, safe names, and what the
\* constructors reject; whether the job's own directories can be made; that it
\* takes no operator by reference.
CompilerOnly ==
    \/ pc = "resolve" /\ ~(resolved(wf.source.secret) /\ resolved(wf.sink.secret))
    \/ pc = "source" /\ ~(wf.source.group /\ wf.source.known /\ wf.source.usable)
    \/ pc = "runtime" /\ \E d \in jobDirs : d[1] \in wf.env.refused
    \/ /\ pc = "operators" /\ Len(placed) < Len(wf.pipeline)
       /\ wf.pipeline[Len(placed) + 1].type \in Refs
    \/ /\ pc = "operators" /\ Len(placed) = Len(wf.pipeline)
       /\ \/ ~(wf.sink.known /\ wf.sink.safe /\ wf.sink.usable)
          \/ wf.sink.onError \in {"dlq", "other"}

\* Compile "returns an error" when the document has something it cannot build.
NeverPanics == outcome # "panic"

\* An invalid workflow never reaches the runtime: a filter of a compiled
\* workflow has a comparison that exists.
FiltersExist ==
    outcome = "ok" =>
      \A i \in DOMAIN placed : placed[i].type = "filter" => placed[i].arg # "unknown"

\* A workflow reported as at-least-once has a sink that does not drop records.
GuaranteeHolds ==
    outcome = "ok" /\ delivery = "at-least-once" =>
      \A s \in sink : s.policy = "fail" /\ ~s.async

\* The controller's validation leaves nothing on disk.
ValidationTouchesNothing == pc = "returned" /\ caller = "controller" => dirs = {}

=============================================================================
