------------------------------- MODULE JobDirs -------------------------------
(***************************************************************************)
(* Where two compiled workflows keep their state and their checkpoints     *)
(* (workflow/compiler/runtime.go).  A name is a sequence of characters, of *)
(* which the code tells apart letters and digits, "_" (with "-"), ".", the *)
(* space and anything else ("/"); a path is a sequence of segments.  The   *)
(* resource names "state" and "checkpoints" are <<"s">> and <<"c">>.       *)
(***************************************************************************)
EXTENDS Naturals, SequencesExt

CONSTANTS
    NameLen,     \* longest name
    Configured   \* whether a workflow may configure its directories

Letters == {"a", "s", "c"}
Chars == Letters \cup {"_", ".", " ", "/"}
Names == BoundedSeq(Chars, NameLen)

Root == <<"data">>                        \* DefaultDataRoot
State == <<"s">>
Checkpoints == <<"c">>

\* A directory in the spec: none, a root of its own, or one below the data root.
Dirs == {<<>>} \cup (IF Configured THEN {<<<<"r">>>>, <<Root, <<"a">>>>} ELSE {})

\* The part of EnvSpec that decides directories; interval is empty when there
\* is no checkpointing block.
Envs == [interval : {{}, {0}, {1}}, ckptDir : Dirs, pebble : BOOLEAN, stateDir : Dirs]

VARIABLES w1, w2                          \* two workflows: name and environment
vars == <<w1, w2>>

Init ==
    /\ w1 \in [name : Names, env : Envs]
    /\ w2 \in [name : Names, env : {e \in Envs : e.interval = {1} /\ e.pebble /\ e.ckptDir = <<>>}]

Next == UNCHANGED vars
Spec == Init /\ [][Next]_vars

(***************************************************************************)
(* The validator's nameRe, and sanitizeName.                               *)
(***************************************************************************)
NameOK(n) ==
    /\ n # <<>> /\ n[1] \in Letters
    /\ \A i \in DOMAIN n : n[i] \in Letters \cup {"_", "."}

TrimSpace(n) ==
    LET solid == {i \in DOMAIN n : n[i] # " "} IN
    IF solid = {} THEN <<>> ELSE SubSeq(n, Min(solid), Max(solid))

Reserved == {<<>>, <<".">>, <<".", ".">>}
Default == <<"d">>                        \* the segment "default"

\* Every other character becomes "_".
sanitizeName(name) ==
    LET trimmed == TrimSpace(name) IN
    LET safe == [i \in DOMAIN trimmed |-> IF trimmed[i] \in {" ", "/"} THEN "_" ELSE trimmed[i]] IN
    IF trimmed \in Reserved \/ safe \in Reserved THEN Default ELSE safe

\* Mutant of jobDir: a configured directory is used as it is.
jobDirShared(configured, name, resource) ==
    IF configured # <<>> THEN configured ELSE <<Root, resource>>

jobDir(configured, name, resource) ==
    IF configured # <<>> THEN Append(configured, name) ELSE <<Root, name, resource>>

(***************************************************************************)
(* What CompileRuntime creates: empty when the block is absent.  It fails  *)
(* on an interval that is not positive.                                    *)
(***************************************************************************)
Compiles(w) == 0 \notin w.env.interval

CheckpointDirs(w) ==
    {jobDir(w.env.ckptDir, sanitizeName(w.name), Checkpoints) : i \in w.env.interval}

StateDirs(w) ==
    IF w.env.pebble THEN {jobDir(w.env.stateDir, sanitizeName(w.name), State)} ELSE {}

\* The directory the runner seeds a restored savepoint into, before Execute.
CheckpointDir(w) ==
    IF w.env.interval \cap {1} = {} THEN {}
    ELSE {jobDir(w.env.ckptDir, sanitizeName(w.name), Checkpoints)}

----------------------------------------------------------------------------
Clash(d, e) == IsPrefix(d, e) \/ IsPrefix(e, d)
Valid(w) == NameOK(w.name) /\ Compiles(w)

\* Whatever a workflow is called, its directories stay one level below their
\* root: the name is one segment that is neither empty nor relative.
OneSegment ==
    LET s == sanitizeName(w1.name) IN
      s \notin Reserved /\ \A i \in DOMAIN s : s[i] # "/"

\* CheckpointDir, which the runner uses without the environment, names exactly
\* the directory CompileRuntime gave the job.
SeedsWhereItReads == Compiles(w1) => CheckpointDir(w1) = CheckpointDirs(w1)

\* Two valid workflows of different names that configure no directory never
\* share or nest their state and checkpoint directories.
DefaultsApart ==
    w1.name # w2.name /\ Valid(w1) /\ Valid(w2) =>
      \A d \in CheckpointDirs(w1) \cup StateDirs(w1), e \in CheckpointDirs(w2) \cup StateDirs(w2) :
        ~Clash(d, e)

\* Two valid workflows of different names never share a Pebble database.
StateApart ==
    w1.name # w2.name /\ Valid(w1) /\ Valid(w2) => StateDirs(w1) \cap StateDirs(w2) = {}

=============================================================================
