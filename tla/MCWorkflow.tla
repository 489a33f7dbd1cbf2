----------------------------- MODULE MCWorkflow -----------------------------
(***************************************************************************)
(* Model checking of workflows: validation and compilation of a document,  *)
(* the field operators it builds, the comparisons of its filters and the   *)
(* directories of its job. A behaviour is one of one part; the variables   *)
(* of the other parts keep the value Off.                                  *)
(***************************************************************************)
EXTENDS Integers, Sequences, FiniteSets, SequencesExt

VARIABLES
    on,  \* the scenario
    \* Workflow
    wf, caller, pc, dirs, placed, pool, sink, outcome, delivery,
    \* Fields
    shape, prog, heap, recs,
    \* Comparison
    field, target,
    \* JobDirs
    w1, w2

Off == "off"

Compiler == INSTANCE Workflow WITH
    Areas <- {"ends", "env", "operator", "pipeline", "postgres", "sink", "source", "structure"},
    MaxOps <- 3

Mapping == INSTANCE Fields WITH
    MaxOps <- 2, Consts <- {"leaf", "obj"}, IntoConst <- FALSE, Related <- FALSE, Nulls <- FALSE

Filter == INSTANCE Comparison WITH
    MaxNum <- 13, Exact <- 8, ExpFrom <- 4

Dirs == INSTANCE JobDirs WITH
    NameLen <- 2, Configured <- FALSE

compilerVars == <<wf, caller, pc, dirs, placed, pool, sink, outcome, delivery>>
mappingVars == <<shape, prog, heap, recs>>
filterVars == <<field, target>>
dirsVars == <<w1, w2>>
workflowVars == <<on, compilerVars, mappingVars, filterVars, dirsVars>>

NoCompiler ==
  /\ wf = Off /\ caller = Off /\ pc = Off /\ dirs = Off /\ placed = Off /\ pool = Off
  /\ sink = Off /\ outcome = Off /\ delivery = Off
NoMapping ==
  /\ shape = Off /\ prog = Off /\ heap = Off /\ recs = Off
NoFilter ==
  /\ field = Off /\ target = Off
NoDirs ==
  /\ w1 = Off /\ w2 = Off

WorkflowInit ==
  \/ /\ NoMapping /\ NoFilter /\ NoDirs
     /\ on = "compile" /\ Compiler!Init
  \/ /\ NoCompiler /\ NoFilter /\ NoDirs
     /\ on = "fields" /\ Mapping!Init
  \/ /\ NoCompiler /\ NoMapping /\ NoDirs
     /\ on = "compare" /\ Filter!Init
  \/ /\ NoCompiler /\ NoMapping /\ NoFilter
     /\ on = "dirs" /\ Dirs!Init

WorkflowNext ==
  \/ /\ on = "compile" /\ Compiler!Next
     /\ UNCHANGED <<on, mappingVars, filterVars, dirsVars>>
  \/ /\ on = "fields" /\ Mapping!Next
     /\ UNCHANGED <<on, compilerVars, filterVars, dirsVars>>
  \/ /\ on = "compare" /\ Filter!Next
     /\ UNCHANGED <<on, compilerVars, mappingVars, dirsVars>>
  \/ /\ on = "dirs" /\ Dirs!Next
     /\ UNCHANGED <<on, compilerVars, mappingVars, filterVars>>

WorkflowSpec == WorkflowInit /\ [][WorkflowNext]_workflowVars

-----------------------------------------------------------------------------
(* The compiler. *)

\* Validation finds every problem the compiler would trip over later: a later step
\* fails, or panics, only over what that step alone can know.  What it lets through is whole: where
\* either end asks for exactly-once the source, the sink and the checkpoints it
\* takes are there; every reduce and window has a keyBy before it, and no window
\* reads the output of a reduce of the same keyBy.  A compilation that fails leaves
\* no connection pool behind, also one that panics.
ValidCompiles ==
  /\ [](on = "compile" => /\ Compiler!ExactlyOnceWhole /\ Compiler!AggregatesKeyed
                          /\ Compiler!NoPoolOnError)
  /\ [][on = "compile" /\ outcome = "none" /\ outcome' \in {"error", "panic"}
          => pc = "validate" \/ Compiler!CompilerOnly]_workflowVars

-----------------------------------------------------------------------------
(* Field operators. *)

\* A field operator does what it says: a rename moves the whole value, a set
\* assigns the whole constant, a selection keeps exactly the listed fields, and
\* nothing else changes.  What comes out for a record depends on that record and
\* the operators only, not on the records before it that share the constants, as
\* long as no operator writes below an assigned object; and its Value, which raw
\* sinks write, is the document its Parsed object, which the JSON serializer
\* writes, holds.
OperatorsExact ==
  /\ [](on = "fields" => Mapping!Independent /\ Mapping!ValueIsParsed)
  /\ [][on = "fields" => Mapping!RenameStep /\ Mapping!SetStep /\ Mapping!SelectStep]_workflowVars

-----------------------------------------------------------------------------
(* Filters and directories. *)

\* Two numbers float64 holds exactly, or two strings, are equal, ascending or
\* descending, and only one of them, as the integers they denote: filters that
\* split a stream at a value neither lose a record nor take it twice.  The same
\* records pass whether the document is YAML or JSON, unless a number that prints
\* with an exponent is looked for in a string.  Beyond what float64 holds no
\* comparison is inverted, and integer literals of a YAML document stay exact.
Trichotomy ==
  on = "compare" =>
    /\ Filter!ExactHere => Filter!Trichotomy /\ Filter!ComparesIntegers /\ Filter!SameButLargeText
    /\ Filter!NeverInverted

\* Two valid workflows of different names that configure no directory never
\* share or nest their state and checkpoint directories, and the directory a
\* savepoint is seeded into is the one the job reads.
DefaultsApart ==
  on = "dirs" => Dirs!DefaultsApart /\ Dirs!OneSegment /\ Dirs!SeedsWhereItReads
=============================================================================
