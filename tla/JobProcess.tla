----------------------------- MODULE JobProcess -----------------------------
(***************************************************************************)
(* One job process under its agent: the start with or without a savepoint  *)
(* to restore, the HTTP handlers that cancel it or ask for a savepoint     *)
(* while it runs, the end of the run, the promotion of the last checkpoint *)
(* and the exit code; and the process started after it on the same         *)
(* checkpoint directory and blob store.                                    *)
(*                                                                         *)
(* The pipeline is a counter of processed records; a checkpoint is its     *)
(* value, an archive the identifier of a checkpoint.                       *)
(***************************************************************************)
EXTENDS Integers, Sequences, FiniteSets, FiniteSetsExt

CONSTANTS Labels,     \* savepoint labels asked for
          Checkpointing, \* CHECKPOINT_INTERVAL is set
          NRec,       \* records of the source
          MaxCkpts,   \* bound on checkpoints
          MaxLives,   \* processes
          Faults      \* subset of {"hard", "fail", "blob", "crash"}

NoLabel == "none"
None == 0
Partial == -1      \* a blob cut short

VARIABLES main,      \* where the process is
          restore,   \* RESTORE_SAVEPOINT of this process
          phase, cancelSet, ctxDone,   \* agent: phase, a.cancel, run context
          req, label,                  \* agent: savepoint request
          calling,   \* handlers between recording a request and calling Cancel
          accepted,  \* labels answered with 202, in order, by this process
          asked,     \* a POST /cancel was answered with 202
          runErr, exit,
          pos, began,                  \* records processed; where the run began
          final,                       \* history: the run's final checkpoint
          cps, torn, latest,           \* checkpoint directory
          blobs, tmp, putting,         \* blob store; the checkpoint being archived
          lives

agentVars == <<phase, cancelSet, ctxDone, req, label>>
handlerVars == <<calling, accepted, asked>>
diskVars == <<cps, torn, latest, blobs, tmp>>
vars == <<main, restore, agentVars, handlerVars, runErr, exit, pos, began, final,
          diskVars, putting, lives>>

Terminal == phase \in {"finished", "failed"}

----------------------------------------------------------------------------
(* The blob store. *)

\* FileBlobstore.Get: the archive under a label, or ErrBlobNotFound.
Get(l) == blobs[l]

\* FileBlobstore.List: every file under the prefix, temporary files included.
List == {l \in Labels : blobs[l] # None} \cup (IF tmp > 0 THEN {".blob"} ELSE {})

\* ArchiveCheckpoint: the record and the state files of one checkpoint.
ArchiveCheckpoint(id) == id

----------------------------------------------------------------------------
(* Start of a process. *)

Fresh ==
  /\ main = "boot" /\ phase = "starting" /\ cancelSet = FALSE /\ ctxDone = FALSE
  /\ req = FALSE /\ label = NoLabel
  /\ calling = {} /\ accepted = <<>> /\ asked = FALSE
  /\ runErr = "nil" /\ exit = None
  /\ pos = 0 /\ began = None /\ final = None /\ putting = None

Init ==
  /\ Fresh
  /\ restore = NoLabel
  /\ cps = <<>> /\ torn = {} /\ latest = None
  /\ blobs = [l \in Labels |-> None] /\ tmp = 0
  /\ lives = 1

\* Serve: without a savepoint to restore the control server comes up at once.
Boot ==
  /\ main = "boot"
  /\ IF restore = NoLabel THEN main' = "serve" /\ UNCHANGED exit
     ELSE IF ~Checkpointing \/ Get(restore) = None
       THEN main' = "exit" /\ exit' = 1
       ELSE main' = "extract" /\ UNCHANGED exit
  /\ UNCHANGED <<restore, agentVars, handlerVars, runErr, pos, began, final, diskVars, putting, lives>>

\* ExtractCheckpoint rewrites the checkpoint's state files in place ...
ExtractFiles ==
  /\ main = "extract"
  /\ torn' = torn \cup {Get(restore)}
  /\ main' = "extracted"
  /\ UNCHANGED <<restore, agentVars, handlerVars, runErr, exit, pos, began, final, cps, latest, blobs, tmp,
                 putting, lives>>

\* ... and then saves its record, which makes it the latest.
ExtractSave ==
  /\ main = "extracted"
  /\ torn' = torn \ {Get(restore)}
  /\ latest' = Get(restore)
  /\ main' = "serve"
  /\ UNCHANGED <<restore, agentVars, handlerVars, runErr, exit, pos, began, final, cps, blobs, tmp,
                 putting, lives>>

\* Agent.Run takes the lock, installs the cancel function and enters Execute,
\* which resumes from the latest checkpoint.
RunStart ==
  /\ main = "serve"
  /\ cancelSet' = TRUE /\ phase' = "running" /\ main' = "run"
  /\ pos' = IF latest = None THEN 0 ELSE cps[latest]
  /\ began' = latest
  /\ UNCHANGED <<final, restore, ctxDone, req, label, handlerVars, runErr, exit, diskVars, putting, lives>>

----------------------------------------------------------------------------
(* HTTP handlers.  Shutting the server down waits for the requests in      *)
(* flight, so a handler may still run while the process promotes.          *)

Serving == main \notin {"boot", "extract", "extracted", "exit", "dead"}

\* Agent.Cancel, under the lock.
CancelLocked ==
  IF ~cancelSet \/ Terminal THEN UNCHANGED <<phase, ctxDone>>
  ELSE phase' = "cancelling" /\ ctxDone' = TRUE

\* POST /cancel answers 202 whatever Cancel did.
PostCancel ==
  /\ Serving /\ ~asked
  /\ CancelLocked
  /\ asked' = TRUE
  /\ UNCHANGED <<main, restore, cancelSet, req, label, calling, accepted, runErr, exit, pos, began, final,
                 diskVars, putting, lives>>

MayRequest == cancelSet /\ ~Terminal

\* POST /savepoint: RequestSavepoint records the label and lets go of the lock
\* before it calls Cancel; a refused request answers 409.
PostSavepoint(l) ==
  /\ Serving /\ l \notin calling /\ \A i \in DOMAIN accepted : accepted[i] # l
  /\ MayRequest
  /\ req' = TRUE /\ label' = l
  /\ calling' = calling \cup {l} /\ accepted' = Append(accepted, l)
  /\ UNCHANGED <<main, restore, phase, cancelSet, ctxDone, asked, runErr, exit, pos, began, final,
                 diskVars, putting, lives>>

SavepointCancels(l) ==
  /\ l \in calling
  /\ calling' = calling \ {l}
  /\ CancelLocked
  /\ UNCHANGED <<main, restore, cancelSet, req, label, accepted, asked, runErr, exit, pos, began, final,
                 diskVars, putting, lives>>

\* SIGTERM cancels the context the run's context derives from.
Sigterm ==
  /\ main = "run" /\ ~ctxDone
  /\ ctxDone' = TRUE
  /\ UNCHANGED <<main, restore, phase, cancelSet, req, label, handlerVars, runErr, exit, pos, began, final,
                 diskVars, putting, lives>>

----------------------------------------------------------------------------
(* The run. *)

Running == main = "run" /\ runErr = "nil"

Process ==
  /\ Running /\ ~ctxDone /\ pos < NRec
  /\ pos' = pos + 1
  /\ UNCHANGED <<main, restore, agentVars, handlerVars, runErr, exit, began, final, diskVars, putting, lives>>

NewCkpt == cps' = Append(cps, pos) /\ latest' = Len(cps) + 1

Checkpoint ==
  /\ Running /\ Checkpointing /\ Len(cps) < MaxCkpts
  /\ NewCkpt
  /\ UNCHANGED <<main, restore, agentVars, handlerVars, runErr, exit, pos, began, final, torn, blobs, tmp,
                 putting, lives>>

\* Execute returns: the source ended or the drain completed, with the final
\* checkpoint (records drained after its barrier are not in it); or the
\* shutdown timeout cut the drain short.
ExecuteReturns ==
  /\ Running
  /\ \/ /\ ctxDone \/ pos = NRec
        /\ IF Checkpointing THEN NewCkpt /\ final' = Len(cps) + 1
           ELSE UNCHANGED <<cps, latest, final>>
        /\ pos' \in IF ctxDone THEN pos .. NRec ELSE {pos}
        /\ runErr' \in {"nil", IF ctxDone THEN "canceled" ELSE "nil"}
     \/ /\ "hard" \in Faults /\ ctxDone
        /\ runErr' = "canceled"
        /\ UNCHANGED <<cps, latest, final, pos>>
  /\ main' = "returning"
  /\ UNCHANGED <<restore, agentVars, handlerVars, exit, began, torn, blobs, tmp, putting, lives>>

ExecuteFails ==
  /\ "fail" \in Faults /\ Running
  /\ runErr' = "error" /\ main' = "returning"
  /\ UNCHANGED <<restore, agentVars, handlerVars, exit, pos, began, final, diskVars, putting, lives>>

\* Run sets the terminal phase under the lock.
RunReturns ==
  /\ main = "returning"
  /\ phase' = IF runErr = "error" THEN "failed" ELSE "finished"
  /\ main' = "returned"
  /\ UNCHANGED <<restore, cancelSet, ctxDone, req, label, handlerVars, runErr, exit, pos, began, final,
                 diskVars, putting, lives>>

----------------------------------------------------------------------------
(* Promotion and exit. *)

\* Serve stops the server and reads the request; CreateSavepoint opens the
\* latest completed checkpoint, if there is one.
ReadRequest ==
  /\ main = "returned"
  /\ IF req /\ Checkpointing /\ latest # None
       THEN main' = "put" /\ putting' = ArchiveCheckpoint(latest)
       ELSE main' = "leave" /\ UNCHANGED putting
  /\ UNCHANGED <<restore, agentVars, handlerVars, runErr, exit, pos, began, final, diskVars, lives>>

\* Mutant of PutTemp: the archive is streamed into the blob itself.
PutTempInPlace ==
  /\ main = "put"
  /\ tmp' = tmp + 1 /\ main' = "rename"
  /\ blobs' = [blobs EXCEPT ![label] = Partial]
  /\ UNCHANGED <<restore, agentVars, handlerVars, runErr, exit, pos, began, final, cps, torn, latest,
                 putting, lives>>

\* FileBlobstore.Put: a temporary file beside the target, then a rename.
PutTemp ==
  /\ main = "put"
  /\ tmp' = tmp + 1 /\ main' = "rename"
  /\ UNCHANGED <<restore, agentVars, handlerVars, runErr, exit, pos, began, final, cps, torn, latest, blobs,
                 putting, lives>>

PutRename ==
  /\ main = "rename"
  /\ blobs' = [blobs EXCEPT ![label] = putting]
  /\ tmp' = tmp - 1 /\ main' = "leave"
  /\ UNCHANGED <<restore, agentVars, handlerVars, runErr, exit, pos, began, final, cps, torn, latest,
                 putting, lives>>

\* A Put that fails removes its temporary file; Serve only prints the error.
PutFails ==
  /\ "blob" \in Faults /\ main = "rename"
  /\ tmp' = tmp - 1 /\ main' = "leave"
  /\ UNCHANGED <<restore, agentVars, handlerVars, runErr, exit, pos, began, final, cps, torn, latest, blobs,
                 putting, lives>>

ExitCode == IF runErr \in {"nil", "canceled"} THEN 0 ELSE 1

Leave ==
  /\ main = "leave"
  /\ main' = "exit" /\ exit' = ExitCode
  /\ UNCHANGED <<restore, agentVars, handlerVars, runErr, pos, began, final, diskVars, putting, lives>>

Crash ==
  /\ "crash" \in Faults /\ main \notin {"exit", "dead"} /\ lives < MaxLives
  /\ main' = "dead"
  /\ UNCHANGED <<restore, agentVars, handlerVars, runErr, exit, pos, began, final, diskVars, putting, lives>>

\* The next process on the same volumes: a plain restart, or one from a label.
NextProcess ==
  /\ main \in {"exit", "dead"} /\ lives < MaxLives
  /\ lives' = lives + 1
  /\ main' = "boot" /\ phase' = "starting" /\ cancelSet' = FALSE /\ ctxDone' = FALSE
  /\ req' = FALSE /\ label' = NoLabel
  /\ calling' = {} /\ accepted' = <<>> /\ asked' = FALSE
  /\ runErr' = "nil" /\ exit' = None /\ pos' = 0 /\ began' = None
  /\ final' = None /\ putting' = None
  /\ restore' \in {NoLabel} \cup {l \in Labels : main = "exit" /\ blobs[l] # None}
  /\ UNCHANGED diskVars

Done ==
  /\ main = "exit" /\ calling = {} /\ lives = MaxLives
  /\ UNCHANGED vars

Handlers ==
  \/ PostCancel
  \/ \E l \in Labels : PostSavepoint(l) \/ SavepointCancels(l)
  \/ Sigterm
Main ==
  \/ Boot \/ ExtractFiles \/ ExtractSave \/ RunStart \/ ExecuteReturns \/ RunReturns
  \/ ReadRequest \/ PutTemp \/ PutRename \/ PutFails \/ Leave

Next == Handlers \/ Main \/ Process \/ Checkpoint \/ ExecuteFails \/ Crash \/ NextProcess \/ Done

Spec == Init /\ [][Next]_vars

\* The process is scheduled and a handler that has begun goes on.  A source may
\* stay silent, so records need not arrive.
Cancels == \E l \in Labels : SavepointCancels(l)
FairSpec == Spec /\ WF_vars(Main) /\ WF_vars(Cancels)

----------------------------------------------------------------------------
(* Properties. *)

TypeOK ==
  /\ main \in {"boot", "extract", "extracted", "serve", "run", "returning", "returned", "put",
               "rename", "leave", "exit", "dead"}
  /\ phase \in {"starting", "running", "cancelling", "finished", "failed"}
  /\ latest \in 0 .. Len(cps) /\ torn \subseteq 1 .. Len(cps)
  /\ \A l \in Labels : blobs[l] \in 0 .. Len(cps)
  /\ exit \in {0, 1} /\ pos \in 0 .. NRec /\ tmp \in Nat

\* The process that accepted a savepoint and exits normally has stored one, and
\* it is of the final checkpoint.
AcceptedIsPromoted ==
  main = "exit" /\ accepted # <<>> /\ Checkpointing =>
    final # None /\ blobs[accepted[Len(accepted)]] = final

\* Every label answered with 202 names a savepoint when the process has left.
EveryLabelStored ==
  main = "exit" /\ Checkpointing => \A i \in DOMAIN accepted : blobs[accepted[i]] # None

\* A process told to restore a savepoint runs from that savepoint, even when the
\* directory holds newer checkpoints.
RestoresLabel == main = "run" /\ restore # NoLabel => began = blobs[restore]

\* A label names a whole archive of a checkpoint or nothing, also after a process
\* died while it overwrote the savepoint of that name.
BlobsWhole == main \in {"boot", "dead"} => \A l \in Labels : blobs[l] # Partial

\* What a process starts from is never a checkpoint with half-written state.
StartsFromWhole == main = "run" => began \notin torn

\* No temporary file outlives the process: what the blob store lists are
\* savepoints.
ListsSavepoints == main \in {"boot", "exit"} => List \subseteq Labels

\* A cancel that was answered with 202 ends the job.
CancelEnds == asked ~> (main \in {"exit", "dead", "boot"})

=============================================================================
