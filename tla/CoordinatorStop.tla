--------------------------- MODULE CoordinatorStop ---------------------------
(***************************************************************************)
(* Coordinator.Stop against OnSinkPrepared and the finalize worker         *)
(* (checkpoint/coordinator.go).  A sender stands for one OnSinkPrepared    *)
(* call and the checkpoint it announces; several goroutines may call Stop. *)
(* What finalize does to storage and sink is ExactlyOnce's subject.        *)
(***************************************************************************)
EXTENDS Integers, Sequences, FiniteSets

CONSTANTS Senders, Stoppers, Cap     \* Cap: the room of the events channel

ASSUME StopAssumption == IsFiniteSet(Senders) /\ Cap \in Nat \ {0}

VARIABLES
    halted,      \* under mu
    sendWg,      \* sends that were registered and have not finished
    events,      \* the channel's content
    closed,
    panicked,    \* a send met the closed channel
    sender,      \* Senders -> "idle", "send", "sent", "done"
    once,        \* stopOnce: "none", "waiting", "closing", "done"
    stopper,     \* Stoppers -> "idle", "in", "returned"
    worker,      \* "recv", "finalize", "exited"
    finalized    \* checkpoints whose finalization began

stopVars == <<once, stopper, closed>>
workVars == <<worker, finalized>>
vars == <<halted, sendWg, events, closed, panicked, sender, once, stopper, worker, finalized>>

Init ==
    /\ halted = FALSE /\ sendWg = 0 /\ events = <<>> /\ closed = FALSE /\ panicked = FALSE
    /\ sender = [s \in Senders |-> "idle"]
    /\ once = "none" /\ stopper = [p \in Stoppers |-> "idle"]
    /\ worker = "recv" /\ finalized = {}

-----------------------------------------------------------------------------
(* OnSinkPrepared *)

\* Mutant of Prepared: the send is registered after the unlock, when it is made.
PreparedUnregistered(s) ==
    /\ sender[s] = "idle"
    /\ sender' = [sender EXCEPT ![s] = IF halted THEN "done" ELSE "send"]
    /\ UNCHANGED <<halted, sendWg, events, panicked, stopVars, workVars>>

\* The critical section: halted is read and the send registered in one.
Prepared(s) ==
    /\ sender[s] = "idle"
    /\ sender' = [sender EXCEPT ![s] = IF halted THEN "done" ELSE "send"]
    /\ sendWg' = IF halted THEN sendWg ELSE sendWg + 1
    /\ UNCHANGED <<halted, events, panicked, stopVars, workVars>>

\* A send waits for room; on a closed channel it panics.
Send(s) ==
    /\ sender[s] = "send"
    /\ ~closed => Len(events) < Cap
    /\ events' = IF closed THEN events ELSE Append(events, s)
    /\ panicked' = IF closed THEN TRUE ELSE panicked
    /\ sender' = [sender EXCEPT ![s] = "sent"]
    /\ UNCHANGED <<halted, sendWg, stopVars, workVars>>

SendDone(s) ==
    /\ sender[s] = "sent"
    /\ sender' = [sender EXCEPT ![s] = "done"]
    /\ sendWg' = sendWg - 1
    /\ UNCHANGED <<halted, events, panicked, stopVars, workVars>>

-----------------------------------------------------------------------------
(* Stop *)

\* The first caller runs the body of stopOnce; it sets halted under the lock.
StopHalt(p) ==
    /\ stopper[p] = "idle"
    /\ stopper' = [stopper EXCEPT ![p] = "in"]
    /\ IF once = "none" THEN once' = "waiting" /\ halted' = TRUE ELSE UNCHANGED <<once, halted>>
    /\ UNCHANGED <<sendWg, events, closed, panicked, sender, workVars>>

StopWait ==
    /\ once = "waiting" /\ sendWg = 0
    /\ once' = "closing"
    /\ UNCHANGED <<halted, sendWg, events, closed, panicked, sender, stopper, workVars>>

StopClose ==
    /\ once = "closing"
    /\ once' = "done" /\ closed' = TRUE
    /\ UNCHANGED <<halted, sendWg, events, panicked, sender, stopper, workVars>>

\* Mutant of StopReturn: the worker is not waited for.
StopReturnEarly(p) ==
    /\ stopper[p] = "in" /\ once = "done"
    /\ stopper' = [stopper EXCEPT ![p] = "returned"]
    /\ UNCHANGED <<halted, sendWg, events, closed, panicked, sender, once, workVars>>

\* stopOnce.Do returns to every caller once its body is done; then wg.Wait.
StopReturn(p) ==
    /\ stopper[p] = "in" /\ once = "done" /\ worker = "exited"
    /\ stopper' = [stopper EXCEPT ![p] = "returned"]
    /\ UNCHANGED <<halted, sendWg, events, closed, panicked, sender, once, workVars>>

-----------------------------------------------------------------------------
(* The worker *)

\* Takes the next checkpoint; finalize returns at once when halted.
Take ==
    /\ worker = "recv" /\ events # <<>>
    /\ events' = Tail(events)
    /\ IF halted THEN UNCHANGED workVars
       ELSE worker' = "finalize" /\ finalized' = finalized \cup {Head(events)}
    /\ UNCHANGED <<halted, sendWg, panicked, sender, stopVars>>

FinalizeEnds ==
    /\ worker = "finalize" /\ worker' = "recv"
    /\ UNCHANGED <<halted, sendWg, events, panicked, sender, stopVars, finalized>>

WorkerExits ==
    /\ worker = "recv" /\ closed /\ events = <<>> /\ worker' = "exited"
    /\ UNCHANGED <<halted, sendWg, events, panicked, sender, stopVars, finalized>>

Done ==
    /\ \A p \in Stoppers : stopper[p] = "returned"
    /\ \A s \in Senders : sender[s] = "done"
    /\ UNCHANGED vars

Worker == Take \/ FinalizeEnds \/ WorkerExits
Sender(s) == Prepared(s) \/ Send(s) \/ SendDone(s)
Stop == StopWait \/ StopClose

Next == Worker \/ Stop \/ (\E s \in Senders : Sender(s))
        \/ (\E p \in Stoppers : StopHalt(p) \/ StopReturn(p)) \/ Done

Spec == Init /\ [][Next]_vars

\* Every goroutine that can take a step takes it; nobody has to call Stop.
Fairness ==
    /\ WF_vars(Worker) /\ WF_vars(Stop)
    /\ \A s \in Senders : WF_vars(Send(s) \/ SendDone(s))
    /\ \A p \in Stoppers : WF_vars(StopReturn(p))
FairSpec == Spec /\ Fairness

-----------------------------------------------------------------------------
(* Properties. *)

TypeOK ==
    /\ halted \in BOOLEAN /\ closed \in BOOLEAN /\ panicked \in BOOLEAN
    /\ sendWg \in Int /\ events \in Seq(Senders)
    /\ sender \in [Senders -> {"idle", "send", "sent", "done"}]
    /\ once \in {"none", "waiting", "closing", "done"}
    /\ stopper \in [Stoppers -> {"idle", "in", "returned"}]
    /\ worker \in {"recv", "finalize", "exited"} /\ finalized \subseteq Senders

InFlight == {s \in Senders : sender[s] \in {"send", "sent"}}

\* OnSinkPrepared never sends on the channel Stop has closed.
NoSendOnClosed == ~panicked

\* When any call of Stop has returned, no checkpoint is queued, sent or
\* finalized any more.
StopIsFinal ==
    [][(\E p \in Stoppers : stopper[p] = "returned")
         => UNCHANGED <<events, sendWg, closed, worker, finalized>>]_vars

=============================================================================
