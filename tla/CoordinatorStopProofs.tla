------------------------ MODULE CoordinatorStopProofs ------------------------
(***************************************************************************)
(* Proofs about CoordinatorStop, for any number of checkpoints being       *)
(* announced, any number of Stop calls and any room in the channel.        *)
(***************************************************************************)
EXTENDS CoordinatorStop, FiniteSetTheorems, TLAPS

\* The counter is the number of sends that were registered.
Registered == sendWg = Cardinality(InFlight)

\* Stop has set halted before it waits; past the wait nobody sends any more.
Closing ==
    /\ once # "none" => halted
    /\ once \in {"closing", "done"} => InFlight = {}
    /\ closed <=> once = "done"

\* The worker leaves a closed and empty channel, and Stop waits for it.
Finished ==
    /\ worker = "exited" => closed /\ events = <<>>
    /\ \A p \in Stoppers : stopper[p] = "returned" => worker = "exited"

StopInv == TypeOK /\ Registered /\ Closing /\ Finished /\ ~panicked

-----------------------------------------------------------------------------
\* The counter is zero only when no send is in flight, which is what Stop's
\* wait on sendWg relies on.
LEMMA InFlightFinite ==
    IsFiniteSet(InFlight) /\ (Registered => (sendWg = 0 <=> InFlight = {}))
<1>1. InFlight \in SUBSET Senders
  BY DEF InFlight
<1>2. IsFiniteSet(InFlight)
  BY <1>1, StopAssumption, FS_Subset
<1>3. Cardinality(InFlight) = 0 <=> InFlight = {}
  BY <1>2, FS_EmptySet
<1> QED
  BY <1>2, <1>3 DEF Registered

\* A critical section of OnSinkPrepared adds one send, or none when halted.
LEMMA PreparedCounts ==
    ASSUME NEW s \in Senders, TypeOK, Prepared(s)
    PROVE  InFlight' = IF halted THEN InFlight ELSE InFlight \cup {s}
<1>1. s \notin InFlight
  BY DEF InFlight, Prepared
<1>2. CASE halted
  <2>1. sender' = [sender EXCEPT ![s] = "done"]
    BY <1>2 DEF Prepared
  <2> QED
    BY <2>1, <1>1, <1>2 DEF InFlight, TypeOK
<1>3. CASE ~halted
  <2>1. sender' = [sender EXCEPT ![s] = "send"]
    BY <1>3 DEF Prepared
  <2> QED
    BY <2>1, <1>3 DEF InFlight, TypeOK
<1> QED
  BY <1>2, <1>3 DEF TypeOK

\* The type invariant survives every step.
LEMMA TypeStep == TypeOK /\ [Next]_vars => TypeOK'
<1> SUFFICES ASSUME TypeOK, [Next]_vars PROVE TypeOK'
  OBVIOUS
<1> USE DEF TypeOK
<1>1. ASSUME NEW s \in Senders, Prepared(s) PROVE TypeOK'
  BY <1>1 DEF Prepared, stopVars, workVars
<1>2. ASSUME NEW s \in Senders, Send(s) PROVE TypeOK'
  <2>1. Append(events, s) \in Seq(Senders)
    OBVIOUS
  <2>2. events' \in Seq(Senders)
    BY <1>2, <2>1 DEF Send
  <2>3. panicked' \in BOOLEAN
    BY <1>2, Zenon DEF Send
  <2>4. sender' \in [Senders -> {"idle", "send", "sent", "done"}]
    BY <1>2 DEF Send
  <2> QED
    BY <1>2, <2>2, <2>3, <2>4 DEF Send, stopVars, workVars
<1>3. ASSUME NEW s \in Senders, SendDone(s) PROVE TypeOK'
  BY <1>3 DEF SendDone, stopVars, workVars
<1>4. ASSUME NEW p \in Stoppers, StopHalt(p) PROVE TypeOK'
  BY <1>4 DEF StopHalt, workVars
<1>5. CASE StopWait
  BY <1>5 DEF StopWait, workVars
<1>6. CASE StopClose
  BY <1>6 DEF StopClose, workVars
<1>7. ASSUME NEW p \in Stoppers, StopReturn(p) PROVE TypeOK'
  BY <1>7 DEF StopReturn, workVars
<1>8. CASE Take
  <2>1. events' \in Seq(Senders) /\ Head(events) \in Senders
    BY <1>8 DEF Take
  <2> QED
    BY <1>8, <2>1 DEF Take, stopVars, workVars
<1>9. CASE FinalizeEnds
  BY <1>9 DEF FinalizeEnds, stopVars
<1>10. CASE WorkerExits
  BY <1>10 DEF WorkerExits, stopVars
<1>11. CASE UNCHANGED vars
  BY <1>11 DEF vars
<1> QED
  BY <1>1, <1>2, <1>3, <1>4, <1>5, <1>6, <1>7, <1>8, <1>9, <1>10, <1>11
  DEF Next, Worker, Stop, Sender, Done

\* What a step that leaves the senders and the counter alone keeps.
LEMMA SameSenders ==
    Registered /\ UNCHANGED <<sender, sendWg>> => Registered' /\ InFlight' = InFlight
BY DEF Registered, InFlight

\* The invariant holds at the start.
LEMMA StopInit == Init => StopInv
<1> SUFFICES ASSUME Init PROVE StopInv
  OBVIOUS
<1>1. TypeOK
  <2>1. halted \in BOOLEAN /\ closed \in BOOLEAN /\ panicked \in BOOLEAN
    BY Zenon DEF Init
  <2>2. /\ sender \in [Senders -> {"idle", "send", "sent", "done"}]
        /\ stopper \in [Stoppers -> {"idle", "in", "returned"}]
    BY DEF Init
  <2>3. sendWg \in Int /\ events \in Seq(Senders)
    BY DEF Init
  <2> QED
    BY <2>1, <2>2, <2>3 DEF Init, TypeOK
<1>2. InFlight = {}
  BY DEF Init, InFlight
<1>3. Registered
  BY <1>2, FS_EmptySet DEF Init, Registered
<1> QED
  BY <1>1, <1>2, <1>3 DEF Init, StopInv, Closing, Finished

\* Every step of OnSinkPrepared, Stop and the worker keeps the invariant.
LEMMA StopStep == StopInv /\ [Next]_vars => StopInv'
<1> SUFFICES ASSUME StopInv, [Next]_vars PROVE StopInv'
  OBVIOUS
<1> USE DEF StopInv
<1>0. TypeOK'
  BY TypeStep
<1>1. ASSUME NEW s \in Senders, Prepared(s) PROVE StopInv'
  <2>1. InFlight' = IF halted THEN InFlight ELSE InFlight \cup {s}
    BY <1>1, PreparedCounts
  <2>2. s \notin InFlight
    BY <1>1 DEF Prepared, InFlight
  <2>3. Cardinality(InFlight \cup {s}) = Cardinality(InFlight) + 1
    BY <2>2, InFlightFinite, FS_AddElement
  <2>4. Registered'
    BY <1>1, <2>1, <2>3 DEF Registered, Prepared, TypeOK
  <2>5. Closing'
    BY <1>1, <2>1 DEF Closing, Prepared, stopVars
  <2>6. Finished' /\ ~panicked'
    BY <1>1 DEF Finished, Prepared, stopVars, workVars
  <2> QED
    BY <1>0, <2>4, <2>5, <2>6
<1>2. ASSUME NEW s \in Senders, Send(s) PROVE StopInv'
  <2>1. s \in InFlight
    BY <1>2 DEF Send, InFlight
  <2>2. ~closed /\ once \notin {"closing", "done"}
    BY <2>1 DEF Closing
  <2>3. InFlight' = InFlight
    BY <1>2 DEF Send, InFlight, TypeOK
  <2>4. Registered'
    BY <1>2, <2>3 DEF Registered, Send
  <2>5. Closing'
    BY <1>2, <2>3 DEF Closing, Send, stopVars
  <2>6. Finished' /\ ~panicked'
    BY <1>2, <2>2 DEF Finished, Send, stopVars, workVars
  <2> QED
    BY <1>0, <2>4, <2>5, <2>6
<1>3. ASSUME NEW s \in Senders, SendDone(s) PROVE StopInv'
  <2>1. InFlight' = InFlight \ {s} /\ s \in InFlight
    BY <1>3 DEF SendDone, InFlight, TypeOK
  <2>2. Cardinality(InFlight \ {s}) = Cardinality(InFlight) - 1
    BY <2>1, InFlightFinite, FS_RemoveElement
  <2>3. Registered'
    BY <1>3, <2>1, <2>2 DEF Registered, SendDone
  <2>4. Closing'
    BY <1>3, <2>1 DEF Closing, SendDone, stopVars
  <2>5. Finished' /\ ~panicked'
    BY <1>3 DEF Finished, SendDone, stopVars, workVars
  <2> QED
    BY <1>0, <2>3, <2>4, <2>5
<1>4. ASSUME NEW p \in Stoppers, StopHalt(p) PROVE StopInv'
  <2>1. Registered' /\ InFlight' = InFlight
    BY <1>4, SameSenders DEF StopHalt
  <2>2. Closing'
    BY <1>4, <2>1 DEF Closing, StopHalt
  <2>3. Finished' /\ ~panicked'
    BY <1>4 DEF Finished, StopHalt, workVars, TypeOK
  <2> QED
    BY <1>0, <2>1, <2>2, <2>3
<1>5. CASE StopWait
  <2>1. Registered' /\ InFlight' = InFlight
    BY <1>5, SameSenders DEF StopWait
  <2>2. InFlight = {}
    BY <1>5, InFlightFinite DEF StopWait
  <2>3. Closing' /\ Finished' /\ ~panicked'
    BY <1>5, <2>1, <2>2 DEF Closing, Finished, StopWait, workVars
  <2> QED
    BY <1>0, <2>1, <2>3
<1>6. CASE StopClose
  <2>1. Registered' /\ InFlight' = InFlight
    BY <1>6, SameSenders DEF StopClose
  <2>2. Closing' /\ Finished' /\ ~panicked'
    BY <1>6, <2>1 DEF Closing, Finished, StopClose, workVars
  <2> QED
    BY <1>0, <2>1, <2>2
<1>7. ASSUME NEW p \in Stoppers, StopReturn(p) PROVE StopInv'
  <2>1. Registered' /\ InFlight' = InFlight
    BY <1>7, SameSenders DEF StopReturn
  <2>2. Closing' /\ Finished' /\ ~panicked'
    BY <1>7, <2>1 DEF Closing, Finished, StopReturn, workVars, TypeOK
  <2> QED
    BY <1>0, <2>1, <2>2
<1>8. CASE Take
  <2>1. Registered' /\ InFlight' = InFlight
    BY <1>8, SameSenders DEF Take
  <2>2. Closing' /\ ~panicked'
    BY <1>8, <2>1 DEF Closing, Take, stopVars
  <2>3. Finished'
    BY <1>8 DEF Finished, Take, stopVars, workVars
  <2> QED
    BY <1>0, <2>1, <2>2, <2>3
<1>9. CASE FinalizeEnds
  <2>1. Registered' /\ InFlight' = InFlight
    BY <1>9, SameSenders DEF FinalizeEnds
  <2>2. Closing' /\ Finished' /\ ~panicked'
    BY <1>9, <2>1 DEF Closing, Finished, FinalizeEnds, stopVars
  <2> QED
    BY <1>0, <2>1, <2>2
<1>10. CASE WorkerExits
  <2>1. Registered' /\ InFlight' = InFlight
    BY <1>10, SameSenders DEF WorkerExits
  <2>2. Closing' /\ Finished' /\ ~panicked'
    BY <1>10, <2>1 DEF Closing, Finished, WorkerExits, stopVars
  <2> QED
    BY <1>0, <2>1, <2>2
<1>11. CASE UNCHANGED vars
  <2>1. Registered' /\ InFlight' = InFlight
    BY <1>11, SameSenders DEF vars
  <2>2. Closing' /\ Finished' /\ ~panicked'
    BY <1>11, <2>1 DEF Closing, Finished, vars
  <2> QED
    BY <1>0, <2>1, <2>2
<1> QED
  BY <1>1, <1>2, <1>3, <1>4, <1>5, <1>6, <1>7, <1>8, <1>9, <1>10, <1>11
  DEF Next, Worker, Stop, Sender, Done

\* Stop never closes the channel under a send: OnSinkPrepared registers the
\* send in the critical section that reads halted, and Stop waits for it.
THEOREM StopIsSafe == Spec => []NoSendOnClosed
<1>1. StopInv => NoSendOnClosed
  BY DEF StopInv, NoSendOnClosed
<1> QED
  BY <1>1, StopInit, StopStep, PTL DEF Spec

\* When any caller's Stop has returned, nothing is queued, sent or finalized:
\* the channel is closed and drained, the worker gone and no send in flight.
THEOREM StopEndsAll == Spec => StopIsFinal
<1>1. ASSUME StopInv, [Next]_vars, \E p \in Stoppers : stopper[p] = "returned"
      PROVE  UNCHANGED <<events, sendWg, closed, worker, finalized>>
  <2>1. worker = "exited" /\ closed /\ events = <<>>
    BY <1>1 DEF StopInv, Finished
  <2>2. once = "done" /\ halted /\ InFlight = {}
    BY <1>1, <2>1 DEF StopInv, Closing
  <2>3. ASSUME NEW s \in Senders, Sender(s)
        PROVE  UNCHANGED <<events, sendWg, closed, worker, finalized>>
    <3>1. sender[s] \notin {"send", "sent"}
      BY <2>2 DEF InFlight
    <3> QED
      BY <2>3, <3>1, <2>2 DEF Sender, Prepared, Send, SendDone, stopVars, workVars
  <2>4. ~Worker /\ ~Stop
    BY <2>1, <2>2 DEF Worker, Take, FinalizeEnds, WorkerExits, Stop, StopWait, StopClose
  <2>5. ASSUME NEW p \in Stoppers, StopHalt(p) \/ StopReturn(p)
        PROVE  UNCHANGED <<events, sendWg, closed, worker, finalized>>
    BY <2>5 DEF StopHalt, StopReturn, workVars
  <2> QED
    BY <1>1, <2>3, <2>4, <2>5 DEF Next, Done, vars
<1>2. StopInv /\ [Next]_vars
        => [(\E p \in Stoppers : stopper[p] = "returned")
              => UNCHANGED <<events, sendWg, closed, worker, finalized>>]_vars
  BY <1>1
<1> QED
  BY <1>2, StopInit, StopStep, PTL DEF Spec, StopIsFinal

=============================================================================
