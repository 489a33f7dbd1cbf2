------------------------- MODULE ExactlyOnceProofs --------------------------
(***************************************************************************)
(* Proofs about ExactlyOnce, for every length of the log, every number of  *)
(* checkpoints and, for the agreement between the checkpoint files and the *)
(* committed transactions, any number of restarts and any of the faults.   *)
(***************************************************************************)
EXTENDS ExactlyOnce, TLAPS

\* finalize is between taking a prepared checkpoint and the end of its
\* transaction; UpdateStatus is under way.
Sealed   == {"save", "saveLatest", "commit", "committing", "abort"}
Updating == {"update", "updateLatest", "updatePointer"}

\* How Write and the coordinator hand a checkpoint over: the one in the
\* channel, or in finalize, is the barrier Write last took, and while its
\* transaction is open Write waits for it.
Handshake ==
    /\ latest < nextId /\ sinkId < nextId
    /\ mode = "running" => latest <= sinkId
    /\ mode = "running" /\ sink = "run" =>
         event = NoId /\ coord \notin Sealed /\ txnOpen /\ txnMarker = NoId
    /\ mode = "running" /\ sink = "wait" /\ txnOpen => txnMarker = sinkId
    /\ mode = "running" /\ (sink = "done" \/ ~txnOpen) => txnMarker = NoId
    /\ mode = "running" /\ event # NoId => event = sinkId /\ coord \notin Sealed
    /\ mode = "running" /\ coord \in Sealed => cur = sinkId
    /\ mode # "running" => coord \in {"idle"} \cup Updating /\ event = NoId
    /\ coord \in Sealed \cup Updating => cur \in Ids

\* What is on disk by the time finalize, recovery or the broker goes on.
Logged ==
    /\ coord \in {"saveLatest", "commit", "committing"} => files[cur].status # "none"
    /\ coord \in {"commit", "committing"} \cup Updating => latest = cur
    /\ coord \in Updating => Fault("overtake") \/ cur \in markers
    /\ inFlight => /\ mode # "running" /\ txnMarker \in Ids
                   /\ txnMarker <= latest /\ files[txnMarker].status # "none"

\* A checkpoint on its way through finalize has its transaction open and Write
\* waiting for it, unless Write has returned: with a checkpoint that is to be
\* committed, only by overtaking the commit.
Held ==
    mode = "running" /\ (event # NoId \/ coord \in Sealed) =>
        \/ sink = "wait" /\ txnOpen
        \/ sink = "done" /\ ~txnOpen /\ (InHand => Fault("overtake"))

Kept == ~Fault("overtake") => CompletedIsCommitted

flagVars == <<txnOpen, inFlight, stop, fatal, hard, produceErr, eventErr>>

Accord == TypeOK /\ Handshake /\ Logged /\ Kept /\ CommittedIsLogged

Agreement == Accord /\ Held

-----------------------------------------------------------------------------
\* Every leaf may use the two provers, SMT with a longer limit than its own.
USE DEF Ids, Recs, Offsets, NoId, NoOffset, Statuses, CoordPCs, Running, Goto, Fault

\* What a step leaves alone keeps its type.
LEMMA Frame ==
    /\ TypeStorage /\ UNCHANGED storageVars => TypeStorage'
    /\ TypeBroker /\ UNCHANGED brokerVars => TypeBroker'
    /\ TypeProcess /\ UNCHANGED procVars => TypeProcess'
    /\ TypeInjector /\ UNCHANGED injVars => TypeInjector'
    /\ TypeSink /\ UNCHANGED sinkVars => TypeSink'
    /\ TypeCoordinator /\ UNCHANGED coordVars => TypeCoordinator'
    /\ TypeFlags /\ UNCHANGED flagVars => TypeFlags'
<1>1. TypeStorage /\ UNCHANGED storageVars => TypeStorage'
  BY Zenon DEF TypeStorage, storageVars
<1>2. TypeBroker /\ UNCHANGED brokerVars => TypeBroker'
  BY Zenon DEF TypeBroker, brokerVars, txnVars
<1>3. TypeProcess /\ UNCHANGED procVars => TypeProcess'
  BY Zenon DEF TypeProcess, procVars
<1>4. TypeInjector /\ UNCHANGED injVars => TypeInjector'
  BY Zenon DEF TypeInjector, injVars
<1>5. TypeSink /\ UNCHANGED sinkVars => TypeSink'
  BY Zenon DEF TypeSink, sinkVars
<1>6. TypeCoordinator /\ UNCHANGED coordVars => TypeCoordinator'
  BY Zenon DEF TypeCoordinator, coordVars
<1>7. TypeFlags /\ UNCHANGED flagVars => TypeFlags'
  BY Zenon DEF TypeFlags, flagVars
<1> QED BY <1>1, <1>2, <1>3, <1>4, <1>5, <1>6, <1>7, Zenon

\* A step that leaves alone what an agreement conjunct is about keeps it.
LEMMA AgreementFrame ==
    /\ Handshake /\ UNCHANGED <<latest, nextId, mode, txnOpen, txnMarker, sink, sinkId, coord, cur, event>>
         => Handshake'
    /\ Logged /\ UNCHANGED <<files, latest, markers, txnMarker, inFlight, mode, coord, cur>> => Logged'
    /\ Kept /\ UNCHANGED <<files, markers>> => Kept'
    /\ CommittedIsLogged /\ UNCHANGED <<files, latest, markers>> => CommittedIsLogged'
<1>1. Handshake /\ UNCHANGED <<latest, nextId, mode, txnOpen, txnMarker, sink, sinkId, coord, cur, event>>
        => Handshake'
  BY DEF Handshake
<1>2. Logged /\ UNCHANGED <<files, latest, markers, txnMarker, inFlight, mode, coord, cur>> => Logged'
  BY DEF Logged
<1>3. Kept /\ UNCHANGED <<files, markers>> => Kept'
  BY Zenon DEF Kept, CompletedIsCommitted
<1>4. CommittedIsLogged /\ UNCHANGED <<files, latest, markers>> => CommittedIsLogged'
  BY Zenon DEF CommittedIsLogged
<1> QED BY <1>1, <1>2, <1>3, <1>4, Zenon

\* The agreement invariant holds of an empty directory and an idle broker.
LEMMA AgreementInit == Init => Agreement
<1> SUFFICES ASSUME Init PROVE Agreement
  BY Zenon
<1>1. TypeStorage /\ TypeBroker
  BY SizeAssumption DEF TypeStorage, TypeBroker, Init
<1>2. TypeProcess /\ TypeInjector
  BY SizeAssumption DEF TypeProcess, TypeInjector, Init
<1>3. TypeSink /\ TypeCoordinator
  BY SizeAssumption DEF TypeSink, TypeCoordinator, Init
<1>4. Handshake /\ Logged
  BY SizeAssumption DEF Handshake, Logged, Init, Sealed, Updating
<1>5. Kept /\ CommittedIsLogged
  BY Zenon DEF Kept, CompletedIsCommitted, CommittedIsLogged, Init
<1>6. TypeFlags
  BY Zenon DEF TypeFlags, Init
<1>7. Held
  BY Zenon DEF Held, Init
<1> QED BY <1>1, <1>2, <1>3, <1>4, <1>5, <1>6, <1>7, Zenon DEF Agreement, Accord, TypeOK

\* The accord is kept by a step of injectBarriers.
LEMMA InjectorAgrees == Agreement /\ Injector => Accord'
<1> SUFFICES ASSUME Agreement, Injector PROVE Accord'
  BY Zenon
<1> USE SizeAssumption DEF Agreement, Accord, TypeOK
<1>1. CASE InjectRecord
  <2>1. TypeStorage' /\ TypeBroker' /\ TypeProcess' /\ TypeSink' /\ TypeCoordinator' /\ TypeFlags'
    BY <1>1, Frame, Zenon DEF brokerVars, txnVars, procVars, sinkVars, coordVars, flagVars, InjectRecord
  <2>2. TypeInjector'
    BY <1>1 DEF TypeInjector, InjectRecord
  <2>3. Handshake'
    BY <1>1, Zenon DEF storageVars, brokerVars, txnVars, procVars, sinkVars, coordVars, Handshake,
       InjectRecord
  <2>4. Logged'
    BY <1>1, Zenon DEF storageVars, brokerVars, coordVars, Logged, InjectRecord
  <2>5. Kept' /\ CommittedIsLogged'
    BY <1>1, Zenon DEF storageVars, brokerVars, Kept, CompletedIsCommitted, CommittedIsLogged, InjectRecord
  <2> QED BY <2>1, <2>2, <2>3, <2>4, <2>5, Zenon
<1>2. CASE TickBarrier \/ ShutdownBarrier \/ FinalBarrier
  <2>1. /\ nextId \in Ids /\ nextId' = nextId + 1 /\ inj' \in {"run", "drain", "closed"}
        /\ ticks' \in {ticks, ticks + 1} /\ (ticks' = ticks \/ ticks < MaxTicks)
        /\ at' = [at EXCEPT ![nextId] = pos] /\ pending' = [pending EXCEPT ![nextId] = offsets]
        /\ UNCHANGED <<pos, offsets>> /\ UNCHANGED <<storageVars, brokerVars, procVars, sinkVars, coordVars>>
    BY <1>2, Zenon DEF TickBarrier, ShutdownBarrier, FinalBarrier, InjectBarrier
  <2>2. TypeStorage' /\ TypeBroker' /\ TypeProcess' /\ TypeSink' /\ TypeCoordinator' /\ TypeFlags'
    BY Frame, <2>1, Zenon DEF brokerVars, txnVars, procVars, sinkVars, coordVars, flagVars
  <2>3. TypeInjector'
    <3>1. at' \in [Ids -> 0 .. NumRecords]
      BY <2>1, Zenon DEF TypeInjector
    <3>2. pending' \in [Ids -> Offsets]
      BY <2>1, Zenon DEF TypeInjector
    <3>3. nextId' \in 1 .. MaxTicks + MaxStarts + 1 /\ ticks' \in 0 .. MaxTicks
      BY <2>1 DEF TypeInjector
    <3> QED BY <2>1, <3>1, <3>2, <3>3, Zenon DEF TypeInjector
  <2>4. Handshake'
    BY <2>1 DEF TypeStorage, storageVars, brokerVars, txnVars, procVars, TypeSink, sinkVars,
       coordVars, Handshake
  <2>5. Logged' /\ Kept' /\ CommittedIsLogged'
    BY <2>1, AgreementFrame, Zenon DEF storageVars, brokerVars, txnVars, procVars, coordVars
  <2> QED BY <2>2, <2>3, <2>4, <2>5, Zenon
<1>3. CASE DrainEnd
  <2>1. TypeStorage' /\ TypeBroker' /\ TypeProcess' /\ TypeSink' /\ TypeCoordinator' /\ TypeFlags'
    BY <1>3, Frame, Zenon DEF brokerVars, txnVars, procVars, sinkVars, coordVars, flagVars, DrainEnd
  <2>2. TypeInjector'
    BY <1>3, Zenon DEF TypeInjector, DrainEnd
  <2>3. Handshake'
    BY <1>3, Zenon DEF storageVars, brokerVars, txnVars, procVars, sinkVars, coordVars, Handshake, DrainEnd
  <2>4. Logged'
    BY <1>3, Zenon DEF storageVars, brokerVars, coordVars, Logged, DrainEnd
  <2>5. Kept' /\ CommittedIsLogged'
    BY <1>3, Zenon DEF storageVars, brokerVars, Kept, CompletedIsCommitted, CommittedIsLogged, DrainEnd
  <2> QED BY <2>1, <2>2, <2>3, <2>4, <2>5, Zenon
<1> QED BY <1>1, <1>2, <1>3, Zenon DEF Injector

\* The accord is kept by a step of Write.
LEMMA SinkAgrees == Agreement /\ Sink => Accord'
<1> SUFFICES ASSUME Agreement, Sink PROVE Accord'
  BY Zenon
<1> USE SizeAssumption DEF Agreement, Accord, TypeOK
<1>1. CASE SinkRecord
  <2>1. TypeStorage' /\ TypeProcess' /\ TypeInjector' /\ TypeCoordinator'
    BY <1>1, Frame, Zenon DEF SinkRecord, BarrierNext
  <2>2. TypeBroker'
    <3>1. sinkPos \in Recs
      BY <1>1 DEF TypeInjector, TypeSink, SinkRecord
    <3>2. visible' = visible /\ markers' = markers /\ txnMarker' = txnMarker
      BY <1>1, Zenon DEF SinkRecord
    <3>3. txnRecs' \in {txnRecs, txnRecs \cup {sinkPos}}
      BY <1>1, Zenon DEF SinkRecord
    <3> QED BY <3>1, <3>2, <3>3, Zenon DEF TypeBroker
  <2>3. TypeSink'
    BY <1>1 DEF TypeInjector, TypeSink, SinkRecord
  <2>4. TypeFlags'
    BY <1>1, Zenon DEF storageVars, procVars, injVars, coordVars, TypeFlags, SinkRecord, BarrierNext
  <2>5. Handshake'
    BY <1>1, Zenon DEF storageVars, procVars, injVars, coordVars, Handshake, SinkRecord
  <2>6. Logged'
    BY <1>1, Zenon DEF storageVars, coordVars, Logged, SinkRecord
  <2>7. Kept' /\ CommittedIsLogged'
    BY <1>1, Zenon DEF storageVars, Kept, CompletedIsCommitted, CommittedIsLogged, SinkRecord
  <2> QED BY <2>1, <2>2, <2>3, <2>4, <2>5, <2>6, <2>7, Zenon
<1>2. CASE SinkBarrier
  <2>1. TypeStorage' /\ TypeProcess' /\ TypeInjector'
    BY <1>2, Frame, Zenon DEF BarrierNext, SinkBarrier
  <2>2. TypeBroker'
    <3>1. UNCHANGED <<visible, markers, txnRecs>> /\ txnMarker' = sinkId + 1 /\ sinkId + 1 < nextId
      BY <1>2, Zenon DEF BarrierNext, SinkBarrier
    <3> QED BY <3>1 DEF TypeBroker, TypeInjector, TypeSink
  <2>3. TypeSink'
    BY <1>2 DEF TypeInjector, TypeSink, BarrierNext, SinkBarrier
  <2>4. TypeCoordinator'
    BY <1>2 DEF TypeInjector, TypeSink, TypeCoordinator, BarrierNext, SinkBarrier
  <2>5. TypeFlags'
    BY <1>2, Zenon DEF storageVars, procVars, injVars, TypeFlags, BarrierNext, SinkBarrier
  <2>6. Handshake'
    BY <1>2 DEF TypeStorage, storageVars, procVars, injVars, TypeSink, Handshake, BarrierNext,
       SinkBarrier
  <2>7. Logged'
    BY <1>2, Zenon DEF storageVars, Logged, SinkBarrier
  <2>8. Kept' /\ CommittedIsLogged'
    BY <1>2, Zenon DEF storageVars, Kept, CompletedIsCommitted, CommittedIsLogged, SinkBarrier
  <2> QED BY <2>1, <2>2, <2>3, <2>4, <2>5, <2>6, <2>7, <2>8, Zenon
<1>3. CASE SinkReturn
  <2>1. TypeStorage' /\ TypeProcess' /\ TypeInjector' /\ TypeCoordinator'
    BY <1>3, Frame, Zenon DEF SinkReturn
  <2>2. TypeBroker'
    BY <1>3, Zenon DEF TypeBroker, SinkReturn
  <2>3. TypeSink'
    BY <1>3, Zenon DEF TypeSink, SinkReturn
  <2>4. TypeFlags'
    BY <1>3, Zenon DEF storageVars, procVars, injVars, coordVars, TypeFlags, SinkReturn
  <2>5. Handshake'
    BY <1>3, Zenon DEF storageVars, procVars, injVars, coordVars, Handshake, SinkReturn
  <2>6. Logged'
    BY <1>3, Zenon DEF storageVars, coordVars, Logged, SinkReturn
  <2>7. Kept' /\ CommittedIsLogged'
    BY <1>3, Zenon DEF storageVars, Kept, CompletedIsCommitted, CommittedIsLogged, SinkReturn
  <2> QED BY <2>1, <2>2, <2>3, <2>4, <2>5, <2>6, <2>7, Zenon
<1> QED BY <1>1, <1>2, <1>3, Zenon DEF Sink

\* The accord is kept by finalize, up to the end of the transaction.
LEMMA FinalizeAgrees == Agreement /\ (\/ TakeEvent \/ SavePrepared \/ SaveLatest \/ CallCommit \/ CommitSink
                                      \/ CommitError \/ AbortSink \/ AbortError \/ ReportFatal) => Accord'
<1> SUFFICES ASSUME Agreement, \/ TakeEvent \/ SavePrepared \/ SaveLatest \/ CallCommit \/ CommitSink
                                \/ CommitError \/ AbortSink \/ AbortError \/ ReportFatal PROVE Accord'
  BY Zenon
<1> USE SizeAssumption DEF Agreement, Accord, TypeOK
<1>1. CASE TakeEvent
  <2>1. TypeStorage' /\ TypeBroker' /\ TypeProcess' /\ TypeInjector' /\ TypeSink'
    BY <1>1, Frame, Zenon DEF TakeEvent
  <2>2. TypeCoordinator'
    BY <1>1, Zenon DEF TypeCoordinator, TakeEvent
  <2>3. TypeFlags'
    BY <1>1, Zenon DEF storageVars, brokerVars, txnVars, procVars, injVars, sinkVars, TypeFlags,
       TakeEvent
  <2>4. Handshake'
    BY <1>1, Zenon DEF storageVars, brokerVars, txnVars, procVars, injVars, TypeSink, sinkVars, Handshake,
       TakeEvent
  <2>5. Logged'
    BY <1>1, Zenon DEF brokerVars, Logged, Updating, TakeEvent
  <2>6. Kept' /\ CommittedIsLogged'
    BY <1>1, Zenon DEF TypeStorage, storageVars, brokerVars, Kept, CompletedIsCommitted, CommittedIsLogged,
       TakeEvent
  <2> QED BY <2>1, <2>2, <2>3, <2>4, <2>5, <2>6, Zenon
<1>2. CASE SavePrepared
  <2>1. TypeBroker' /\ TypeProcess' /\ TypeInjector' /\ TypeSink' /\ TypeFlags'
    BY Frame, <1>2, Zenon DEF brokerVars, txnVars, procVars, sinkVars, flagVars, SavePrepared
  <2>2. TypeStorage'
    <3>1. cur \in Ids /\ pending[cur] \in Offsets
      BY <1>2, Zenon DEF TypeInjector, Handshake, Sealed, SavePrepared
    <3>2. latest' = latest /\ latestCompleted' = latestCompleted
      BY <1>2, Zenon DEF SavePrepared
    <3>3. files' \in [Ids -> [status : Statuses, offset : Offsets]]
      <4>1. files' \in {files, [files EXCEPT ![cur] = [status |-> "prepared", offset |-> pending[cur]]]}
        BY <1>2, Zenon DEF SavePrepared
      <4>2. [status |-> "prepared", offset |-> pending[cur]] \in [status : Statuses, offset : Offsets]
        BY <3>1, Zenon
      <4> QED BY <3>1, <4>1, <4>2, Zenon DEF TypeStorage
    <3> QED BY <3>2, <3>3, Zenon DEF TypeStorage
  <2>3. TypeCoordinator'
    BY <1>2, Zenon DEF TypeCoordinator, SavePrepared
  <2>4. Handshake'
    BY <1>2, Zenon DEF brokerVars, txnVars, procVars, injVars, sinkVars, Handshake, Sealed, SavePrepared
  <2>5. Logged'
    BY <1>2 DEF TypeStorage, brokerVars, txnVars, injVars, TypeSink, sinkVars, Handshake, Logged,
       Sealed, Updating, SavePrepared
  <2>6. Kept' /\ CommittedIsLogged'
    <3>1. latest' = latest /\ markers' = markers
      BY <1>2, Zenon DEF brokerVars, SavePrepared
    <3>2. \A i \in Ids : files'[i] = files[i] \/ files'[i].status = "prepared"
      BY <1>2 DEF TypeStorage, SavePrepared
    <3> QED BY <3>1, <3>2, Zenon DEF TypeBroker, Kept, CompletedIsCommitted, CommittedIsLogged
  <2> QED BY <2>1, <2>2, <2>3, <2>4, <2>5, <2>6, Zenon
<1>3. CASE SaveLatest
  <2>1. TypeBroker' /\ TypeProcess' /\ TypeInjector' /\ TypeSink' /\ TypeFlags'
    BY Frame, <1>3, Zenon DEF brokerVars, txnVars, procVars, sinkVars, flagVars, SaveLatest
  <2>2. TypeStorage'
    BY <1>3, Zenon DEF TypeStorage, TypeCoordinator, SaveLatest
  <2>3. TypeCoordinator'
    BY <1>3, Zenon DEF TypeCoordinator, SaveLatest
  <2>4. Handshake'
    BY <1>3 DEF brokerVars, txnVars, procVars, injVars, TypeSink, sinkVars, TypeCoordinator,
       Handshake, Sealed, Updating, SaveLatest
  <2>5. Logged'
    BY <1>3, Zenon DEF brokerVars, Logged, Updating, SaveLatest
  <2>6. Kept' /\ CommittedIsLogged'
    <3>1. files' = files /\ markers' = markers /\ latest' \in {latest, cur}
      BY <1>3, Zenon DEF brokerVars, SaveLatest
    <3>2. latest <= cur
      BY <1>3, Zenon DEF Handshake, Sealed, SaveLatest
    <3>3. latest \in Int /\ cur \in Int /\ markers \subseteq Int
      BY DEF TypeStorage, TypeBroker, TypeCoordinator
    <3>4. ASSUME NEW i \in markers PROVE i <= latest'
      BY <3>1, <3>2, <3>3 DEF CommittedIsLogged
    <3> QED BY <3>1, <3>4, Zenon DEF Kept, CompletedIsCommitted, CommittedIsLogged
  <2> QED BY <2>1, <2>2, <2>3, <2>4, <2>5, <2>6, Zenon
<1>4. CASE CallCommit
  <2>1. TypeStorage' /\ TypeBroker' /\ TypeProcess' /\ TypeInjector' /\ TypeSink' /\ TypeFlags'
    BY Frame, <1>4, Zenon DEF brokerVars, txnVars, procVars, sinkVars, flagVars, CallCommit
  <2>2. TypeCoordinator'
    BY <1>4, Zenon DEF TypeCoordinator, CallCommit
  <2>3. Handshake'
    BY <1>4, Zenon DEF storageVars, brokerVars, txnVars, procVars, injVars, sinkVars, Handshake, Sealed,
       CallCommit
  <2>4. Logged'
    BY <1>4, Zenon DEF storageVars, brokerVars, Logged, Updating, CallCommit
  <2>5. Kept' /\ CommittedIsLogged'
    BY <1>4, Zenon DEF TypeStorage, storageVars, brokerVars, Kept, CompletedIsCommitted, CommittedIsLogged,
       CallCommit
  <2> QED BY <2>1, <2>2, <2>3, <2>4, <2>5, Zenon
<1>5. CASE CommitSink
  <2>a. /\ coord = "committing" /\ mode = "running" /\ coord' = "update"
        /\ UNCHANGED <<files, latest, mode, cur, inFlight>>
        /\ markers' = markers \cup ({txnMarker} \ {NoId})
    BY <1>5, Zenon DEF CommitSink, BrokerCommit, NextTxn, storageVars, procVars
  <2>d. latest = cur /\ files[cur].status # "none" /\ cur \in Ids /\ ~inFlight
    BY <2>a, Zenon DEF Handshake, Logged, Sealed
  <2>b. latest = cur /\ files[cur].status # "none" /\ cur \in Ids /\ cur # NoId /\ ~inFlight
    BY <2>d, SMT
  <2>c. txnMarker \in {NoId, cur} /\ (~Fault("overtake") => txnMarker = cur)
    BY <2>a, Zenon DEF TypeSink, Handshake, Held, InHand, Sealed
  <2>1. TypeStorage' /\ TypeProcess' /\ TypeInjector'
    BY Frame, <1>5, Zenon DEF CommitSink, BrokerCommit, NextTxn
  <2>2. TypeBroker'
    BY <1>5 DEF TypeBroker, CommitSink, BrokerCommit, NextTxn
  <2>3. TypeSink'
    BY <1>5, Zenon DEF TypeSink, CommitSink, NextTxn
  <2>4. TypeCoordinator'
    BY <1>5, Zenon DEF TypeCoordinator, CommitSink
  <2>5. TypeFlags'
    BY <1>5, Zenon DEF storageVars, procVars, injVars, TypeFlags, CommitSink, BrokerCommit, NextTxn
  <2>6. Handshake'
    BY <1>5, Zenon DEF storageVars, injVars, Handshake, Sealed, Updating, CommitSink, NextTxn
  <2>7. Logged'
    BY <2>a, <2>b, <2>c, Zenon DEF Logged, Updating
  <2>8. Kept' /\ CommittedIsLogged'
    <3>1. \A i \in markers' : i \in markers \/ i = cur
      BY <2>a, <2>c, Zenon
    <3> QED BY <2>a, <2>b, <3>1, SMT DEF TypeStorage, Kept, CompletedIsCommitted, CommittedIsLogged
  <2> QED BY <2>1, <2>2, <2>3, <2>4, <2>5, <2>6, <2>7, <2>8, Zenon
<1>6. CASE CommitError
  <2>1. TypeStorage' /\ TypeProcess' /\ TypeInjector' /\ TypeSink'
    BY Frame, <1>6, Zenon DEF BrokerCommit, CommitError
  <2>2. TypeBroker'
    <3>1. visible' \in [Recs -> Nat]
      <4>1. CASE visible' = visible
        BY <4>1, Zenon DEF TypeBroker
      <4>2. CASE BrokerCommit
        BY <4>2 DEF TypeBroker, BrokerCommit
      <4> QED BY <1>6, <4>1, <4>2, Zenon DEF CommitError
    <3>3. markers' \subseteq Ids
      <4>1. markers' \in {markers, markers \cup ({txnMarker} \ {NoId})}
        BY <1>6, Zenon DEF BrokerCommit, CommitError
      <4> QED BY <4>1, Zenon DEF TypeBroker
    <3>2. txnRecs' = {} /\ txnMarker' = NoId
      BY <1>6, Zenon DEF CommitError
    <3> QED BY <3>1, <3>2, <3>3, Zenon DEF TypeBroker
  <2>3. TypeCoordinator'
    BY <1>6, Zenon DEF TypeCoordinator, CommitError
  <2>4. TypeFlags'
    BY <1>6, Zenon DEF storageVars, procVars, injVars, sinkVars, TypeFlags, BrokerCommit, CommitError
  <2>5. Handshake'
    BY <1>6, Zenon DEF storageVars, procVars, injVars, sinkVars, Handshake, Sealed, CommitError
  <2>6. Logged'
    BY <1>6, Zenon DEF Logged, Updating, CommitError
  <2>7. Kept' /\ CommittedIsLogged'
    <3>1. UNCHANGED <<files, latest>>
      BY <1>6, Zenon DEF storageVars, CommitError
    <3>2. markers' = markers \/ markers' = markers \cup ({txnMarker} \ {NoId})
      BY <1>6, Zenon DEF BrokerCommit, CommitError
    <3>3. coord = "committing" /\ mode = "running"
      BY <1>6, Zenon DEF CommitError
    <3>4. txnMarker \in {NoId, cur}
      BY <3>3, Zenon DEF TypeSink, Handshake, Sealed
    <3>5. latest = cur /\ files[cur].status # "none" /\ latest \in Ids
      BY <3>3, Zenon DEF Handshake, Logged, Sealed
    <3> QED BY <3>1, <3>2, <3>4, <3>5 DEF Kept, CompletedIsCommitted, CommittedIsLogged
  <2> QED BY <2>1, <2>2, <2>3, <2>4, <2>5, <2>6, <2>7, Zenon
<1>7. CASE AbortSink
  <2>1. TypeStorage' /\ TypeProcess' /\ TypeInjector'
    BY Frame, <1>7, Zenon DEF NextTxn, AbortSink
  <2>2. TypeBroker'
    BY <1>7, Zenon DEF TypeBroker, NextTxn, AbortSink
  <2>3. TypeSink'
    BY <1>7, Zenon DEF TypeSink, NextTxn, AbortSink
  <2>4. TypeCoordinator'
    BY <1>7, Zenon DEF TypeCoordinator, AbortSink
  <2>5. TypeFlags'
    BY <1>7, Zenon DEF storageVars, procVars, injVars, TypeFlags, NextTxn, AbortSink
  <2>6. Handshake'
    BY <1>7, Zenon DEF storageVars, procVars, injVars, Handshake, Sealed, NextTxn, AbortSink
  <2>7. Logged'
    BY <1>7, Zenon DEF Logged, Updating, NextTxn, AbortSink
  <2>8. Kept' /\ CommittedIsLogged'
    BY <1>7, Zenon DEF storageVars, Kept, CompletedIsCommitted, CommittedIsLogged, AbortSink
  <2> QED BY <2>1, <2>2, <2>3, <2>4, <2>5, <2>6, <2>7, <2>8, Zenon
<1>8. CASE AbortError
  <2>1. TypeStorage' /\ TypeBroker' /\ TypeProcess' /\ TypeInjector' /\ TypeSink' /\ TypeFlags'
    BY Frame, <1>8, Zenon DEF brokerVars, txnVars, procVars, sinkVars, flagVars, AbortError
  <2>2. TypeCoordinator'
    BY <1>8, Zenon DEF TypeCoordinator, AbortError
  <2>3. Handshake'
    BY <1>8, Zenon DEF storageVars, brokerVars, txnVars, procVars, injVars, sinkVars, Handshake, Sealed,
       AbortError
  <2>4. Logged'
    BY <1>8, Zenon DEF brokerVars, Logged, Updating, AbortError
  <2>5. Kept' /\ CommittedIsLogged'
    BY <1>8, Zenon DEF TypeStorage, storageVars, brokerVars, Kept, CompletedIsCommitted, CommittedIsLogged,
       AbortError
  <2> QED BY <2>1, <2>2, <2>3, <2>4, <2>5, Zenon
<1>9. CASE ReportFatal
  <2>1. TypeStorage' /\ TypeBroker' /\ TypeInjector' /\ TypeSink'
    BY Frame, <1>9, Zenon DEF ReportFatal
  <2>2. TypeProcess'
    BY <1>9, Zenon DEF TypeProcess, ReportFatal
  <2>3. TypeCoordinator'
    BY <1>9, Zenon DEF TypeCoordinator, ReportFatal
  <2>4. TypeFlags'
    BY <1>9, Zenon DEF brokerVars, txnVars, sinkVars, TypeFlags, ReportFatal
  <2>5. Handshake'
    BY <1>9, Zenon DEF storageVars, brokerVars, txnVars, injVars, sinkVars, Handshake, Sealed, Updating,
       ReportFatal
  <2>6. Logged'
    BY <1>9, Zenon DEF brokerVars, Logged, Updating, ReportFatal
  <2>7. Kept' /\ CommittedIsLogged'
    BY <1>9, Zenon DEF storageVars, brokerVars, Kept, CompletedIsCommitted, CommittedIsLogged, ReportFatal
  <2> QED BY <2>1, <2>2, <2>3, <2>4, <2>5, <2>6, <2>7, Zenon
<1> QED BY <1>1, <1>2, <1>3, <1>4, <1>5, <1>6, <1>7, <1>8, <1>9, Zenon

\* The accord is kept by UpdateStatus, by the coordinator or by recovery.
LEMMA UpdateAgrees == Agreement /\ (UpdateStatus \/ UpdateLatest \/ UpdatePointer) => Accord'
<1> SUFFICES ASSUME Agreement, UpdateStatus \/ UpdateLatest \/ UpdatePointer PROVE Accord'
  BY Zenon
<1> USE SizeAssumption DEF Agreement, Accord, TypeOK
<1>1. CASE UpdateStatus
  <2>1. coord = "update" /\ cur \in Ids /\ (Fault("overtake") \/ cur \in markers) /\ latest = cur
    BY <1>1, Zenon DEF UpdateStatus, Handshake, Logged, Updating
  <2>2. /\ files' \in {files, [files EXCEPT ![cur].status = "completed"]}
        /\ UNCHANGED <<latest, latestCompleted, pos>>
        /\ UNCHANGED <<starts, stop, fatal, hard, inj, offsets, nextId, ticks, at, pending>>
        /\ UNCHANGED <<brokerVars, sinkVars, cur, event, eventErr>>
        /\ \/ mode' = mode /\ coord' = "updateLatest"
           \/ mode = "running" /\ mode' = mode /\ coord' = "report"
           \/ mode # "running" /\ mode' = "down" /\ coord' = "idle"
    BY <1>1, Zenon DEF UpdateStatus, UpdateError, storageVars
  <2>3. TypeBroker' /\ TypeSink' /\ TypeFlags'
    BY <2>2, Frame, Zenon DEF flagVars, brokerVars, txnVars, sinkVars
  <2>4. TypeStorage'
    <3>1. CASE files' = files
      BY <2>2, <3>1, Zenon DEF TypeStorage
    <3>2. CASE files' = [files EXCEPT ![cur].status = "completed"]
      <4>1. files' \in [Ids -> [status : Statuses, offset : Offsets]]
        BY <2>1, <3>2, Zenon DEF TypeStorage
      <4> QED BY <2>2, <4>1, Zenon DEF TypeStorage
    <3> QED BY <2>2, <3>1, <3>2, Zenon
  <2>5. TypeProcess' /\ TypeInjector' /\ TypeCoordinator'
    BY <2>2, Zenon DEF TypeProcess, TypeInjector, TypeCoordinator
  <2>6. \A i \in Ids : files'[i].status = files[i].status \/ (i = cur /\ files'[i].status = "completed")
    BY <2>2, Zenon DEF TypeStorage
  <2>7. Handshake'
    BY <2>1, <2>2, Zenon DEF Handshake, Sealed, Updating, brokerVars, txnVars, sinkVars
  <2>8. Logged'
    BY <2>1, <2>2, <2>6, Zenon DEF Logged, Updating, brokerVars, txnVars
  <2>9. Kept' /\ CommittedIsLogged'
    BY <2>1, <2>2, <2>6, Zenon DEF Kept, CompletedIsCommitted, CommittedIsLogged, TypeBroker, brokerVars
  <2> QED BY <2>3, <2>4, <2>5, <2>7, <2>8, <2>9, Zenon
<1>2. CASE UpdateLatest
  <2>1. TypeBroker' /\ TypeSink' /\ TypeFlags'
    BY Frame, <1>2, Zenon DEF brokerVars, txnVars, sinkVars, flagVars, UpdateError, UpdateLatest
  <2>2. TypeStorage'
    BY <1>2, Zenon DEF TypeStorage, storageVars, TypeCoordinator, UpdateError, UpdateLatest
  <2>3. TypeProcess'
    BY <1>2, Zenon DEF TypeProcess, UpdateError, UpdateLatest
  <2>4. TypeInjector'
    BY <1>2, Frame, Zenon DEF injVars, UpdateError, UpdateLatest
  <2>5. TypeCoordinator'
    BY <1>2, Zenon DEF TypeCoordinator, UpdateError, UpdateLatest
  <2>6. Handshake'
    <3>1. latest' = latest
      BY <1>2, Zenon DEF storageVars, Logged, Updating, UpdateError, UpdateLatest
    <3> QED
      BY <3>1, <1>2, Zenon DEF brokerVars, txnVars, sinkVars, Handshake, Sealed, Updating, UpdateError,
         UpdateLatest
  <2>7. Logged'
    BY <1>2, Zenon DEF storageVars, brokerVars, txnVars, Logged, Updating, UpdateError, UpdateLatest
  <2>8. Kept' /\ CommittedIsLogged'
    BY <1>2, Zenon DEF storageVars, brokerVars, Logged, Kept, CompletedIsCommitted, CommittedIsLogged, Updating,
       UpdateError, UpdateLatest
  <2> QED BY <2>1, <2>2, <2>3, <2>4, <2>5, <2>6, <2>7, <2>8, Zenon
<1>3. CASE UpdatePointer
  <2>1. coord = "updatePointer" /\ cur \in Ids /\ files[cur].offset \in Offsets
    BY <1>3, Zenon DEF UpdatePointer, Handshake, Updating, TypeStorage
  <2>2. /\ latestCompleted' \in {latestCompleted, cur} /\ UNCHANGED <<files, latest>>
        /\ pos' = pos \/ RestoreOffset(files[cur].offset)
        /\ UNCHANGED <<starts, stop, fatal, hard, inj, offsets, nextId, ticks, at, pending>>
        /\ UNCHANGED <<brokerVars, sinkVars, cur, event, eventErr>>
        /\ \/ mode = "running" /\ mode' = mode /\ coord' \in {"idle", "report"}
           \/ mode # "running" /\ mode' \in {"init", "down"} /\ coord' = "idle"
    BY <1>3, Zenon DEF UpdatePointer, UpdateError, storageVars
  <2>3. TypeBroker' /\ TypeSink' /\ TypeFlags'
    BY <2>2, Frame, Zenon DEF flagVars, brokerVars, txnVars, sinkVars
  <2>4. TypeStorage' /\ TypeProcess' /\ TypeCoordinator'
    BY <2>1, <2>2, Zenon DEF TypeStorage, TypeProcess, TypeCoordinator
  <2>5. TypeInjector'
    <3>1. pos' \in 0 .. NumRecords
      BY <2>1, <2>2 DEF TypeInjector, RestoreOffset
    <3> QED BY <2>2, <3>1, Zenon DEF TypeInjector
  <2>6. Handshake'
    BY <2>1, <2>2, Zenon DEF Handshake, Sealed, Updating, brokerVars, txnVars, sinkVars
  <2>7. Logged'
    BY <2>1, <2>2, Zenon DEF Logged, Updating, brokerVars, txnVars
  <2>8. Kept' /\ CommittedIsLogged'
    BY <2>2, AgreementFrame, Zenon DEF brokerVars
  <2> QED BY <2>3, <2>4, <2>5, <2>6, <2>7, <2>8, Zenon
<1> QED BY <1>1, <1>2, <1>3, Zenon

\* The accord is kept by recovery and the start of a run.
LEMMA StartAgrees == Agreement /\ (\/ RecoverFresh \/ RecoverCompleted \/ RecoverFallBack
                                   \/ RecoverPromote \/ StartRun) => Accord'
<1> SUFFICES ASSUME Agreement, \/ RecoverFresh \/ RecoverCompleted \/ RecoverFallBack
                                \/ RecoverPromote \/ StartRun PROVE Accord'
  BY Zenon
<1> USE SizeAssumption DEF Agreement, Accord, TypeOK
<1>1. CASE RecoverFresh \/ RecoverCompleted \/ RecoverFallBack
  <2>1. mode = "recover" /\ coord = "idle" /\ \E off \in Offsets : RecoverTo(off)
    <3>1. CASE RecoverFresh
      BY <3>1 DEF RecoverFresh, Recovering
    <3>2. CASE RecoverCompleted
      BY <3>2, Zenon DEF TypeStorage, Recovering, RecoverCompleted
    <3>3. CASE RecoverFallBack
      BY <3>3 DEF TypeStorage, Recovering, RecoverFallBack, Undecided
    <3> QED BY <3>1, <3>2, <3>3, <1>1, Zenon
  <2>2. /\ mode' = "init" /\ pos' \in 0 .. NumRecords
        /\ UNCHANGED <<starts, stop, fatal, hard, inj, offsets, nextId, ticks, at, pending>>
        /\ UNCHANGED <<storageVars, brokerVars, sinkVars, coordVars>>
    BY <2>1 DEF RestoreOffset, RecoverTo
  <2>3. TypeStorage' /\ TypeBroker' /\ TypeSink' /\ TypeCoordinator' /\ TypeFlags'
    BY Frame, <2>2, Zenon DEF brokerVars, txnVars, sinkVars, coordVars, flagVars
  <2>4. TypeProcess' /\ TypeInjector'
    BY <2>2, Zenon DEF TypeProcess, TypeInjector
  <2>5. Handshake'
    BY <2>1, <2>2, Zenon DEF storageVars, sinkVars, coordVars, Handshake
  <2>6. Logged'
    BY <2>1, <2>2, Zenon DEF storageVars, brokerVars, txnVars, coordVars, Logged, Updating
  <2>7. Kept' /\ CommittedIsLogged'
    BY <2>2, AgreementFrame, Zenon DEF storageVars, brokerVars
  <2> QED BY <2>3, <2>4, <2>5, <2>6, <2>7, Zenon
<1>2. CASE RecoverPromote
  <2>1. TypeStorage' /\ TypeBroker' /\ TypeProcess' /\ TypeInjector' /\ TypeSink' /\ TypeFlags'
    BY Frame, <1>2, Zenon DEF storageVars, brokerVars, txnVars, procVars, injVars, sinkVars, coordVars,
       flagVars, Recovering, RecoverPromote
  <2>2. TypeCoordinator'
    BY <1>2, Zenon DEF TypeStorage, TypeCoordinator, RecoverPromote
  <2>3. Handshake'
    BY <1>2, Zenon DEF TypeStorage, storageVars, procVars, injVars, sinkVars, Handshake, Updating,
       Recovering, Undecided, RecoverPromote
  <2>4. Logged'
    BY <1>2, Zenon DEF storageVars, brokerVars, txnVars, procVars, injVars, sinkVars, Logged, Recovering,
       Undecided, RecoverPromote
  <2>5. Kept' /\ CommittedIsLogged'
    BY <1>2, Zenon DEF storageVars, brokerVars, procVars, sinkVars, Kept, CompletedIsCommitted,
       CommittedIsLogged, Recovering, Undecided, RecoverPromote
  <2> QED BY <2>1, <2>2, <2>3, <2>4, <2>5, Zenon
<1>3. CASE StartRun
  <2>1. TypeStorage' /\ TypeCoordinator'
    BY Frame, <1>3, Zenon DEF StartRun
  <2>2. TypeBroker'
    BY <1>3, Zenon DEF storageVars, TypeBroker, coordVars, StartRun
  <2>3. TypeProcess'
    BY <1>3, Zenon DEF storageVars, TypeProcess, coordVars, StartRun
  <2>4. TypeInjector'
    BY <1>3 DEF storageVars, TypeInjector, coordVars, StartRun
  <2>5. TypeSink'
    BY <1>3 DEF storageVars, TypeInjector, TypeSink, coordVars, StartRun
  <2>6. TypeFlags'
    BY <1>3, Zenon DEF storageVars, coordVars, TypeFlags, StartRun
  <2>7. Handshake'
    <3>1. /\ mode = "init" /\ mode' = "running" /\ sink' = "run" /\ sinkId' = nextId - 1
          /\ txnOpen' /\ txnMarker' = NoId /\ UNCHANGED <<nextId, latest, event, coord, cur>>
      BY <1>3, Zenon DEF storageVars, coordVars, StartRun
    <3>2. latest < nextId /\ event = NoId /\ coord \in {"idle"} \cup Updating
          /\ (coord \in Sealed \cup Updating => cur \in Ids)
      BY <3>1, Zenon DEF Handshake
    <3>3. latest \in Int /\ nextId \in Int
      BY DEF TypeStorage, TypeInjector
    <3>4. coord \notin Sealed
      BY <3>2, Zenon DEF Sealed, Updating
    <3>5. latest' < nextId' /\ sinkId' < nextId' /\ latest' <= sinkId'
      BY <3>1, <3>2, <3>3
    <3>6. sink' # "wait" /\ sink' # "done" /\ coord' \notin Sealed /\ event' = NoId
      BY <3>1, <3>2, <3>4, Zenon
    <3>7. coord' \in Sealed \cup Updating => cur' \in Ids
      BY <3>1, <3>2, Zenon
    <3> QED BY <3>1, <3>5, <3>6, <3>7, Zenon DEF Handshake
  <2>8. Logged'
    BY <1>3, Zenon DEF storageVars, TypeInjector, coordVars, Logged, Updating, StartRun
  <2>9. Kept' /\ CommittedIsLogged'
    BY <1>3, Zenon DEF TypeStorage, storageVars, Kept, CompletedIsCommitted, CommittedIsLogged, Updating,
       StartRun
  <2> QED BY <2>1, <2>2, <2>3, <2>4, <2>5, <2>6, <2>7, <2>8, <2>9, Zenon
<1> QED BY <1>1, <1>2, <1>3, Zenon

\* The accord is kept by the end of a process, whatever ends it, and its restart.
LEMMA EndAgrees == Agreement /\ (ProbeError \/ Process) => Accord'
<1> SUFFICES ASSUME Agreement, ProbeError \/ Process PROVE Accord'
  BY Zenon
<1> USE SizeAssumption DEF Agreement, Accord, TypeOK
<1>1. CASE Shutdown \/ HardCancel
  <2>1. /\ UNCHANGED <<mode, starts, storageVars, brokerVars, injVars, sinkVars, coordVars>>
        /\ UNCHANGED fatal /\ stop' \in {stop, TRUE} /\ hard' \in {hard, TRUE}
    BY <1>1, Zenon DEF Shutdown, HardCancel
  <2>2. TypeStorage' /\ TypeBroker' /\ TypeInjector' /\ TypeSink' /\ TypeCoordinator'
    BY Frame, <2>1, Zenon
  <2>3. TypeProcess' /\ TypeFlags'
    BY <2>1, Zenon DEF brokerVars, txnVars, TypeProcess, sinkVars, coordVars, TypeFlags
  <2>4. Handshake' /\ Logged' /\ Kept' /\ CommittedIsLogged'
    BY <2>1, AgreementFrame, Zenon DEF storageVars, brokerVars, txnVars, injVars, sinkVars, coordVars
  <2> QED BY <2>2, <2>3, <2>4, Zenon
<1>2. CASE Exit \/ Crash \/ ProbeError
  <2>1. /\ Forget /\ UNCHANGED <<storageVars, visible, markers, txnVars>>
    BY <1>2, Zenon DEF brokerVars, Exit, Crash, ProbeError
  <2>2. \/ inFlight' = inFlight /\ inFlight' \in BOOLEAN
        \/ inFlight' = (mode = "running" /\ coord = "committing" /\ txnOpen) /\ inFlight' \in BOOLEAN
    BY <1>2, Zenon DEF brokerVars, TypeFlags, Exit, Crash, ProbeError
  <2>3. TypeStorage' /\ TypeBroker'
    BY <2>1, Zenon DEF TypeStorage, storageVars, TypeBroker, txnVars
  <2>4. TypeProcess' /\ TypeInjector'
    BY <2>1 DEF TypeProcess, TypeInjector, Forget
  <2>5. TypeSink' /\ TypeCoordinator'
    BY <2>1 DEF TypeSink, TypeCoordinator, Forget
  <2>6. TypeFlags'
    BY <2>1, <2>2, Zenon DEF txnVars, TypeFlags, Forget
  <2>7. Handshake'
    BY <2>1 DEF storageVars, TypeInjector, Handshake, Sealed, Updating, Forget
  <2>8. Logged'
    <3>1. inFlight' => inFlight \/ (mode = "running" /\ coord = "committing" /\ txnOpen)
      BY <2>2, Zenon
    <3>2. inFlight' => txnMarker \in Ids /\ txnMarker <= latest /\ files[txnMarker].status # "none"
      BY <3>1, Zenon DEF TypeStorage, TypeSink, Handshake, Held, Logged, Sealed
    <3> QED BY <2>1, <3>2, Zenon DEF storageVars, txnVars, Logged, Updating, Forget
  <2>9. Kept' /\ CommittedIsLogged'
    BY <2>1, AgreementFrame, Zenon DEF storageVars
  <2> QED BY <2>3, <2>4, <2>5, <2>6, <2>7, <2>8, <2>9, Zenon
<1>3. CASE Restart
  <2>1. TypeStorage' /\ TypeBroker' /\ TypeInjector' /\ TypeSink' /\ TypeCoordinator' /\ TypeFlags'
    BY Frame, <1>3, Zenon DEF brokerVars, txnVars, sinkVars, coordVars, flagVars, Restart
  <2>2. TypeProcess'
    BY <1>3 DEF TypeProcess, Restart
  <2>3. Handshake'
    BY <1>3, Zenon DEF storageVars, brokerVars, txnVars, injVars, sinkVars, TypeCoordinator, coordVars,
       Handshake, Updating, Restart
  <2>4. Logged'
    BY <1>3, Zenon DEF storageVars, brokerVars, txnVars, injVars, sinkVars, coordVars, Logged, Restart
  <2>5. Kept' /\ CommittedIsLogged'
    BY <1>3, Zenon DEF storageVars, TypeBroker, brokerVars, txnVars, injVars, sinkVars, coordVars,
       Kept, CompletedIsCommitted, CommittedIsLogged, Restart
  <2> QED BY <2>1, <2>2, <2>3, <2>4, <2>5, Zenon
<1> QED BY <1>1, <1>2, <1>3, Zenon DEF Process

\* The accord is kept by every step.
LEMMA AccordStep == Agreement /\ [Next]_vars => Accord'
<1> SUFFICES ASSUME Agreement, [Next]_vars PROVE Accord'
  BY Zenon
<1> USE SizeAssumption DEF Agreement, Accord, TypeOK
<1>1. CASE LateCommit
  <2>1. TypeStorage' /\ TypeProcess' /\ TypeInjector' /\ TypeSink' /\ TypeCoordinator'
    BY Frame, <1>1, Zenon DEF BrokerCommit, LateCommit
  <2>2. TypeBroker'
    BY <1>1 DEF TypeBroker, BrokerCommit, LateCommit
  <2>3. TypeFlags'
    BY <1>1, Zenon DEF storageVars, procVars, injVars, sinkVars, coordVars, TypeFlags, BrokerCommit,
       LateCommit
  <2>4. Handshake'
    BY <1>1, Zenon DEF storageVars, procVars, injVars, sinkVars, TypeCoordinator, coordVars, Handshake,
       Sealed, Updating, BrokerCommit, LateCommit
  <2>5. Logged'
    BY <1>1, Zenon DEF storageVars, procVars, sinkVars, coordVars, Logged, BrokerCommit, LateCommit
  <2>6. Kept' /\ CommittedIsLogged'
    BY <1>1, Zenon DEF storageVars, procVars, TypeInjector, injVars, TypeSink, sinkVars, TypeCoordinator,
       coordVars, Handshake, Logged, Kept, CompletedIsCommitted, CommittedIsLogged, Sealed, Updating,
       BrokerCommit, LateCommit
  <2> QED BY <2>1, <2>2, <2>3, <2>4, <2>5, <2>6, Zenon
<1>2. CASE UNCHANGED vars
  <2>1. TypeOK'
    BY Frame, <1>2, Zenon DEF storageVars, brokerVars, txnVars, procVars, sinkVars, coordVars, flagVars,
       vars
  <2>2. Handshake' /\ Logged' /\ Kept' /\ CommittedIsLogged'
    BY <1>2, Zenon DEF storageVars, brokerVars, txnVars, procVars, injVars, sinkVars, coordVars,
       Handshake, Logged, Kept, CompletedIsCommitted, CommittedIsLogged, vars
  <2> QED BY <2>1, <2>2, Zenon
<1> HIDE DEF Agreement, Accord, TypeOK
<1> QED
  BY <1>1, <1>2, InjectorAgrees, SinkAgrees, FinalizeAgrees, UpdateAgrees, StartAgrees, EndAgrees, Zenon
     DEF Next, Coordinator, Recovery, Ended

\* A checkpoint on its way keeps its transaction, or Write has returned.
LEMMA HeldStep == Agreement /\ [Next]_vars => Held'
<1> SUFFICES ASSUME Handshake, Held, [Next]_vars, Handshake' PROVE Held'
  BY AccordStep, Zenon DEF Agreement, Accord
<1>1. CASE UNCHANGED <<mode, event, eventErr, coord, sink, txnOpen>>
  BY <1>1, Zenon DEF Held, InHand
<1>2. CASE mode' # "running"
  BY <1>2, Zenon DEF Held
<1>3. CASE Sink
  <2>1. CASE SinkRecord
    BY <2>1, Zenon DEF SinkRecord, Handshake, Held, coordVars, procVars
  <2>2. CASE SinkBarrier
    BY <2>2, Zenon DEF SinkBarrier, Handshake, Held, procVars
  <2>3. CASE SinkReturn
    BY <2>3, Zenon DEF SinkReturn, Handshake, Held, InHand, coordVars, procVars
  <2> QED BY <1>3, <2>1, <2>2, <2>3, Zenon DEF Sink
<1>4. CASE TakeEvent \/ SavePrepared \/ SaveLatest \/ CallCommit \/ AbortError
  BY <1>4, Zenon DEF TakeEvent, SavePrepared, SaveLatest, CallCommit, AbortError, Handshake, Held, InHand, Sealed,
     brokerVars, txnVars, procVars, sinkVars
<1>5. CASE CommitSink \/ CommitError \/ AbortSink \/ ReportFatal
  BY <1>5, Zenon DEF CommitSink, CommitError, AbortSink, ReportFatal, NextTxn, Handshake, Held, InHand, Sealed,
     brokerVars, txnVars, procVars, sinkVars
<1>6. CASE UpdateStatus \/ UpdateLatest \/ UpdatePointer
  BY <1>6, Zenon DEF UpdateStatus, UpdateLatest, UpdatePointer, UpdateError, Handshake, Held, InHand, Sealed, Updating,
     brokerVars, txnVars, sinkVars
<1>7. CASE StartRun
  BY <1>7, Zenon DEF StartRun, Handshake, Held, Sealed, Updating, coordVars
<1> QED
  BY <1>1, <1>2, <1>3, <1>4, <1>5, <1>6, <1>7, Zenon
     DEF Next, Injector, InjectRecord, TickBarrier, ShutdownBarrier, FinalBarrier, InjectBarrier, DrainEnd,
         Coordinator, Recovery, RecoverFresh, RecoverCompleted, RecoverFallBack, RecoverTo, RecoverPromote,
         Undecided, Recovering, ProbeError, Process, Shutdown, HardCancel, Exit, Crash, Restart, Forget,
         LateCommit, Ended, vars, brokerVars, txnVars, procVars, sinkVars, coordVars

\* Every step keeps the agreement invariant.
LEMMA AgreementStep == Agreement /\ [Next]_vars => Agreement'
  BY AccordStep, HeldStep, Zenon DEF Agreement

-----------------------------------------------------------------------------
(* Theorems *)

\* Agreement is an invariant of the specification.
LEMMA AgreementInvariant == Spec => []Agreement
<1> QED BY AgreementInit, AgreementStep, PTL DEF Spec

\* Type correctness, a restored position included (restoreSourceOffset).
THEOREM TypeCorrect == Spec => []TypeOK
<1>1. Agreement => TypeOK
  BY Zenon DEF Agreement, Accord
<1> QED BY <1>1, PTL, AgreementInvariant

\* A checkpoint is marked completed only if its transaction committed, after
\* any number of crashes and restarts and whatever fails (finalize and
\* resolveCoordinatedRecovery are the two that call UpdateStatus), as long as
\* Write's deferred abort does not overtake the commit of a checkpoint.
THEOREM CompletedOnlyIfCommitted ==
  ASSUME "overtake" \notin Faults
  PROVE  Spec => []CompletedIsCommitted
<1>1. Agreement => CompletedIsCommitted
  BY Zenon DEF Agreement, Accord, Kept
<1> QED BY <1>1, PTL, AgreementInvariant

\* The prepared checkpoint is on disk, and latest.json has reached it, before
\* its transaction is visible (the order of Save and CommitSink in finalize).
THEOREM LoggedBeforeCommitted == Spec => []CommittedIsLogged
<1>1. Agreement => CommittedIsLogged
  BY Zenon DEF Agreement, Accord
<1> QED BY <1>1, PTL, AgreementInvariant

=============================================================================
