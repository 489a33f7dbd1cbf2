------------------------- MODULE ExactlyOnceRestart -------------------------
(***************************************************************************)
(* Exactly-once delivery across one restart, proved for every length of    *)
(* the log and every number of checkpoints.  The process may crash between *)
(* any two steps, shut down, fail to commit with unknown outcome, or fail  *)
(* to probe the marker.  A second restart, a failed UpdateStatus, an abort *)
(* in a run that goes on, a commit that lands late and a Write that returns *)
(* ahead of the commit are what the engine does not survive: see the runs  *)
(* that violate NoDuplicates, NoGaps and CompletedIsCommitted.             *)
(***************************************************************************)
EXTENDS ExactlyOnceProofs

\* The hypothesis of the theorems below.
OneRestart ==
    MaxStarts <= 2 /\ Faults \cap {"produce", "save", "update", "late", "overtake"} = {}

Cut(i) == IF i = NoId THEN 0 ELSE at[i]

PosOf(off) == IF off = NoOffset THEN 0 ELSE off

\* L is the newest committed checkpoint and its cut is what is visible.
Delivered(L) ==
    /\ L \in Ids \cup {NoId}
    /\ L # NoId => L \in markers
    /\ \A i \in markers : i <= L
    /\ \A r \in Recs : visible[r] = IF r < Cut(L) THEN 1 ELSE 0

\* The open transaction holds the records between that cut and sinkPos.
Filled(L) ==
    mode = "running" /\ sink # "done" /\ txnOpen =>
        txnRecs = {r \in Recs : Cut(L) <= r /\ r < sinkPos}

\* The barriers in flight stand in order between sinkPos and pos.
Stream(L) ==
    mode = "running" =>
        /\ Cut(L) <= sinkPos /\ sinkPos <= pos
        /\ sink = "wait" => sinkId # NoId /\ at[sinkId] = sinkPos
        /\ \A i \in Ids : sinkId < i /\ i < nextId => sinkPos <= at[i] /\ at[i] <= pos
        /\ \A i, j \in Ids : sinkId < i /\ i <= j /\ j < nextId => at[i] <= at[j]

\* Nothing aborts a transaction in a run that goes on.
NoAbort ==
    /\ mode = "running" =>
        /\ ~produceErr
        /\ eventErr \/ coord = "abort" => hard
        /\ coord = "report" => sink # "run" /\ event = NoId
    /\ mode # "running" => ~eventErr

\* The checkpoints taken before the restart restore to their own cuts.
Early == starts <= 1 \/ mode \in {"recover", "init"}

Restorable ==
    /\ starts <= 1 => \A i \in Ids : i < nextId => PosOf(pending[i]) = at[i]
    /\ starts <= 1 /\ mode = "running" => PosOf(offsets) = pos
    /\ Early => \A i \in Ids : files[i].status # "none" => PosOf(files[i].offset) = at[i]
    /\ starts = 0 \/ (starts = 1 /\ mode \in {"recover", "init"}) =>
         latest = NoId /\ latestCompleted = NoId
    /\ \A i \in Ids : files[i].status # "none" => i < nextId

\* Where finalize starts or recovery falls back, latest-completed.json names
\* the newest committed checkpoint.
Pointer(L) ==
    /\ Early /\ latest # NoId /\ latest \notin markers => latestCompleted = L
    /\ starts <= 1 /\ mode = "running" =>
         (coord \in {"save", "saveLatest"} \/ (coord = "idle" /\ (sink = "run" \/ event # NoId))
            => latestCompleted = L)
    /\ mode = "init" => pos = Cut(L)

\* The first start finds an empty directory; only a running process or one
\* that promotes a checkpoint is in UpdateStatus.
Starting ==
    /\ starts = 0 => mode = "down"
    /\ coord \in Updating => mode \in {"running", "recover"}

Inv(L) == Delivered(L) /\ Filled(L) /\ Stream(L) /\ Pointer(L)

RestartInv == Agreement /\ Starting /\ NoAbort /\ Restorable /\ \E L \in Ids \cup {NoId} : Inv(L)

-----------------------------------------------------------------------------
\* Every leaf may use the two provers, SMT with a longer limit than its own.
USE DEF Ids, Recs, Offsets, NoId, NoOffset, Statuses, CoordPCs, Running, Goto, Fault

\* A step that leaves alone what a conjunct is about keeps it.
LEMMA RestartFrame ==
  ASSUME NEW L
  PROVE  /\ Starting /\ UNCHANGED <<starts, mode, coord>> => Starting'
         /\ NoAbort /\ UNCHANGED <<mode, hard, produceErr, eventErr, coord, sink, event>> => NoAbort'
         /\ Restorable /\ UNCHANGED <<starts, mode, pos, offsets, nextId, at, pending, storageVars>>
              => Restorable'
         /\ Delivered(L) /\ UNCHANGED <<visible, markers, at>> => Delivered(L)'
         /\ Filled(L) /\ UNCHANGED <<mode, at, sink, sinkPos, txnOpen, txnRecs>> => Filled(L)'
         /\ Stream(L) /\ UNCHANGED <<mode, pos, nextId, at, sink, sinkPos, sinkId>> => Stream(L)'
         /\ Pointer(L) /\ UNCHANGED <<starts, mode, latest, latestCompleted, markers, coord, sink, event, pos, at>>
              => Pointer(L)'
<1>1. Starting /\ UNCHANGED <<starts, mode, coord>> => Starting'
  BY Zenon DEF Starting
<1>2. NoAbort /\ UNCHANGED <<mode, hard, produceErr, eventErr, coord, sink, event>> => NoAbort'
  BY DEF NoAbort
<1>3. Restorable /\ UNCHANGED <<starts, mode, pos, offsets, nextId, at, pending, storageVars>> => Restorable'
  BY Zenon DEF Restorable, Early, PosOf, storageVars
<1>4. Delivered(L) /\ UNCHANGED <<visible, markers, at>> => Delivered(L)'
  BY Zenon DEF Delivered, Cut
<1>5. Filled(L) /\ UNCHANGED <<mode, at, sink, sinkPos, txnOpen, txnRecs>> => Filled(L)'
  BY DEF Cut, Filled
<1>7. Stream(L) /\ UNCHANGED <<mode, pos, nextId, at, sink, sinkPos, sinkId>> => Stream(L)'
  BY Zenon DEF Cut, Stream
<1>6. Pointer(L) /\ UNCHANGED <<starts, mode, latest, latestCompleted, markers, coord, sink, event, pos, at>>
        => Pointer(L)'
  BY Zenon DEF Early, Cut, Pointer
<1> QED BY <1>1, <1>2, <1>3, <1>4, <1>5, <1>6, <1>7, Zenon

\* The restart invariant holds initially.
LEMMA RestartInit == Init => RestartInv
<1> SUFFICES ASSUME Init PROVE RestartInv
  BY Zenon
<1>1. Agreement
  BY AgreementInit, Zenon
<1>2. Starting /\ NoAbort /\ Restorable
  BY Zenon DEF Starting, NoAbort, Restorable, PosOf, Init, Updating
<1>3. Delivered(NoId)
  BY SizeAssumption DEF Delivered, Cut, Init
<1>4. Filled(NoId) /\ Stream(NoId) /\ Pointer(NoId)
  BY Zenon DEF Filled, Stream, Pointer, Init
<1> QED BY <1>1, <1>2, <1>3, <1>4, Zenon DEF RestartInv, Inv

\* What the step lemmas start from: L is not behind what is on disk, and a
\* committed latest.json is L itself.
LEMMA Newest ==
  ASSUME OneRestart, RestartInv, NEW L \in Ids \cup {NoId}, Inv(L)
  PROVE  /\ L <= latest /\ L < nextId /\ (L # NoId => files[L].status # "none" /\ L \in markers)
         /\ latest \in markers => L = latest
         /\ starts \in 0 .. 2 /\ MaxStarts <= 2
<1>a. TypeOK /\ Handshake /\ CommittedIsLogged
  BY Zenon DEF RestartInv, Agreement, Accord
<1>j. Delivered(L)
  BY Zenon DEF Inv
<1>t. TypeStorage /\ TypeProcess /\ TypeInjector
  BY <1>a, Zenon DEF TypeOK
<1>b. L <= latest /\ L < nextId /\ (L # NoId => files[L].status # "none" /\ L \in markers)
  <2>1. L # NoId => L \in markers /\ files[L].status # "none" /\ L <= latest
    BY <1>a, <1>j, Zenon DEF Delivered, CommittedIsLogged
  <2>2. latest \in Int /\ 0 <= latest /\ latest < nextId /\ nextId \in Int
    BY <1>a, <1>t, SizeAssumption DEF TypeStorage, TypeInjector, Handshake
  <2> QED BY <2>1, <2>2, SizeAssumption
<1>e. latest \in markers => L = latest
  BY <1>b, <1>j, <1>t, SizeAssumption DEF Delivered, TypeStorage
<1>c. starts \in 0 .. 2 /\ MaxStarts <= 2
  BY <1>t, SizeAssumption DEF OneRestart, TypeProcess
<1> QED BY <1>b, <1>c, <1>e, Zenon

\* The restart invariant is kept by a step of injectBarriers.
LEMMA InjectorRestarts ==
  ASSUME OneRestart, RestartInv, Agreement', NEW L \in Ids \cup {NoId}, Inv(L),
         Injector
  PROVE  RestartInv'
<1>a. Agreement' /\ TypeOK /\ Handshake /\ Held /\ Logged /\ CompletedIsCommitted /\ CommittedIsLogged
  BY Zenon DEF RestartInv, Agreement, Accord, Kept, OneRestart
<1>i. Starting /\ NoAbort /\ Restorable
  BY Zenon DEF RestartInv
<1>j. Delivered(L) /\ Filled(L) /\ Stream(L) /\ Pointer(L)
  BY Zenon DEF Inv
<1>t. /\ TypeStorage /\ TypeBroker /\ TypeProcess /\ TypeInjector /\ TypeSink
      /\ TypeCoordinator /\ TypeFlags
  BY <1>a, Zenon DEF TypeOK
<1>b. L <= latest /\ L < nextId /\ (L # NoId => files[L].status # "none" /\ L \in markers)
  BY Newest, Zenon
<1> USE SizeAssumption
<1>1. CASE InjectRecord
  <2>1. Starting' /\ NoAbort' /\ Delivered(L)' /\ Filled(L)'
    BY <1>1, <1>j, <1>i, RestartFrame, Zenon DEF txnVars, brokerVars, procVars, sinkVars, coordVars,
       InjectRecord
  <2>2. Restorable'
    BY <1>1, <1>t, <1>i DEF Restorable, Early, PosOf, storageVars, TypeInjector, procVars,
       InjectRecord
  <2>3. Stream(L)'
    <3>1. mode = "running" /\ pos' = pos + 1 /\ UNCHANGED <<mode, nextId, at, sink, sinkPos, sinkId>>
      BY <1>1, Zenon DEF procVars, sinkVars, InjectRecord
    <3>2. pos \in Int /\ sinkPos \in Int /\ at \in [Ids -> Int]
      BY <1>t DEF TypeInjector, TypeSink
    <3>3. sinkPos <= pos => sinkPos <= pos'
      BY <3>1, <3>2
    <3>4. \A i \in Ids : at[i] <= pos => at[i] <= pos'
      BY <3>1, <3>2
    <3> QED BY <1>j, <3>1, <3>3, <3>4, Zenon DEF Cut, Stream
  <2>4. Pointer(L)'
    BY <1>1, <1>j, Zenon DEF Early, storageVars, Pointer, brokerVars, procVars, sinkVars, coordVars,
       InjectRecord
  <2> QED BY <1>a, <2>1, <2>2, <2>3, <2>4, Zenon DEF RestartInv, Inv
<1>2. CASE TickBarrier \/ ShutdownBarrier \/ FinalBarrier
  <2>1. mode = "running" /\ InjectBarrier
    BY <1>2, Zenon DEF TickBarrier, ShutdownBarrier, FinalBarrier
  <2>2. /\ nextId \in Ids /\ nextId' = nextId + 1
        /\ at' = [at EXCEPT ![nextId] = pos] /\ pending' = [pending EXCEPT ![nextId] = offsets]
        /\ UNCHANGED <<mode, starts, pos, offsets, files, latest, latestCompleted>>
        /\ UNCHANGED <<visible, markers, coord, sink, sinkPos, sinkId, event>>
    BY <2>1, Zenon DEF storageVars, brokerVars, procVars, sinkVars, coordVars, InjectBarrier
  <2>3. \A i \in Ids : i < nextId => at'[i] = at[i] /\ pending'[i] = pending[i]
    BY <1>t, <2>2 DEF TypeInjector
  <2>4. at'[nextId] = pos /\ pending'[nextId] = offsets
    BY <1>t, <2>2, Zenon DEF TypeInjector
  <2>5. Cut(L)' = Cut(L)
    BY <1>b, <2>3, Zenon DEF Cut
  <2>6. Starting' /\ NoAbort'
    BY <2>1, <1>i, RestartFrame, Zenon DEF procVars, sinkVars, coordVars, InjectBarrier
  <2>7. Restorable'
    <3>1. (starts <= 1 => \A i \in Ids : i < nextId => PosOf(pending[i]) = at[i])'
      <4> SUFFICES ASSUME starts <= 1, NEW i \in Ids, i < nextId + 1 PROVE PosOf(pending'[i]) = at'[i]
        BY <2>2, Zenon DEF PosOf
      <4>1. CASE i < nextId
        BY <1>i, <2>3, <4>1, Zenon DEF Restorable, PosOf
      <4>2. CASE i = nextId
        BY <2>1, <1>i, <2>4, <4>2, Zenon DEF Restorable, PosOf
      <4> QED BY <1>t, <4>1, <4>2 DEF TypeInjector
    <3>2. (Early => \A i \in Ids : files[i].status # "none" => PosOf(files[i].offset) = at[i])'
      BY <2>2, <1>i, <2>3, Zenon DEF Restorable, Early, PosOf
    <3>3. (\A i \in Ids : files[i].status # "none" => i < nextId)'
      BY <1>t, <2>2, <1>i DEF Restorable, TypeInjector
    <3> QED BY <2>2, <1>i, <3>1, <3>2 DEF Restorable
  <2>8. Delivered(L)'
    BY <1>j, <2>2, <2>5, Zenon DEF Delivered
  <2>9. Filled(L)'
    BY <1>j, <2>1, <2>2, <2>5, Zenon DEF Filled, txnVars, brokerVars, InjectBarrier
  <2>10. Stream(L)'
    <3>1. (sink = "wait" => sinkId # NoId /\ at[sinkId] = sinkPos)'
      BY <1>a, <1>j, <2>1, <2>2 DEF Stream, Handshake
    <3>2. (\A i \in Ids : sinkId < i /\ i < nextId => sinkPos <= at[i] /\ at[i] <= pos)'
      <4> SUFFICES ASSUME NEW i \in Ids, sinkId < i, i < nextId + 1 PROVE sinkPos <= at'[i] /\ at'[i] <= pos
        BY <2>2, Zenon
      <4>1. CASE i < nextId
        BY <1>j, <2>1, <2>3, <4>1, Zenon DEF Stream
      <4>2. CASE i = nextId
        BY <1>j, <1>t, <2>1, <2>4, <4>2 DEF Stream, TypeInjector
      <4> QED BY <1>t, <4>1, <4>2 DEF TypeInjector
    <3>3. (\A i, j \in Ids : sinkId < i /\ i <= j /\ j < nextId => at[i] <= at[j])'
      <4> SUFFICES ASSUME NEW i \in Ids, NEW j \in Ids, sinkId < i, i <= j, j < nextId + 1
                   PROVE  at'[i] <= at'[j]
        BY <2>2, Zenon
      <4>1. CASE j < nextId
        <5>1. i < nextId
          BY <1>t, <4>1 DEF TypeInjector
        <5>2. at[i] <= at[j]
          BY <1>j, <2>1, <4>1, Zenon DEF Stream
        <5> QED BY <2>3, <4>1, <5>1, <5>2, Zenon
      <4>2. CASE j = nextId /\ i < nextId
        BY <1>j, <2>1, <2>3, <2>4, <4>2, Zenon DEF Stream
      <4>3. CASE j = nextId /\ i = nextId
        BY <1>t, <2>4, <4>3 DEF TypeInjector
      <4> QED BY <1>t, <4>1, <4>2, <4>3 DEF TypeInjector
    <3> QED BY <1>j, <2>2, <3>1, <3>2, <3>3, <2>5, Zenon DEF Stream
  <2>11. Pointer(L)'
    BY <1>j, <2>1, <2>2, Zenon DEF Early, Pointer
  <2> QED BY <1>a, <2>6, <2>7, <2>8, <2>9, <2>10, <2>11, Zenon DEF RestartInv, Inv
<1>3. CASE DrainEnd
  <2>1. Starting' /\ NoAbort' /\ Restorable' /\ Delivered(L)' /\ Filled(L)' /\ Stream(L)' /\ Pointer(L)'
    BY <1>3, <1>j, <1>i, RestartFrame, Zenon DEF storageVars, txnVars, brokerVars, procVars, sinkVars,
       coordVars, DrainEnd
  <2> QED BY <1>a, <2>1, Zenon DEF RestartInv, Inv
<1> QED BY <1>1, <1>2, <1>3, Zenon DEF Injector

\* The restart invariant is kept by a step of Write.
LEMMA SinkRestarts ==
  ASSUME OneRestart, RestartInv, Agreement', NEW L \in Ids \cup {NoId}, Inv(L),
         Sink
  PROVE  RestartInv'
<1>a. Agreement' /\ TypeOK /\ Handshake /\ Held /\ Logged /\ CompletedIsCommitted /\ CommittedIsLogged
  BY Zenon DEF RestartInv, Agreement, Accord, Kept, OneRestart
<1>i. Starting /\ NoAbort /\ Restorable
  BY Zenon DEF RestartInv
<1>j. Delivered(L) /\ Filled(L) /\ Stream(L) /\ Pointer(L)
  BY Zenon DEF Inv
<1>t. /\ TypeStorage /\ TypeBroker /\ TypeProcess /\ TypeInjector /\ TypeSink
      /\ TypeCoordinator /\ TypeFlags
  BY <1>a, Zenon DEF TypeOK
<1>d. /\ "produce" \notin Faults /\ "save" \notin Faults /\ "update" \notin Faults /\ "late" \notin Faults
      /\ "overtake" \notin Faults
  BY Zenon DEF OneRestart
<1> USE SizeAssumption
<1>1. CASE SinkRecord
  <2>1. Starting' /\ Restorable' /\ Delivered(L)' /\ Pointer(L)'
    BY <1>1, <1>j, <1>i, RestartFrame, Zenon DEF storageVars, procVars, coordVars, injVars, SinkRecord
  <2>2. NoAbort'
    BY <1>1, <1>i, <1>d DEF NoAbort, procVars, coordVars, SinkRecord
  <2>3. Filled(L)'
    <3>1. /\ mode = "running" /\ sink = "run" /\ sinkPos' = sinkPos + 1 /\ txnRecs' = txnRecs \cup {sinkPos}
          /\ UNCHANGED <<mode, at, sink, txnOpen>> /\ sinkPos < pos
      BY <1>1, <1>d, Zenon DEF procVars, injVars, SinkRecord
    <3>2. txnRecs = {r \in Recs : Cut(L) <= r /\ r < sinkPos} /\ txnOpen
      BY <1>a, <1>j, <3>1, Zenon DEF Filled, Handshake
    <3>3. Cut(L) <= sinkPos /\ sinkPos \in Recs /\ Cut(L) \in Int
      BY <1>j, <1>t, <3>1 DEF Cut, Stream, TypeInjector, TypeSink
    <3>4. txnRecs' = {r \in Recs : Cut(L) <= r /\ r < sinkPos + 1}
      BY <3>1, <3>2, <3>3
    <3>5. Cut(L)' = Cut(L)
      BY <3>1, Zenon DEF Cut
    <3> QED BY <3>1, <3>2, <3>4, <3>5, Zenon DEF Filled
  <2>4. Stream(L)'
    <3>1. /\ mode = "running" /\ sink = "run" /\ sinkPos' = sinkPos + 1 /\ sinkPos < pos
          /\ UNCHANGED <<mode, at, sink, sinkId, pos, nextId>>
          /\ (sinkId + 1 < nextId => at[sinkId + 1] # sinkPos)
      BY <1>1, Zenon DEF procVars, injVars, SinkRecord, BarrierNext
    <3>2. ASSUME NEW i \in Ids, sinkId < i, i < nextId PROVE sinkPos + 1 <= at[i]
      <4>1. sinkId + 1 \in Ids /\ sinkId < sinkId + 1 /\ sinkId + 1 <= i /\ sinkId + 1 < nextId
        BY <1>t, <3>2 DEF TypeInjector, TypeSink
      <4>2. sinkPos <= at[sinkId + 1] /\ at[sinkId + 1] <= at[i]
        BY <1>j, <3>1, <4>1, <3>2, Zenon DEF Stream
      <4>3. sinkPos \in Int /\ at[sinkId + 1] \in Int /\ at[i] \in Int
        BY <1>t, <4>1 DEF TypeInjector, TypeSink
      <4> QED BY <3>1, <4>1, <4>2, <4>3
    <3>3. Cut(L) <= sinkPos + 1 /\ sinkPos + 1 <= pos
      BY <1>j, <1>t, <3>1 DEF Cut, Stream, TypeInjector, TypeSink
    <3>4. ASSUME NEW i \in Ids, sinkId < i, i < nextId PROVE at[i] <= pos
      BY <1>j, <3>1, <3>4, Zenon DEF Stream
    <3>5. \A i, j \in Ids : sinkId < i /\ i <= j /\ j < nextId => at[i] <= at[j]
      BY <1>j, <3>1, Zenon DEF Stream
    <3>6. Cut(L)' = Cut(L)
      BY <3>1, Zenon DEF Cut
    <3> QED BY <3>1, <3>2, <3>3, <3>4, <3>5, <3>6, Zenon DEF Stream
  <2> QED BY <1>a, <2>1, <2>2, <2>3, <2>4, Zenon DEF RestartInv, Inv
<1>2. CASE SinkBarrier
  <2>1. Starting' /\ Restorable' /\ Delivered(L)'
    BY <1>2, <1>j, <1>i, RestartFrame, Zenon DEF procVars, injVars, BarrierNext, SinkBarrier
  <2>2. NoAbort'
    <3>1. /\ mode = "running" /\ UNCHANGED <<mode, hard, produceErr, coord>> /\ sink' = "wait"
          /\ coord \notin Sealed
      BY <1>2, <1>a, <1>d, Zenon DEF Handshake, procVars, SinkBarrier
    <3>2. coord # "report"
      BY <1>2, <1>i, Zenon DEF NoAbort, SinkBarrier
    <3>3. PICK flushErr \in {FALSE, hard} : eventErr' = (flushErr \/ produceErr')
      BY <1>2, Zenon DEF SinkBarrier
    <3>4. ~produceErr
      BY <1>i, <3>1, Zenon DEF NoAbort
    <3>5. flushErr = FALSE \/ flushErr = hard
      BY <3>3, Zenon
    <3>6. eventErr' => hard
      BY <3>1, <3>3, <3>4, <3>5, Zenon
    <3> QED BY <3>1, <3>2, <3>4, <3>6, Zenon DEF NoAbort, Sealed
  <2>3. Filled(L)'
    BY <1>2, <1>j, Zenon DEF Cut, Filled, injVars, SinkBarrier
  <2>4. Stream(L)'
    <3>1. /\ mode = "running" /\ sink' = "wait" /\ sinkId' = sinkId + 1 /\ sinkId + 1 < nextId
          /\ at[sinkId + 1] = sinkPos /\ UNCHANGED <<mode, at, sinkPos, pos, nextId>>
      BY <1>2, Zenon DEF procVars, injVars, BarrierNext, SinkBarrier
    <3>2. sinkId \in Nat
      BY <1>t DEF TypeSink
    <3> QED BY <1>j, <3>1, <3>2 DEF Cut, Stream
  <2>5. Pointer(L)'
    BY <1>2, <1>j, Zenon DEF Early, storageVars, Pointer, procVars, SinkBarrier
  <2> QED BY <1>a, <2>1, <2>2, <2>3, <2>4, <2>5, Zenon DEF RestartInv, Inv
<1>3. CASE SinkReturn
  <2>1. Starting' /\ Restorable' /\ Delivered(L)'
    BY <1>3, <1>j, <1>i, RestartFrame, Zenon DEF procVars, coordVars, injVars, SinkReturn
  <2>2. NoAbort'
    BY <1>3, <1>i, Zenon DEF NoAbort, procVars, coordVars, SinkReturn
  <2>3. Filled(L)'
    BY <1>3, Zenon DEF Filled, procVars, SinkReturn
  <2>4. Stream(L)'
    BY <1>3, <1>j, Zenon DEF Cut, Stream, procVars, injVars, SinkReturn
  <2>5. Pointer(L)'
    BY <1>3, <1>j, Zenon DEF Early, storageVars, Pointer, procVars, coordVars, injVars, SinkReturn
  <2> QED BY <1>a, <2>1, <2>2, <2>3, <2>4, <2>5, Zenon DEF RestartInv, Inv
<1> QED BY <1>1, <1>2, <1>3, Zenon DEF Sink

\* The restart invariant is kept by finalize, up to the end of the transaction.
LEMMA FinalizeRestarts ==
  ASSUME OneRestart, RestartInv, Agreement', NEW L \in Ids \cup {NoId}, Inv(L),
         \/ TakeEvent \/ SavePrepared \/ SaveLatest \/ CallCommit \/ CommitSink
          \/ CommitError \/ AbortSink \/ AbortError \/ ReportFatal
  PROVE  RestartInv'
<1>a. Agreement' /\ TypeOK /\ Handshake /\ Held /\ Logged /\ CompletedIsCommitted /\ CommittedIsLogged
  BY Zenon DEF RestartInv, Agreement, Accord, Kept, OneRestart
<1>i. Starting /\ NoAbort /\ Restorable
  BY Zenon DEF RestartInv
<1>j. Delivered(L) /\ Filled(L) /\ Stream(L) /\ Pointer(L)
  BY Zenon DEF Inv
<1>t. /\ TypeStorage /\ TypeBroker /\ TypeProcess /\ TypeInjector /\ TypeSink
      /\ TypeCoordinator /\ TypeFlags
  BY <1>a, Zenon DEF TypeOK
<1>b. L <= latest /\ L < nextId /\ (L # NoId => files[L].status # "none" /\ L \in markers)
  BY Newest, Zenon
<1>d. /\ "produce" \notin Faults /\ "save" \notin Faults /\ "update" \notin Faults /\ "late" \notin Faults
      /\ "overtake" \notin Faults
  BY Zenon DEF OneRestart
<1> USE SizeAssumption
<1>1. CASE TakeEvent
  <2>1. Restorable' /\ Delivered(L)' /\ Filled(L)' /\ Stream(L)'
    BY <1>1, <1>j, <1>i, RestartFrame, Zenon DEF txnVars, brokerVars, procVars, sinkVars, injVars,
       TakeEvent
  <2>2. Starting'
    BY <1>1, <1>i, Zenon DEF Starting, procVars, TakeEvent
  <2>3. NoAbort'
    BY <1>1, <1>i, Zenon DEF NoAbort, procVars, sinkVars, TakeEvent
  <2>4. Pointer(L)'
    BY <1>1, <1>j, Zenon DEF Early, storageVars, Pointer, procVars, TakeEvent
  <2> QED BY <1>a, <2>1, <2>2, <2>3, <2>4, Zenon DEF RestartInv, Inv
<1>2. CASE SavePrepared
  <2>1. Delivered(L)' /\ Filled(L)' /\ Stream(L)'
    BY <1>j, RestartFrame, <1>2, Zenon DEF storageVars, txnVars, brokerVars, procVars, sinkVars, injVars,
       SavePrepared
  <2>2. Starting'
    BY <1>i, <1>2, Zenon DEF Starting, procVars, SavePrepared
  <2>3. NoAbort'
    BY <1>i, <1>d, <1>2 DEF NoAbort, procVars, sinkVars, SavePrepared
  <2>4. Restorable'
    <3>1. /\ mode = "running" /\ UNCHANGED <<starts, mode, pos, offsets, nextId, at, pending, latest, latestCompleted>>
          /\ files' = [files EXCEPT ![cur] = [status |-> "prepared", offset |-> pending[cur]]]
      BY <1>d, <1>2, Zenon DEF procVars, injVars, SavePrepared
    <3>2. cur \in Ids /\ cur < nextId
      BY <1>a, <1>2, Zenon DEF Handshake, Sealed, SavePrepared
    <3>3. \A i \in Ids : files'[i] = IF i = cur THEN [status |-> "prepared", offset |-> pending[cur]] ELSE files[i]
      BY <1>t, <3>1, <3>2, Zenon DEF TypeStorage
    <3>4. (\A i \in Ids : files[i].status # "none" => i < nextId)'
      BY <1>i, <3>1, <3>2, <3>3, Zenon DEF Restorable
    <3>5. (Early => \A i \in Ids : files[i].status # "none" => PosOf(files[i].offset) = at[i])'
      BY <1>i, <3>1, <3>2 DEF Restorable, Early
    <3> QED BY <1>i, <3>1, <3>4, <3>5, Zenon DEF Restorable, PosOf
  <2>5. Pointer(L)'
    BY <1>j, <1>2, Zenon DEF Early, Pointer, procVars, SavePrepared
  <2> QED BY <1>a, <2>1, <2>2, <2>3, <2>4, <2>5, Zenon DEF RestartInv, Inv
<1>3. CASE SaveLatest
  <2>1. Delivered(L)' /\ Filled(L)' /\ Stream(L)'
    BY <1>j, RestartFrame, <1>3, Zenon DEF storageVars, txnVars, brokerVars, procVars, sinkVars, injVars,
       SaveLatest
  <2>2. Starting'
    BY <1>i, <1>3, Zenon DEF Starting, procVars, SaveLatest
  <2>3. NoAbort'
    BY <1>i, <1>d, <1>3 DEF NoAbort, procVars, sinkVars, SaveLatest
  <2>4. Restorable'
    BY <1>i, <1>3, Zenon DEF Starting, Restorable, Early, TypeInjector, Handshake, txnVars, brokerVars,
       procVars, sinkVars, TypeCoordinator, Sealed, Logged, injVars, SaveLatest
  <2>5. Pointer(L)'
    BY <1>j, <1>3, Zenon DEF Early, Pointer, Handshake, brokerVars, procVars, Sealed, injVars, SaveLatest
  <2> QED BY <1>a, <2>1, <2>2, <2>3, <2>4, <2>5, Zenon DEF RestartInv, Inv
<1>4. CASE CallCommit
  <2>1. Restorable' /\ Delivered(L)' /\ Filled(L)' /\ Stream(L)'
    BY <1>j, <1>i, RestartFrame, <1>4, Zenon DEF txnVars, brokerVars, procVars, sinkVars, injVars,
       CallCommit
  <2>2. Starting'
    BY <1>i, <1>4, Zenon DEF Starting, procVars, CallCommit
  <2>3. NoAbort'
    BY <1>a, <1>i, <1>4, Zenon DEF NoAbort, Handshake, procVars, sinkVars, Sealed, CallCommit
  <2>4. Pointer(L)'
    BY <1>j, <1>4, Zenon DEF Early, storageVars, Pointer, brokerVars, procVars, CallCommit
  <2> QED BY <1>a, <2>1, <2>2, <2>3, <2>4, Zenon DEF RestartInv, Inv
<1>5. CASE CommitSink
  <2>1. /\ cur = sinkId /\ cur = txnMarker /\ cur = latest /\ cur \in Ids /\ sink = "wait" /\ txnOpen
        /\ event = NoId /\ mode = "running"
    <3>1. coord = "committing" /\ mode = "running"
      BY <1>5, Zenon DEF CommitSink
    <3>2. sink = "wait" /\ txnOpen
      BY <1>a, <1>d, <3>1, Zenon DEF Held, InHand, Sealed
    <3> QED BY <1>a, <3>1, <3>2, Zenon DEF Handshake, Sealed, Logged
  <2> PICK M \in Ids : M = cur
    BY <2>1, Zenon
  <2>2. /\ markers' = markers \cup {M} /\ UNCHANGED <<at, mode, pos, nextId, sinkPos, sinkId, starts>>
        /\ UNCHANGED <<latest, latestCompleted>> /\ txnRecs' = {} /\ coord' = "update" /\ sink' = "run"
        /\ txnOpen' = TRUE
    <3>1. markers' = markers \cup {M}
      <4>1. markers' = markers \cup ({M} \ {NoId})
        BY <2>1, <1>5, Zenon DEF CommitSink, BrokerCommit
      <4>2. {M} \ {NoId} = {M}
        OBVIOUS
      <4> QED BY <4>1, <4>2, Zenon
    <3>2. UNCHANGED <<at, mode, pos, nextId, starts, latest, latestCompleted>> /\ coord' = "update"
      BY <1>5, Zenon DEF storageVars, procVars, injVars, CommitSink
    <3>3. UNCHANGED <<sinkPos, sinkId>> /\ txnRecs' = {} /\ sink' = "run" /\ txnOpen' = TRUE
      BY <2>1, <1>5, Zenon DEF CommitSink, NextTxn
    <3> QED BY <3>1, <3>2, <3>3, Zenon
  <2>3. at[M] = sinkPos /\ Cut(L) <= sinkPos /\ Cut(L) \in Int /\ sinkPos \in Int
    BY <1>j, <1>t, <2>1 DEF Cut, Stream, TypeInjector
  <2>4. Restorable'
    BY <1>i, RestartFrame, <1>5, Zenon DEF storageVars, procVars, injVars, CommitSink, NextTxn
  <2>5. Starting' /\ NoAbort'
    BY <1>i, <1>5, Zenon DEF Starting, NoAbort, procVars, CommitSink, NextTxn
  <2>6. ASSUME NEW r \in Recs PROVE visible'[r] = IF r < sinkPos THEN 1 ELSE 0
    <3>1. r \in txnRecs <=> Cut(L) <= r /\ r < sinkPos
      BY <1>j, <2>1, Zenon DEF Filled
    <3>2. visible[r] = IF r < Cut(L) THEN 1 ELSE 0
      BY <1>j, Zenon DEF Delivered
    <3>3. visible'[r] = visible[r] + IF r \in txnRecs THEN 1 ELSE 0
      BY <1>5, Zenon DEF CommitSink, BrokerCommit
    <3> QED BY <3>1, <2>3, <3>2, <3>3
  <2>7. Delivered(M)'
    BY <1>j, <1>t, <2>1, <2>2, <1>b, <2>3, <2>6 DEF Delivered, Cut, TypeBroker
  <2>8. Cut(M)' = sinkPos /\ {r \in Recs : sinkPos <= r /\ r < sinkPos} = {}
    BY <2>2, <2>3 DEF Cut
  <2>9. Filled(M)'
    BY <2>2, <2>8, Zenon DEF Filled
  <2>10. Stream(M)'
    <3>1. Cut(M)' <= sinkPos'
      BY <2>2, <2>3, <2>8
    <3> QED BY <1>j, <2>1, <2>2, <3>1, Zenon DEF Stream
  <2>11. Pointer(M)'
    BY <2>1, <2>2, Zenon DEF Pointer
  <2> QED BY <1>a, <2>4, <2>5, <2>7, <2>9, <2>10, <2>11, Zenon DEF RestartInv, Inv
<1>6. CASE CommitError
  <2>1. /\ coord = "committing" /\ mode = "running" /\ cur = sinkId /\ cur = latest /\ cur \in Ids
        /\ event = NoId /\ sink = "wait" /\ txnOpen /\ txnMarker = cur
    <3>1. coord = "committing" /\ mode = "running"
      BY <1>6, Zenon DEF CommitError
    <3>2. sink = "wait" /\ txnOpen
      BY <1>a, <1>d, <3>1, Zenon DEF Held, InHand, Sealed
    <3> QED BY <1>a, <3>1, <3>2, Zenon DEF Handshake, Sealed, Logged
  <2>2. /\ UNCHANGED <<at, mode, pos, nextId, sinkPos, sinkId, sink, starts, event, latest, latestCompleted>>
        /\ txnOpen' = FALSE /\ coord' = "report"
    BY <1>6, Zenon DEF storageVars, procVars, sinkVars, injVars, CommitError
  <2>3. Restorable'
    BY <1>i, RestartFrame, <1>6, Zenon DEF procVars, injVars, CommitError
  <2>4. Starting'
    BY <2>2, <1>i, Zenon DEF Starting, Updating
  <2>5. NoAbort'
    <3>1. UNCHANGED <<hard, produceErr, eventErr>>
      BY <1>6, Zenon DEF procVars, sinkVars, CommitError
    <3> QED BY <2>1, <2>2, <1>i, <3>1, Zenon DEF NoAbort
  <2>6. CASE UNCHANGED <<visible, markers>>
    <3>1. Delivered(L)' /\ Stream(L)'
      BY <1>j, <2>2, RestartFrame, <2>6, Zenon
    <3>2. Filled(L)'
      BY <2>1, <2>2, Zenon DEF Filled
    <3>3. Pointer(L)'
      BY <1>j, <2>1, <2>2, <2>6, Zenon DEF Early, Pointer
    <3> QED BY <1>a, <3>1, <2>3, <2>4, <3>2, <3>3, <2>5, Zenon DEF RestartInv, Inv
  <2>7. CASE BrokerCommit
    <3> PICK M \in Ids : M = cur
      BY <2>1, Zenon
    <3>1. markers' = markers \cup {M}
      BY <2>1, <2>7 DEF BrokerCommit
    <3>2. at[M] = sinkPos /\ Cut(L) <= sinkPos /\ Cut(L) \in Int /\ sinkPos \in Int
      BY <1>j, <1>t, <2>1, <2>7 DEF Cut, Stream, TypeInjector
    <3>3. ASSUME NEW r \in Recs PROVE visible'[r] = IF r < sinkPos THEN 1 ELSE 0
      <4>1. r \in txnRecs <=> Cut(L) <= r /\ r < sinkPos
        BY <1>j, <2>1, <2>7, Zenon DEF Filled
      <4>2. visible[r] = IF r < Cut(L) THEN 1 ELSE 0
        BY <1>j, Zenon DEF Delivered
      <4>3. visible'[r] = visible[r] + IF r \in txnRecs THEN 1 ELSE 0
        BY <2>7, Zenon DEF BrokerCommit
      <4> QED BY <4>1, <4>2, <3>2, <4>3
    <3>4. Delivered(M)'
      <4>1. ASSUME NEW i \in markers' PROVE i <= M
        BY <1>j, <1>t, <2>1, <1>b, <3>1 DEF Delivered, TypeBroker
      <4>2. M # NoId /\ Cut(M)' = sinkPos
        BY <2>2, <3>2 DEF Cut
      <4> QED BY <3>1, <4>1, <4>2, <3>3, Zenon DEF Delivered
    <3>5. Cut(M)' = sinkPos
      BY <2>2, <3>2 DEF Cut
    <3>6. Filled(M)'
      BY <2>1, <2>2, Zenon DEF Filled
    <3>7. Stream(M)'
      <4>1. Cut(M)' <= sinkPos'
        BY <2>2, <3>2, <3>5
      <4> QED BY <1>j, <2>1, <2>2, <4>1, Zenon DEF Stream
    <3>8. Pointer(M)'
      BY <2>1, <2>2, <3>1, Zenon DEF Pointer
    <3> QED BY <1>a, <2>3, <2>4, <2>5, <3>4, <3>6, <3>7, <3>8, Zenon DEF RestartInv, Inv
  <2> QED BY <2>6, <2>7, <1>6, Zenon DEF CommitError
<1>7. CASE AbortSink
  <2>1. /\ coord = "abort" /\ mode = "running" /\ sink = "done" /\ ~txnOpen
    <3>1. coord = "abort" /\ mode = "running" /\ (txnOpen => ~hard)
      BY <1>7, Zenon DEF AbortSink
    <3>2. hard
      BY <1>i, <3>1, Zenon DEF NoAbort
    <3> QED BY <1>a, <3>1, <3>2, Zenon DEF Held, Sealed
  <2>2. /\ sink' = "done" /\ coord' = "report" /\ produceErr' = FALSE
        /\ UNCHANGED <<sinkPos, sinkId, event, eventErr, hard, mode, starts, pos, nextId, at, pending, offsets>>
        /\ UNCHANGED <<visible, markers, files, latest, latestCompleted>>
    BY <2>1, <1>7, Zenon DEF AbortSink, NextTxn, storageVars, procVars, injVars
  <2>3. Restorable' /\ Delivered(L)' /\ Stream(L)'
    BY <1>j, <1>i, RestartFrame, <2>1, <2>2, Zenon DEF storageVars
  <2>4. Filled(L)'
    BY <2>2, Zenon DEF Filled
  <2>5. Starting'
    BY <1>i, <2>1, <2>2, Zenon DEF Starting, Updating
  <2>6. NoAbort'
    BY <1>a, <1>i, <2>1, <2>2, Zenon DEF NoAbort, Handshake, Sealed
  <2>7. Pointer(L)'
    BY <1>j, <2>1, <2>2, Zenon DEF Early, Pointer, Cut
  <2> QED BY <1>a, <2>3, <2>4, <2>5, <2>6, <2>7, Zenon DEF RestartInv, Inv
<1>8. CASE AbortError
  <2>1. Restorable' /\ Delivered(L)' /\ Filled(L)' /\ Stream(L)'
    BY <1>j, <1>i, RestartFrame, <1>8, Zenon DEF storageVars, txnVars, brokerVars, procVars, sinkVars,
       injVars, AbortError
  <2>2. Starting'
    BY <1>i, <1>8, Zenon DEF Starting, procVars, AbortError
  <2>3. NoAbort'
    BY <1>a, <1>i, <1>8, Zenon DEF NoAbort, Handshake, procVars, sinkVars, Sealed, AbortError
  <2>4. Pointer(L)'
    BY <1>j, <1>8, Zenon DEF Early, storageVars, Pointer, brokerVars, procVars, AbortError
  <2> QED BY <1>a, <2>1, <2>2, <2>3, <2>4, Zenon DEF RestartInv, Inv
<1>9. CASE ReportFatal
  <2>1. Restorable' /\ Delivered(L)' /\ Filled(L)' /\ Stream(L)'
    BY <1>j, <1>i, RestartFrame, <1>9, Zenon DEF txnVars, brokerVars, sinkVars, injVars, ReportFatal
  <2>2. Starting'
    BY <1>i, <1>9, Zenon DEF Starting, ReportFatal
  <2>3. NoAbort'
    BY <1>i, <1>9, Zenon DEF NoAbort, sinkVars, ReportFatal
  <2>4. Pointer(L)'
    BY <1>j, <1>i, <1>9, Zenon DEF NoAbort, Early, storageVars, Pointer, txnVars, brokerVars, sinkVars,
       injVars, ReportFatal
  <2> QED BY <1>a, <2>1, <2>2, <2>3, <2>4, Zenon DEF RestartInv, Inv
<1> QED BY <1>1, <1>2, <1>3, <1>4, <1>5, <1>6, <1>7, <1>8, <1>9, Zenon

\* The restart invariant is kept by UpdateStatus, by the coordinator or by recovery.
LEMMA UpdateRestarts ==
  ASSUME OneRestart, RestartInv, Agreement', NEW L \in Ids \cup {NoId}, Inv(L),
         UpdateStatus \/ UpdateLatest \/ UpdatePointer
  PROVE  RestartInv'
<1>a. Agreement' /\ TypeOK /\ Handshake /\ Held /\ Logged /\ CompletedIsCommitted /\ CommittedIsLogged
  BY Zenon DEF RestartInv, Agreement, Accord, Kept, OneRestart
<1>i. Starting /\ NoAbort /\ Restorable
  BY Zenon DEF RestartInv
<1>j. Delivered(L) /\ Filled(L) /\ Stream(L) /\ Pointer(L)
  BY Zenon DEF Inv
<1>t. /\ TypeStorage /\ TypeBroker /\ TypeProcess /\ TypeInjector /\ TypeSink
      /\ TypeCoordinator /\ TypeFlags
  BY <1>a, Zenon DEF TypeOK
<1>e. latest \in markers => L = latest
  BY Newest, Zenon
<1>d. /\ "produce" \notin Faults /\ "save" \notin Faults /\ "update" \notin Faults /\ "late" \notin Faults
      /\ "overtake" \notin Faults
  BY Zenon DEF OneRestart
<1> USE SizeAssumption
<1>1. CASE UpdateStatus
  <2>1. /\ coord = "update" /\ cur = latest /\ cur \in markers /\ cur \in Ids
        /\ files[cur].status # "none"
    BY <1>a, <1>d, <1>1, Zenon DEF Updating, CommittedIsLogged, Handshake, Logged, UpdateStatus
  <2>2. /\ files' = [files EXCEPT ![cur].status = "completed"] /\ coord' = "updateLatest"
        /\ UNCHANGED <<latest, latestCompleted, mode, pos, starts, offsets, nextId, at, pending>>
        /\ UNCHANGED <<visible, markers, txnOpen, txnRecs, sink, sinkPos, sinkId, event>>
    BY <1>d, <1>1, Zenon DEF txnVars, brokerVars, sinkVars, UpdateStatus, UpdateError
  <2>3. \A i \in Ids : files'[i].offset = files[i].offset
                     /\ (files'[i].status # "none" => files[i].status # "none")
    BY <1>t, <2>1, <2>2, Zenon DEF TypeStorage
  <2>4. Starting'
    BY <2>1, <2>2, <1>i, Zenon DEF Starting, Updating
  <2>5. NoAbort'
    <3>1. UNCHANGED <<hard, produceErr, eventErr>>
      BY <1>1, Zenon DEF sinkVars, UpdateStatus, UpdateError, Goto
    <3> QED BY <2>1, <2>2, <1>i, <3>1, Zenon DEF NoAbort
  <2>6. Restorable'
    BY <2>2, <1>i, <2>3, Zenon DEF Restorable, Early, PosOf
  <2>7. Delivered(L)' /\ Filled(L)' /\ Stream(L)'
    BY <1>j, <2>2, RestartFrame, Zenon
  <2>8. Pointer(L)'
    BY <1>j, <2>1, <2>2, Zenon DEF Early, Cut, Pointer
  <2> QED BY <1>a, <2>4, <2>5, <2>6, <2>7, <2>8, Zenon DEF RestartInv, Inv
<1>2. CASE UpdateLatest
  <2>1. coord = "updateLatest" /\ cur = latest /\ cur \in markers
    BY <1>a, <1>d, <1>2, Zenon DEF Updating, Logged, UpdateLatest
  <2>2. /\ latest' = latest /\ coord' = "updatePointer"
        /\ UNCHANGED <<files, latestCompleted, mode, pos, starts, offsets, nextId, at, pending>>
        /\ UNCHANGED <<visible, markers, txnOpen, txnRecs, sink, sinkPos, sinkId, event>>
    BY <2>1, <1>d, <1>2, Zenon DEF txnVars, brokerVars, sinkVars, UpdateError, UpdateLatest
  <2>4. Starting'
    BY <2>1, <2>2, <1>i, Zenon DEF Starting, Updating
  <2>5. NoAbort'
    <3>1. UNCHANGED <<hard, produceErr, eventErr>>
      BY <1>2, Zenon DEF sinkVars, UpdateError, Goto, UpdateLatest
    <3> QED BY <2>1, <2>2, <1>i, <3>1, Zenon DEF NoAbort
  <2>6. Restorable' /\ Delivered(L)' /\ Filled(L)' /\ Stream(L)'
    BY <1>j, <2>2, <1>i, RestartFrame, Zenon DEF storageVars
  <2>8. Pointer(L)'
    BY <1>j, <2>1, <2>2, Zenon DEF Early, Cut, Pointer
  <2> QED BY <1>a, <2>4, <2>5, <2>6, <2>8, Zenon DEF RestartInv, Inv
<1>3. CASE UpdatePointer
  <2>1. /\ coord = "updatePointer" /\ cur = latest /\ cur \in Ids /\ cur = L
        /\ files[cur].status # "none" /\ (mode # "running" => mode = "recover")
    BY <1>a, <1>d, <1>i, <1>3, <1>e, Zenon DEF Starting, Updating, CommittedIsLogged, Handshake,
       Logged, UpdatePointer
  <2>2. /\ latestCompleted' = L /\ coord' = "idle"
        /\ UNCHANGED <<files, latest, starts, offsets, nextId, at, pending>>
        /\ UNCHANGED <<visible, markers, txnOpen, txnRecs, sink, sinkPos, sinkId, event>>
        /\ \/ mode = "running" /\ UNCHANGED <<mode, pos>>
           \/ mode = "recover" /\ mode' = "init" /\ pos' = PosOf(files[L].offset)
    BY <2>1, <1>d, <1>3, Zenon DEF PosOf, storageVars, txnVars, brokerVars, sinkVars, UpdateError,
       UpdatePointer, RestoreOffset
  <2>3. Starting'
    BY <2>1, <2>2, <1>i, Zenon DEF Starting, Updating
  <2>4. NoAbort'
    <3>1. UNCHANGED <<hard, produceErr, eventErr>>
      BY <1>3, Zenon DEF sinkVars, UpdateError, Goto, UpdatePointer
    <3> QED BY <2>1, <2>2, <1>i, <3>1, Zenon DEF NoAbort
  <2>5. Restorable'
    BY <2>1, <2>2, <1>i, Zenon DEF Restorable, Early, PosOf
  <2>6. Delivered(L)'
    BY <1>j, <2>2, RestartFrame, Zenon
  <2>7. Filled(L)' /\ Stream(L)'
    <3>1. CASE mode = "running"
      BY <1>j, <2>2, RestartFrame, <3>1, Zenon
    <3>2. CASE mode # "running"
      BY <2>2, <3>2, Zenon DEF Filled, Stream
    <3> QED BY <3>1, <3>2, Zenon
  <2>8. Pointer(L)'
    <3>1. mode # "running" => PosOf(files[L].offset) = Cut(L)
      <4>1. mode # "running" => Early
        BY <2>1, Zenon DEF Early
      <4>2. Early => \A i \in Ids : files[i].status # "none" => PosOf(files[i].offset) = at[i]
        BY <1>i, Zenon DEF Restorable
      <4>3. L \in Ids /\ files[L].status # "none"
        BY <2>1, Zenon
      <4>4. Cut(L) = at[L]
        BY <4>3 DEF Cut
      <4> HIDE DEF Ids
      <4> QED BY <4>1, <4>2, <4>3, <4>4, Zenon
    <3>2. latest \in markers
      BY <1>a, <1>d, <2>1, <1>3, Zenon DEF Updating, Logged
    <3>3. mode' = "init" => pos' = Cut(L)
      BY <2>2, <3>1, Zenon
    <3>4. Cut(L)' = Cut(L)
      BY <2>2, Zenon DEF Cut
    <3> QED BY <2>2, <3>2, <3>3, <3>4, Zenon DEF Pointer
  <2> QED BY <1>a, <2>3, <2>4, <2>5, <2>6, <2>7, <2>8, Zenon DEF RestartInv, Inv
<1> QED BY <1>1, <1>2, <1>3, Zenon

\* The restart invariant is kept by recovery and the start of a run.
LEMMA StartRestarts ==
  ASSUME OneRestart, RestartInv, Agreement', NEW L \in Ids \cup {NoId}, Inv(L),
         \/ RecoverFresh \/ RecoverCompleted \/ RecoverFallBack
          \/ RecoverPromote \/ StartRun
  PROVE  RestartInv'
<1>a. Agreement' /\ TypeOK /\ Handshake /\ Held /\ Logged /\ CompletedIsCommitted /\ CommittedIsLogged
  BY Zenon DEF RestartInv, Agreement, Accord, Kept, OneRestart
<1>i. Starting /\ NoAbort /\ Restorable
  BY Zenon DEF RestartInv
<1>j. Delivered(L) /\ Filled(L) /\ Stream(L) /\ Pointer(L)
  BY Zenon DEF Inv
<1>t. /\ TypeStorage /\ TypeBroker /\ TypeProcess /\ TypeInjector /\ TypeSink
      /\ TypeCoordinator /\ TypeFlags
  BY <1>a, Zenon DEF TypeOK
<1>b. L <= latest /\ L < nextId /\ (L # NoId => files[L].status # "none" /\ L \in markers)
  BY Newest, Zenon
<1>e. latest \in markers => L = latest
  BY Newest, Zenon
<1>c. starts \in 0 .. 2 /\ MaxStarts <= 2
  BY Newest, Zenon
<1> USE SizeAssumption
<1>1. CASE RecoverFresh \/ RecoverCompleted \/ RecoverFallBack
  <2>1. \E off \in Offsets : Recovering /\ RecoverTo(off) /\ PosOf(off) = Cut(L)
    <3>1. CASE RecoverFresh
      <4>1. L = NoId
        BY <1>b, <3>1 DEF RecoverFresh
      <4> QED BY <3>1, <4>1 DEF PosOf, Cut, RecoverFresh
    <3>2. CASE RecoverCompleted
      <4>1. latest \in Ids /\ latest \in markers /\ mode = "recover" /\ files[latest].offset \in Offsets
        BY <1>a, <1>t, <3>2, Zenon DEF TypeStorage, RecoverCompleted, Recovering, CompletedIsCommitted
      <4>2. PosOf(files[latest].offset) = at[latest]
        BY <1>i, <4>1, <3>2, Zenon DEF Restorable, Early, RecoverCompleted
      <4> QED BY <4>1, <4>2, <3>2, <1>e, Zenon DEF Cut, RecoverCompleted
    <3>3. CASE RecoverFallBack
      <4>1. latestCompleted = L /\ mode = "recover"
        BY <1>j, <3>3, Zenon DEF Early, Pointer, Recovering, RecoverFallBack, Undecided
      <4>2. L # NoId => PosOf(files[L].offset) = at[L] /\ files[L].offset \in Offsets
        BY <1>t, <1>b, <1>i, <4>1, Zenon DEF Restorable, Early, TypeStorage
      <4> QED BY <4>1, <4>2, <3>3 DEF PosOf, Cut, RecoverFallBack, Undecided
    <3> QED BY <3>1, <3>2, <3>3, <1>1, Zenon
  <2>2. /\ mode = "recover" /\ coord = "idle" /\ mode' = "init" /\ pos' = Cut(L)
        /\ UNCHANGED <<starts, nextId, at, pending, files, latest, latestCompleted>>
        /\ UNCHANGED <<visible, markers, coord, eventErr>>
    BY <2>1 DEF PosOf, storageVars, brokerVars, coordVars, RestoreOffset, Recovering, RecoverTo
  <2>3. Starting' /\ NoAbort'
    BY <2>2, <1>i, Zenon DEF Starting, NoAbort, Updating
  <2>4. Restorable'
    BY <2>2, <1>i, Zenon DEF Restorable, Early, PosOf
  <2>5. Delivered(L)'
    BY <1>j, <2>2, RestartFrame, Zenon
  <2>6. Filled(L)' /\ Stream(L)'
    BY <2>2, Zenon DEF Filled, Stream
  <2>7. Pointer(L)'
    <3>1. Cut(L)' = Cut(L)
      BY <2>2, Zenon DEF Cut
    <3> QED BY <1>j, <2>2, <3>1, Zenon DEF Early, Pointer
  <2> QED BY <1>a, <2>3, <2>4, <2>5, <2>6, <2>7, Zenon DEF RestartInv, Inv
<1>2. CASE RecoverPromote
  <2>1. Restorable' /\ Delivered(L)' /\ Filled(L)' /\ Stream(L)'
    BY <1>j, <1>i, RestartFrame, <1>2, Zenon DEF storageVars, txnVars, brokerVars, procVars, sinkVars,
       injVars, RecoverPromote
  <2>2. /\ mode = "recover" /\ UNCHANGED <<mode, starts, eventErr, latest, latestCompleted, markers>>
    BY <1>2, Zenon DEF storageVars, brokerVars, procVars, Recovering, Undecided, RecoverPromote
  <2>3. Starting' /\ NoAbort'
    BY <2>2, <1>i, Zenon DEF Starting, NoAbort
  <2>4. Pointer(L)'
    BY <1>j, <2>2, Zenon DEF Early, Pointer
  <2> QED BY <1>a, <2>1, <2>3, <2>4, Zenon DEF RestartInv, Inv
<1>3. CASE StartRun
  <2>1. /\ mode = "init" /\ mode' = "running" /\ offsets' = NoOffset /\ sink' = "run"
        /\ sinkPos' = pos /\ sinkId' = nextId - 1 /\ txnRecs' = {} /\ coord \notin Updating
        /\ UNCHANGED <<starts, pos, nextId, at, pending, coord, event, visible, markers>>
        /\ UNCHANGED <<files, latest, latestCompleted>> /\ coord = "idle" /\ event = NoId
    BY <1>a, <1>i, <1>3, Zenon DEF Starting, storageVars, Handshake, coordVars, StartRun
  <2>2. starts <= 1 => L = NoId /\ latestCompleted = NoId /\ pos = 0
    <3> SUFFICES ASSUME starts <= 1 PROVE L = NoId /\ latestCompleted = NoId /\ pos = 0
      BY Zenon
    <3>1. starts = 1
      BY <1>c, <1>i, <2>1, SMTT(60) DEF Starting
    <3>2. latest = NoId /\ latestCompleted = NoId
      BY <3>1, <2>1, <1>i, Zenon DEF Restorable
    <3>3. L = NoId
      BY <3>2, <1>b
    <3>4. pos = Cut(L)
      BY <2>1, <1>j, Zenon DEF Pointer
    <3> QED BY <3>2, <3>3, <3>4, Zenon DEF Cut
  <2>3. Starting'
    BY <2>1, <1>i, Zenon DEF Starting
  <2>4. NoAbort'
    <3>1. produceErr' = FALSE /\ UNCHANGED eventErr
      BY <1>3, Zenon DEF coordVars, StartRun
    <3> QED BY <2>1, <1>i, <3>1, Zenon DEF NoAbort
  <2>5. Restorable'
    BY <2>1, <2>2, <1>i, Zenon DEF Restorable, Early, PosOf
  <2>6. Delivered(L)'
    BY <1>j, <2>1, RestartFrame, Zenon
  <2>7. Filled(L)'
    <3>1. pos = Cut(L) /\ pos \in Int /\ Cut(L)' = Cut(L)
      BY <1>j, <1>t, <2>1 DEF Cut, Pointer, TypeInjector
    <3>2. {r \in Recs : pos <= r /\ r < pos} = {}
      BY <3>1
    <3>3. txnOpen' = TRUE
      BY <1>3, Zenon DEF StartRun
    <3> QED BY <2>1, <3>1, <3>2, <3>3, Zenon DEF Filled
  <2>8. Stream(L)'
    BY <1>j, <1>t, <2>1 DEF Cut, Stream, Pointer, TypeInjector
  <2>9. Pointer(L)'
    BY <2>1, <2>2, <1>i, Zenon DEF Restorable, Early, Pointer
  <2> QED BY <1>a, <2>3, <2>4, <2>5, <2>6, <2>7, <2>8, <2>9, Zenon DEF RestartInv, Inv
<1> QED BY <1>1, <1>2, <1>3, Zenon

\* The restart invariant is kept by the end of a process, whatever ends it, and its restart.
LEMMA EndRestarts ==
  ASSUME OneRestart, RestartInv, Agreement', NEW L \in Ids \cup {NoId}, Inv(L),
         ProbeError \/ Process
  PROVE  RestartInv'
<1>a. Agreement' /\ TypeOK /\ Handshake /\ Held /\ Logged /\ CompletedIsCommitted /\ CommittedIsLogged
  BY Zenon DEF RestartInv, Agreement, Accord, Kept, OneRestart
<1>i. Starting /\ NoAbort /\ Restorable
  BY Zenon DEF RestartInv
<1>j. Delivered(L) /\ Filled(L) /\ Stream(L) /\ Pointer(L)
  BY Zenon DEF Inv
<1>t. /\ TypeStorage /\ TypeBroker /\ TypeProcess /\ TypeInjector /\ TypeSink
      /\ TypeCoordinator /\ TypeFlags
  BY <1>a, Zenon DEF TypeOK
<1>c. starts \in 0 .. 2 /\ MaxStarts <= 2
  BY Newest, Zenon
<1> USE SizeAssumption
<1>1. CASE Shutdown
  <2>1. Starting' /\ NoAbort' /\ Restorable' /\ Delivered(L)' /\ Filled(L)' /\ Stream(L)' /\ Pointer(L)'
    BY <1>j, <1>i, RestartFrame, <1>1, Zenon DEF storageVars, txnVars, brokerVars, sinkVars, coordVars,
       injVars, Shutdown
  <2> QED BY <1>a, <2>1, Zenon DEF RestartInv, Inv
<1>2. CASE HardCancel
  <2>1. Starting' /\ Restorable' /\ Delivered(L)' /\ Filled(L)' /\ Stream(L)' /\ Pointer(L)'
    BY <1>j, <1>i, RestartFrame, <1>2, Zenon DEF storageVars, txnVars, brokerVars, sinkVars, coordVars,
       injVars, HardCancel
  <2>2. NoAbort'
    BY <1>i, <1>2, Zenon DEF NoAbort, sinkVars, coordVars, HardCancel
  <2> QED BY <1>a, <2>1, <2>2, Zenon DEF RestartInv, Inv
<1>3. CASE Exit \/ Crash \/ ProbeError
  <2>1. /\ mode # "down" /\ mode' = "down" /\ coord' = "idle" /\ ~eventErr'
        /\ UNCHANGED <<starts, nextId, at, pending, files, latest, latestCompleted, visible, markers>>
    BY <1>3, Zenon DEF storageVars, brokerVars, Recovering, Undecided, Exit, Crash, ProbeError, Forget
  <2>2. Starting' /\ NoAbort'
    BY <2>1, Zenon DEF Starting, NoAbort, Updating
  <2>3. Restorable'
    BY <2>1, <1>i, Zenon DEF Starting, Restorable, Early, PosOf
  <2>4. Delivered(L)'
    BY <1>j, <2>1, RestartFrame, Zenon
  <2>5. Filled(L)' /\ Stream(L)'
    BY <2>1, Zenon DEF Filled, Stream
  <2>6. Pointer(L)'
    BY <1>j, <2>1, Zenon DEF Early, Pointer
  <2> QED BY <1>a, <2>2, <2>3, <2>4, <2>5, <2>6, Zenon DEF RestartInv, Inv
<1>4. CASE Restart
  <2>1. /\ mode = "down" /\ mode' = "recover" /\ starts <= 1 /\ starts \in Nat /\ starts' = starts + 1
        /\ UNCHANGED <<nextId, at, pending, files, latest, latestCompleted, visible, markers>>
        /\ UNCHANGED <<coord, eventErr>>
    BY <1>c, <1>4 DEF storageVars, brokerVars, coordVars, injVars, Restart
  <2>2. Starting' /\ NoAbort'
    BY <2>1, <1>i, SMTT(60) DEF Starting, NoAbort
  <2>3. Restorable'
    <3>1. starts' <= 1 => starts = 0 BY <2>1
    <3>2. starts' # 0 /\ (starts' = 1 => starts = 0) /\ mode' # "running" BY <2>1, SMTT(60)
    <3>3. \A i \in Ids : files[i].status # "none" => PosOf(files[i].offset) = at[i] /\ i < nextId
      BY <2>1, <1>i, Zenon DEF Restorable, Early
    <3>4. starts = 0 => /\ latest = NoId /\ latestCompleted = NoId
                        /\ \A i \in Ids : i < nextId => PosOf(pending[i]) = at[i]
      BY <2>1, <1>i, Zenon DEF Restorable
    <3> QED BY <2>1, <3>1, <3>2, <3>3, <3>4, Zenon DEF Restorable, PosOf
  <2>4. Delivered(L)'
    BY <1>j, <2>1, RestartFrame, Zenon
  <2>5. Filled(L)' /\ Stream(L)'
    BY <2>1, Zenon DEF Filled, Stream
  <2>6. Pointer(L)'
    BY <1>j, <2>1, Zenon DEF Early, Pointer
  <2> QED BY <1>a, <2>2, <2>3, <2>4, <2>5, <2>6, Zenon DEF RestartInv, Inv
<1> QED BY <1>1, <1>2, <1>3, <1>4, Zenon DEF Process

\* Every step keeps the restart invariant.
LEMMA RestartStep == ASSUME OneRestart PROVE RestartInv /\ [Next]_vars => RestartInv'
<1> SUFFICES ASSUME RestartInv, [Next]_vars PROVE RestartInv'
  BY Zenon
<1>1. Agreement'
  BY AgreementStep, Zenon DEF RestartInv
<1>2. PICK L \in Ids \cup {NoId} : Inv(L)
  BY Zenon DEF RestartInv
<1>3. ~LateCommit
  BY Zenon DEF LateCommit, OneRestart
<1>4. CASE UNCHANGED vars
  <2>1. Starting' /\ NoAbort' /\ Restorable'
    BY <1>4, RestartFrame, Zenon DEF RestartInv, vars, storageVars, procVars, injVars, sinkVars, coordVars
  <2>2. Delivered(L)' /\ Filled(L)' /\ Stream(L)' /\ Pointer(L)'
    BY <1>2, <1>4, RestartFrame, Zenon DEF Inv, vars, storageVars, txnVars, brokerVars, procVars, injVars,
       sinkVars, coordVars
  <2> QED BY <1>1, <2>1, <2>2, Zenon DEF RestartInv, Inv
<1> QED
  BY <1>1, <1>2, <1>3, <1>4, InjectorRestarts, SinkRestarts, FinalizeRestarts, UpdateRestarts,
     StartRestarts, EndRestarts, Zenon
     DEF Next, Coordinator, Recovery, Ended

-----------------------------------------------------------------------------
(* Theorems *)

\* RestartInv is an invariant of the specification.
LEMMA RestartInvariant == ASSUME OneRestart PROVE Spec => []RestartInv
<1>1. RestartInv /\ [Next]_vars => RestartInv'
  BY RestartStep, Zenon
<1> QED BY <1>1, RestartInit, PTL DEF Spec

\* Recovery resumes exactly behind the committed output, whatever step the
\* crash came after (Execute and resolveCoordinatedRecovery).
THEOREM ResumesBehindOutput == ASSUME OneRestart PROVE Spec => []RestorePoint
<1>1. RestartInv => RestorePoint
  <2> SUFFICES ASSUME NEW L \in Ids \cup {NoId}, Delivered(L), Pointer(L) PROVE RestorePoint
    BY Zenon DEF RestartInv, Inv
  <2> QED BY Zenon DEF Delivered, Pointer, RestorePoint
<1> QED BY <1>1, PTL, RestartInvariant

\* No output is committed twice across a restart.
THEOREM CommittedOnce == ASSUME OneRestart PROVE Spec => []NoDuplicates
<1>1. RestartInv => NoDuplicates
  <2> SUFFICES ASSUME NEW L \in Ids \cup {NoId}, Delivered(L) PROVE NoDuplicates
    BY Zenon DEF RestartInv, Inv
  <2> QED BY DEF Delivered, NoDuplicates
<1> QED BY <1>1, PTL, RestartInvariant

\* Every step of the pipeline is a step of the abstract delivery or leaves
\* the output alone; only a commit delivers, and it delivers the records
\* from the newest committed cut up to its own barrier.
LEMMA CommitDelivers ==
  ASSUME OneRestart PROVE RestartInv /\ [Next]_vars => [Promise!Next]_visible
<1> SUFFICES ASSUME RestartInv, [Next]_vars, visible' # visible PROVE Promise!Next
  BY Zenon
<1>1. PICK L \in Ids \cup {NoId} : Delivered(L) /\ Filled(L) /\ Stream(L)
  BY Zenon DEF RestartInv, Inv
<1>2. mode = "running" /\ sink # "done" /\ txnOpen /\ BrokerCommit
  <2>1. ~Injector /\ ~UNCHANGED vars
    BY Zenon DEF brokerVars, InjectRecord, TickBarrier, ShutdownBarrier, FinalBarrier, InjectBarrier,
       DrainEnd, vars, Injector
  <2>2. ~Sink /\ ~Recovery
    BY Zenon DEF brokerVars, SinkRecord, SinkBarrier, SinkReturn, RecoverFresh, RecoverCompleted,
       RecoverFallBack, RecoverTo, RecoverPromote, StartRun, ProbeError, Sink, Recovery
  <2>3. ~Process /\ ~LateCommit /\ ~Ended
    BY Zenon DEF OneRestart, brokerVars, Shutdown, HardCancel, Exit, Crash, Restart, LateCommit, vars,
       Process, Ended
  <2>4. Coordinator => CommitSink \/ CommitError
    BY Zenon DEF brokerVars, TakeEvent, SavePrepared, SaveLatest, CallCommit, AbortSink, AbortError,
       ReportFatal, UpdateStatus, UpdateLatest, UpdatePointer, Coordinator
  <2>5. CommitSink \/ CommitError => mode = "running" /\ coord = "committing" /\ BrokerCommit
    BY Zenon DEF CommitSink, CommitError
  <2>6. mode = "running" /\ coord = "committing" => sink # "done" /\ txnOpen
    BY Zenon DEF RestartInv, Agreement, Held, InHand, Sealed, OneRestart
  <2> QED BY <2>1, <2>2, <2>3, <2>4, <2>5, <2>6, Zenon DEF Next
<1>3. visible \in [Recs -> Nat] /\ pos \in 0 .. NumRecords /\ sinkPos \in 0 .. NumRecords /\ Cut(L) \in 0 .. NumRecords
  BY SizeAssumption DEF Cut, RestartInv, Agreement, Accord, TypeOK, TypeInjector, TypeSink, TypeBroker
<1>4. Cut(L) <= sinkPos /\ txnRecs = {r \in Recs : Cut(L) <= r /\ r < sinkPos}
  BY <1>1, <1>2, Zenon DEF Filled, Stream
<1>5. ASSUME NEW r \in Recs PROVE visible[r] = IF r < Cut(L) THEN 1 ELSE 0
  BY <1>1, Zenon DEF Delivered
<1>6. visible' = [r \in Recs |-> IF r < sinkPos THEN 1 ELSE 0]
  <2>1. ASSUME NEW r \in Recs
        PROVE  (visible[r] + IF r \in txnRecs THEN 1 ELSE 0) = IF r < sinkPos THEN 1 ELSE 0
    BY <1>3, <1>4, <1>5, SizeAssumption
  <2> QED BY <1>2, <2>1, Zenon DEF BrokerCommit
<1>7. Cut(L) < sinkPos
  <2>1. SUFFICES ASSUME Cut(L) = sinkPos PROVE visible' = visible
    BY <1>3, <1>4
  <2>2. visible = [r \in Recs |-> IF r < sinkPos THEN 1 ELSE 0]
    BY <1>3, <1>5, <2>1, Zenon
  <2> QED BY <1>6, <2>2, Zenon
<1>8. Promise!Deliver(Cut(L), sinkPos)
  BY <1>5, <1>6, Zenon DEF Promise!Deliver, Promise!Recs
<1> QED BY <1>3, <1>7, <1>8, Zenon DEF Promise!Next

\* The pipeline with its crashes and a restart implements Delivery: every
\* record reaches the output topic in order and once.
THEOREM ExactlyOnceAcrossRestart == ASSUME OneRestart PROVE Spec => ExactlyOnceDelivery
<1>1. Init => Promise!Init
  BY Zenon DEF Init, Promise!Recs, Promise!Init
<1>2. RestartInv /\ [Next]_vars => [Promise!Next]_visible
  BY CommitDelivers, Zenon
<1> QED BY <1>1, <1>2, PTL, RestartInvariant DEF Spec, ExactlyOnceDelivery, Promise!Spec
=============================================================================
