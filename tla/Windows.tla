------------------------------ MODULE Windows ------------------------------
(***************************************************************************)
(* A WatermarkSource in front of a WindowOperator and a ReduceOperator:    *)
(* records in any order of event time, watermarks at any moment, barriers  *)
(* with their snapshots, crashes, graceful stops and restarts.             *)
(*                                                                         *)
(* The input is a replayable log; records are named by their position in   *)
(* it.  Times are small integers; the zero time and the year 9999 are the  *)
(* two instants whose UnixNano does not fit 64 bits.                       *)
(***************************************************************************)
EXTENDS Assigners, SequencesExt

CONSTANTS Keys, MaxTs,   \* record keys and the largest event time
          NRec,          \* records in the input
          Assigner,      \* "tumbling", "sliding" or "session"
          Size, Slide,   \* window size (or session gap) and slide
          Lateness,      \* the generator's allowed lateness
          Native,        \* the backend snapshots itself (Pebble)
          Folded,        \* the window has its own Reducer
          MaxLives,      \* runs of the job
          Faults         \* subset of {"crash", "stop", "idle"}

VARIABLES log,      \* records the source has ever produced
          pos,      \* records this life has taken from it
          gen,      \* the generator's maxTimestamp
          script,   \* markers still to come once the source ends or is stopped
          mode,     \* "run", "end", "stop", "idle", "closed", "down"
          win,      \* buffered records per window key: list position to record
          seqs,     \* next list position per window key (native backend, in memory)
          wm, dwm,  \* currentWatermark, and its copy in the backend
          todo,     \* windows the current pass still has to fire
          acc,      \* Reduce's accumulators
          frontier, \* Reduce's windowFrontier
          late,     \* records dropped as late
          fired,    \* results in effect: a restart takes back what it replays
          ever,     \* results ever emitted
          snap,     \* the last checkpoint
          lives

opVars == <<win, seqs, wm, dwm, todo>>
reduceVars == <<acc, frontier>>
outVars == <<fired, ever>>
srcVars == <<log, pos, gen>>
vars == <<srcVars, opVars, reduceVars, outVars, script, mode, late, snap, lives>>

----------------------------------------------------------------------------
(* Time. *)

ZeroTime == -100
MaxWatermark == 100

\* Mutant of UnixNano: the conversion saturates.
UnixNanoSaturating(t) == t

\* UnixNano wraps for the year 9999 (to 1815) and for the zero time (to 1754).
UnixNano(t) ==
  CASE t = MaxWatermark -> -40
    [] t = ZeroTime -> -50
    [] OTHER -> t

----------------------------------------------------------------------------
(* Windows. *)

AssignWindows(ts) ==
  CASE Assigner = "tumbling" -> Range(Tumbling(ts, Size, 0))
    [] Assigner = "sliding" -> Range(Sliding(ts, Size, Slide, 0))
    [] OTHER -> Range(Session(ts, Size))

toWindowKey(k, w) == [key |-> k, start |-> w.start, end |-> w.end]

Without(f, S) == Restrict(f, DOMAIN f \ S)
Put(f, k, v) == [x \in DOMAIN f \cup {k} |-> IF x = k THEN v ELSE f[x]]
Get(f, k) == IF k \in DOMAIN f THEN f[k] ELSE <<>>

\* A list as a sequence, and the buffers after appending r to w's list: a native
\* backend counts positions in memory and never counts back.
Recs(list) ==
  LET at == SetToSortSeq(DOMAIN list, <) IN [i \in DOMAIN at |-> list[at[i]]]
NextSeq(b, w) ==
  IF Native THEN IF w \in DOMAIN b.seqs THEN b.seqs[w] ELSE 0
  ELSE Cardinality(DOMAIN Get(b.win, w))
AppendRec(b, w, r) ==
  [win |-> Put(b.win, w, Put(Get(b.win, w), NextSeq(b, w), r)),
   seqs |-> IF Native THEN Put(b.seqs, w, NextSeq(b, w) + 1) ELSE b.seqs]

\* Mutant of Overlapping: only one overlapping session is merged.
OverlappingFirst(f, k, w) ==
  LET all == {e \in DOMAIN f : e.key = k /\ w.start < e.end /\ w.end > e.start}
  IN  IF all = {} THEN {} ELSE {CHOOSE e \in all : TRUE}

Overlapping(f, k, w) == {e \in DOMAIN f : e.key = k /\ w.start < e.end /\ w.end > e.start}

\* assignToWindow: a session record moves the records of every session it
\* overlaps to the key of the merged span.
assignToWindow(b, k, w, r) ==
  LET old == IF Assigner = "session" THEN Overlapping(b.win, k, w) ELSE {}
      span == [key |-> k, start |-> Min({w.start} \cup {e.start : e \in old}),
               end |-> Max({w.end} \cup {e.end : e \in old})]
      moved == FoldSet(LAMBDA e, s : s \o Recs(b.win[e]), <<>>, old)
      cleared == [b EXCEPT !.win = Without(b.win, old)]
  IN  FoldLeft(LAMBDA c, x : AppendRec(c, span, x), cleared, Append(moved, r))

handleDataRecord(b, k, ts, r) ==
  FoldSet(LAMBDA w, c : assignToWindow(c, k, w, r), b, AssignWindows(ts))

Late(ts) == wm # ZeroTime /\ ts < wm

----------------------------------------------------------------------------
(* Reduce. *)

\* Mutant of evictClosedWindows: the frontier's own windows go as well.
evictClosedWindowsAt(f, front) == Without(f, {w \in DOMAIN f : w.end <= front})
evictClosedWindows(f, front) == Without(f, {w \in DOMAIN f : w.end < front})

\* Process and advanceWindowFrontier for one record of window w: fold it in,
\* emit the accumulator, then evict if the frontier moved.
ReduceRecord(st, w, r) ==
  LET a == Put(st.acc, w, Append(Get(st.acc, w), r))
      moved == w.end > st.frontier
  IN  [acc |-> IF moved THEN evictClosedWindows(a, w.end) ELSE a,
       frontier |-> IF moved THEN w.end ELSE st.frontier,
       out |-> a[w]]

\* Snapshot and Restore of Reduce: the entries; the frontier starts afresh.
ReduceSnapshot == acc
ReduceRestore(entries) == acc' = entries /\ frontier' = ZeroTime

----------------------------------------------------------------------------
(* Initial state. *)

Fresh ==
  /\ win = <<>> /\ seqs = <<>> /\ wm = ZeroTime /\ dwm = ZeroTime /\ todo = {}
  /\ acc = <<>> /\ frontier = ZeroTime

NoSnap == [pos |-> 0, win |-> <<>>, wm |-> ZeroTime, acc |-> <<>>, fired |-> <<>>, late |-> {}]

Init ==
  /\ log = <<>> /\ pos = 0 /\ gen = ZeroTime
  /\ script = <<>> /\ mode = "run"
  /\ Fresh
  /\ late = {} /\ fired = <<>> /\ ever = {}
  /\ snap = NoSnap /\ lives = 1

Running == mode = "run" /\ todo = {}

----------------------------------------------------------------------------
(* The source and the window operator. *)

\* The source forwards the next record and the operator drops or buffers it.
Arrive(k, ts) ==
  /\ gen' = Max({gen, ts})
  /\ pos' = pos + 1
  /\ late' = IF Late(ts) THEN late \cup {pos + 1} ELSE late
  /\ LET b == [win |-> win, seqs |-> seqs]
         c == IF Late(ts) THEN b ELSE handleDataRecord(b, k, ts, pos + 1)
     IN  win' = c.win /\ seqs' = c.seqs

Record ==
  /\ Running
  /\ pos < NRec
  /\ \/ \E k \in Keys, ts \in 0 .. MaxTs :
          /\ pos = Len(log)
          /\ log' = Append(log, [key |-> k, ts |-> ts])
          /\ Arrive(k, ts)
     \/ /\ pos < Len(log)
        /\ log' = log
        /\ Arrive(log[pos + 1].key, log[pos + 1].ts)
  /\ UNCHANGED <<wm, dwm, todo, reduceVars, outVars, script, mode, snap, lives>>

GetWatermark == IF gen = ZeroTime THEN ZeroTime ELSE gen - Lateness

Ready(t) == {w \in DOMAIN win : w.end <= t}

flushRemaining == DOMAIN win

\* handleWatermark: raise the watermark and start a pass over the windows.
handleWatermark(t) ==
  /\ wm' = Max({wm, t})
  /\ dwm' = IF t > wm THEN UnixNano(t) ELSE dwm
  /\ todo' = Ready(Max({wm, t}))
  /\ UNCHANGED <<win, seqs>>

\* The source's ticker.
Tick ==
  /\ Running
  /\ GetWatermark # ZeroTime
  /\ handleWatermark(GetWatermark)
  /\ UNCHANGED <<srcVars, reduceVars, outVars, script, mode, late, snap, lives>>

\* One window of the pass, in whatever order the backend lists the keys; each
\* of its records goes through Reduce unless the window folds them itself.
fireWindow(w) ==
  LET st == FoldLeft(LAMBDA s, r : ReduceRecord(s, w, r),
                     [acc |-> acc, frontier |-> frontier, out |-> <<>>], Recs(win[w]))
      val == IF Folded THEN Recs(win[w]) ELSE st.out
  IN  /\ fired' = Append(fired, [win |-> w, recs |-> Recs(win[w]), val |-> val])
      /\ ever' = ever \cup {[win |-> w, recs |-> Recs(win[w])]}
      /\ IF Folded THEN UNCHANGED reduceVars
         ELSE acc' = st.acc /\ frontier' = st.frontier
      /\ win' = Without(win, {w})

Fire ==
  /\ mode # "down"
  /\ \E w \in todo : fireWindow(w) /\ todo' = todo \ {w}
  /\ UNCHANGED <<srcVars, seqs, wm, dwm, script, mode, late, snap, lives>>

----------------------------------------------------------------------------
(* Barriers, the end of the source, stops and restarts. *)

\* Mutant of Snapshot: the open windows are left out.
SnapshotNoWindows ==
  [pos |-> pos, win |-> <<>>, wm |-> IF Native THEN dwm ELSE UnixNano(wm),
   acc |-> ReduceSnapshot, fired |-> fired, late |-> late]

\* Both operators snapshot as the barrier passes; the injector's offsets are
\* those of the records before it.
Snapshot ==
  [pos |-> pos, win |-> win, wm |-> IF Native THEN dwm ELSE UnixNano(wm),
   acc |-> ReduceSnapshot, fired |-> fired, late |-> late]

Barrier ==
  /\ Running
  /\ snap' = Snapshot
  /\ UNCHANGED <<srcVars, opVars, reduceVars, outVars, script, mode, late, lives>>

\* The source runs dry: maximum watermark, final barrier, end of stream.
EndOfStream ==
  /\ Running
  /\ pos = NRec
  /\ mode' = "end" /\ script' = <<"max", "barrier", "close">>
  /\ UNCHANGED <<srcVars, opVars, reduceVars, outVars, late, snap, lives>>

\* A graceful stop: the injector's shutdown barrier and the source's maximum
\* watermark race, and the watermark is lost if its five seconds run out.
Stop ==
  /\ "stop" \in Faults
  /\ Running
  /\ mode' = "stop"
  /\ script' \in {<<"barrier", "max", "close">>, <<"max", "barrier", "close">>,
                  <<"barrier", "close">>}
  /\ UNCHANGED <<srcVars, opVars, reduceVars, outVars, late, snap, lives>>

Marker ==
  /\ mode # "down" /\ script # <<>> /\ todo = {}
  /\ script' = Tail(script)
  /\ \/ /\ Head(script) = "max"
        /\ handleWatermark(MaxWatermark)
        /\ UNCHANGED <<snap, mode>>
     \/ /\ Head(script) = "barrier"
        /\ snap' = Snapshot
        /\ UNCHANGED <<opVars, mode>>
     \/ /\ Head(script) = "close"
        /\ todo' = flushRemaining
        /\ mode' = IF mode = "stop" THEN "closed" ELSE "idle"
        /\ UNCHANGED <<win, seqs, wm, dwm, snap>>
  /\ UNCHANGED <<srcVars, reduceVars, outVars, late, lives>>

\* The idle timer flushes and ends the operator.
IdleTimeout ==
  /\ "idle" \in Faults
  /\ Running
  /\ todo' = flushRemaining /\ mode' = "idle"
  /\ UNCHANGED <<srcVars, win, seqs, wm, dwm, reduceVars, outVars, script, late, snap, lives>>

Crash ==
  /\ "crash" \in Faults
  /\ mode \in {"run", "end", "stop"} /\ lives < MaxLives
  /\ mode' = "down" /\ script' = <<>>
  /\ UNCHANGED <<srcVars, opVars, reduceVars, outVars, late, snap, lives>>

\* Restore: a new process with a new generator, the operators' state from the
\* last checkpoint and the source at its offsets.
Restart ==
  /\ \/ mode = "down"
     \/ mode = "closed" /\ todo = {}
  /\ lives < MaxLives
  /\ lives' = lives + 1 /\ mode' = "run" /\ script' = <<>>
  /\ pos' = snap.pos /\ gen' = ZeroTime /\ log' = log
  /\ win' = snap.win /\ seqs' = <<>> /\ wm' = snap.wm /\ todo' = {}
  /\ dwm' = snap.wm
  /\ ReduceRestore(snap.acc)
  /\ fired' = snap.fired /\ late' = snap.late
  /\ UNCHANGED <<ever, snap>>

Done ==
  /\ mode \in {"idle", "closed"} /\ todo = {} /\ script = <<>>
  /\ mode = "closed" => lives = MaxLives
  /\ UNCHANGED vars

Next ==
  \/ Record \/ Tick \/ Fire \/ Barrier \/ EndOfStream \/ Stop \/ Marker
  \/ IdleTimeout \/ Crash \/ Restart \/ Done

Spec == Init /\ [][Next]_vars

----------------------------------------------------------------------------
(* Properties. *)

Ids == 1 .. NRec
WindowKeys == [key : Keys, start : Int, end : Int]

TypeOK ==
  /\ \A i \in DOMAIN log : log[i].key \in Keys /\ log[i].ts \in 0 .. MaxTs
  /\ pos \in 0 .. Len(log) /\ Len(log) <= NRec
  /\ mode \in {"run", "end", "stop", "idle", "closed", "down"}
  /\ DOMAIN win \subseteq WindowKeys /\ todo \subseteq DOMAIN win
  /\ DOMAIN acc \subseteq WindowKeys
  /\ late \subseteq Ids /\ lives \in 1 .. MaxLives

\* Once the input has run out, every record that was not late has come out of
\* each of its windows exactly once, with its own key, whatever crashes and
\* restarts came between.
EveryWindowOnce ==
  mode = "idle" /\ todo = {} /\ pos = NRec /\ script = <<>> =>
    \A r \in Ids :
      LET in == {i \in DOMAIN fired : Contains(fired[i].recs, r)}
          wins == {fired[i].win : i \in in}
          own == {toWindowKey(log[r].key, w) : w \in AssignWindows(log[r].ts)}
      IN  IF r \in late THEN in = {}
          ELSE /\ Cardinality(in) = Cardinality(own)
               /\ IF Assigner = "session"
                    THEN \A w \in wins : w.key = log[r].key /\ w.start <= log[r].ts /\ log[r].ts < w.end
                    ELSE wins = own

\* A window is reported once: a key's window that has fired gets no further
\* result, because what belongs to it is late by then.
FiresOnce == \A i, j \in DOMAIN fired : fired[i].win = fired[j].win => i = j

\* All that ever leaves for a window is one set of records.
SingleResult == \A a, b \in ever : a.win = b.win => a.recs = b.recs

\* The open sessions are those a reader of the buffered records would draw: two
\* records of a key share one exactly when a chain of records less than a gap
\* apart joins them.
SessionsAreComponents ==
  Assigner = "session" =>
    \A k \in Keys :
      LET open == {w \in DOMAIN win : w.key = k}
          recs(w) == Range(Recs(win[w]))
          all == UNION {recs(w) : w \in open}
          near(a, b) == log[a].ts - log[b].ts \in 1 - Size .. Size - 1
      IN  /\ \A v, w \in open : v # w => \A a \in recs(v), b \in recs(w) : ~near(a, b)
          /\ \A w \in open :
               /\ w.start = Min({log[r].ts : r \in recs(w)})
               /\ w.end = Max({log[r].ts : r \in recs(w)}) + Size
               /\ \A S \in SUBSET recs(w) \ {{}, recs(w)} :
                    \E a \in S, b \in recs(w) \ S : near(a, b)

\* A record is dropped only if it trails the latest event time before it by
\* more than the allowed lateness, also after a stop whose last watermark was
\* the year 9999.
LatenessHonoured ==
  \A r \in late : \E q \in 1 .. r - 1 : log[r].ts < log[q].ts - Lateness

\* Reduce ends up, for every window, with exactly the window's records folded
\* once each: eviction never takes an accumulator that is still in use.
ReduceExact == \A i \in DOMAIN fired : fired[i].val = fired[i].recs

\* The accumulators Reduce holds are those of windows at or beyond its frontier.
OwnWindowAtFrontier == \A w \in DOMAIN acc : frontier # ZeroTime => w.end >= frontier
=============================================================================
