------------------------------ MODULE MCState -------------------------------
(***************************************************************************)
(* Model checking of operator state: window and reduce operators over      *)
(* watermarks, snapshots and restarts, the two state backends, and the     *)
(* window assigners. A behaviour is one of one part, with the constants of *)
(* one scenario; the variables of the other parts keep the value Off.      *)
(***************************************************************************)
EXTENDS Integers, Sequences, FiniteSets

VARIABLES
    on,  \* the scenario
    \* Windows
    log, pos, gen, script, mode, win, seqs, wm, dwm, todo, acc, frontier, late, fired, ever,
    snap, lives,
    \* StateBackends
    db, storeSeqs, closed, ckpt, want, wantAt, ops,
    \* WindowAssign
    in

Off == "off"

\* Window operators: tumbling windows of two keys and sliding windows with
\* crashes; sessions folded by their own reducer; graceful stops; Pebble.
WindowBase ==
  [keys |-> {"a"}, ts |-> 4, recs |-> 3, by |-> "tumbling", size |-> 2, slide |-> 2, late |-> 1,
   native |-> FALSE, folded |-> FALSE, lives |-> 2, faults |-> {"crash"}]
WindowOps ==
  [tumbling |-> [WindowBase EXCEPT !.keys = {"a", "b"}, !.recs = 2],
   sliding  |-> [WindowBase EXCEPT !.by = "sliding", !.ts = 3, !.size = 3],
   session  |-> [WindowBase EXCEPT !.by = "session", !.slide = 1, !.late = 2, !.native = TRUE,
                                   !.folded = TRUE, !.lives = 1, !.faults = {"idle"}],
   stop     |-> [WindowBase EXCEPT !.ts = 3, !.faults = {"stop"}],
   native   |-> [WindowBase EXCEPT !.keys = {"a", "b"}, !.ts = 3, !.native = TRUE, !.lives = 1, !.faults = {"idle"}]]

Window(c) == INSTANCE Windows WITH
    Keys <- c.keys, MaxTs <- c.ts, NRec <- c.recs, Assigner <- c.by, Size <- c.size,
    Slide <- c.slide, Lateness <- c.late, Native <- c.native, Folded <- c.folded,
    MaxLives <- c.lives, Faults <- c.faults

\* State backends: Pebble until it is closed; Pebble's values over restarts; the
\* maps in memory.
Stores ==
  [pebble |-> [kind |-> "pebble", ops |-> 5, faults |-> {}],
   values |-> [kind |-> "pebble", ops |-> 6, faults |-> {"restart"}],
   memory |-> [kind |-> "memory", ops |-> 6, faults |-> {"fresh", "restart"}]]

Store(c) == INSTANCE StateBackends WITH
    Backend <- c.kind, NulKeys <- FALSE, Values <- {1, 2}, MaxOps <- c.ops,
    Faults <- c.faults, seqs <- storeSeqs

Assign == INSTANCE WindowAssign WITH
    Ticks <- 3 .. 12, EpochAt <- 0, MaxSize <- 4, Offsets <- 0 .. 3, MaxKeyLen <- 3

windowVars == <<log, pos, gen, script, mode, win, seqs, wm, dwm, todo, acc, frontier, late,
                fired, ever, snap, lives>>
storeVars == <<db, storeSeqs, closed, ckpt, want, wantAt, ops>>
assignVars == <<in>>
stateVars == <<on, windowVars, storeVars, assignVars>>

NoWindow ==
  /\ log = Off /\ pos = Off /\ gen = Off /\ script = Off /\ mode = Off /\ win = Off
  /\ seqs = Off /\ wm = Off /\ dwm = Off /\ todo = Off /\ acc = Off /\ frontier = Off
  /\ late = Off /\ fired = Off /\ ever = Off /\ snap = Off /\ lives = Off
NoStore ==
  /\ db = Off /\ storeSeqs = Off /\ closed = Off /\ ckpt = Off /\ want = Off
  /\ wantAt = Off /\ ops = Off
NoAssign ==
  /\ in = Off

StateInit ==
  \/ /\ NoStore /\ NoAssign
     /\ \E s \in DOMAIN WindowOps : on = s /\ Window(WindowOps[s])!Init
  \/ /\ NoWindow /\ NoAssign
     /\ \E s \in DOMAIN Stores : on = s /\ Store(Stores[s])!Init
  \/ /\ NoWindow /\ NoStore
     /\ on = "assign" /\ Assign!Init

StateNext ==
  \/ /\ \E s \in DOMAIN WindowOps : on = s /\ Window(WindowOps[s])!Next
     /\ UNCHANGED <<on, storeVars, assignVars>>
  \/ /\ \E s \in DOMAIN Stores : on = s /\ Store(Stores[s])!Next
     /\ UNCHANGED <<on, windowVars, assignVars>>
  \/ /\ on = "assign" /\ Assign!Next
     /\ UNCHANGED <<on, windowVars, storeVars>>

StateSpec == StateInit /\ [][StateNext]_stateVars

-----------------------------------------------------------------------------
(* Windows and reduce. *)

\* Once the input has run out, every record that was not late has come out of
\* each of its windows exactly once, with its own key, whatever crashes and
\* restarts came between (WindowOperator's Snapshot and Restore); and a window is
\* reported once, as what belongs to a window that has fired is late by then.
EveryWindowOnce ==
  \A s \in DOMAIN WindowOps \ {"stop"} : on = s =>
    Window(WindowOps[s])!EveryWindowOnce /\ Window(WindowOps[s])!FiresOnce

\* Reduce ends up, for every window, with exactly the window's records folded
\* once each: eviction never takes an accumulator that is still in use.
ReduceExact == \A s \in DOMAIN WindowOps \ {"stop"} : on = s => Window(WindowOps[s])!ReduceExact

\* The open sessions are those a reader of the buffered records would draw: two
\* records of a key share one exactly when a chain of records less than a gap
\* apart joins them (assignToWindow merges as they come).
SessionsAreComponents ==
  on = "session" => Window(WindowOps.session)!SessionsAreComponents

\* A record is dropped only if it trails the latest event time before it by
\* more than the allowed lateness, also after a stop whose last watermark was
\* the year 9999 and a restart from its snapshot.
LatenessHonoured == \A s \in DOMAIN WindowOps : on = s => Window(WindowOps[s])!LatenessHonoured

-----------------------------------------------------------------------------
(* State backends. *)

\* Both backends implement the interface: every call is the abstract one's, the
\* map in memory comes back from a checkpoint as it was, and the calls of a
\* goroutine that outlives Close change nothing.  Pebble's keys are exactly those
\* with entries, and its values come back without what was written later.
Implements ==
  /\ \A s \in {"pebble", "memory"} : on = s => Store(Stores[s])!Abstract!Init
  /\ [][\A s \in {"pebble", "memory"} : on = s =>
          \/ Store(Stores[s])!Abstract!Next
          \/ Store(Stores[s])!Abstract!vars' = Store(Stores[s])!Abstract!vars]_stateVars
  /\ [](/\ on = "pebble" => Store(Stores.pebble)!KeysExact
        /\ on = "values" => Store(Stores.values)!ValuesMatch)

-----------------------------------------------------------------------------
(* Window assignment. *)

\* A record is filed under exactly the windows that contain its timestamp, which
\* lies neither before the epoch nor before the offset: the tumbling window does,
\* the sliding ones are all aligned windows that do, each once; merged sessions keep every instant and invent none;
\* and the key of a window reads back as the record key and bounds it was built
\* from, although a record key may contain separators.
AssignedExactly ==
  on = "assign" => /\ Assign!TumblingContains /\ Assign!SlidingExact
                   /\ Assign!MergeIsUnion /\ Assign!KeyRoundTrip
=============================================================================
