----------------------------- MODULE Assigners -----------------------------
(***************************************************************************)
(* The window assigners and the keys under which windowed state is kept,   *)
(* as operators on integers and sequences.  Times are nanoseconds since    *)
(* 1970; a record without a timestamp has a negative one.  A state key is  *)
(* a sequence of tokens: "k" for text, "/" for the separator and any other *)
(* token for a printed time.                                               *)
(***************************************************************************)
EXTENDS Integers, Sequences, FiniteSets, FiniteSetsExt

----------------------------------------------------------------------------
(* Assigners. *)

\* Integer division of the source, which truncates towards zero.
quo(a, b) == IF a >= 0 THEN a \div b ELSE -((-a) \div b)

WindowStart(ts, size, offset) == quo(ts - offset, size) * size + offset

Win(s, e) == [start |-> s, end |-> e]

Tumbling(ts, size, offset) ==
  LET s == WindowStart(ts, size, offset) IN <<Win(s, s + size)>>

\* Mutant of Backwards: a window that ends at the timestamp is included.
BackwardsClosed(last, ts, size, slide) ==
  LET n == Cardinality({i \in 0 .. size : last - i * slide + size >= ts})
  IN  SelectSeq([i \in 1 .. n |-> last - (i - 1) * slide], LAMBDA s : s <= ts)

\* The loop that walks back from the last aligned start while the window still
\* reaches beyond the timestamp, and the one that walks forward from it.
Backwards(last, ts, size, slide) ==
  LET n == Cardinality({i \in 0 .. size : last - i * slide + size > ts})
  IN  SelectSeq([i \in 1 .. n |-> last - (i - 1) * slide], LAMBDA s : s <= ts)
Forwards(last, ts, size, slide) ==
  LET n == Cardinality({i \in 1 .. 2 * size : last + i * slide < ts + size})
  IN  SelectSeq([i \in 1 .. n |-> last + i * slide], LAMBDA s : s <= ts /\ s + size > ts)

Sliding(ts, size, slide, offset) ==
  LET last == WindowStart(ts, slide, offset)
      starts == Backwards(last, ts, size, slide) \o Forwards(last, ts, size, slide)
      all == IF starts = <<>> THEN <<last>> ELSE starts
  IN  [i \in DOMAIN all |-> Win(all[i], all[i] + size)]

Session(ts, gap) == <<Win(ts, ts + gap)>>

MergeSessions(a, b) ==
  IF a.end > b.start /\ a.start < b.end
    THEN <<Win(Min({a.start, b.start}), Max({a.end, b.end}))>> ELSE <<a, b>>

----------------------------------------------------------------------------
(* State keys. *)

Text == {"k", "/"}
IsTime(s) == Len(s) = 1 /\ s[1] \notin Text

\* windowKey.String and StateKey: key, start and end with separators.
WindowKeyString(key, s, e) == key \o <<"/", s, "/", e>>

Slashes(s) == {i \in DOMAIN s : s[i] = "/"}

\* parseWindowKey: the last two fields are the bounds, what precedes is the key.
parseWindowKey(s) ==
  IF Cardinality(Slashes(s)) < 2 THEN [key |-> <<>>, start |-> <<>>, end |-> <<>>]
  ELSE LET last == Max(Slashes(s))
           second == Max(Slashes(s) \ {last})
       IN  [key |-> SubSeq(s, 1, second - 1), start |-> SubSeq(s, second + 1, last - 1),
            end |-> SubSeq(s, last + 1, Len(s))]

\* stateKeyWindowEnd: the key belongs to a window when both bounds are times.
stateKeyIsWindow(s) ==
  /\ Cardinality(Slashes(s)) >= 2
  /\ IsTime(parseWindowKey(s).start) /\ IsTime(parseWindowKey(s).end)
=============================================================================
