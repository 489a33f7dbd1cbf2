---------------------------- MODULE WindowAssign ----------------------------
(***************************************************************************)
(* The assigners and the window keys against what they are to compute,     *)
(* over bounded inputs.                                                    *)
(***************************************************************************)
EXTENDS Assigners, SequencesExt

CONSTANTS Ticks,      \* instants tried, counted from a point before 1970
          EpochAt,    \* the instant that is 1970
          MaxSize,    \* bound on sizes, slides and gaps
          Offsets,    \* window offsets tried
          MaxKeyLen   \* bound on the tokens of a record key

VARIABLE in    \* the input under test

----------------------------------------------------------------------------
(* The inputs. *)

Times == {t - EpochAt : t \in Ticks}
RecordKeys == UNION {[1 .. n -> {"k", "/"}] : n \in 0 .. MaxKeyLen}
PlainKeys == UNION {[1 .. n -> {"k", "/", "t1"}] : n \in 0 .. MaxKeyLen}

Init ==
  \/ \E ts \in Times, size \in 1 .. MaxSize, slide \in 1 .. MaxSize, offset \in Offsets :
       in = [on |-> "assign", ts |-> ts, size |-> size, slide |-> slide, offset |-> offset]
  \/ \E s, t \in Times, g, h \in 1 .. MaxSize :
       in = [on |-> "merge", a |-> Win(s, s + g), b |-> Win(t, t + h)]
  \/ \E k \in RecordKeys : in = [on |-> "key", key |-> k]
  \/ \E k \in PlainKeys : in = [on |-> "plain", key |-> k]

Next == UNCHANGED in
Spec == Init /\ [][Next]_in

----------------------------------------------------------------------------
(* Properties. *)

Holds(w, ts) == w.start <= ts /\ ts < w.end

\* A tumbling window contains the timestamp it was computed for: every record
\* falls into the window it is filed under.  The instants tried say whether that
\* is asked before the epoch or the offset, where it fails, or only after them.
TumblingContains ==
  in.on = "assign" =>
    LET ws == Tumbling(in.ts, in.size, in.offset)
    IN  Len(ws) = 1 /\ Holds(ws[1], in.ts)

\* Sliding assignment yields every aligned window that contains the timestamp,
\* once, and no other, when the slide does not exceed the size.
SlidingExact ==
  in.on = "assign" /\ in.slide <= in.size =>
    LET ws == Sliding(in.ts, in.size, in.slide, in.offset)
        bound == MaxSize * MaxSize
        aligned == {s \in in.ts - bound .. in.ts + bound : (s - in.offset) % in.slide = 0}
    IN  /\ Range(ws) = {Win(s, s + in.size) : s \in {x \in aligned : Holds(Win(x, x + in.size), in.ts)}}
        /\ \A i, j \in DOMAIN ws : ws[i] = ws[j] => i = j

\* The example of the sliding assigner: with windows of 5 sliding by 1, a record
\* at 3 belongs to the five windows that start at 0 to 4.
SlidingExample ==
  in.on = "assign" /\ in.ts = 3 /\ in.size = 5 /\ in.slide = 1 /\ in.offset = 0 =>
    Range(Sliding(in.ts, in.size, in.slide, in.offset)) = {Win(s, s + 5) : s \in 0 .. 4}

\* Merging keeps every instant of both windows and invents none: the result
\* covers exactly the union, and two results are disjoint.
MergeIsUnion ==
  in.on = "merge" =>
    LET m == MergeSessions(in.a, in.b)
        instants == Min(Times) .. Max(Times) + MaxSize
        cover(ws) == {t \in instants : \E i \in DOMAIN ws : Holds(ws[i], t)}
    IN  /\ cover(m) = cover(<<in.a, in.b>>)
        /\ \A t \in instants : Cardinality({i \in DOMAIN m : Holds(m[i], t)}) <= 1

\* Two sessions that touch become one.
AdjacentMerged ==
  in.on = "merge" /\ in.a.end = in.b.start => Len(MergeSessions(in.a, in.b)) = 1

\* A window key reads back as the key and bounds it was built from, although a
\* record key may contain separators.
KeyRoundTrip ==
  in.on = "key" =>
    parseWindowKey(WindowKeyString(in.key, "t1", "t2")) =
      [key |-> in.key, start |-> <<"t1">>, end |-> <<"t2">>]

\* The key of a reduce without windows is never taken for a window's key, so
\* eviction never touches it.
PlainKeyKept == in.on = "plain" => ~stateKeyIsWindow(in.key)
=============================================================================
