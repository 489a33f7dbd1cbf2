------------------------------- MODULE Fields --------------------------------
(***************************************************************************)
(* The field operators of declarative workflows (workflow/operators and    *)
(* workflow/record): setFields, renameFields and selectFields applied to   *)
(* records one after the other.  Objects are Go maps, so they are shared   *)
(* by reference: a heap maps an object's name to its fields, a value is a  *)
(* leaf or a reference.                                                    *)
(***************************************************************************)
EXTENDS Naturals, FiniteSets, SequencesExt

CONSTANTS
    MaxOps,      \* operators in the pipeline
    Consts,      \* what setFields assigns: "leaf", "obj" or "nan"
    IntoConst,   \* whether a later operator may write below an object so assigned
    Related,     \* whether a rename's two paths may overlap
    Nulls        \* whether a record's value may be the JSON null

VARIABLES
    shape,       \* the records as they were read
    prog,        \* the operators
    heap,        \* object name -> field -> value
    recs         \* record -> its root object, Value, whether Parsed is set, place

vars == <<shape, prog, heap, recs>>

Names == {"a", "b"}
Paths == {<<f>> : f \in Names} \cup {<<f, "b">> : f \in Names}
MaxDepth == 5                             \* deeper than two operators can nest
Recs == 1 .. 2

\* A leaf is a number: the record it came with, or what a configuration sets.
Leaf(x) == [obj |-> FALSE, is |-> <<x>>]
Plain == Leaf(8)
NaN == Leaf(9)                            \* a number JSON cannot hold
Ref(o) == [obj |-> TRUE, is |-> o]
NoFields == [f \in {} |-> Plain]
Const == <<0>>                            \* the object a setFields config holds

(***************************************************************************)
(* Paths on the heap.                                                      *)
(***************************************************************************)
\* The value below v, or none when v is not an object or lacks the field.
below(h, v, s) == IF v.obj /\ s \in DOMAIN h[v.is] THEN {h[v.is][s]} ELSE {}

\* GetField: empty when absent or when the path runs through a non-object.
RECURSIVE getFrom(_, _, _)
getFrom(h, v, path) ==
    IF path = <<>> THEN {v} ELSE UNION {getFrom(h, w, Tail(path)) : w \in below(h, v, Head(path))}
GetField(h, root, path) == getFrom(h, Ref(root), path)

Put(h, o, s, v) == [h EXCEPT ![o] = [f \in DOMAIN @ \cup {s} |-> IF f = s THEN v ELSE @[f]]]

\* Walk to the object a path's last field belongs to, making the missing ones.
\* ok is FALSE when something on the way is not an object.
RECURSIVE makeWay(_, _, _)
makeWay(h, cur, segs) ==
    IF segs = <<>> THEN [h |-> h, cur |-> cur, ok |-> TRUE]
    ELSE LET next == below(h, Ref(cur), Head(segs))
             new == <<cur[1], "new", Cardinality(DOMAIN h)>>
             grown == [o \in DOMAIN h \cup {new} |-> IF o = new THEN NoFields ELSE h[o]] IN
         IF next = {} THEN makeWay(Put(grown, cur, Head(segs), Ref(new)), new, Tail(segs))
         ELSE LET v == CHOOSE v \in next : TRUE IN
              IF v.obj THEN makeWay(h, v.is, Tail(segs)) ELSE [h |-> h, cur |-> cur, ok |-> FALSE]

SetField(h, root, path, v) ==
    LET w == makeWay(h, root, Front(path)) IN
    IF w.ok THEN [h |-> Put(w.h, w.cur, Last(path), v), ok |-> TRUE] ELSE [h |-> w.h, ok |-> FALSE]

\* Removing what is not there, or below a non-object, changes nothing.
DeleteField(h, root, path) ==
    LET parent == {v \in GetField(h, root, Front(path)) : v.obj} IN
    [o \in DOMAIN h |->
       IF Ref(o) \in parent THEN [f \in DOMAIN h[o] \ {Last(path)} |-> h[o][f]] ELSE h[o]]

\* What json.Marshal writes for an object: its leaves and objects by path.
RECURSIVE encodeAt(_, _, _)
encodeAt(h, v, path) ==
    (IF path = <<>> THEN {} ELSE {<<path, IF v.obj THEN <<>> ELSE v.is>>})
    \cup (IF v.obj /\ Len(path) < MaxDepth
          THEN UNION {encodeAt(h, h[v.is][f], Append(path, f)) : f \in DOMAIN h[v.is]} ELSE {})
EncodeJSON(h, root) == encodeAt(h, Ref(root), <<>>)
Encodable(h, root) == \A e \in EncodeJSON(h, root) : e[2] # NaN.is

(***************************************************************************)
(* The operators: the heap after, the resulting root, and whether the      *)
(* operator panicked.  A record whose JSON is null decodes to a nil map.   *)
(***************************************************************************)
constant(value) == CASE value = "obj" -> Ref(Const) [] value = "nan" -> NaN [] value = "leaf" -> Plain

BuildSet(h, root, op) == [h |-> SetField(h, root, op.to, constant(op.value)).h, root |-> root]

BuildRename(h, root, op) ==
    LET v == GetField(h, root, op.from)
        set == SetField(h, root, op.to, CHOOSE x \in v : TRUE) IN
    [h |-> IF v = {} THEN h
           ELSE IF ~set.ok THEN set.h
           ELSE DeleteField(set.h, root, op.from),
     root |-> root]

\* Mutant of project: a nested field is put at the top.
projectFlat(h, root, out, fields) ==
    LET p == Head(fields)
        v == GetField(h, root, p) IN
    IF v = {} THEN h ELSE SetField(h, out, <<Last(p)>>, CHOOSE x \in v : TRUE).h

\* The selected fields in order, put into a new object.
RECURSIVE project(_, _, _, _)
project(h, root, out, fields) ==
    IF fields = <<>> THEN h
    ELSE LET v == GetField(h, root, Head(fields)) IN
         project(IF v = {} THEN h ELSE SetField(h, out, Head(fields), CHOOSE x \in v : TRUE).h,
                 root, out, Tail(fields))
withOut(h, out) == [o \in DOMAIN h \cup {out} |-> IF o \in DOMAIN h THEN h[o] ELSE NoFields]

BuildSelect(h, root, op) ==
    LET out == <<root[1], "out", Cardinality(DOMAIN h)>> IN
    [h |-> project(withOut(h, out), root, out, op.fields), root |-> out]

Transform(h, root, op) ==
    CASE op.type = "set" -> BuildSet(h, root, op)
      [] op.type = "rename" -> BuildRename(h, root, op)
      [] op.type = "select" -> BuildSelect(h, root, op)

\* Writing to a nil map panics.
Panics(r, op) == r.null /\ op.type = "set"

\* applyMap on record r.  When the result cannot be encoded r is returned, but
\* a Parsed object was already changed in place; a Value decoded for this call
\* was not, so only the configuration's object keeps what happened to it.
applyMap(h, r, op) ==
    IF r.null /\ op.type # "select" THEN [h |-> h, r |-> [r EXCEPT !.at = @ + 1, !.crashed = Panics(r, op)]]
    ELSE
    LET t == Transform(h, r.root, op) IN
    IF Encodable(t.h, t.root)
      THEN [h |-> t.h, r |-> [r EXCEPT !.root = t.root, !.parsed = TRUE, !.null = FALSE,
                                       !.value = EncodeJSON(t.h, t.root), !.at = @ + 1]]
      ELSE [h |-> IF r.parsed THEN t.h
                  ELSE [o \in DOMAIN h |-> IF o = Const THEN t.h[o] ELSE h[o]],
            r |-> [r EXCEPT !.at = @ + 1]]

(***************************************************************************)
(* Records and pipelines.                                                  *)
(***************************************************************************)
\* A record's fields are absent, a leaf that names the record, or an object
\* with such a leaf at b; the objects and the configuration's are on the heap.
Shapes == [fields : [Names -> {"none", "leaf", "obj"}], parsed : BOOLEAN, null : {FALSE}]
          \cup (IF Nulls THEN [fields : {[f \in Names |-> "none"]}, parsed : BOOLEAN, null : {TRUE}] ELSE {})

Objects(sh) ==
    {Const} \cup {<<n>> : n \in Recs}
    \cup {<<nf[1], nf[2]>> : nf \in {nf \in Recs \X Names : sh[nf[1]].fields[nf[2]] = "obj"}}

Read(sh) ==
    [o \in Objects(sh) |->
       IF o = Const THEN [f \in {"a"} |-> Plain]
       ELSE IF Len(o) = 2 THEN [f \in {"b"} |-> Leaf(o[1])]
       ELSE [f \in {f \in Names : sh[o[1]].fields[f] # "none"} |->
               IF sh[o[1]].fields[f] = "leaf" THEN Leaf(o[1]) ELSE Ref(<<o[1], f>>)]]

Rec(sh, n) ==
    [root |-> <<n>>, value |-> EncodeJSON(Read(sh), <<n>>), parsed |-> sh[n].parsed, null |-> sh[n].null,
     crashed |-> FALSE, at |-> 1]

Unrelated(p, q) == ~IsPrefix(p, q) /\ ~IsPrefix(q, p)
Ops ==
    [type : {"set"}, to : Paths, value : Consts]
    \cup {o \in [type : {"rename"}, from : Paths, to : Paths] : Related \/ Unrelated(o.from, o.to)}
    \cup [type : {"select"}, fields : {<<p, q>> : p \in Paths, q \in Paths}]

WritesBelow(op, p) ==
    \/ op.type \in {"set", "rename"} /\ IsStrictPrefix(p, op.to)
    \/ op.type = "rename" /\ IsStrictPrefix(p, op.from)

Init ==
    /\ shape \in [Recs -> Shapes]
    /\ shape[2].fields["a"] = "none" /\ shape[2].fields["b"] # "obj"
    /\ shape[1].parsed = shape[2].parsed
    /\ prog \in UNION {[1 .. k -> Ops] : k \in 1 .. MaxOps}
    /\ \A i, j \in DOMAIN prog :
         prog[i].type = "set" /\ prog[j].type = "set" => i = j \/ prog[i].value # "obj"
    /\ IntoConst \/ \A i, j \in DOMAIN prog :
         i < j /\ prog[i].type = "set" /\ prog[i].value = "obj" => ~WritesBelow(prog[j], prog[i].to)
    /\ heap = Read(shape)
    /\ recs = [n \in Recs |-> Rec(shape, n)]

\* A record passes the operators in order and never overtakes the one before it.
Step(n) ==
    LET r == recs[n] IN
    /\ r.at <= Len(prog) /\ \A m \in Recs : ~recs[m].crashed
    /\ \A m \in 1 .. n - 1 : recs[m].at > r.at
    /\ LET res == applyMap(heap, r, prog[r.at]) IN
         heap' = res.h /\ recs' = [recs EXCEPT ![n] = res.r]
    /\ UNCHANGED <<shape, prog>>

Done == (\A n \in Recs : recs[n].at > Len(prog) \/ \E m \in Recs : recs[m].crashed) /\ UNCHANGED vars

Next == (\E n \in Recs : Step(n)) \/ Done
Spec == Init /\ [][Next]_vars

----------------------------------------------------------------------------
(* Properties. *)

At(value, p) == {e[2] : e \in {e \in value : e[1] = p}}
Under(value, p) == {<<SubSeq(e[1], Len(p) + 1, Len(e[1])), e[2]>> : e \in {e \in value : IsPrefix(p, e[1])}}

Blocked(value, p) == \E e \in value : IsStrictPrefix(e[1], p) /\ e[2] # <<>>
Elsewhere(value, paths) == {e \in value : \A p \in paths : Unrelated(e[1], p)}

\* The document the configuration assigns.
Assigned(op) == Under(encodeAt(Read(shape), constant(op.value), op.to), op.to)

\* A record that is an object passes an operator of the type.
Passes(n, type) == recs'[n].at > recs[n].at /\ ~recs[n].null /\ prog[recs[n].at].type = type

\* A rename moves the whole value to the new path and touches nothing else; only
\* when the destination runs through a non-object is the record left as it was.
RenameStep ==
    \A n \in DOMAIN recs :
      LET r == recs[n]  op == prog[r.at]  value == recs'[n].value IN
      Passes(n, "rename") /\ At(r.value, op.from) # {} =>
        IF Blocked(r.value, op.to) THEN value = r.value
        ELSE /\ Under(value, op.to) = Under(r.value, op.from)
             /\ op.from = op.to \/ At(value, op.from) = {}
             /\ Elsewhere(value, {op.from, op.to}) = Elsewhere(r.value, {op.from, op.to})
RenameMoves == [][RenameStep]_vars

\* setFields assigns the configured constant, whole, and touches nothing else;
\* only a path through a non-object leaves the record as it was.
SetStep ==
    \A n \in DOMAIN recs :
      LET r == recs[n]  op == prog[r.at]  value == recs'[n].value IN
      Passes(n, "set") =>
        IF Blocked(r.value, op.to) THEN value = r.value
        ELSE Under(value, op.to) = Assigned(op) /\ Elsewhere(value, {op.to}) = Elsewhere(r.value, {op.to})

\* A selection has exactly the listed fields of its input, with all that is
\* below them, and the objects on the way to them.
SelectStep ==
    \A n \in DOMAIN recs :
      LET r == recs[n]  op == prog[r.at] IN
      Passes(n, "select") =>
        recs'[n].value =
          {e \in r.value : \E i \in DOMAIN op.fields :
             \/ IsPrefix(op.fields[i], e[1])
             \/ IsPrefix(e[1], op.fields[i]) /\ At(r.value, op.fields[i]) # {}}

\* A record's Value, which raw sinks write, and its Parsed object, which the
\* JSON serializer writes, are the same document after every operator.
ValueIsParsed ==
    \A n \in Recs : recs[n].parsed /\ ~recs[n].null => recs[n].value = EncodeJSON(heap, recs[n].root)

\* A record after operators that meet no other record.
RECURSIVE alone(_, _, _)
alone(h, r, ops) ==
    IF ops = <<>> THEN r
    ELSE LET s == applyMap(h, r, Head(ops)) IN alone(s.h, s.r, Tail(ops))

\* What comes out for a record depends on that record and the operators only,
\* not on the records that went before it.
Independent ==
    \A n \in Recs :
      recs[n].value = alone(Read(shape), Rec(shape, n), SubSeq(prog, 1, recs[n].at - 1)).value

\* A record that cannot be encoded is passed through unchanged.
PassedUnchanged ==
    [][\A n \in Recs :
         recs'[n].at > recs[n].at /\ ~Encodable(heap', recs'[n].root) =>
           EncodeJSON(heap', recs'[n].root) = EncodeJSON(heap, recs[n].root)]_vars

\* A value that is not a JSON object is rejected by DecodeJSON, so no operator
\* runs into it.
NoPanic == \A n \in Recs : ~recs[n].crashed

=============================================================================
