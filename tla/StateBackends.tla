--------------------------- MODULE StateBackends ---------------------------
(***************************************************************************)
(* The two state backends behind ListState and ValueState: maps in memory, *)
(* and one Pebble database whose keys are encoded byte strings, with list  *)
(* positions counted in memory.  Their users set the key and call in one   *)
(* goroutine; a goroutine left over from an aborted run may call after     *)
(* Close.  A process may end and its successor open the same directory.    *)
(*                                                                         *)
(* Bytes are small numbers, 0 the separator; a list position, eight bytes  *)
(* in the code, is one number above all others here.                       *)
(***************************************************************************)
EXTENDS Integers, Sequences, FiniteSets, SequencesExt, FiniteSetsExt

CONSTANTS Backend,    \* "memory" or "pebble"
          NulKeys,    \* keys may contain the separator byte
          Values,     \* values, as numbers
          MaxOps,     \* bound on the operations of a behaviour
          Faults      \* subset of {"restart", "fresh"}

None == 0
Keys == IF NulKeys THEN {<<1>>, <<1, 0, 1>>} ELSE {<<1>>, <<2>>}

VARIABLES db,      \* the stored entries: encoded key to value
          seqs,    \* next list position per key, in memory only
          closed,
          ckpt,    \* entries of the last checkpoint, if there is one
          want,    \* what the operations so far add up to
          wantAt,  \* the same, at the last checkpoint
          ops

vars == <<db, seqs, closed, ckpt, want, wantAt, ops>>

----------------------------------------------------------------------------
(* Key encoding. *)

ns == <<9>>
seq8(n) == 100 + n
valueUserKey(k) == <<118, 0>> \o ns \o <<0>> \o k

listEntryKey(k, n) == <<108, 0>> \o ns \o <<0>> \o k \o <<0, seq8(n)>>
listPrefixBytes(k) == SubSeq(listEntryKey(k, 0), 1, Len(listEntryKey(k, 0)) - 1)
listNamespacePrefix == <<108, 0>> \o ns \o <<0>>

Less(s, t) ==
  \/ \E i \in 1 .. Min({Len(s), Len(t)}) :
       s[i] < t[i] /\ \A j \in 1 .. i - 1 : s[j] = t[j]
  \/ IsStrictPrefix(s, t)

\* The iterator between a prefix and its upper bound, in key order.
Scan(d, prefix) == SetToSortSeq({e \in DOMAIN d : IsPrefix(prefix, e)}, Less)

Put(f, k, v) == [x \in DOMAIN f \cup {k} |-> IF x = k THEN v ELSE f[x]]
Without(f, S) == [x \in DOMAIN f \ S |-> f[x]]

----------------------------------------------------------------------------
(* Reading. *)

\* In memory a list is one entry of the map under its key.
MemList(k) == <<"list">> \o k
MemValue(k) == <<"value">> \o k

Empty(d, c) == c /\ Backend = "pebble"

GetAllIn(d, k) ==
  IF Backend = "memory" THEN IF MemList(k) \in DOMAIN d THEN d[MemList(k)] ELSE <<>>
  ELSE LET s == Scan(d, listPrefixBytes(k)) IN [i \in DOMAIN s |-> d[s[i]]]

GetIn(d, k) ==
  LET e == IF Backend = "memory" THEN MemValue(k) ELSE valueUserKey(k)
  IN  IF e \in DOMAIN d THEN d[e] ELSE None

GetAll(k) == IF Empty(db, closed) THEN <<>> ELSE GetAllIn(db, k)
Get(k) == IF Empty(db, closed) THEN None ELSE GetIn(db, k)

KeysOf ==
  IF Backend = "memory" THEN {Tail(e) : e \in {x \in DOMAIN db : x[1] = "list"}}
  ELSE IF closed THEN {}
  ELSE {SubSeq(e, Len(listNamespacePrefix) + 1, Len(e) - 2) :
          e \in Range(Scan(db, listNamespacePrefix))}

----------------------------------------------------------------------------
(* Writing. *)

Init ==
  /\ db = <<>> /\ seqs = [k \in Keys |-> 0] /\ closed = FALSE
  /\ ckpt = {} /\ ops = 0
  /\ want = [lists |-> [k \in Keys |-> <<>>], vals |-> [k \in Keys |-> None]]
  /\ wantAt = want

Op == ops < MaxOps /\ ops' = ops + 1
\* A closed Pebble backend ignores the call; a memory backend has no Close.
Usable == ~closed

\* Mutant of NextSeq: the position is not counted up.
NextSeqStuck(k) == 0
NextSeq(k) == seqs[k]

AppendTo(k, v) ==
  /\ Op
  /\ IF ~Usable THEN UNCHANGED <<db, seqs, want>>
     ELSE /\ IF Backend = "memory"
               THEN db' = Put(db, MemList(k), Append(GetAll(k), v)) /\ UNCHANGED seqs
               ELSE /\ db' = Put(db, listEntryKey(k, NextSeq(k)), v)
                    /\ seqs' = [seqs EXCEPT ![k] = @ + 1]
          /\ want' = [want EXCEPT !.lists[k] = Append(@, v)]
  /\ UNCHANGED <<closed, ckpt, wantAt>>

ClearList(k) ==
  /\ Op
  /\ IF ~Usable THEN UNCHANGED <<db, want>>
     ELSE /\ db' = Without(db, IF Backend = "memory" THEN {MemList(k)}
                               ELSE Range(Scan(db, listPrefixBytes(k))))
          /\ want' = [want EXCEPT !.lists[k] = <<>>]
  /\ UNCHANGED <<seqs, closed, ckpt, wantAt>>

Set(k, v) ==
  /\ Op
  /\ IF ~Usable THEN UNCHANGED <<db, want>>
     ELSE /\ LET e == IF Backend = "memory" THEN MemValue(k) ELSE valueUserKey(k)
             IN  db' = IF v = None THEN Without(db, {e}) ELSE Put(db, e, v)
          /\ want' = [want EXCEPT !.vals[k] = v]
  /\ UNCHANGED <<seqs, closed, ckpt, wantAt>>

----------------------------------------------------------------------------
(* Checkpoints and the life of the backend. *)

\* CheckpointTo flushes and links the files; in memory SnapshotAll and the
\* window operator's Snapshot copy the entries.
CheckpointTo ==
  /\ Op /\ Usable
  /\ ckpt' = {db} /\ wantAt' = want
  /\ UNCHANGED <<db, seqs, closed, want>>

Close ==
  /\ Op /\ Backend = "pebble"
  /\ closed' = TRUE
  /\ want' = [lists |-> [k \in Keys |-> <<>>], vals |-> [k \in Keys |-> None]]
  /\ UNCHANGED <<db, seqs, ckpt, wantAt>>

\* RestoreFrom, and RestoreAll: wipe, bring back the entries of the checkpoint.
\* The positions start afresh.
RestoreFrom ==
  /\ Op /\ "restart" \in Faults
  /\ \E c \in ckpt : db' = c
  /\ seqs' = [k \in Keys |-> 0] /\ closed' = FALSE
  /\ want' = wantAt
  /\ UNCHANGED <<ckpt, wantAt>>

\* A new process with no checkpoint to restore opens its backend: an empty map,
\* or whatever database its predecessor left in the directory.
OpenBackend ==
  /\ Op /\ "fresh" \in Faults /\ ckpt = {}
  /\ db' = IF Backend = "memory" THEN <<>> ELSE db
  /\ seqs' = [k \in Keys |-> 0] /\ closed' = FALSE
  /\ want' = [lists |-> [k \in Keys |-> <<>>], vals |-> [k \in Keys |-> None]]
  /\ UNCHANGED <<ckpt, wantAt>>

Done == ops = MaxOps /\ UNCHANGED vars

Next ==
  \/ \E k \in Keys, v \in Values : AppendTo(k, v) \/ Set(k, v)
  \/ \E k \in Keys : ClearList(k) \/ Set(k, None)
  \/ CheckpointTo \/ Close \/ RestoreFrom \/ OpenBackend \/ Done

Spec == Init /\ [][Next]_vars

----------------------------------------------------------------------------
(* Properties. *)

\* A list holds exactly what was appended to it since it was last cleared, in
\* order, across checkpoints and restores.
ListsMatch == \A k \in Keys : GetAll(k) = want.lists[k]

\* A key holds the value last set, and a restore brings back the checkpoint's.
ValuesMatch == \A k \in Keys : Get(k) = want.vals[k]

\* Keys, recovered from the encoded entries, are exactly the keys with entries.
KeysExact == KeysOf = {k \in Keys : GetAll(k) # <<>>}

\* The backend implements the interface: every call is the abstract one's, and
\* the calls of a goroutine that outlives Close change nothing.
Abstract == INSTANCE KeyedState WITH
  lists <- [k \in Keys |-> GetAll(k)],
  vals <- [k \in Keys |-> Get(k)],
  open <- ~closed,
  saved <- {[lists |-> [k \in Keys |-> GetAllIn(c, k)], vals |-> [k \in Keys |-> GetIn(c, k)]] : c \in ckpt}
=============================================================================
