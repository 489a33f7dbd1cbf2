----------------------------- MODULE KeyedState -----------------------------
(***************************************************************************)
(* What the StateBackend interface promises: for each key a value and an   *)
(* append-only list of its own, until the backend is closed; a checkpoint  *)
(* keeps both, and restoring it brings both back.                          *)
(***************************************************************************)
EXTENDS Integers, Sequences

CONSTANTS Keys, Values, None

VARIABLES lists, vals, open,
          saved   \* the last checkpoint, if there is one

vars == <<lists, vals, open, saved>>

Init ==
  /\ lists = [k \in Keys |-> <<>>] /\ vals = [k \in Keys |-> None]
  /\ open = TRUE /\ saved = {}

AppendTo(k, v) == open /\ lists' = [lists EXCEPT ![k] = Append(@, v)] /\ UNCHANGED <<vals, open, saved>>
ClearList(k) == open /\ lists' = [lists EXCEPT ![k] = <<>>] /\ UNCHANGED <<vals, open, saved>>
Set(k, v) == open /\ vals' = [vals EXCEPT ![k] = v] /\ UNCHANGED <<lists, open, saved>>

Close ==
  /\ open' = FALSE
  /\ lists' = [k \in Keys |-> <<>>] /\ vals' = [k \in Keys |-> None]
  /\ UNCHANGED saved

Checkpoint == open /\ saved' = {[lists |-> lists, vals |-> vals]} /\ UNCHANGED <<lists, vals, open>>

Restore ==
  /\ \E s \in saved : lists' = s.lists /\ vals' = s.vals
  /\ open' = TRUE /\ UNCHANGED saved

\* A process with no checkpoint to restore starts with nothing.
Fresh ==
  /\ saved = {}
  /\ lists' = [k \in Keys |-> <<>>] /\ vals' = [k \in Keys |-> None]
  /\ open' = TRUE /\ UNCHANGED saved

Next ==
  \/ \E k \in Keys, v \in Values : AppendTo(k, v) \/ Set(k, v)
  \/ \E k \in Keys : ClearList(k) \/ Set(k, None)
  \/ Close \/ Checkpoint \/ Restore \/ Fresh

Spec == Init /\ [][Next]_vars
=============================================================================
