------------------------------ MODULE Delivery ------------------------------
(***************************************************************************)
(* What the engine promises downstream in coordinated mode, with no word   *)
(* about checkpoints, transactions or restarts: the records of the source  *)
(* log become visible in order, a batch at a time, each of them once.      *)
(***************************************************************************)
EXTENDS Integers

CONSTANT NumRecords      \* length of the source log

VARIABLE visible         \* how often each record's output was committed

Recs == 0 .. NumRecords - 1

Init == visible = [r \in Recs |-> 0]

\* The next batch lo .. hi - 1 follows directly on everything delivered so far.
Deliver(lo, hi) ==
    /\ \A r \in Recs : visible[r] = IF r < lo THEN 1 ELSE 0
    /\ visible' = [r \in Recs |-> IF r < hi THEN 1 ELSE 0]

Next == \E lo, hi \in 0 .. NumRecords : lo < hi /\ Deliver(lo, hi)

Spec == Init /\ [][Next]_visible
=============================================================================
