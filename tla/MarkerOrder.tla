---------------------------- MODULE MarkerOrder -----------------------------
(***************************************************************************)
(* What a parallel stage promises downstream, with no word about workers   *)
(* or channels: its output is its input, in which a marker (barrier or     *)
(* watermark) is a fence no record crosses, and in which records that      *)
(* share a lane (the key of a keyed stage) keep their order.  Between two  *)
(* markers, records of different lanes may be permuted.                    *)
(***************************************************************************)
EXTENDS Integers, Sequences, SequencesExt

VARIABLES
    input,     \* the lane of each item of the stream, Fence for a marker
    out        \* indices into input, in the order they were emitted

Fence == 0

Init == input \in Seq(Nat) /\ out = <<>>

Emitted == Range(out)

\* Item i is in front of item j in the input and must be in front of it in
\* the output.
MustPrecede(i, j) ==
    /\ i < j
    /\ input[i] = Fence \/ input[j] = Fence \/ input[i] = input[j]

Emit(j) ==
    /\ j \notin Emitted
    /\ \A i \in DOMAIN input : MustPrecede(i, j) => i \in Emitted
    /\ out' = Append(out, j)
    /\ UNCHANGED input

Next == \E j \in DOMAIN input : Emit(j)

Spec == Init /\ [][Next]_<<input, out>>
=============================================================================
