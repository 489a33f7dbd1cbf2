-------------------------------- MODULE Int64 --------------------------------
(***************************************************************************)
(* Go's int64, wide enough for a time.Duration in nanoseconds: an integer  *)
(* is the set of the positions of its ones, position 63 being the sign.    *)
(***************************************************************************)
EXTENDS Integers, FiniteSetsExt

Bits(n) == {b \in 0 .. 29 : (n \div 2^b) % 2 = 1}        \* n < 2^30

Shl(x, n) == {b + n : b \in x} \cap (0 .. 63)

\* The most significant difference decides; at the sign it decides backwards.
Less(x, y) ==
    /\ x # y
    /\ LET d == Max((x \ y) \cup (y \ x))
       IN  IF d = 63 THEN d \in x ELSE d \in y

Zero == {}
Positive(x) == Less(Zero, x)

\* k seconds in nanoseconds: 10^9 = 5^9 * 2^9.
Seconds(k) == Shl(Bits(k * 1953125), 9)

==============================================================================
