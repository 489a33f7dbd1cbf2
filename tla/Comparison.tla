----------------------------- MODULE Comparison ------------------------------
(***************************************************************************)
(* The comparisons of a declarative filter (workflow/operators/compare.go).*)
(* A record's number is a literal; a configured number is an int when the  *)
(* document is YAML and a float64 when it is JSON.  Floats are exact up to *)
(* Exact (2^53 in the code) and hold every second integer above it; a      *)
(* float64 of ExpFrom (10^6) or more is formatted with an exponent, which  *)
(* Int64 does not parse.  Of a number's text one symbol stands for its     *)
(* digits and "e" for its exponent.                                        *)
(***************************************************************************)
EXTENDS Integers, SequencesExt

CONSTANTS MaxNum, Exact, ExpFrom

VARIABLES field, target     \* the record's value; the configured value as written
vars == <<field, target>>

\* A value of any kind; lit says whether a number's literal is an integer's.
Value(k, n, lit, s, elems) == [k |-> k, n |-> n, lit |-> lit, s |-> s, elems |-> elems]
Num(n, lit) == Value("num", n, lit, <<>>, {})
Symbols == {"1", "5", "e"}
Strings == BoundedSeq(Symbols, 2)
Others ==
    {Value("str", 0, "", s, {}) : s \in Strings} \cup {Value("bool", n, "", <<>>, {}) : n \in 0 .. 1}
    \cup {Value("null", 0, "", <<>>, {})}
Lists == {Value("list", 0, "", <<>>, {Num(n, "int")}) : n \in 0 .. MaxNum}

Init ==
    /\ field \in {Num(n, l) : n \in 0 .. MaxNum, l \in {"int", "exp"}} \cup Others \cup Lists
    /\ target \in {Num(n, "int") : n \in 0 .. MaxNum} \cup Others
Next == UNCHANGED vars
Spec == Init /\ [][Next]_vars

\* The nearest float64, ties to the even mantissa.
Float(n) ==
    IF n <= Exact \/ n % 2 = 0 THEN n ELSE IF n % 4 = 1 THEN n - 1 ELSE n + 1

\* The configured value the parser of each document format hands over, as the
\* number asNumber makes of it.
FromYAML(v) == v

FromJSON(v) ==
    IF v.k # "num" THEN v
    ELSE Num(Float(v.n), IF Float(v.n) >= ExpFrom THEN "exp" ELSE "int")

\* Mutant of numbersEqual: always by float value.
numbersEqualFloat(a, b) == Float(a.n) = Float(b.n)

\* Exact when both literals are integers, else by float value.
numbersEqual(a, b) ==
    IF a.lit = "int" /\ b.lit = "int" THEN a.n = b.n ELSE Float(a.n) = Float(b.n)

valuesEqual(a, b) ==
    CASE a.k = "num" /\ b.k = "num" -> numbersEqual(a, b)
      [] a.k = b.k /\ a.k \in {"bool", "str"} -> a.n = b.n /\ a.s = b.s
      [] OTHER -> FALSE

Rank(c) == CHOOSE i \in 1 .. 3 : <<"1", "5", "e">>[i] = c
strLess(s, t) ==
    \/ IsStrictPrefix(s, t)
    \/ \E i \in DOMAIN s \cap DOMAIN t :
         SubSeq(s, 1, i - 1) = SubSeq(t, 1, i - 1) /\ Rank(s[i]) < Rank(t[i])

\* The sign of the comparison; empty for values that have no order.
orderedCmp(a, b) ==
    CASE a.k = "num" /\ b.k = "num" ->
           {IF Float(a.n) < Float(b.n) THEN -1 ELSE IF Float(a.n) > Float(b.n) THEN 1 ELSE 0}
      [] a.k = "str" /\ b.k = "str" -> {IF strLess(a.s, b.s) THEN -1 ELSE IF a.s = b.s THEN 0 ELSE 1}
      [] OTHER -> {}

\* looseString: a configured number or bool as it prints.
looseString(v) ==
    CASE v.k = "str" -> v.s
      [] v.k = "null" -> <<>>
      [] v.k = "bool" -> <<ToString(v.n = 1)>>
      [] v.k = "num" -> IF v.lit = "int" THEN <<ToString(v.n)>> ELSE <<ToString(v.n), "e">>

contains(f, t) ==
    \/ f.k = "str" /\ LET s == looseString(t) IN
         \E i \in 0 .. Len(f.s) - Len(s) : SubSeq(f.s, i + 1, i + Len(s)) = s
    \/ f.k = "list" /\ \E e \in f.elems : valuesEqual(e, t)

\* Compare for a field that is present; it is false for an unknown operator
\* and, but for not_exists, for an absent field.
Compare(op, f, t) ==
    CASE op = "equals" -> valuesEqual(f, t)
      [] op = "not_equals" -> ~valuesEqual(f, t)
      [] op = "greater_than" -> 1 \in orderedCmp(f, t)
      [] op = "greater_than_or_equal" -> orderedCmp(f, t) \cap {0, 1} # {}
      [] op = "less_than" -> -1 \in orderedCmp(f, t)
      [] op = "less_than_or_equal" -> orderedCmp(f, t) \cap {-1, 0} # {}
      [] op = "contains" -> contains(f, t)
      [] OTHER -> op = "exists"

Ops == {"equals", "not_equals", "greater_than", "greater_than_or_equal", "less_than",
        "less_than_or_equal", "contains", "exists", "not_exists"}
Formats == {FromYAML(target), FromJSON(target)}

----------------------------------------------------------------------------
\* The numbers are all below the range that float64 rounds.
ExactHere == \A v \in {field, target} \cup field.elems : v.n <= Exact

\* A filter keeps the same records whether its document is YAML or JSON.
SameFor(op) == Compare(op, field, FromYAML(target)) = Compare(op, field, FromJSON(target))
SameInBothFormats == \A op \in Ops : SameFor(op)

\* It does for numbers that are not rounded, except where a number that prints
\* with an exponent is looked for in a string.
SameButLargeText ==
    \A op \in Ops :
      \/ SameFor(op)
      \/ op = "contains" /\ field.k = "str" /\ target.k = "num" /\ target.n >= ExpFrom

\* Two numbers, or two strings, are equal, ascending or descending, and only
\* one of them: a chain of filters that splits a stream at a value neither
\* loses a record nor takes it twice.
Trichotomy ==
    field.k = target.k /\ field.k \in {"num", "str"} =>
      \A t \in Formats :
        \E one \in {"equals", "less_than", "greater_than"} :
          \A op \in {"equals", "less_than", "greater_than"} : Compare(op, field, t) = (op = one)

\* Numbers compare as the integers they denote, whatever their literals.
ComparesIntegers ==
    field.k = "num" /\ target.k = "num" =>
      \A t \in Formats :
        /\ Compare("less_than", field, t) = (field.n < target.n)
        /\ Compare("greater_than_or_equal", field, t) = (field.n >= target.n)
        /\ Compare("not_equals", field, t) = (field.n # target.n)

\* Rounding makes unequal numbers equal at worst, it never inverts them; and
\* two integer literals are equal exactly when they denote the same integer.
NeverInverted ==
    field.k = "num" /\ target.k = "num" =>
      /\ \A t \in Formats :
           /\ Compare("less_than", field, t) => field.n < target.n
           /\ Compare("greater_than", field, t) => field.n > target.n
           /\ field.n = target.n => Compare("equals", field, t)
      /\ field.lit = "int" => (Compare("equals", field, FromYAML(target)) <=> field.n = target.n)

=============================================================================
