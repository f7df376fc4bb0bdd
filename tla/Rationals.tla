----------------------------- MODULE Rationals -----------------------------
(***************************************************************************)
(* Exact fractions, for the amounts the code keeps in Decimal: a record of *)
(* a numerator and a positive denominator in lowest terms, so that equal   *)
(* fractions are equal values.                                             *)
(***************************************************************************)
EXTENDS Integers, Sequences, SequencesExt

Magnitude(i) == IF i < 0 THEN -i ELSE i

\* The greatest common divisor of a pair.
Divisor[p \in Nat \X Nat] == IF p[2] = 0 THEN p[1] ELSE Divisor[<<p[2], p[1] % p[2]>>]

\* The fraction n / d for any d other than 0.
Lowest(n, d, g) == [num |-> n \div g, den |-> d \div g]
Frac(n, d) ==
    Lowest(IF d < 0 THEN -n ELSE n, Magnitude(d), Divisor[<<Magnitude(n), Magnitude(d)>>])

Whole(i) == [num |-> i, den |-> 1]
Zero == Whole(0)
One == Whole(1)

Plus(x, y) ==
    LET g == Divisor[<<x.den, y.den>>]
    IN  Frac(x.num * (y.den \div g) + y.num * (x.den \div g), x.den * (y.den \div g))
Minus(x, y) == Plus(x, [y EXCEPT !.num = -y.num])
Joined(a, b) == Frac(a.num * b.num, a.den * b.den)
Times(x, y) == Joined(Frac(x.num, y.den), Frac(y.num, x.den))
Over(x, y) == Times(x, Frac(y.den, y.num))
Below(x, y) == x.num * y.den < y.num * x.den

SumOf(s) == FoldLeft(Plus, Zero, s)
Power(x, n) == FoldLeft(Times, One, [i \in 1 .. n |-> x])

\* Decimal.quantize with the default context: round to the nearest multiple of
\* 1 / units, a tie to the even one.
Quantize(x, units) ==
    LET n == x.num * units
        low == n \div x.den
        twice == 2 * (n % x.den)
        up == twice > x.den \/ (twice = x.den /\ low % 2 = 1)
    IN  Frac(IF up THEN low + 1 ELSE low, units)
=============================================================================
