------------------------------ MODULE FloatSum ------------------------------
(***************************************************************************)
(* DOUBLE sums of a group of rows (packages/confit/src/duckdb/mod.rs:      *)
(* ExactSum, float_bound, and the Float accumulator of materialize_aggs),  *)
(* over a format small enough to enumerate. A double is an integer, its    *)
(* multiple of the least subnormal; it has Precision bits and at most      *)
(* MaxExp more behind them, rounds to the nearest with ties to even, and   *)
(* is infinite past that. The format's bits also spell zero, and NaN,      *)
(* twice: a number stands for one spelling, and Ord for what it orders as. *)
(***************************************************************************)
EXTENDS Integers, Sequences, FiniteSets

CONSTANTS
  Precision, \* the bits of a significand, 53 in a DOUBLE
  MaxExp,    \* the largest exponent
  One        \* 1.0, in units of the least subnormal

ASSUME FormatAssumption ==
  Precision \in Nat \ {0, 1} /\ MaxExp \in Nat /\ One \in Nat \ {0}

MaxFloat == (2 ^ Precision - 1) * 2 ^ MaxExp
Infinite == 1000 * MaxFloat
NegZero  == Infinite + 1
NaN      == Infinite + 2
OtherNaN == Infinite + 3

Ord(x) == CASE x = NegZero -> 0 [] x = OtherNaN -> NaN [] OTHER -> x
Finite(x) == Ord(x) \in -MaxFloat .. MaxFloat
Magnitude(x) == IF x < 0 THEN -x ELSE x

\* The double nearest to a / b, for b > 0.
Rounded(a, b) ==
  LET m == Magnitude(a)
      Fits(e) == m < b * 2 ^ (e + Precision)
      es == { e \in 0 .. MaxExp : Fits(e) }
      e == CHOOSE e \in es : \A f \in es : e <= f
      unit == b * 2 ^ e
      down == m \div unit
      up == \/ 2 * (m % unit) > unit
            \/ 2 * (m % unit) = unit /\ down % 2 = 1
      r == (IF up THEN down + 1 ELSE down) * 2 ^ e
      big == es = {} \/ r > MaxFloat
  IN IF a < 0 THEN -(IF big THEN Infinite ELSE r) ELSE IF big THEN Infinite ELSE r

\* x + y of a running sum x, which stays infinite, and a finite y.
Plus(x, y) == IF Finite(x) THEN Rounded(Ord(x) + Ord(y), 1) ELSE x

---------------------------------------------------------------------------
(* ExactSum: the exact sum as doubles whose bits do not overlap, the least  *)
(* first.                                                                   *)
NoSum == [partials |-> <<>>, overflow |-> FALSE]

\* The larger operand comes first, so that lo is what hi lost.
TwoSum(x, y) ==
  LET big == IF Magnitude(x) < Magnitude(y) THEN y ELSE x
      small == x + y - big
      hi == Plus(big, small)
  IN [hi |-> hi, lo |-> small - (hi - big)]

AddExactly(s, v) ==
  LET Kept(ps, t) == [x |-> t.hi, ps |-> IF t.lo = 0 THEN ps ELSE Append(ps, t.lo)]
      Loop[j \in 0 .. Len(s.partials)] ==
        IF j = 0 THEN [x |-> Magnitude(Ord(v)), ps |-> <<>>]
        ELSE LET p == Loop[j - 1]
             IN IF Finite(p.x) THEN Kept(p.ps, TwoSum(p.x, s.partials[j])) ELSE p
      Of(r) == CASE s.overflow \/ ~ Finite(r.x) -> [partials |-> <<>>, overflow |-> TRUE]
                 [] r.x = 0 -> [s EXCEPT !.partials = r.ps]
                 [] OTHER -> [s EXCEPT !.partials = Append(r.ps, r.x)]
  IN Of(Loop[Len(s.partials)])

\* The partials from the top while the sum stays exact: [hi, lo, n], n left.
TopDown(p) ==
  LET Loop[n \in 1 .. Len(p)] ==
        IF n = Len(p) THEN [hi |-> p[n], lo |-> 0, n |-> n - 1]
        ELSE LET r == Loop[n + 1]
                 t == TwoSum(r.hi, p[n])
             IN IF r.lo # 0 THEN r ELSE [hi |-> t.hi, lo |-> t.lo, n |-> n - 1]
  IN Loop[1]

\* A remainder of the sign of the next partial moves a tie past it.
TieMoved(r, p) ==
  LET y == 2 * r.lo
      x == Plus(r.hi, y)
      same == r.n > 0 /\ r.lo * p[r.n] > 0
  IN IF same /\ y = x - r.hi THEN x ELSE r.hi

\* The exact sum rounded once, infinite past the range.
Total(s) ==
  LET p == s.partials
      Of(r) == TieMoved(r, p)
  IN CASE s.overflow -> Infinite
       [] ~ s.overflow /\ p = <<>> -> 0
       [] OTHER -> Of(TopDown(p))

\* B = 2 (n - 1) eps abs, of n values whose absolute values add up to abs:
\* 2 eps is 2^-(Precision - 2).
FloatBound(abs, n) ==
  LET scale == 2 ^ (Precision - 2)
  IN IF abs >= One THEN Rounded(Rounded(abs, scale) * (n - 1), 1)
     ELSE Rounded(Rounded((n - 1) * abs, 1), scale)
=============================================================================
