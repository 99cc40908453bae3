---------------------------- MODULE ScaledFloat ----------------------------
(***************************************************************************)
(* The floating-point arithmetic of the machine (IEEE 754 binary64, which  *)
(* the repository uses and does not define) for non-negative numbers, with *)
(* a significand of Precision bits instead of 53: every operation returns  *)
(* the float nearest to the exact result, the even one of two equally      *)
(* near.  The exponent is unbounded: the program's numbers lie far from    *)
(* the ends of its range.                                                  *)
(***************************************************************************)
EXTENDS Integers

CONSTANT Precision

ASSUME PrecisionAssumption == Precision \in 2 .. 12   \* 2^(2p+3) is a TLC integer

(* The value of a float is m * 2^e; m has Precision bits unless it is 0.   *)
Zero == [m |-> 0, e |-> 0]

BitLength(n) == CHOOSE k \in 0 .. 30 : n < 2^k /\ (k > 0 => 2^(k - 1) <= n)

(* The float nearest to n * 2^e, where n > 0 has size or size - 1 bits.    *)
Rounded(n, e, size) ==
  LET excess == (IF n < 2^(size - 1) THEN size - 1 ELSE size) - Precision
      ulp == 2^excess
      q == n \div ulp
      up == 2 * (n % ulp) > ulp \/ (2 * (n % ulp) = ulp /\ q % 2 = 1)
      m == IF up THEN q + 1 ELSE q
  IN CASE excess <= 0       -> [m |-> n * 2^(-excess), e |-> e + excess]
       [] excess > 0 /\ m < 2^Precision
                            -> [m |-> m, e |-> e + excess]
       [] OTHER             -> [m |-> 2^(Precision - 1), e |-> e + excess + 1]

(* n as f64                                                                *)
Nearest(n) == IF n = 0 THEN Zero ELSE Rounded(n, 0, BitLength(n))

(* x * y                                                                   *)
Product(x, y) ==
  IF x = Zero \/ y = Zero THEN Zero
  ELSE Rounded(x.m * y.m, x.e + y.e, 2 * Precision)

(* x / y, for y # 0: enough bits of the quotient and one that is set when  *)
(* there are more.                                                         *)
Quotient(x, y) ==
  LET shifted == x.m * 2^(Precision + 1)
      sticky == IF shifted % y.m = 0 THEN 0 ELSE 1
  IN IF x = Zero THEN Zero
     ELSE Rounded(2 * (shifted \div y.m) + sticky, x.e - y.e - Precision - 2,
                  Precision + 3)

(* The integer part of x.                                                  *)
Integral(x) == IF x.e >= 0 THEN x.m * 2^x.e ELSE x.m \div 2^(-x.e)
=============================================================================
