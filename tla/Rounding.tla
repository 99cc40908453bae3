------------------------------ MODULE Rounding ------------------------------
(***************************************************************************)
(* What IEEE 754 says of the non-negative floats that available() meets:   *)
(* every operation returns the exact result if that is a small integer,    *)
(* and otherwise errs by a small part of it; a larger operand never gives  *)
(* a smaller product.                                                      *)
(***************************************************************************)
EXTENDS Floats

CONSTANTS Value(_),   \* the value of a float, in One-th parts
          One,        \* fine enough for every float that occurs (2^1074)
          Accuracy    \* an operation errs by at most this part (2^53)

(* The floats that occur: u64s, quotients of two, and amounts per period.  *)
Counts == {AsF64(n) : n \in U64}
Ratios == {FloatDiv(AsF64(n), AsF64(d)) : n \in U64 \ {0}, d \in U64 \ {0}}
Rates == Counts \cup {FloatDiv(x, y) : x \in Counts, y \in Ratios}

(* x exceeds y by no more than k operations may err.                       *)
Within(x, y, k) == x * (Accuracy - k) <= y * Accuracy

Near(x, y) == Within(x, y, 1) /\ Within(y, x, 1)

ASSUME RoundingAssumption ==
  /\ One \in Nat \ {0} /\ Accuracy \in Nat \ {0}
  /\ \A n \in U64 :
       /\ Value(AsF64(n)) \in Nat
       /\ Near(Value(AsF64(n)), n * One)
       /\ n <= Accuracy => Value(AsF64(n)) = n * One
       /\ n + 1 \in U64 => Value(AsF64(n)) <= Value(AsF64(n + 1))
  /\ \A x \in Counts, y \in Counts \cup Ratios :
       Value(y) > 0 =>
         /\ Value(FloatDiv(x, y)) \in Nat
         /\ Near(Value(FloatDiv(x, y)) * Value(y), Value(x) * One)
  /\ \A x \in Counts, y \in Rates :
       LET product == FloatMul(x, y)
       IN /\ Value(product) \in Nat
          /\ Trunc(product) = Value(product) \div One
          /\ Near(Value(product) * One, Value(x) * Value(y))
          /\ \A k \in 0 .. Accuracy :
               Value(x) * Value(y) = k * One * One => Value(product) = k * One
          /\ \A z \in Counts :
               Value(x) <= Value(z) => Value(product) <= Value(FloatMul(z, y))
=============================================================================
