----------------------------- MODULE FixedPoint -----------------------------
(***************************************************************************)
(* The float operations of Vesting in 360ths of a token, rounded down: for *)
(* runs whose question is not about rounding, which ScaledFloat models,    *)
(* and that explore more states than it is fast for.  TLC evaluates        *)
(* FloatAssumption for them too.                                           *)
(***************************************************************************)
EXTENDS Integers

Fixed(n) == 360 * n
FixedTimes(x, y) == (x * y) \div 360
FixedOver(x, y) == (360 * x) \div y
WholePart(x) == x \div 360
=============================================================================
