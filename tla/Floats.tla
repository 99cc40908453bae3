------------------------------- MODULE Floats -------------------------------
(***************************************************************************)
(* How available() uses f64 (src/state.rs): what a number of periods       *)
(* releases is computed in floats and truncated to a u64.  The operations  *)
(* of the machine are parameters.                                          *)
(***************************************************************************)
EXTENDS Integers

CONSTANTS MaxU64,          \* the largest u64; TLC runs use a narrower word
          AsF64(_),        \* n as f64, the nearest float
          FloatMul(_, _),  \* x * y
          FloatDiv(_, _),  \* x / y
          Trunc(_),        \* the integer part of x
          Imprecision      \* in tokens; see ReleasesEvenly

ASSUME MaxU64Assumption == MaxU64 \in Nat \ {0}

U64 == 0 .. MaxU64

(* x as u64: truncate, saturate.                                           *)
AsU64(x) == IF Trunc(x) <= MaxU64 THEN Trunc(x) ELSE MaxU64

(* What a number of periods releases at so much per period, and what that  *)
(* is when whole is to be released over span.                              *)
ReleasedOver(periods, amount) == AsU64(FloatMul(AsF64(periods), amount))

PerPeriod(whole, span, period) ==
  FloatDiv(AsF64(whole), FloatDiv(AsF64(span), AsF64(period)))

(* What the program needs of all that: the amount grows with the number of *)
(* periods, exceeds the exact one by no more than Imprecision, and falls   *)
(* short of it by no more than that and the token truncation may cost.     *)
ReleasesEvenly ==
  /\ Imprecision \in Nat
  /\ \A rate \in U64, n \in U64 :
       LET released == ReleasedOver(n, AsF64(rate))
       IN /\ released \in U64
          /\ released <= n * rate + Imprecision
          /\ n * rate <= MaxU64 => n * rate <= released + Imprecision
          /\ n + 1 \in U64 => released <= ReleasedOver(n + 1, AsF64(rate))
  /\ \A whole \in U64, span \in U64 \ {0}, period \in U64 \ {0} :
       \A n \in 0 .. span \div period :
         LET amount == PerPeriod(whole, span, period)
             released == ReleasedOver(n, amount)
         IN /\ released \in U64
            /\ released * span <= n * period * whole + Imprecision * span
            /\ n * period * whole <= (released + 1 + Imprecision) * span
            /\ n + 1 <= span \div period => released <= ReleasedOver(n + 1, amount)
=============================================================================
