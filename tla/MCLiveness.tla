----------------------------- MODULE MCLiveness -----------------------------
(***************************************************************************)
(* Instances of Timelock for TLC to check that streams end.                *)
(***************************************************************************)
EXTENDS MCTimelock, FixedPoint, TimelockLiveness

(* With a period of 0 available() panics until the end.                    *)
Periodless == [Plain EXCEPT !.period = 0]

EndingKinds == {Cliff, Partial, Meagre, Periodless, Lumpy}
=============================================================================
