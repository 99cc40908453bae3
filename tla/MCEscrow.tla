------------------------------ MODULE MCEscrow ------------------------------
(***************************************************************************)
(* Instances of Timelock for TLC to compare with Escrow.                   *)
(***************************************************************************)
EXTENDS MCTimelock, FixedPoint, TimelockEscrow

(* A stream with a cliff, one topped up to its total, a recurring one.     *)
DealKinds == {Cliff, Partial, Recurrent}
=============================================================================
