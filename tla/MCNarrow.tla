------------------------------ MODULE MCNarrow ------------------------------
(***************************************************************************)
(* The instance with a narrow word, on which TLC can evaluate what         *)
(* Rounding says of floats: the floats of ScaledFloat, in 64th parts.      *)
(***************************************************************************)
EXTENDS MCTimelock, Rounding

InParts(x) == x.m * 2^(x.e + 6)
=============================================================================
