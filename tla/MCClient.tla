------------------------------ MODULE MCClient ------------------------------
(***************************************************************************)
(* Instances of Client for TLC.                                            *)
(***************************************************************************)
EXTENDS MCTimelock, FixedPoint, Client

(* What the SDK can create: 3 tokens over 2 seconds.                       *)
Handover == [Plain EXCEPT !.end_time = 4, !.deposited_amount = 3,
                          !.total_amount = 3, !.transferable_by_recipient = TRUE]

HandoverKinds == {Handover}
=============================================================================
