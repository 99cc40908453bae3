----------------------------- MODULE MCTimelock -----------------------------
(***************************************************************************)
(* Instances of Timelock for TLC: the streams clients create, and what     *)
(* the wallets start with.                                                 *)
(***************************************************************************)
EXTENDS TimelockSupply, ScaledFloat, TLC

CONSTANTS alice, bob, carol, m1, m2

(* A fully funded stream over 4 seconds, and its variations.               *)
Plain ==
  [start_time |-> 2, end_time |-> 6, deposited_amount |-> 4,
   total_amount |-> 4, period |-> 1, cliff |-> 0, cliff_amount |-> 0,
   cancelable_by_sender |-> FALSE, cancelable_by_recipient |-> FALSE,
   withdrawal_public |-> FALSE, transferable_by_sender |-> FALSE,
   transferable_by_recipient |-> FALSE, release_rate |-> 0]

(* With a cliff and an uneven period, and transferable.                    *)
Cliff == [Plain EXCEPT !.cliff = 3, !.cliff_amount = 1, !.period = 2,
                       !.end_time = 6, !.transferable_by_recipient = TRUE]

(* Half of the total deposited: closable before its end, to be topped up.  *)
Partial == [Plain EXCEPT !.deposited_amount = 2,
                         !.transferable_by_sender = TRUE]

(* Less than the cliff amount deposited.                                   *)
Meagre == [Plain EXCEPT !.cliff = 4, !.cliff_amount = 3,
                        !.deposited_amount = 1]

(* A recurring payment, 2 tokens every 2 seconds.                          *)
Recurrent == [Plain EXCEPT !.release_rate = 2, !.period = 2,
                           !.deposited_amount = 3, !.end_time = 4]

AllKinds == {Cliff, Partial, Meagre, Recurrent}

(* Two seconds long, for runs with two streams; half of it deposited.      *)
Brief == [Plain EXCEPT !.end_time = 4, !.deposited_amount = 1,
                       !.total_amount = 2, !.transferable_by_recipient = TRUE]

(* create does not compare the amounts: the cliff amount exceeds the total *)
(* and, in a narrow word, a top-up carries the deposit past the largest u64. *)
Odd == [Plain EXCEPT !.cliff = 3, !.cliff_amount = 6, !.period = 2,
                     !.deposited_amount = 6]

(* Long periods: it may be closed before its first period has passed.      *)
Lumpy == [Plain EXCEPT !.end_time = 8, !.deposited_amount = 3,
                       !.total_amount = 6, !.period = 5]

OpenKinds == {Partial, Recurrent, Lumpy}
BriefKinds == {Brief}
NarrowKinds == {Plain, Recurrent, Odd}

(* alice and carol hold tokens, bob has no token account yet.              *)
Tokens == [w \in Wallets |->
             CASE w = alice -> 5 [] w = carol -> 1 [] OTHER -> 0]
Lamports == [w \in Wallets |-> IF w = alice THEN 6 ELSE 1]

(* alice and carol both pay for streams.                                   *)
TwoPayers == [w \in Wallets |-> 2]
TwoPayersLamports == [w \in Wallets |-> 7]

(* The two streams, and the two wallets that start alike, are            *)
(* interchangeable.                                                        *)
Interchangeable == Permutations({m1, m2}) \cup Permutations({alice, bob})

(* Nearly all the tokens a u64 can count.                                  *)
NarrowTokens == [w \in Wallets |-> IF w = alice THEN 6 ELSE 1]
=============================================================================
