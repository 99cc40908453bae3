--------------------------- MODULE TimelockSupply ---------------------------
(***************************************************************************)
(* What the timelock program and its environment leave alone: the tokens   *)
(* in circulation, and the lamports of the wallets together with the rent  *)
(* that their accounts hold.                                               *)
(***************************************************************************)
EXTENDS TimelockProperties, FiniteSetsExt

(* A ledger holds finitely many accounts, so that they have a sum.         *)
ASSUME AccountsAreFinite == IsFiniteSet(Wallets) /\ IsFiniteSet(Streams)

SumOf(f, S) == MapThenSumSet(LAMBDA x : f[x], S)

(* The streams that have a metadata account, closed ones included.         *)
Recorded == {m \in Streams : meta[m] # NoMeta}

(* The rent that the accounts which exist hold, in lamports.               *)
HeldRent == TokenRent * Cardinality(opened) + MetaRent * Cardinality(Recorded)

(* Nothing is minted or burnt: the tokens of all accounts, and the         *)
(* lamports of all wallets plus the rent held by the accounts that exist,  *)
(* always add up to what they started with.                                *)
Conservation ==
  /\ SumOf(balance, TokenAccounts) = SumOf(InitialBalance, Wallets)
  /\ SumOf(lamports, Wallets) + HeldRent
       = SumOf(InitialLamports, Wallets)
           + TokenRent * Cardinality({w \in Wallets : InitialBalance[w] > 0})
=============================================================================
