------------------------------ MODULE SplToken ------------------------------
(***************************************************************************)
(* The SPL Token program, external to this repository, as the timelock     *)
(* uses it for one mint: which token accounts are initialised, what they   *)
(* hold, and when a transfer or a close succeeds.  An account is named by  *)
(* the address it derives from: a wallet stands for its associated token   *)
(* account, a stream's metadata key for the escrow account of that stream. *)
(***************************************************************************)
EXTENDS Vesting

CONSTANTS Wallets,   \* wallets, and their associated token accounts
          Streams    \* metadata accounts, and their escrow token accounts

ASSUME DisjointAccounts == Wallets \cap Streams = {}

VARIABLES opened,    \* the token accounts that are initialised
          balance    \* the tokens each account holds

TokenAccounts == Wallets \cup Streams

SplTypeOK ==
  /\ opened \subseteq TokenAccounts
  /\ balance \in [TokenAccounts -> U64]

(* The balances after a transfer (its accounts differ).                    *)
Moved(bal, from, to, amount) ==
  [bal EXCEPT ![from] = @ - amount, ![to] = @ + amount]

(* A transfer needs both accounts, the funds, and room for the sum.        *)
CanMove(bal, from, to, amount) ==
  /\ from \in opened /\ to \in opened
  /\ amount <= bal[from]
  /\ bal[to] + amount <= MaxU64

(* An account that still holds tokens cannot be closed.                    *)
CanClose(bal, account) == account \in opened /\ bal[account] = 0
=============================================================================
