--------------------------- MODULE TimelockEscrow ---------------------------
(***************************************************************************)
(* The timelock program implements Escrow: the refinement mapping, and     *)
(* what it assumes of the streams clients create.                          *)
(***************************************************************************)
EXTENDS TimelockProperties, Functions

(* An open or closed stream, as a deal.                                    *)
DealRecord == [payer : Wallets, payee : Wallets, paid : U64, open : BOOLEAN,
               assignable : BOOLEAN]

(* Schedules have a meaning, and no stream takes in more tokens over its   *)
(* life, topped up or sent to its escrow account, than a u64 counts.       *)
ASSUME EscrowAssumption ==
  /\ NoMeta \notin DealRecord
  /\ MaxDeposit + MaxStray <= MaxU64
  /\ \A ix \in Instructions : InRange(ix) /\ ix.deposited_amount <= MaxDeposit

(* A stream as a deal.                                                     *)
AsDeal(m) ==
  LET d == meta[m]
  IN IF d = NoMeta THEN NoMeta
     ELSE [payer |-> d.sender, payee |-> d.recipient,
           paid |-> d.withdrawn_amount, open |-> m \in opened,
           assignable |-> \/ d.ix.transferable_by_recipient
                          \/ d.ix.transferable_by_sender]

(* What is due by the schedule at time t: nothing at first, then the cliff *)
(* amount and the periods that passed, and from the end on whatever is     *)
(* there.  With a period of 0 the program pays nothing before that.        *)
DueOn(ix, t) ==
  CASE NotStarted(ix, t) -> 0
    [] ~NotStarted(ix, t) /\ FullyVested(ix, t) -> MaxU64
    [] ~NotStarted(ix, t) /\ ~FullyVested(ix, t) /\ ix.period = 0 -> 0
    [] OTHER -> ix.cliff_amount + Released(ix, t)

Due(m) == IF meta[m] = NoMeta THEN 0 ELSE DueOn(meta[m].ix, now)

Deal == [m \in Streams |-> AsDeal(m)]
Held == Restrict(balance, Streams)
DueNow == [m \in Streams |-> Due(m)]
Funds == Restrict(balance, Wallets)

E == INSTANCE Escrow WITH
       Parties <- Wallets, Deals <- Streams, Units <- U64, NoDeal <- NoMeta,
       deal <- Deal, held <- Held, due <- DueNow, funds <- Funds

(* Every step of the program and its environment is a step of the escrow   *)
(* or invisible to it.                                                     *)
ImplementsEscrow == E!Spec

(* No stream has paid out, or taken in, more than it has received.         *)
BooksInOrder ==
  \A m \in Streams :
    meta[m] # NoMeta =>
      /\ meta[m].ix.deposited_amount <= MaxDeposit
      /\ stray[m] <= MaxStray
      /\ meta[m].withdrawn_amount <= meta[m].ix.deposited_amount + stray[m]
      /\ InRange(meta[m].ix)
=============================================================================
