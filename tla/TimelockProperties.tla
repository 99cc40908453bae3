------------------------- MODULE TimelockProperties -------------------------
(***************************************************************************)
(* What makes the timelock program correct: the type invariant, the        *)
(* invariants and the action properties of Timelock, and the inductive     *)
(* invariant from which TimelockProofs derives the main ones.              *)
(***************************************************************************)
EXTENDS Timelock

(* Type invariant: what the variables, and every field the program stores  *)
(* in a metadata account, range over.                                      *)
TypeOK ==
  /\ SplTypeOK
  /\ now \in 1 .. MaxTime
  /\ meta \in [Streams -> TokenStreamData \cup {NoMeta}]
  /\ lamports \in [Wallets -> Nat]
  /\ stray \in [Streams -> U64]

(* Solvency: the books in the metadata and the tokens in the escrow agree. *)
(* Whatever sequence of withdrawals, top-ups and recipient transfers led   *)
(* here, an open escrow holds exactly what was deposited or sent to it and *)
(* not withdrawn (in u64 arithmetic), and a stream's escrow that is not    *)
(* open holds nothing.                                                     *)
EscrowBacked ==
  \A m \in Streams :
    /\ m \in opened => meta[m] # NoMeta
    /\ balance[m] =
         IF m \in opened
           THEN WrapSub(WrapAdd(meta[m].ix.deposited_amount, stray[m]),
                        meta[m].withdrawn_amount)
           ELSE 0

(* Instructions for which the schedule is meaningful: create accepts a     *)
(* cliff amount above the total, and amounts whose sums exceed a u64.      *)
InRange(ix) ==
  /\ ix.cliff_amount <= ix.total_amount
  /\ IF Recurring(ix)
       THEN ix.cliff_amount + ix.release_rate * MaxTime + Imprecision <= MaxU64
       ELSE ix.total_amount + Imprecision <= MaxU64

(* The schedule: nothing before the start and the cliff; from then on no   *)
(* more than the cliff amount and the part of the rest that the straight   *)
(* line from the cliff to the end (or the release rate) has reached, but   *)
(* for the imprecision of floats.                                          *)
WithinSchedule(d) ==
  LET ix == d.ix
      beyondCliff == d.withdrawn_amount - ix.cliff_amount - Imprecision
      elapsed == now - CliffTime(ix)
  IN IF NotStarted(ix, now) THEN d.withdrawn_amount = 0
     ELSE IF Recurring(ix)
       THEN beyondCliff * ix.period <= ix.release_rate * elapsed
     ELSE now < ix.end_time =>
            beyondCliff * (ix.end_time - CliffTime(ix))
              <= (ix.total_amount - ix.cliff_amount) * elapsed

(* The vesting promise: over all its withdrawals, and the payment of a     *)
(* cancel, the recipient side of an open or closed stream never gets ahead *)
(* of the schedule agreed on at creation, whoever topped it up or took it  *)
(* over in between.                                                        *)
NeverAhead ==
  \A m \in Streams :
    meta[m] # NoMeta /\ InRange(meta[m].ix) => WithinSchedule(meta[m])

(* The closing time an open stream stores is what closable() says of its   *)
(* present deposit, also for a stream that create stored its end time for: *)
(* topup_stream tests the one and cancel the other.  (The bound on the     *)
(* deposit keeps closable() from wrapping around.)                         *)
ClosableAtIsCurrent ==
  \A m \in Streams :
    LET d == meta[m]
    IN Open(m) /\ InRange(d.ix)
         /\ CliffTime(d.ix) + d.ix.deposited_amount < MaxU64
       => d.closable_at =
            IF ClosablePanics(d.ix) THEN d.ix.end_time ELSE closable(d.ix)

(* When a third party may close a stream ("Stream is either fully vested   *)
(* or there isn't enough capital to keep it active"): everything is        *)
(* vested, or the part of the deposit that the schedule has not reached    *)
(* is less than one more period releases, but for the imprecision of       *)
(* floats.                                                                 *)
OutOfFunds(d) ==
  LET ix == d.ix
      unreached == ix.deposited_amount - ix.cliff_amount - Released(ix, now)
      span == ix.end_time - CliffTime(ix)
  IN IF Recurring(ix) THEN unreached < ix.release_rate + Imprecision
     ELSE unreached * span
            < (ix.total_amount - ix.cliff_amount) * ix.period
                + Imprecision * span

ExpiredMeansDone ==
  \A m \in Streams :
    LET d == meta[m]
    IN Open(m) /\ InRange(d.ix) /\ Expired(m) /\ d.ix.period > 0
         /\ CliffTime(d.ix) + d.ix.deposited_amount < MaxU64
       => FullyVested(d.ix, now) \/ OutOfFunds(d)

(* Settlement: from its end time on, anybody can close a stream that is    *)
(* not recurring and pay everything out, whatever was withdrawn, topped up *)
(* or transferred before and whoever asks, as long as both parties have a  *)
(* token account with room and nobody put tokens into the escrow behind    *)
(* the program's back: neither the checks of cancel nor those of the token *)
(* program ever strand a deposit.                                          *)
NeverLocked ==
  \A m \in Streams :
    LET d == meta[m]
    IN Open(m) /\ FullyVested(d.ix, now) /\ stray[m] = 0
         /\ {d.sender, d.recipient} \subseteq opened
       => \A c \in Wallets : CancelOk(m, c, d.sender, d.recipient)

(* A stream whose escrow was closed is final: its metadata stays as the    *)
(* history of the stream, and its escrow never opens or holds funds again, *)
(* whatever withdraw, cancel, transfer, top-up or create still arrives.    *)
ClosedForGood ==
  [][\A m \in Streams :
       Closed(m) => /\ meta'[m] = meta[m]
                    /\ m \notin opened'
                    /\ balance'[m] = 0]_vars

(* Tokens that leave an escrow go to the stream's current recipient and    *)
(* its sender and to nobody else, and the recipient's part is what the     *)
(* metadata books as withdrawn (up to wrap-around).                        *)
EscrowPaysParties ==
  [][\A m \in Streams :
       balance'[m] < balance[m] =>
         LET d == meta[m]
             paid == WrapSub(meta'[m].withdrawn_amount, d.withdrawn_amount)
         IN /\ \A a \in TokenAccounts \ {m, d.sender, d.recipient} :
                 balance'[a] = balance[a]
            /\ d.sender # d.recipient =>
                 /\ balance'[d.recipient] = balance[d.recipient] + paid
                 /\ balance'[d.sender] =
                      balance[d.sender] + (balance[m] - balance'[m]) - paid
     ]_vars

(* What the schedule entitles the recipient side to at time now.           *)
Entitled(ix) ==
  CASE NotStarted(ix, now) -> 0
    [] ~NotStarted(ix, now) /\ FullyVested(ix, now) -> ix.deposited_amount
    [] OTHER -> ix.cliff_amount + Released(ix, now)

(* While funds last: as long as the deposit covers what the schedule       *)
(* entitles the recipient to, the recipient can withdraw all of it and the *)
(* sender can cancel, at any time and after any withdrawals, top-ups and   *)
(* transfers.  (Beyond that both calls fail until the end: available() is  *)
(* not limited to what the escrow holds.)                                  *)
PaysWhileFunded ==
  \A m \in Streams :
    LET d == meta[m]
    IN Open(m) /\ InRange(d.ix) /\ ~AvailablePanics(d.ix, now)
         /\ Entitled(d.ix) <= d.ix.deposited_amount
         /\ stray[m] = 0 /\ {d.sender, d.recipient} \subseteq opened
       => /\ WithdrawOk(m, d.recipient, d.sender, 0)
          /\ CancelOk(m, d.sender, d.sender, d.recipient)

(* Settling a stream is fair to the recipient side: when an escrow closes, *)
(* withdrawals over the stream's life and the last payment add up to the   *)
(* whole deposit or to exactly what the schedule has reached, so that the  *)
(* number and the times of earlier withdrawals make no difference.         *)
SettledFairly ==
  [][\A m \in Streams :
       Open(m) /\ m \notin opened' /\ InRange(meta[m].ix) =>
         meta'[m].withdrawn_amount
           \in {meta[m].ix.deposited_amount, Entitled(meta[m].ix)}]_vars

(* The terms of a stream hold for its life: no instruction changes its     *)
(* sender or anything agreed on at creation but the deposit; only the      *)
(* recipient's consent and a flag move it to another recipient, whose      *)
(* token account then exists; and a top-up never lets third parties close  *)
(* it earlier.                                                             *)
TermsKept ==
  [][\A m \in Streams :
       LET d == meta[m]
           e == meta'[m]
       IN d # NoMeta =>
            /\ e # NoMeta
            /\ e.sender = d.sender /\ e.created_at = d.created_at
            /\ e.ix = [d.ix EXCEPT !.deposited_amount = e.ix.deposited_amount]
            /\ e.recipient # d.recipient =>
                 /\ \/ d.ix.transferable_by_recipient
                    \/ d.ix.transferable_by_sender /\ d.sender = d.recipient
                 /\ e.recipient \in opened'
            /\ InRange(d.ix)
                 /\ CliffTime(d.ix) + e.ix.deposited_amount < MaxU64
               => e.closable_at >= d.closable_at
     ]_vars

-----------------------------------------------------------------------------
(* The inductive invariant.                                                *)

(* What the code compares withdrawals with, of which the line that         *)
(* NeverAhead draws is the upper bound: whole periods only.                *)
WithinReleased(d) ==
  LET ix == d.ix
  IN IF NotStarted(ix, now) THEN d.withdrawn_amount = 0
     ELSE \/ FullyVested(ix, now)
          \/ d.withdrawn_amount = 0
          \/ /\ ix.period > 0
             /\ d.withdrawn_amount <= ix.cliff_amount + Released(ix, now)

(* Every stream keeps to that, as far as its terms are in range.           *)
Paced ==
  \A m \in Streams :
    meta[m] # NoMeta /\ InRange(meta[m].ix) => WithinReleased(meta[m])

(* The terms of every stream passed the checks of create.                  *)
TermsSane == \A m \in Streams : meta[m] # NoMeta => SaneTimes(meta[m].ix)

(* Tokens can be sent to an escrow account only once create made it.       *)
StrayNeedsEscrow == \A m \in Streams : meta[m] = NoMeta => stray[m] = 0

(* Inductive: keeping the books rests on the types, and keeping the pace   *)
(* on the types and the sane terms.                                        *)
IInv ==
  /\ TypeOK
  /\ StrayNeedsEscrow
  /\ EscrowBacked
  /\ TermsSane
  /\ Paced
=============================================================================
