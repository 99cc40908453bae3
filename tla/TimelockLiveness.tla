-------------------------- MODULE TimelockLiveness --------------------------
(***************************************************************************)
(* That streams end.  The program never acts on its own: what it owes its  *)
(* users is that somebody who keeps asking is not refused forever.  So     *)
(* fairness is assumed of the clock, and by each property of one caller.   *)
(***************************************************************************)
EXTENDS TimelockProperties

(* Somebody, party to the stream or not, keeps cancelling it once it is    *)
(* fully vested, with the parties the metadata names.                      *)
Sweep(m) ==
  /\ Open(m) /\ FullyVested(meta[m].ix, now)
  /\ \E c \in Wallets : cancel(m, c, meta[m].sender, meta[m].recipient)

(* The recipient keeps withdrawing whatever is available.                  *)
Collect(m) ==
  Open(m) /\ withdraw(m, meta[m].recipient, meta[m].sender, 0)

TickingSpec == Spec /\ WF_vars(Tick)

(* A stream with an end, whose escrow got no tokens outside the program,   *)
(* and wallets that have a token account to be paid to.                    *)
CanPay(m, parties) ==
  /\ meta[m] # NoMeta
  /\ ~Recurring(meta[m].ix)
  /\ stray[m] = 0
  /\ parties \subseteq opened

(* Every stream settles: as long as somebody calls cancel after its end    *)
(* and both parties keep a token account, its escrow closes, whichever     *)
(* withdrawals, top-ups, transfers and failed cancels came before; the     *)
(* parties need not do anything.                                           *)
Settles ==
  \A m \in Streams :
    /\ WF_vars(Sweep(m))
    /\ <>[](meta[m] # NoMeta
              /\ CanPay(m, {meta[m].sender, meta[m].recipient}))
    => <>Closed(m)

(* Every recipient is paid: one that keeps asking withdraw for everything  *)
(* available ends up with the whole deposit; the sender need not even keep *)
(* a token account.  The exception is a stream that a cancel closes before *)
(* its end, by the sender or, out of funds or short of its first period,   *)
(* by anybody: at that moment withdrawals and the cancel's payment come to *)
(* what the schedule has reached, neither more nor less.                   *)
PaysOut ==
  \A m \in Streams :
    /\ WF_vars(Collect(m))
    /\ <>[](meta[m] # NoMeta /\ InRange(meta[m].ix)
              /\ CanPay(m, {meta[m].recipient}))
    => <>(/\ Closed(m)
          /\ \/ meta[m].withdrawn_amount = meta[m].ix.deposited_amount
             \/ /\ ~FullyVested(meta[m].ix, now)
                /\ ~AvailablePanics(meta[m].ix, now)
                /\ meta[m].withdrawn_amount = Entitled(meta[m].ix))
=============================================================================
