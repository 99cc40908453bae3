------------------------ MODULE TimelockEscrowProofs ------------------------
(***************************************************************************)
(* Proof that the timelock program implements Escrow: its initial states   *)
(* map to initial ones, and each of its steps to a step or a stutter.      *)
(***************************************************************************)
EXTENDS TimelockEscrow, TimelockProofs

USE MaxU64Assumption

-----------------------------------------------------------------------------
(* What is in the books of a stream with meaningful terms.                 *)

(* Neither the sum of what an open stream took in nor what it still has    *)
(* wraps around.                                                           *)
LEMMA PlainBooks ==
  ASSUME IInv, BooksInOrder, NEW m \in Streams, meta[m] # NoMeta, m \in opened
  PROVE  /\ meta[m].ix.deposited_amount + stray[m] \in U64
         /\ balance[m] = meta[m].ix.deposited_amount + stray[m]
                           - meta[m].withdrawn_amount
         /\ balance[m] \in U64
         /\ meta[m].withdrawn_amount + balance[m] <= MaxU64
<1>1. /\ meta[m].ix.deposited_amount \in U64 /\ stray[m] \in U64
      /\ meta[m].withdrawn_amount \in U64
  BY StreamData DEF IInv, TypeOK
<1>2. meta[m].ix.deposited_amount + stray[m] <= MaxU64
  BY <1>1, EscrowAssumption, TimelockAssumption DEF BooksInOrder, U64
<1>3. balance[m] = WrapSub(WrapAdd(meta[m].ix.deposited_amount, stray[m]),
                           meta[m].withdrawn_amount)
  BY DEF IInv, EscrowBacked
<1>4. meta[m].withdrawn_amount <= meta[m].ix.deposited_amount + stray[m]
  BY DEF BooksInOrder
<1> QED
  BY <1>1, <1>2, <1>3, <1>4 DEF WrapAdd, WrapSub, U64

(* What is due covers what was withdrawn, and the program computes what is *)
(* available as the difference until the end.                              *)
LEMMA DueCovers ==
  ASSUME IInv, BooksInOrder, NEW m \in Streams, meta[m] # NoMeta
  PROVE  /\ Due(m) \in U64
         /\ ~AvailablePanics(meta[m].ix, now) =>
              /\ meta[m].withdrawn_amount <= Due(m)
              /\ \/ /\ FullyVested(meta[m].ix, now) /\ Due(m) = MaxU64
                    /\ Available(m) = WrapSub(meta[m].ix.deposited_amount,
                                              meta[m].withdrawn_amount)
                 \/ Available(m) = Due(m) - meta[m].withdrawn_amount
<1> DEFINE ix == meta[m].ix
           withdrawn == meta[m].withdrawn_amount
<1>1. /\ ix \in StreamInstruction /\ withdrawn \in U64 /\ now \in U64
      /\ SaneTimes(ix) /\ InRange(ix) /\ WithinReleased(meta[m]) /\ now <= MaxTime
  BY StreamData, ClockInU64, TimelockAssumption
  DEF IInv, TypeOK, TermsSane, BooksInOrder, Paced
<1>2. Due(m) = DueOn(ix, now)
  BY DEF Due
<1>3. CASE NotStarted(ix, now)
  <2>1. Due(m) = 0 /\ withdrawn = 0
    BY <1>1, <1>2, <1>3 DEF DueOn, WithinReleased
  <2>2. Available(m) = 0
    BY <1>3 DEF Available, available
  <2> QED
    BY <1>1, <2>1, <2>2 DEF U64
<1>4. CASE ~NotStarted(ix, now) /\ FullyVested(ix, now)
  BY <1>1, <1>2, <1>4 DEF DueOn, Available, available, U64
<1>5. CASE ~NotStarted(ix, now) /\ ~FullyVested(ix, now) /\ ix.period = 0
  BY <1>1, <1>2, <1>5 DEF DueOn, AvailablePanics, U64
<1>6. CASE ~NotStarted(ix, now) /\ ~FullyVested(ix, now) /\ ix.period # 0
  <2>1. ix.period > 0 /\ ix.cliff_amount \in U64
    BY <1>1, <1>6, Fields DEF U64
  <2>2. Released(ix, now) \in Nat /\ Released(ix, now) + ix.cliff_amount <= MaxU64
    BY <1>1, <1>6, <2>1, NoOverflow
  <2>3. Due(m) = ix.cliff_amount + Released(ix, now)
    BY <1>2, <1>6 DEF DueOn
  <2>4. withdrawn <= ix.cliff_amount + Released(ix, now)
    BY <1>1, <1>6, <2>1, <2>2 DEF WithinReleased, U64
  <2>5. Available(m) = WrapSub(WrapAdd(Released(ix, now), ix.cliff_amount), withdrawn)
    BY <1>6 DEF Available, available
  <2> QED
    BY <1>1, <2>1, <2>2, <2>3, <2>4, <2>5 DEF WrapAdd, WrapSub, U64
<1> QED
  BY <1>3, <1>4, <1>5, <1>6

(* Paying no more than is available and is there stays within what is due. *)
LEMMA PaymentIsDue ==
  ASSUME IInv, BooksInOrder, NEW m \in Streams, meta[m] # NoMeta, m \in opened,
         ~AvailablePanics(meta[m].ix, now), NEW paid \in U64,
         paid <= Available(m), paid <= balance[m]
  PROVE  /\ meta[m].withdrawn_amount + paid <= Due(m)
         /\ WrapAdd(meta[m].withdrawn_amount, paid)
              = meta[m].withdrawn_amount + paid
<1>1. /\ meta[m].withdrawn_amount \in U64 /\ Due(m) \in U64
      /\ meta[m].withdrawn_amount <= Due(m)
  BY StreamData, DueCovers DEF IInv
<1>2. meta[m].withdrawn_amount + paid <= Due(m)
  <2>1. CASE Due(m) = MaxU64
    BY <1>1, <2>1, PlainBooks DEF U64
  <2>2. CASE Available(m) = Due(m) - meta[m].withdrawn_amount
    BY <1>1, <2>2 DEF U64
  <2> QED
    BY <2>1, <2>2, DueCovers
<1> QED
  BY <1>1, <1>2 DEF WrapAdd, U64

(* Topping up changes nothing about what is due.                           *)
LEMMA DueIgnoresDeposit ==
  ASSUME NEW ix \in StreamInstruction, NEW amount \in U64
  PROVE  /\ DueOn([ix EXCEPT !.deposited_amount = amount], now)
              = DueOn(ix, now)
         /\ InRange([ix EXCEPT !.deposited_amount = amount]) <=> InRange(ix)
<1> DEFINE jx == [ix EXCEPT !.deposited_amount = amount]
<1>1. /\ jx.start_time = ix.start_time /\ jx.end_time = ix.end_time
      /\ jx.total_amount = ix.total_amount /\ jx.period = ix.period
      /\ jx.cliff = ix.cliff /\ jx.cliff_amount = ix.cliff_amount
      /\ jx.release_rate = ix.release_rate
  BY DEF StreamInstruction
<1> HIDE DEF jx
<1>2. CliffTime(jx) = CliffTime(ix) /\ (Recurring(jx) <=> Recurring(ix))
  BY <1>1 DEF CliffTime, Recurring
<1>3. Released(jx, now) = Released(ix, now)
  BY <1>1, <1>2 DEF Released, PeriodsPassed, PeriodAmount
<1>4. /\ NotStarted(jx, now) <=> NotStarted(ix, now)
      /\ FullyVested(jx, now) <=> FullyVested(ix, now)
  BY <1>1, <1>2 DEF NotStarted, FullyVested
<1>5. DueOn(jx, now) = DueOn(ix, now)
  BY <1>1, <1>3, <1>4 DEF DueOn
<1>6. InRange(jx) <=> InRange(ix)
  BY <1>1, <1>2 DEF InRange
<1> QED
  BY <1>5, <1>6 DEF jx

-----------------------------------------------------------------------------
(* The books stay in order.                                                *)

(* The case of an instruction that writes the data of one stream.          *)
LEMMA OneStreamInOrder ==
  ASSUME IInv, BooksInOrder, NEW m \in Streams, NEW d \in TokenStreamData,
         stray' = stray, meta' = [meta EXCEPT ![m] = d],
         d.ix.deposited_amount <= MaxDeposit, stray[m] <= MaxStray, InRange(d.ix),
         d.withdrawn_amount <= d.ix.deposited_amount + stray[m]
  PROVE  BooksInOrder'
BY Written DEF IInv, BooksInOrder

(* A payment out of an escrow, by withdraw or cancel.                      *)
LEMMA PaidInOrder ==
  ASSUME IInv, BooksInOrder, NEW m \in Streams, meta[m] # NoMeta, m \in opened,
         ~AvailablePanics(meta[m].ix, now), NEW paid \in U64,
         paid <= Available(m), paid <= balance[m],
         NEW d \in TokenStreamData, d.ix = meta[m].ix,
         d.withdrawn_amount = WrapAdd(meta[m].withdrawn_amount, paid),
         stray' = stray, meta' = [meta EXCEPT ![m] = d]
  PROVE  BooksInOrder'
<1>1. d.withdrawn_amount = meta[m].withdrawn_amount + paid
  BY PaymentIsDue
<1>2. meta[m].withdrawn_amount + paid <= meta[m].ix.deposited_amount + stray[m]
  BY PlainBooks, StreamData DEF IInv, TypeOK, U64
<1> QED
  BY <1>1, <1>2, OneStreamInOrder DEF BooksInOrder

LEMMA NextKeepsOrder ==
  ASSUME IInv, BooksInOrder, [Next]_vars
  PROVE  BooksInOrder'
<1>1. ASSUME NEW m \in Streams, NEW s \in Wallets, NEW r \in Wallets,
             NEW ix \in Instructions, create(m, s, r, ix)
      PROVE  BooksInOrder'
  <2>1. /\ meta[m] = NoMeta /\ NewStream(s, r, ix) \in TokenStreamData
        /\ meta' = [meta EXCEPT ![m] = NewStream(s, r, ix)]
    BY <1>1, Creation DEF IInv
  <2>2. stray[m] = 0 /\ stray' = stray
    BY <1>1, <2>1 DEF IInv, StrayNeedsEscrow, create
  <2>3. NewStream(s, r, ix).ix = ix /\ NewStream(s, r, ix).withdrawn_amount = 0
    BY DEF NewStream
  <2>4. /\ InRange(ix) /\ ix.deposited_amount <= MaxDeposit
        /\ ix \in StreamInstruction /\ 0 <= MaxStray
    BY EscrowAssumption, TimelockAssumption
  <2>5. ix.deposited_amount \in Nat
    BY <2>4 DEF StreamInstruction, U64
  <2> DEFINE d == NewStream(s, r, ix)
  <2>6. /\ d.ix.deposited_amount <= MaxDeposit /\ stray[m] <= MaxStray
        /\ InRange(d.ix) /\ d.withdrawn_amount <= d.ix.deposited_amount + stray[m]
    BY <2>2, <2>3, <2>4, <2>5
  <2>7. d \in TokenStreamData /\ meta' = [meta EXCEPT ![m] = d]
    BY <2>1
  <2> HIDE DEF d
  <2> QED
    BY <2>2, <2>6, <2>7, OneStreamInOrder
<1>2. ASSUME NEW m \in Streams, NEW s \in Wallets, NEW r \in Wallets,
             NEW amount \in Amounts, withdraw(m, r, s, amount)
      PROVE  BooksInOrder'
  <2>1. amount \in U64 /\ stray' = stray
    BY <1>2, TimelockAssumption DEF withdraw
  <2> QED
    <3>1. PICK paid \in U64, d \in TokenStreamData : WithdrawStep(m, r, paid, d)
      BY <1>2, <2>1, WithdrawPays
    <3> QED
      BY <2>1, <3>1, PaidInOrder DEF WithdrawStep
<1>3. ASSUME NEW m \in Streams, NEW s \in Wallets, NEW r \in Wallets,
             NEW c \in Wallets, cancel(m, c, s, r)
      PROVE  BooksInOrder'
  <2>1. stray' = stray
    BY <1>3 DEF cancel
  <2>2. PICK d \in TokenStreamData : CancelStep(m, s, r, d)
    BY <1>3, CancelPays
  <2>3. Available(m) <= Available(m) /\ Available(m) \in U64
    BY <2>2 DEF U64, CancelStep
  <2> QED
    BY <2>1, <2>2, <2>3, PaidInOrder DEF CancelStep
<1>4. ASSUME NEW m \in Streams, NEW w \in Wallets, NEW r \in Wallets,
             transfer_recipient(m, w, r)
      PROVE  BooksInOrder'
  <2> DEFINE d == [meta[m] EXCEPT !.recipient = r]
  <2>1. /\ meta[m] # NoMeta /\ stray' = stray
        /\ meta' = [meta EXCEPT ![m] = d]
    BY <1>4 DEF transfer_recipient, Open
  <2>2. /\ d \in TokenStreamData /\ d.ix = meta[m].ix
        /\ d.withdrawn_amount = meta[m].withdrawn_amount
    BY <2>1, StreamData DEF TokenStreamData, IInv
  <2> HIDE DEF d
  <2> QED
    BY <2>1, <2>2, OneStreamInOrder DEF BooksInOrder
<1>5. ASSUME NEW m \in Streams, NEW s \in Wallets, NEW amount \in Amounts,
             topup_stream(m, s, amount)
      PROVE  BooksInOrder'
  <2> DEFINE d == [meta[m] EXCEPT !.ix = ToppedUp(m, amount),
                                  !.closable_at = closable(ToppedUp(m, amount))]
             deposit == meta[m].ix.deposited_amount
  <2>1. amount \in U64 /\ stray' = stray /\ deposit + amount <= MaxDeposit
    BY <1>5, TimelockAssumption DEF topup_stream
  <2>2. /\ meta[m] # NoMeta /\ m \in opened
        /\ ToppedUp(m, amount) \in StreamInstruction
        /\ closable(ToppedUp(m, amount)) \in U64
        /\ meta' = [meta EXCEPT ![m] = d]
    BY <1>5, <2>1, TopUp DEF IInv
  <2>3. /\ meta[m] \in TokenStreamData /\ meta[m].ix \in StreamInstruction
        /\ deposit \in U64 /\ stray[m] \in U64 /\ meta[m].withdrawn_amount \in U64
    BY <2>2, StreamData DEF IInv, TypeOK
  <2>4. WrapAdd(deposit, amount) = deposit + amount
    BY <2>1, <2>3, EscrowAssumption, TimelockAssumption DEF WrapAdd, U64
  <2>5. /\ ToppedUp(m, amount) = [meta[m].ix EXCEPT !.deposited_amount = deposit + amount]
        /\ ToppedUp(m, amount).deposited_amount = deposit + amount
        /\ deposit + amount \in U64
    BY <2>1, <2>3, <2>4, WordArithmetic DEF ToppedUp, StreamInstruction
  <2>6. /\ d \in TokenStreamData /\ d.ix = ToppedUp(m, amount)
        /\ d.withdrawn_amount = meta[m].withdrawn_amount
    BY <2>2, <2>3 DEF TokenStreamData
  <2> HIDE DEF d
  <2>7. /\ InRange(meta[m].ix) /\ stray[m] <= MaxStray
        /\ meta[m].withdrawn_amount <= deposit + stray[m]
    BY <2>2 DEF BooksInOrder
  <2>8. InRange(d.ix)
    BY <2>3, <2>5, <2>6, <2>7, DueIgnoresDeposit
  <2>9. d.withdrawn_amount <= d.ix.deposited_amount + stray[m]
    BY <2>1, <2>3, <2>5, <2>6, <2>7 DEF U64
  <2> QED
    BY <2>1, <2>2, <2>5, <2>6, <2>7, <2>8, <2>9, OneStreamInOrder
<1>6. CASE Tick
  BY <1>6 DEF Tick, BooksInOrder, InRange
<1>7. ASSUME NEW w \in Wallets, NEW m \in Streams, NEW amount \in OutsideAmounts,
             StrayTransfer(w, m, amount)
      PROVE  BooksInOrder'
  <2>1. /\ amount \in U64 /\ meta' = meta /\ stray \in [Streams -> U64]
        /\ stray' = [stray EXCEPT ![m] = WrapAdd(stray[m], amount)]
        /\ stray[m] + amount <= MaxStray
    BY <1>7, TimelockAssumption DEF StrayTransfer, IInv, TypeOK
  <2>2. WrapAdd(stray[m], amount) = stray[m] + amount
    BY <2>1, EscrowAssumption, TimelockAssumption DEF WrapAdd, U64
  <2>3. SUFFICES ASSUME NEW n \in Streams, meta[n] # NoMeta
                 PROVE  /\ meta[n].ix.deposited_amount <= MaxDeposit
                        /\ stray'[n] <= MaxStray
                        /\ meta[n].withdrawn_amount
                             <= meta[n].ix.deposited_amount + stray'[n]
                        /\ InRange(meta[n].ix)
    BY <2>1 DEF BooksInOrder, InRange
  <2>4. stray'[n] <= MaxStray /\ stray[n] <= stray'[n] /\ stray'[n] \in Nat
    <3>1. CASE n = m
      BY <2>1, <2>2, <3>1 DEF U64
    <3>2. CASE n # m
      BY <2>1, <2>3, <3>2 DEF BooksInOrder, U64
    <3> QED
      BY <3>1, <3>2
  <2>5. /\ meta[n].ix.deposited_amount \in U64 /\ stray[n] \in U64
        /\ meta[n].withdrawn_amount \in U64
    BY <2>1, <2>3, StreamData DEF IInv
  <2> QED
    BY <2>3, <2>4, <2>5 DEF BooksInOrder, U64
<1>8. ASSUME meta' = meta, stray' = stray
      PROVE  BooksInOrder'
  BY <1>8 DEF BooksInOrder, InRange
<1>9. CASE Environment
  BY <1>7, <1>8, <1>9 DEF Environment, PlainTransfer, CloseAccount, OpenAccount
<1>10. CASE UNCHANGED vars
  BY <1>8, <1>10 DEF vars
<1> QED
  BY <1>1, <1>2, <1>3, <1>4, <1>5, <1>6, <1>9, <1>10
  DEF Next, process_instruction

(* No stream ever pays out more than it took in: create, topup_stream and  *)
(* tokens sent to the escrow account against withdraw and cancel.          *)
THEOREM InOrder == Spec => []BooksInOrder
<1>1. Init => BooksInOrder
  BY DEF Init, BooksInOrder
<1>2. IInv /\ BooksInOrder /\ [Next]_vars => BooksInOrder'
  BY NextKeepsOrder
<1> QED
  BY <1>1, <1>2, Invariance, PTL DEF Spec

-----------------------------------------------------------------------------
(* What is due only grows.                                                 *)

LEMMA DueInU64 ==
  ASSUME NEW ix \in StreamInstruction, SaneTimes(ix), InRange(ix),
         NEW t \in U64, t <= MaxTime
  PROVE  DueOn(ix, t) \in U64
<1>1. CASE \/ NotStarted(ix, t) \/ FullyVested(ix, t) \/ ix.period = 0
  BY <1>1 DEF DueOn, U64
<1>2. CASE ~NotStarted(ix, t) /\ ~FullyVested(ix, t) /\ ix.period # 0
  <2>1. ix.period > 0 /\ ix.cliff_amount \in Nat
    BY <1>2, Fields DEF U64
  <2>2. Released(ix, t) \in Nat /\ Released(ix, t) + ix.cliff_amount <= MaxU64
    BY <1>2, <2>1, NoOverflow
  <2> QED
    BY <1>2, <2>1, <2>2 DEF DueOn, U64
<1> QED
  BY <1>1, <1>2

LEMMA DueGrows ==
  ASSUME NEW ix \in StreamInstruction, SaneTimes(ix), InRange(ix),
         NEW t \in U64, t + 1 <= MaxTime
  PROVE  DueOn(ix, t) <= DueOn(ix, t + 1)
<1>1. t + 1 \in U64 /\ t <= MaxTime
  BY TimelockAssumption DEF U64
<1>2. DueOn(ix, t) \in U64 /\ DueOn(ix, t + 1) \in U64
  BY <1>1, DueInU64
<1>3. NotStarted(ix, t + 1) => NotStarted(ix, t)
  BY Fields DEF NotStarted, U64
<1>4. CASE NotStarted(ix, t) \/ (~FullyVested(ix, t) /\ ix.period = 0)
  BY <1>2, <1>4 DEF DueOn, U64
<1>5. CASE ~NotStarted(ix, t) /\ FullyVested(ix, t + 1)
  BY <1>2, <1>3, <1>5 DEF DueOn, U64
<1>6. CASE /\ ~NotStarted(ix, t) /\ ~FullyVested(ix, t + 1) /\ ix.period # 0
  <2>1. ~FullyVested(ix, t) /\ ix.period > 0 /\ ~NotStarted(ix, t + 1)
    BY <1>3, <1>6, Fields DEF FullyVested, U64
  <2>2. Released(ix, t) <= Released(ix, t + 1)
    <3>1. CASE Recurring(ix)
      BY <1>1, <1>6, <2>1, <3>1, RecurringReleased
    <3>2. CASE ~Recurring(ix)
      <4>1. t < ix.end_time /\ t + 1 < ix.end_time
        BY <1>1, <1>6, <2>1, <3>2, VestingTimes
      <4> QED
        BY <1>1, <1>6, <2>1, <3>2, <4>1, VestingReleased
    <3> QED
      BY <3>1, <3>2
  <2>3. Released(ix, t) \in Nat /\ Released(ix, t + 1) \in Nat
    BY <1>1, <1>6, <2>1, NoOverflow
  <2>4. /\ DueOn(ix, t) = ix.cliff_amount + Released(ix, t)
        /\ DueOn(ix, t + 1) = ix.cliff_amount + Released(ix, t + 1)
    BY <1>6, <2>1 DEF DueOn
  <2> QED
    BY <2>2, <2>3, <2>4, Fields DEF U64
<1>7. FullyVested(ix, t) => FullyVested(ix, t + 1)
  BY Fields DEF FullyVested, U64
<1> QED
  BY <1>4, <1>5, <1>6, <1>7

-----------------------------------------------------------------------------
(* The state of the escrow after a step of the program.                    *)

(* The deal that d, in the books of a stream, stands for.                  *)
DealOf(d, open) ==
  [payer |-> d.sender, payee |-> d.recipient, paid |-> d.withdrawn_amount,
   open |-> open,
   assignable |-> \/ d.ix.transferable_by_recipient
                  \/ d.ix.transferable_by_sender]

LEMMA DealNow ==
  ASSUME TypeOK, NEW m \in Streams, meta[m] # NoMeta
  PROVE  /\ Deal[m] = DealOf(meta[m], m \in opened)
         /\ Deal[m] # NoMeta
         /\ m \in opened => E!IsOpen(m)
<1>1. Deal[m] = DealOf(meta[m], m \in opened)
  BY DEF Deal, AsDeal, DealOf
<1>2. Deal[m] # NoMeta
  <2>1. meta[m] \in TokenStreamData
    BY StreamData
  <2>2. /\ meta[m].sender \in Wallets /\ meta[m].recipient \in Wallets
        /\ meta[m].withdrawn_amount \in U64
    BY <2>1 DEF TokenStreamData
  <2>3. Deal[m] \in DealRecord
    BY <1>1, <2>2 DEF DealRecord, DealOf
  <2> QED
    BY <2>3, EscrowAssumption
<1>3. m \in opened => Deal[m].open
  <2>1. m \in opened => Deal[m] = DealOf(meta[m], TRUE)
    BY <1>1
  <2>2. DealOf(meta[m], TRUE).open = TRUE
    BY DEF DealOf
  <2> QED
    BY <2>1, <2>2
<1> QED
  BY <1>1, <1>2, <1>3 DEF E!IsOpen

(* Writing the data of one stream, and opening or closing its escrow.      *)
LEMMA DealAfter ==
  ASSUME TypeOK, NEW m \in Streams, NEW d \in TokenStreamData,
         meta' = [meta EXCEPT ![m] = d],
         \A n \in Streams \ {m} : n \in opened' <=> n \in opened
  PROVE  Deal' = [Deal EXCEPT ![m] = DealOf(d, m \in opened')]
<1>1. \A n \in Streams :
        AsDeal(n)' = IF n = m THEN DealOf(d, m \in opened') ELSE AsDeal(n)
  <2>1. SUFFICES ASSUME NEW n \in Streams
                 PROVE  AsDeal(n)' = IF n = m THEN DealOf(d, m \in opened')
                                              ELSE AsDeal(n)
    OBVIOUS
  <2>2. CASE n = m
    BY <2>2, Written DEF AsDeal, DealOf
  <2>3. CASE n # m
    <3>1. meta'[n] = meta[n]
      BY <2>3, Written
    <3>2. (n \in opened') = (n \in opened)
      BY <2>3
    <3> QED
      BY <2>3, <3>1, <3>2, Zenon DEF AsDeal
  <2> QED
    BY <2>2, <2>3
<1> QED
  BY <1>1 DEF Deal

(* As long as the clock stands still, what is due stays.                   *)
LEMMA DueAfter ==
  ASSUME TypeOK, NEW m \in Streams, NEW d \in TokenStreamData,
         meta' = [meta EXCEPT ![m] = d], now' = now,
         DueOn(d.ix, now) = Due(m)
  PROVE  DueNow' = DueNow
<1>1. \A n \in Streams : Due(n)' = Due(n)
  <2>1. SUFFICES ASSUME NEW n \in Streams PROVE Due(n)' = Due(n)
    OBVIOUS
  <2>2. CASE n = m
    BY <2>2, Written DEF Due
  <2>3. CASE n # m
    BY <2>3, Written DEF Due
  <2> QED
    BY <2>2, <2>3
<1> QED
  BY <1>1 DEF DueNow

(* A transfer as the escrow sees it.                                       *)
LEMMA TransferAfter ==
  ASSUME NEW bal \in [TokenAccounts -> U64], NEW amount \in U64,
         NEW m \in Streams, NEW w \in Wallets
  PROVE  /\ Restrict(Moved(bal, m, w, amount), Streams)
              = E!Minus(Restrict(bal, Streams), m, amount)
         /\ Restrict(Moved(bal, m, w, amount), Wallets)
              = E!Plus(Restrict(bal, Wallets), w, amount)
         /\ Restrict(Moved(bal, w, m, amount), Streams)
              = E!Plus(Restrict(bal, Streams), m, amount)
         /\ Restrict(Moved(bal, w, m, amount), Wallets)
              = E!Minus(Restrict(bal, Wallets), w, amount)
<1>1. /\ \A u \in Wallets : u \in TokenAccounts /\ u \notin Streams
      /\ \A n \in Streams : n \in TokenAccounts /\ n \notin Wallets
  BY DisjointAccounts DEF TokenAccounts
<1> QED
  BY <1>1 DEF Moved, Restrict, E!Plus, E!Minus

LEMMA TradeAfter ==
  ASSUME NEW bal \in [TokenAccounts -> U64], NEW amount \in U64,
         NEW w \in Wallets, NEW v \in Wallets, w # v
  PROVE  /\ Restrict(Moved(bal, w, v, amount), Streams) = Restrict(bal, Streams)
         /\ Restrict(Moved(bal, w, v, amount), Wallets)
              = E!Plus(E!Minus(Restrict(bal, Wallets), w, amount), v, amount)
<1>1. /\ \A u \in Wallets : u \in TokenAccounts /\ u \notin Streams
      /\ \A n \in Streams : n \in TokenAccounts /\ n \notin Wallets
  BY DisjointAccounts DEF TokenAccounts
<1> QED
  BY <1>1 DEF Moved, Restrict, E!Plus, E!Minus

-----------------------------------------------------------------------------
(* Every step of the program is a step of the escrow.                      *)

LEMMA CreateIsAgree ==
  ASSUME IInv, NEW m \in Streams, NEW s \in Wallets, NEW r \in Wallets,
         NEW ix \in Instructions, create(m, s, r, ix)
  PROVE  E!Agree(m, s, r)
<1> DEFINE d == NewStream(s, r, ix)
           amount == ix.deposited_amount
           assignable == \/ ix.transferable_by_recipient
                         \/ ix.transferable_by_sender
<1>1. /\ meta[m] = NoMeta /\ d \in TokenStreamData /\ NotStarted(ix, now)
      /\ meta' = [meta EXCEPT ![m] = d] /\ TypeOK
  BY Creation DEF IInv
<1>2. /\ opened' = opened \cup {r, m} /\ balance[s] >= amount
      /\ balance' = Moved(balance, s, m, amount) /\ now' = now
  BY DEF create
<1>3. ix \in StreamInstruction /\ amount \in U64 /\ assignable \in BOOLEAN
  BY TimelockAssumption DEF StreamInstruction
<1>4. d.ix = ix /\ d.withdrawn_amount = 0 /\ d.sender = s /\ d.recipient = r
  BY DEF NewStream
<1>5. Deal[m] = NoMeta
  BY <1>1 DEF Deal, AsDeal
<1>6. m \in opened' /\ \A n \in Streams \ {m} : n \in opened' <=> n \in opened
  BY <1>2, DisjointAccounts
<1>7. DueNow' = DueNow
  <2>1. DueOn(ix, now) = 0 /\ Due(m) = 0
    BY <1>1 DEF DueOn, Due
  <2> HIDE DEF d
  <2> QED
    BY <1>1, <1>2, <1>4, <2>1, DueAfter
<1>8. Deal' = [Deal EXCEPT ![m] = [payer |-> s, payee |-> r, paid |-> 0,
                                   open |-> TRUE, assignable |-> assignable]]
  <2>1. Deal' = [Deal EXCEPT ![m] = DealOf(d, m \in opened')]
    <3> HIDE DEF d
    <3> QED
      BY <1>1, <1>6, DealAfter
  <2>2. (m \in opened') = TRUE
    BY <1>6
  <2>3. DealOf(d, TRUE) = [payer |-> s, payee |-> r, paid |-> 0,
                           open |-> TRUE, assignable |-> assignable]
    BY <1>4 DEF DealOf
  <2> QED
    BY <2>1, <2>2, <2>3
<1>9. /\ Held' = [Held EXCEPT ![m] = amount]
      /\ Funds' = E!Minus(Funds, s, amount)
      /\ amount <= Funds[s]
  <2>1. Held' = E!Plus(Held, m, amount) /\ Funds' = E!Minus(Funds, s, amount)
    BY <1>1, <1>2, <1>3, TransferAfter DEF Held, Funds, TypeOK, SplTypeOK
  <2>2. balance[m] = 0
    BY <1>1 DEF IInv, EscrowBacked
  <2>3. Held[m] = 0 /\ Held[m] + amount = amount
    BY <1>3, <2>2 DEF Held, Restrict, U64
  <2>4. amount <= Funds[s]
    BY <1>1, <1>2, <1>3, Accounts DEF Funds, Restrict, TypeOK, SplTypeOK, U64
  <2> QED
    BY <2>1, <2>3, <2>4 DEF E!Plus
<1> HIDE DEF amount, assignable
<1> QED
  BY <1>3, <1>5, <1>7, <1>8, <1>9 DEF E!Agree

(* After a payment that leaves d in the books, two fields of the deal      *)
(* have changed.                                                           *)
LEMMA PaidDeal ==
  ASSUME TypeOK, NEW m \in Streams, meta[m] # NoMeta, NEW d \in TokenStreamData,
         d.ix = meta[m].ix, d.sender = meta[m].sender,
         d.recipient = meta[m].recipient
  PROVE  \A open :
           [Deal EXCEPT ![m].paid = d.withdrawn_amount, ![m].open = open]
             = [Deal EXCEPT ![m] = DealOf(d, open)]
<1> TAKE open
<1> DEFINE assignable == \/ d.ix.transferable_by_recipient
                         \/ d.ix.transferable_by_sender
           half == [payer |-> d.sender, payee |-> d.recipient,
                    paid |-> d.withdrawn_amount, open |-> m \in opened,
                    assignable |-> assignable]
<1>1. /\ Deal[m] = [payer |-> d.sender, payee |-> d.recipient,
                    paid |-> meta[m].withdrawn_amount, open |-> m \in opened,
                    assignable |-> assignable]
      /\ DealOf(d, open) = [payer |-> d.sender, payee |-> d.recipient,
                            paid |-> d.withdrawn_amount, open |-> open,
                            assignable |-> assignable]
  BY DealNow DEF DealOf
<1> HIDE DEF assignable
<1>2. /\ [Deal[m] EXCEPT !.paid = d.withdrawn_amount] = half
      /\ [half EXCEPT !.open = open] = DealOf(d, open)
  BY <1>1
<1> HIDE DEF half
<1>3. /\ [Deal EXCEPT ![m].paid = d.withdrawn_amount]
           = [Deal EXCEPT ![m] = half]
      /\ [Deal EXCEPT ![m] = half][m] = half
  BY <1>2 DEF Deal
<1> QED
  BY <1>2, <1>3 DEF Deal

LEMMA WithdrawIsPay ==
  ASSUME IInv, BooksInOrder, NEW m \in Streams, NEW r \in Wallets,
         NEW s \in Wallets, NEW amount \in U64, withdraw(m, r, s, amount)
  PROVE  E!Pay(m)
<1>1. PICK paid \in U64, d \in TokenStreamData : WithdrawStep(m, r, paid, d)
  BY WithdrawPays
<1> DEFINE open == m \in opened'
<1>2. /\ meta[m] # NoMeta /\ m \in opened /\ r = meta[m].recipient
      /\ ~AvailablePanics(meta[m].ix, now)
      /\ paid <= Available(m) /\ paid <= balance[m]
      /\ balance' = Moved(balance, m, r, paid)
      /\ d.withdrawn_amount = WrapAdd(meta[m].withdrawn_amount, paid)
      /\ d.ix = meta[m].ix /\ d.sender = meta[m].sender
      /\ d.recipient = meta[m].recipient
      /\ meta' = [meta EXCEPT ![m] = d]
      /\ \/ opened' = opened
         \/ opened' = opened \ {m} /\ balance'[m] = 0
  BY <1>1 DEF WithdrawStep
<1>3. now' = now /\ TypeOK
  BY DEF withdraw, IInv
<1>4. /\ meta[m].withdrawn_amount + paid <= Due(m)
      /\ d.withdrawn_amount = meta[m].withdrawn_amount + paid
  BY <1>2, PaymentIsDue
<1>5. E!IsOpen(m) /\ Deal[m] = DealOf(meta[m], m \in opened)
  BY <1>2, <1>3, DealNow
<1>6. DueNow' = DueNow
  <2>1. DueOn(d.ix, now) = Due(m)
    BY <1>2 DEF Due
  <2> QED
    BY <1>2, <1>3, <2>1, DueAfter
<1>7. Deal' = [Deal EXCEPT ![m].paid = @ + paid, ![m].open = open]
  <2>1. Deal' = [Deal EXCEPT ![m] = DealOf(d, open)]
    BY <1>2, <1>3, DealAfter
  <2>2. Deal[m].paid = meta[m].withdrawn_amount
    BY <1>5 DEF DealOf
  <2>3. [Deal EXCEPT ![m].paid = d.withdrawn_amount, ![m].open = open]
          = [Deal EXCEPT ![m] = DealOf(d, open)]
    <3>1. \A o : [Deal EXCEPT ![m].paid = d.withdrawn_amount, ![m].open = o]
                  = [Deal EXCEPT ![m] = DealOf(d, o)]
      BY <1>2, <1>3, PaidDeal
    <3> QED
      BY <3>1
  <2> QED
    BY <1>4, <2>1, <2>2, <2>3
<1>8. /\ Held' = E!Minus(Held, m, paid) /\ Funds' = E!Plus(Funds, r, paid)
      /\ Deal[m].payee = r /\ Deal[m].paid = meta[m].withdrawn_amount
      /\ Held[m] = balance[m] /\ DueNow[m] = Due(m)
  <2>1. Held' = E!Minus(Held, m, paid) /\ Funds' = E!Plus(Funds, r, paid)
    BY <1>2, <1>3, TransferAfter DEF Held, Funds, TypeOK, SplTypeOK
  <2>2. Deal[m].payee = r /\ Deal[m].paid = meta[m].withdrawn_amount
    BY <1>2, <1>5 DEF DealOf
  <2> QED
    BY <2>1, <2>2 DEF Held, Restrict, DueNow
<1>9. open \/ paid = Held[m]
  <2>1. CASE opened' = opened
    BY <1>2, <2>1
  <2>2. CASE balance'[m] = 0
    <3>1. balance'[m] = balance[m] - paid /\ balance[m] \in U64
      BY <1>2, <1>3, Accounts DEF Moved, TypeOK, SplTypeOK
    <3> QED
      BY <1>8, <2>2, <3>1 DEF U64
  <2> QED
    BY <1>2, <2>1, <2>2
<1>10. open \in BOOLEAN
  OBVIOUS
<1> HIDE DEF open
<1> QED
  BY <1>2, <1>4, <1>5, <1>6, <1>7, <1>8, <1>9, <1>10 DEF E!Pay

(* Once everything available is withdrawn that was not before.             *)
LEMMA NothingRemains ==
  ASSUME NEW deposit \in U64, NEW withdrawn \in U64
  PROVE  WrapSub(deposit, WrapAdd(withdrawn, WrapSub(deposit, withdrawn))) = 0
BY DEF WrapSub, WrapAdd, U64

LEMMA CancelIsSettle ==
  ASSUME IInv, BooksInOrder, NEW m \in Streams, NEW s \in Wallets,
         NEW r \in Wallets, NEW c \in Wallets, cancel(m, c, s, r)
  PROVE  E!Settle(m)
<1>1. PICK d \in TokenStreamData : CancelStep(m, s, r, d)
  BY CancelPays
<1> DEFINE last == Available(m)
           rest == Remains(m)
<1>2. /\ meta[m] # NoMeta /\ m \in opened
      /\ r = meta[m].recipient /\ s = meta[m].sender
      /\ ~AvailablePanics(meta[m].ix, now)
      /\ last \in U64 /\ rest \in U64 /\ last <= balance[m]
      /\ balance[r] + last <= MaxU64
      /\ balance' = Moved(Moved(balance, m, r, last), m, s, rest)
      /\ balance[m] = last + rest
      /\ d.withdrawn_amount = WrapAdd(meta[m].withdrawn_amount, last)
      /\ d.ix = meta[m].ix /\ d.sender = meta[m].sender
      /\ d.recipient = meta[m].recipient
      /\ meta' = [meta EXCEPT ![m] = d]
      /\ opened' = opened \ {m}
  BY <1>1 DEF CancelStep
<1>3. now' = now /\ TypeOK
  BY DEF cancel, IInv
<1>4. /\ meta[m].withdrawn_amount + last <= Due(m)
      /\ d.withdrawn_amount = meta[m].withdrawn_amount + last
      /\ meta[m].withdrawn_amount \in U64 /\ Due(m) \in U64 /\ balance[m] \in U64
  <2>1. last <= last
    BY <1>2 DEF U64
  <2> QED
    BY <1>2, <1>3, <2>1, PaymentIsDue, DueCovers, PlainBooks, StreamData
<1>5. E!IsOpen(m) /\ Deal[m] = DealOf(meta[m], m \in opened)
  BY <1>2, <1>3, DealNow
<1>6. DueNow' = DueNow
  <2>1. DueOn(d.ix, now) = Due(m)
    BY <1>2 DEF Due
  <2> QED
    BY <1>2, <1>3, <2>1, DueAfter
<1>7. Deal' = [Deal EXCEPT ![m].paid = @ + last, ![m].open = FALSE]
  <2>1. Deal' = [Deal EXCEPT ![m] = DealOf(d, m \in opened')]
    BY <1>2, <1>3, DealAfter
  <2>2. (m \in opened') = FALSE
    BY <1>2
  <2>3. Deal[m].paid = meta[m].withdrawn_amount
    BY <1>5 DEF DealOf
  <2>4. [Deal EXCEPT ![m].paid = d.withdrawn_amount, ![m].open = FALSE]
          = [Deal EXCEPT ![m] = DealOf(d, FALSE)]
    <3>1. \A o : [Deal EXCEPT ![m].paid = d.withdrawn_amount, ![m].open = o]
                  = [Deal EXCEPT ![m] = DealOf(d, o)]
      BY <1>2, <1>3, PaidDeal
    <3> QED
      BY <3>1
  <2> QED
    BY <1>4, <2>1, <2>2, <2>3, <2>4
<1>8. /\ Held[m] = balance[m] /\ DueNow[m] = Due(m)
      /\ Deal[m].paid = meta[m].withdrawn_amount
      /\ Deal[m].payee = r /\ Deal[m].payer = s
  BY <1>2, <1>5 DEF Held, Restrict, DueNow, DealOf
(* At the end of the schedule everything goes to the recipient.            *)
<1>9. last = E!Smaller(Held[m], DueNow[m] - Deal[m].paid)
  <2>1. CASE FullyVested(meta[m].ix, now) /\ Due(m) = MaxU64
             /\ last = WrapSub(meta[m].ix.deposited_amount,
                               meta[m].withdrawn_amount)
    <3>1. rest = WrapSub(meta[m].ix.deposited_amount,
                         WrapAdd(meta[m].withdrawn_amount, last))
      BY DEF Remains, WithdrawnAfter
    <3>2. meta[m].ix.deposited_amount \in U64
      BY <1>2, <1>3, StreamData
    <3>3. rest = 0
      BY <1>4, <2>1, <3>1, <3>2, NothingRemains
    <3>4. last = balance[m]
      BY <1>2, <3>3 DEF U64
    <3>5. balance[m] <= MaxU64 - meta[m].withdrawn_amount
      BY <1>2, <1>4, PlainBooks DEF U64
    <3> QED
      BY <1>2, <1>4, <1>8, <2>1, <3>4, <3>5 DEF E!Smaller, U64
  <2>2. CASE last = Due(m) - meta[m].withdrawn_amount
    BY <1>2, <1>4, <1>8, <2>2 DEF E!Smaller, U64
  <2> QED
    BY <1>2, <2>1, <2>2, DueCovers
<1>10. /\ Held' = [Held EXCEPT ![m] = 0]
       /\ Funds' = E!Plus(E!Plus(Funds, r, last), s, Held[m] - last)
  <2> DEFINE paid == Moved(balance, m, r, last)
  <2>1. balance \in [TokenAccounts -> U64]
    BY <1>3 DEF TypeOK, SplTypeOK
  <2>2. paid \in [TokenAccounts -> U64]
    BY <1>2, <2>1, Accounts, Transfer
  <2>3. /\ Restrict(paid, Streams) = E!Minus(Held, m, last)
        /\ Restrict(paid, Wallets) = E!Plus(Funds, r, last)
    BY <1>2, <2>1, TransferAfter DEF Held, Funds
  <2> HIDE DEF paid
  <2>4. /\ Held' = E!Minus(Restrict(paid, Streams), m, rest)
        /\ Funds' = E!Plus(Restrict(paid, Wallets), s, rest)
    BY <1>2, <2>2, TransferAfter DEF Held, Funds, paid
  <2>5. /\ Held' = E!Minus(E!Minus(Held, m, last), m, rest)
        /\ Funds' = E!Plus(E!Plus(Funds, r, last), s, rest)
    BY <2>3, <2>4
  <2>6. Held[m] = last + rest /\ Held[m] - last = rest /\ Held[m] - last - rest = 0
    BY <1>2, <1>8 DEF U64
  <2>7. E!Minus(E!Minus(Held, m, last), m, rest) = [Held EXCEPT ![m] = 0]
    BY <2>6 DEF E!Minus, Held, Restrict
  <2> QED
    BY <2>5, <2>6, <2>7
<1> HIDE DEF last, rest
<1> QED
  BY <1>5, <1>6, <1>7, <1>8, <1>9, <1>10 DEF E!Settle

(* After a transfer that leaves d in the books, one field of the deal has  *)
(* changed.                                                                *)
LEMMA AssignedDeal ==
  ASSUME NEW d, NEW e, NEW open, NEW deal, deal = DealOf(e, open),
         d.ix = e.ix, d.sender = e.sender, d.withdrawn_amount = e.withdrawn_amount
  PROVE  [deal EXCEPT !.payee = d.recipient] = DealOf(d, open)
<1> DEFINE assignable == \/ d.ix.transferable_by_recipient
                         \/ d.ix.transferable_by_sender
<1>1. /\ deal = [payer |-> d.sender, payee |-> e.recipient,
                 paid |-> d.withdrawn_amount, open |-> open,
                 assignable |-> assignable]
      /\ DealOf(d, open) = [payer |-> d.sender, payee |-> d.recipient,
                            paid |-> d.withdrawn_amount, open |-> open,
                            assignable |-> assignable]
  BY DEF DealOf
<1> HIDE DEF assignable
<1> QED
  BY <1>1

LEMMA TransferIsAssign ==
  ASSUME IInv, NEW m \in Streams, NEW w \in Wallets, NEW r \in Wallets,
         transfer_recipient(m, w, r)
  PROVE  E!Assign(m, r)
<1> DEFINE d == [meta[m] EXCEPT !.recipient = r]
<1>1. /\ meta[m] # NoMeta /\ m \in opened /\ TransferAuthorized(m, w)
      /\ meta' = [meta EXCEPT ![m] = d] /\ opened' = opened \cup {r}
      /\ now' = now /\ balance' = balance /\ TypeOK
  BY DEF transfer_recipient, Open, IInv
<1>2. /\ d \in TokenStreamData /\ d.ix = meta[m].ix /\ d.recipient = r
      /\ d.sender = meta[m].sender /\ d.withdrawn_amount = meta[m].withdrawn_amount
  BY <1>1, StreamData DEF TokenStreamData
<1> HIDE DEF d
<1>3. E!IsOpen(m) /\ Deal[m] = DealOf(meta[m], TRUE)
  <2>1. (m \in opened) = TRUE
    BY <1>1
  <2> QED
    BY <1>1, <2>1, DealNow
<1>4. Deal[m].assignable
  BY <1>1, <1>3 DEF DealOf, TransferAuthorized
<1>5. Deal' = [Deal EXCEPT ![m].payee = r]
  <2>1. Deal' = [Deal EXCEPT ![m] = DealOf(d, m \in opened')]
    <3>1. \A n \in Streams \ {m} : n \in opened' <=> n \in opened
      BY <1>1, DisjointAccounts
    <3> QED
      BY <1>1, <1>2, <3>1, DealAfter
  <2>2. (m \in opened') = TRUE
    BY <1>1
  <2>3. [Deal[m] EXCEPT !.payee = r] = DealOf(d, TRUE)
    <3>1. \A f, o : f = DealOf(meta[m], o) =>
                      [f EXCEPT !.payee = r] = DealOf(d, o)
      BY <1>2, AssignedDeal
    <3> QED
      BY <1>3, <3>1
  <2> QED
    BY <2>1, <2>2, <2>3
<1>6. DueNow' = DueNow
  <2>1. DueOn(d.ix, now) = Due(m)
    BY <1>1, <1>2 DEF Due
  <2> QED
    BY <1>1, <1>2, <2>1, DueAfter
<1>7. Held' = Held /\ Funds' = Funds
  BY <1>1 DEF Held, Funds
<1> QED
  BY <1>3, <1>4, <1>5, <1>6, <1>7 DEF E!Assign

LEMMA TopUpIsAdd ==
  ASSUME IInv, NEW m \in Streams, NEW s \in Wallets, NEW amount \in U64,
         topup_stream(m, s, amount)
  PROVE  E!Add(m, s)
<1> DEFINE d == [meta[m] EXCEPT !.ix = ToppedUp(m, amount),
                                !.closable_at = closable(ToppedUp(m, amount))]
           deposit == WrapAdd(meta[m].ix.deposited_amount, amount)
<1>1. /\ m \in opened /\ meta[m] # NoMeta
      /\ ToppedUp(m, amount) \in StreamInstruction
      /\ closable(ToppedUp(m, amount)) \in U64
      /\ meta' = [meta EXCEPT ![m] = d] /\ TypeOK
  BY TopUp DEF IInv
<1>2. /\ now' = now /\ opened' = opened /\ CanMove(balance, s, m, amount)
      /\ balance' = Moved(balance, s, m, amount)
  BY DEF topup_stream
<1>3. /\ meta[m] \in TokenStreamData /\ meta[m].ix \in StreamInstruction
      /\ deposit \in U64
  BY <1>1, StreamData, WordArithmetic
<1>4. /\ d \in TokenStreamData /\ d.recipient = meta[m].recipient
      /\ d.ix = [meta[m].ix EXCEPT !.deposited_amount = deposit]
      /\ d.sender = meta[m].sender /\ d.withdrawn_amount = meta[m].withdrawn_amount
  BY <1>1, <1>3 DEF TokenStreamData, ToppedUp
<1> HIDE DEF d, deposit
<1>5. E!IsOpen(m) /\ Deal[m] = DealOf(meta[m], m \in opened)
  BY <1>1, DealNow
<1>6. Deal' = Deal
  <2>1. Deal' = [Deal EXCEPT ![m] = DealOf(d, m \in opened')]
    BY <1>1, <1>2, <1>4, DealAfter
  <2>2. /\ d.ix.transferable_by_recipient = meta[m].ix.transferable_by_recipient
        /\ d.ix.transferable_by_sender = meta[m].ix.transferable_by_sender
    BY <1>3, <1>4 DEF StreamInstruction
  <2>3. (m \in opened') = (m \in opened)
    BY <1>2
  <2>4. DealOf(d, m \in opened') = DealOf(meta[m], m \in opened)
    BY <1>4, <2>2, <2>3, Zenon DEF DealOf
  <2>5. [Deal EXCEPT ![m] = Deal[m]] = Deal
    BY DEF Deal
  <2> QED
    BY <1>5, <2>1, <2>4, <2>5
<1>7. DueNow' = DueNow
  <2>1. DueOn(d.ix, now) = Due(m)
    BY <1>1, <1>3, <1>4, DueIgnoresDeposit DEF Due
  <2> QED
    BY <1>1, <1>2, <1>4, <2>1, DueAfter
<1>8. Held' = E!Plus(Held, m, amount) /\ Funds' = E!Minus(Funds, s, amount)
  BY <1>1, <1>2, TransferAfter DEF Held, Funds, TypeOK, SplTypeOK
<1>9. amount <= Funds[s]
  BY <1>2 DEF CanMove, Funds, Restrict
<1> QED
  BY <1>5, <1>6, <1>7, <1>8, <1>9 DEF E!Add

LEMMA TickIsVest ==
  ASSUME IInv, BooksInOrder, Tick
  PROVE  E!Vest
<1>1. /\ now < MaxTime /\ now' = now + 1 /\ meta' = meta
      /\ opened' = opened /\ balance' = balance /\ TypeOK
      /\ now \in U64 /\ now + 1 \in U64 /\ now + 1 <= MaxTime
  BY ClockInU64, TimelockAssumption DEF Tick, IInv, TypeOK, U64
<1>2. Deal' = Deal /\ Held' = Held /\ Funds' = Funds
  BY <1>1 DEF Deal, AsDeal, Held, Funds
<1>3. ASSUME NEW m \in Streams
      PROVE  /\ Due(m)' \in U64 /\ Due(m) <= Due(m)'
             /\ Deal[m] = NoMeta => Due(m)' = 0
  <2>1. CASE meta[m] = NoMeta
    BY <1>1, <2>1 DEF Due, U64
  <2>2. CASE meta[m] # NoMeta
    <3> DEFINE ix == meta[m].ix
    <3>1. ix \in StreamInstruction /\ SaneTimes(ix) /\ InRange(ix)
      BY <1>1, <2>2, StreamData DEF IInv, TermsSane, BooksInOrder
    <3>2. Due(m) = DueOn(ix, now) /\ Due(m)' = DueOn(ix, now + 1)
      BY <1>1, <2>2 DEF Due
    <3>3. Deal[m] # NoMeta
      BY <1>1, <2>2, DealNow
    <3> HIDE DEF ix
    <3> QED
      BY <1>1, <3>1, <3>2, <3>3, DueInU64, DueGrows
  <2> QED
    BY <2>1, <2>2
<1>4. DueNow' \in [Streams -> U64]
  BY <1>3 DEF DueNow
<1>5. \A m \in Streams : /\ DueNow[m] <= DueNow'[m]
                         /\ Deal[m] = NoMeta => DueNow'[m] = 0
  BY <1>3 DEF DueNow
<1> QED
  BY <1>2, <1>4, <1>5 DEF E!Vest

(* Transfers of the token program trade, or add to an escrow; opening or   *)
(* closing a wallet's account is invisible.                                *)
LEMMA EnvironmentSteps ==
  ASSUME IInv, Environment
  PROVE  E!Next \/ UNCHANGED E!vars
<1>1. TypeOK /\ balance \in [TokenAccounts -> U64]
  BY DEF IInv, TypeOK, SplTypeOK
<1>2. ASSUME now' = now, meta' = meta,
             \A n \in Streams : (n \in opened') = (n \in opened)
      PROVE  Deal' = Deal /\ DueNow' = DueNow
  BY <1>2, Zenon DEF Deal, AsDeal, DueNow, Due
<1>3. ASSUME NEW w \in Wallets, NEW to \in Wallets, NEW amount \in OutsideAmounts,
             PlainTransfer(w, to, amount)
      PROVE  E!Trade(w, to)
  <2>1. amount \in U64
    BY TimelockAssumption
  <2>2. /\ w # to /\ balance' = Moved(balance, w, to, amount)
        /\ amount <= balance[w] /\ now' = now /\ meta' = meta /\ opened' = opened
    BY <1>3 DEF PlainTransfer, CanMove
  <2>3. Deal' = Deal /\ DueNow' = DueNow
    BY <1>2, <2>2
  <2>4. /\ Held' = Held
        /\ Funds' = E!Plus(E!Minus(Funds, w, amount), to, amount)
    BY <1>1, <2>1, <2>2, TradeAfter DEF Held, Funds
  <2>5. amount <= Funds[w]
    BY <2>2 DEF Funds, Restrict
  <2> QED
    BY <2>1, <2>2, <2>3, <2>4, <2>5 DEF E!Trade
<1>4. ASSUME NEW w \in Wallets, NEW m \in Streams, NEW amount \in OutsideAmounts,
             StrayTransfer(w, m, amount)
      PROVE  E!Add(m, w)
  <2>1. amount \in U64
    BY TimelockAssumption
  <2>2. /\ m \in opened /\ balance' = Moved(balance, w, m, amount)
        /\ amount <= balance[w] /\ now' = now /\ meta' = meta /\ opened' = opened
    BY <1>4 DEF StrayTransfer, CanMove
  <2>3. Deal' = Deal /\ DueNow' = DueNow
    BY <1>2, <2>2
  <2>4. Held' = E!Plus(Held, m, amount) /\ Funds' = E!Minus(Funds, w, amount)
    BY <1>1, <2>1, <2>2, TransferAfter DEF Held, Funds
  <2>5. amount <= Funds[w] /\ E!IsOpen(m)
    BY <1>1, <2>2, DealNow DEF Funds, Restrict, IInv, EscrowBacked
  <2> QED
    BY <2>1, <2>3, <2>4, <2>5 DEF E!Add
<1>5. ASSUME NEW w \in Wallets, CloseAccount(w) \/ OpenAccount(w)
      PROVE  UNCHANGED E!vars
  <2>1. /\ now' = now /\ meta' = meta /\ balance' = balance
        /\ opened' = opened \ {w} \/ opened' = opened \cup {w}
    BY <1>5 DEF CloseAccount, OpenAccount
  <2>2. \A n \in Streams : (n \in opened') = (n \in opened)
    BY <2>1, DisjointAccounts
  <2>3. Held' = Held /\ Funds' = Funds
    BY <2>1 DEF Held, Funds
  <2> QED
    BY <1>2, <2>1, <2>2, <2>3 DEF E!vars
<1>6. PICK w \in Wallets :
        \/ \E to \in Wallets, amount \in OutsideAmounts : PlainTransfer(w, to, amount)
        \/ \E m \in Streams, amount \in OutsideAmounts : StrayTransfer(w, m, amount)
        \/ CloseAccount(w)
        \/ OpenAccount(w)
  BY DEF Environment
<1>7. CASE \E to \in Wallets, amount \in OutsideAmounts : PlainTransfer(w, to, amount)
  BY <1>3, <1>7 DEF E!Next
<1>8. CASE \E m \in Streams, amount \in OutsideAmounts : StrayTransfer(w, m, amount)
  BY <1>4, <1>8 DEF E!Next
<1>9. CASE CloseAccount(w) \/ OpenAccount(w)
  BY <1>5, <1>9
<1> QED
  BY <1>6, <1>7, <1>8, <1>9

LEMMA InstructionSteps ==
  ASSUME IInv, BooksInOrder, process_instruction
  PROVE  E!Next
<1>1. PICK m \in Streams, s \in Wallets, r \in Wallets :
        \/ \E ix \in Instructions : create(m, s, r, ix)
        \/ \E amount \in Amounts : withdraw(m, r, s, amount)
        \/ \E c \in Wallets : cancel(m, c, s, r)
        \/ transfer_recipient(m, s, r)
        \/ \E amount \in Amounts : topup_stream(m, s, amount)
  BY DEF process_instruction
<1>2. Amounts \subseteq U64
  BY TimelockAssumption
<1>3. CASE \E ix \in Instructions : create(m, s, r, ix)
  BY <1>3, CreateIsAgree DEF E!Next
<1>4. CASE \E amount \in Amounts : withdraw(m, r, s, amount)
  BY <1>2, <1>4, WithdrawIsPay DEF E!Next
<1>5. CASE \E c \in Wallets : cancel(m, c, s, r)
  BY <1>5, CancelIsSettle DEF E!Next
<1>6. CASE transfer_recipient(m, s, r)
  BY <1>6, TransferIsAssign DEF E!Next
<1>7. CASE \E amount \in Amounts : topup_stream(m, s, amount)
  BY <1>2, <1>7, TopUpIsAdd DEF E!Next
<1> QED
  BY <1>1, <1>3, <1>4, <1>5, <1>6, <1>7

LEMMA InitIsInit ==
  ASSUME Init
  PROVE  E!Init
<1>1. /\ meta = [m \in Streams |-> NoMeta]
      /\ balance = [a \in TokenAccounts |->
                      IF a \in Wallets THEN InitialBalance[a] ELSE 0]
  BY DEF Init
<1>2. /\ Deal = [m \in Streams |-> NoMeta]
      /\ DueNow = [m \in Streams |-> 0]
  BY <1>1 DEF Deal, AsDeal, DueNow, Due
<1>3. Held = [m \in Streams |-> 0]
  BY <1>1, DisjointAccounts DEF Held, Restrict, TokenAccounts
<1>4. Funds \in [Wallets -> U64]
  BY <1>1, TimelockAssumption DEF Funds, Restrict, TokenAccounts
<1> QED
  BY <1>2, <1>3, <1>4 DEF E!Init

(* The program keeps the promise of Escrow: create, withdraw, cancel,      *)
(* transfer_recipient and topup_stream, the clock and whatever else is     *)
(* done with the token program are steps of an escrow whose payee is paid  *)
(* what is due and no more, or invisible to it.                            *)
THEOREM Refinement == Spec => ImplementsEscrow
<1>1. Init => E!Init
  BY InitIsInit
<1>2. IInv /\ BooksInOrder /\ [Next]_vars => [E!Next]_E!vars
  <2>1. SUFFICES ASSUME IInv, BooksInOrder, [Next]_vars
                 PROVE  E!Next \/ UNCHANGED E!vars
    OBVIOUS
  <2>2. CASE Tick
    BY <2>1, <2>2, TickIsVest DEF E!Next
  <2>3. CASE UNCHANGED vars
    BY <2>3 DEF vars, E!vars, Deal, AsDeal, Held, DueNow, Due, Funds
  <2> QED
    BY <2>1, <2>2, <2>3, InstructionSteps, EnvironmentSteps DEF Next
<1> QED
  BY <1>1, <1>2, Invariance, InOrder, PTL DEF Spec, ImplementsEscrow, E!Spec
=============================================================================
