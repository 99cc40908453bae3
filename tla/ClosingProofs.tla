--------------------------- MODULE ClosingProofs ---------------------------
(***************************************************************************)
(* Proofs about closable_at: it is current, it comes only when a stream is *)
(* done, top-ups only postpone it, it is never past the end, and so a      *)
(* finished stream can always be closed.                                   *)
(***************************************************************************)
EXTENDS TimelockProofs

USE MaxU64Assumption

-----------------------------------------------------------------------------
(* The arithmetic of closable().                                           *)

(* The rate at which a deposit above the cliff amount is spread.           *)
LEMMA Rate ==
  ASSUME NEW ix \in StreamInstruction, ~ClosablePanics(ix),
         ~BelowCliffAmount(ix)
  PROVE  /\ AmountPerSecond(ix) \in Nat \ {0}
         /\ ~Recurring(ix) =>
              /\ SecondsNr(ix) \in Nat \ {0}
              /\ WrapSub(ix.total_amount, ix.cliff_amount) \in Nat
              /\ AmountPerSecond(ix) * SecondsNr(ix)
                   <= WrapSub(ix.total_amount, ix.cliff_amount)
<1>1. SecondsNr(ix) \in U64 /\ WrapSub(ix.total_amount, ix.cliff_amount) \in U64
  BY Fields, WordArithmetic DEF SecondsNr
<1>2. ~RatePanics(ix) /\ AmountPerSecond(ix) # 0
  BY DEF ClosablePanics
<1>3. CASE Recurring(ix)
  <2>1. ix.period \in Nat \ {0} /\ ix.release_rate \in Nat
    BY <1>2, <1>3, Fields, WordsAreNat DEF RatePanics
  <2> QED
    BY <1>2, <1>3, <2>1, Division DEF AmountPerSecond
<1>4. CASE ~Recurring(ix)
  <2> DEFINE whole == WrapSub(ix.total_amount, ix.cliff_amount)
             seconds == SecondsNr(ix)
  <2>1. seconds \in Nat \ {0} /\ whole \in Nat
    BY <1>1, <1>2, <1>4, WordsAreNat DEF RatePanics
  <2>2. AmountPerSecond(ix) = whole \div seconds
    BY <1>4 DEF AmountPerSecond
  <2> HIDE DEF whole, seconds
  <2>3. whole \div seconds \in Nat /\ seconds * (whole \div seconds) <= whole
    BY <2>1, Division
  <2>4. (whole \div seconds) * seconds <= whole
    BY <2>1, <2>3
  <2> QED
    BY <1>2, <1>4, <2>1, <2>2, <2>3, <2>4 DEF whole, seconds
<1> QED
  BY <1>3, <1>4

(* Without wrap-around: a second more than the deposit lasts.              *)
LEMMA RunsOutAt ==
  ASSUME NEW ix \in StreamInstruction, ~ClosablePanics(ix),
         ~BelowCliffAmount(ix), CliffTime(ix) + ix.deposited_amount < MaxU64
  PROVE  LET beyond == ix.deposited_amount - ix.cliff_amount
             lasts == beyond \div AmountPerSecond(ix)
         IN /\ beyond \in Nat /\ lasts \in Nat
            /\ FundsRunOut(ix) = CliffTime(ix) + lasts + 1
<1> DEFINE beyond == ix.deposited_amount - ix.cliff_amount
           rate == AmountPerSecond(ix)
<1>1. /\ ix.deposited_amount \in Nat /\ ix.cliff_amount \in Nat
      /\ CliffTime(ix) \in Nat
  BY Fields, WordsAreNat
<1>2. beyond \in Nat /\ beyond <= ix.deposited_amount
  BY <1>1 DEF BelowCliffAmount
<1>3. rate \in Nat \ {0}
  BY Rate
<1>4. FundsRunOut(ix) = WrapAdd(CliffTime(ix), WrapAdd(beyond \div rate, 1))
  BY DEF FundsRunOut
<1> HIDE DEF beyond, rate
<1>5. beyond \div rate \in Nat /\ beyond \div rate <= beyond
  BY <1>2, <1>3, Division
<1>6. /\ WrapAdd(beyond \div rate, 1) = beyond \div rate + 1
      /\ CliffTime(ix) + (beyond \div rate + 1) <= MaxU64
  BY <1>1, <1>2, <1>5 DEF WrapAdd
<1>7. FundsRunOut(ix) = CliffTime(ix) + (beyond \div rate) + 1
  BY <1>1, <1>4, <1>5, <1>6 DEF WrapAdd
<1> QED
  BY <1>2, <1>5, <1>7 DEF beyond, rate

(* A stream that is not recurring may be closed at its end at the latest.  *)
LEMMA ClosableByEnd ==
  ASSUME NEW ix \in StreamInstruction, SaneTimes(ix), ~Recurring(ix),
         ~ClosablePanics(ix)
  PROVE  closable(ix) <= ix.end_time
<1>1. closable(ix) \in Nat /\ ix.end_time \in Nat
  BY ClosableInU64, Fields, WordsAreNat
<1>2. CliffTime(ix) <= ix.end_time
  BY Fields DEF SaneTimes, CliffTime, U64
<1> QED
  BY <1>1, <1>2 DEF closable

(* With the total deposited it is exactly its end, which is why create     *)
(* need not compute it.                                                    *)
LEMMA FullDepositLasts ==
  ASSUME NEW ix \in StreamInstruction, SaneTimes(ix), ~Recurring(ix),
         InRange(ix), ix.deposited_amount >= ix.total_amount,
         ~ClosablePanics(ix), CliffTime(ix) + ix.deposited_amount < MaxU64
  PROVE  closable(ix) = ix.end_time
<1> DEFINE beyond == ix.deposited_amount - ix.cliff_amount
           whole == WrapSub(ix.total_amount, ix.cliff_amount)
           rate == AmountPerSecond(ix)
           seconds == SecondsNr(ix)
<1>1. /\ ix.deposited_amount \in Nat /\ ix.total_amount \in Nat
      /\ ix.cliff_amount \in Nat /\ CliffTime(ix) \in Nat /\ ix.end_time \in Nat
  BY Fields, WordsAreNat
<1>2. ~BelowCliffAmount(ix)
  BY <1>1 DEF BelowCliffAmount, InRange
<1>3. /\ rate \in Nat \ {0} /\ seconds \in Nat \ {0} /\ whole \in Nat
      /\ rate * seconds <= whole
  BY <1>2, Rate
<1>4. /\ beyond \in Nat /\ beyond \div rate \in Nat
      /\ FundsRunOut(ix) = CliffTime(ix) + (beyond \div rate) + 1
  BY <1>2, RunsOutAt
<1>5. whole <= beyond
  BY <1>1 DEF WrapSub, InRange
<1>6. CliffTime(ix) + seconds = ix.end_time
  BY <1>1, Fields DEF SecondsNr, WrapSub, SaneTimes, CliffTime, U64
<1> HIDE DEF beyond, whole, rate, seconds
<1>7. seconds * rate <= beyond
  <2>1. rate * seconds = seconds * rate /\ rate * seconds \in Nat
    BY <1>3
  <2> QED
    BY <1>3, <1>4, <1>5, <2>1
<1>8. seconds <= beyond \div rate
  BY <1>3, <1>4, <1>7, QuotientBound
<1>9. FundsRunOut(ix) > ix.end_time
  BY <1>1, <1>3, <1>4, <1>6, <1>8
<1> QED
  BY <1>2, <1>9 DEF closable

(* A larger deposit never lets a stream be closed earlier.                 *)
LEMMA ClosableGrows ==
  ASSUME NEW ix \in StreamInstruction, SaneTimes(ix),
         NEW jx \in StreamInstruction,
         jx = [ix EXCEPT !.deposited_amount = jx.deposited_amount],
         ix.deposited_amount <= jx.deposited_amount,
         ~ClosablePanics(ix), ~ClosablePanics(jx),
         CliffTime(ix) + jx.deposited_amount < MaxU64
  PROVE  closable(ix) <= closable(jx)
<1>1. /\ ix.deposited_amount \in Nat /\ jx.deposited_amount \in Nat
      /\ ix.cliff_amount \in Nat /\ CliffTime(ix) \in Nat /\ ix.end_time \in Nat
      /\ CliffTime(ix) <= ix.end_time
  BY Fields, WordsAreNat DEF SaneTimes, CliffTime
<1>2. /\ jx.end_time = ix.end_time /\ jx.cliff_amount = ix.cliff_amount
      /\ jx.cliff = ix.cliff /\ jx.start_time = ix.start_time
      /\ jx.total_amount = ix.total_amount /\ jx.period = ix.period
      /\ jx.release_rate = ix.release_rate
  BY DEF StreamInstruction
<1>3. /\ CliffTime(jx) = CliffTime(ix) /\ AmountPerSecond(jx) = AmountPerSecond(ix)
      /\ Recurring(jx) = Recurring(ix)
  BY <1>2 DEF CliffTime, AmountPerSecond, SecondsNr, Recurring
<1>4. BelowCliffAmount(jx) => BelowCliffAmount(ix)
  BY <1>1, <1>2 DEF BelowCliffAmount
<1>5. ~BelowCliffAmount(jx) =>
        /\ FundsRunOut(jx) \in Nat
        /\ FundsRunOut(jx) >= CliffTime(ix)
  <2> SUFFICES ASSUME ~BelowCliffAmount(jx)
               PROVE  /\ FundsRunOut(jx) \in Nat
                      /\ FundsRunOut(jx) >= CliffTime(ix)
    OBVIOUS
  <2> QED
    BY <1>1, <1>3, RunsOutAt
<1>6. ~BelowCliffAmount(ix) => /\ FundsRunOut(ix) \in Nat
                               /\ FundsRunOut(ix) <= FundsRunOut(jx)
  <2> SUFFICES ASSUME ~BelowCliffAmount(ix)
               PROVE  /\ FundsRunOut(ix) \in Nat
                      /\ FundsRunOut(ix) <= FundsRunOut(jx)
    OBVIOUS
  <2> DEFINE rate == AmountPerSecond(ix)
             before == ix.deposited_amount - ix.cliff_amount
             after == jx.deposited_amount - ix.cliff_amount
  <2>1. rate \in Nat \ {0}
    BY Rate
  <2>2. /\ before \in Nat /\ before \div rate \in Nat
        /\ FundsRunOut(ix) = CliffTime(ix) + (before \div rate) + 1
    BY <1>1, RunsOutAt
  <2>3. ~BelowCliffAmount(jx)
    BY <1>4
  <2>4. /\ after \in Nat /\ after \div rate \in Nat
        /\ FundsRunOut(jx) = CliffTime(ix) + (after \div rate) + 1
    <3>1. CliffTime(jx) + jx.deposited_amount < MaxU64
      BY <1>3
    <3> QED
      BY <1>2, <1>3, <2>3, <3>1, RunsOutAt
  <2>5. before <= after
    BY <1>1
  <2> HIDE DEF rate, before, after
  <2>6. (before \div rate) * rate <= after
    <3>1. rate * (before \div rate) <= before
      BY <2>1, <2>2, Division
    <3> QED
      BY <2>1, <2>2, <2>4, <2>5, <3>1
  <2>7. before \div rate <= after \div rate
    BY <2>1, <2>2, <2>4, <2>6, QuotientBound
  <2> QED
    BY <1>1, <2>2, <2>4, <2>7
<1> QED
  BY <1>1, <1>2, <1>3, <1>4, <1>5, <1>6 DEF closable
-----------------------------------------------------------------------------
(* What a step does to the terms of a stream.                              *)

(* Its terms stay; it may get another recipient.                           *)
Carried(m) ==
  LET d == meta[m]
      e == meta'[m]
  IN /\ e # NoMeta
     /\ e.ix = d.ix /\ e.closable_at = d.closable_at
     /\ e.sender = d.sender /\ e.created_at = d.created_at
     /\ e.recipient # d.recipient =>
          /\ \/ d.ix.transferable_by_recipient
             \/ d.ix.transferable_by_sender /\ d.sender = d.recipient
          /\ e.recipient \in opened'
     /\ m \in opened' => m \in opened

(* Its deposit grows.                                                      *)
Extended(m, amount) ==
  LET d == meta[m]
      e == meta'[m]
  IN /\ e # NoMeta /\ m \in opened
     /\ e.ix = ToppedUp(m, amount) /\ e.ix \in StreamInstruction
     /\ e.closable_at = closable(e.ix)
     /\ ~ClosablePanics(d.ix) /\ ~ClosablePanics(e.ix)
     /\ d.ix.deposited_amount + amount <= MaxDeposit
     /\ e.sender = d.sender /\ e.created_at = d.created_at
     /\ e.recipient = d.recipient

LEMMA InstructionOnStream ==
  ASSUME IInv, process_instruction, NEW m \in Streams, meta[m] # NoMeta
  PROVE  Carried(m) \/ \E amount \in U64 : Extended(m, amount)
<1>1. PICK n \in Streams, s \in Wallets, r \in Wallets :
        \/ \E ix \in Instructions : create(n, s, r, ix)
        \/ \E amount \in Amounts : withdraw(n, r, s, amount)
        \/ \E c \in Wallets : cancel(n, c, s, r)
        \/ transfer_recipient(n, s, r)
        \/ \E amount \in Amounts : topup_stream(n, s, amount)
  BY DEF process_instruction
<1>2. /\ TypeOK /\ EscrowBacked /\ TermsSane
      /\ meta \in [Streams -> TokenStreamData \cup {NoMeta}]
      /\ meta[m] \in TokenStreamData
      /\ m # r
  BY Accounts, StreamData DEF IInv, TypeOK
<1>3. ASSUME NEW ix \in Instructions, create(n, s, r, ix)
      PROVE  Carried(m)
  <2>1. n # m
    BY <1>3 DEF create, Fresh
  <2>2. meta'[m] = meta[m] /\ (m \in opened' => m \in opened)
    BY <1>2, <1>3, <2>1 DEF create
  <2> QED
    BY <2>2 DEF Carried
<1>4. ASSUME NEW amount \in Amounts, withdraw(n, r, s, amount)
      PROVE  Carried(m)
  <2>1. /\ meta' = [meta EXCEPT
              ![n].withdrawn_amount =
                WithdrawnAfter(n, Requested(amount, Available(n))),
              ![n].last_withdrawn_at = now]
        /\ m \in opened' => m \in opened
    BY <1>4 DEF withdraw
  <2>2. /\ meta'[m].ix = meta[m].ix
        /\ meta'[m].closable_at = meta[m].closable_at
        /\ meta'[m].sender = meta[m].sender
        /\ meta'[m].recipient = meta[m].recipient
        /\ meta'[m].created_at = meta[m].created_at
    BY <1>2, <2>1 DEF TokenStreamData
  <2>3. IInv' /\ meta'[m] # NoMeta
    <3>1. amount \in U64
      BY TimelockAssumption
    <3>2. IInv'
      BY <1>4, <3>1, WithdrawKeepsIInv
    <3>3. PICK paid \in U64 :
            meta' = [meta EXCEPT ![n] =
                   [meta[n] EXCEPT !.withdrawn_amount =
                                     WrapAdd(meta[n].withdrawn_amount, paid),
                                   !.last_withdrawn_at = now]]
      BY <1>2, <1>4, <3>1, Withdrawal
    <3>4. [meta[n] EXCEPT !.withdrawn_amount =
                            WrapAdd(meta[n].withdrawn_amount, paid),
                          !.last_withdrawn_at = now] \in TokenStreamData
      <4>1. meta[n] \in TokenStreamData /\ meta[n].withdrawn_amount \in U64
        BY <1>2, <1>4, StreamData DEF withdraw, WithdrawOk, Open
      <4>2. WrapAdd(meta[n].withdrawn_amount, paid) \in U64 /\ now \in U64
        BY <1>2, <4>1, WordArithmetic, ClockInU64
      <4> QED
        BY <4>1, <4>2 DEF TokenStreamData
    <3> QED
      BY <1>2, <3>2, <3>3, <3>4, TimelockAssumption
  <2> QED
    BY <2>1, <2>2, <2>3 DEF Carried
<1>5. ASSUME NEW c \in Wallets, cancel(n, c, s, r)
      PROVE  Carried(m)
  <2>1. PICK last, at \in U64 :
          meta' = [meta EXCEPT ![n] =
            [meta[n] EXCEPT !.withdrawn_amount =
                              WrapAdd(meta[n].withdrawn_amount, Available(n)),
                            !.last_withdrawn_at = last,
                            !.canceled_at = at]]
    BY <1>2, <1>5, Cancellation
  <2>2. meta[n] \in TokenStreamData /\ opened' = opened \ {n}
        /\ WrapAdd(meta[n].withdrawn_amount, Available(n)) \in U64
    BY <1>2, <1>5, Cancellation, StreamData, WordArithmetic
  <2>3. [meta[n] EXCEPT !.withdrawn_amount =
                          WrapAdd(meta[n].withdrawn_amount, Available(n)),
                        !.last_withdrawn_at = last,
                        !.canceled_at = at] \in TokenStreamData
    BY <2>1, <2>2 DEF TokenStreamData
  <2>4. /\ meta'[m].ix = meta[m].ix
        /\ meta'[m].closable_at = meta[m].closable_at
        /\ meta'[m].sender = meta[m].sender
        /\ meta'[m].recipient = meta[m].recipient
        /\ meta'[m].created_at = meta[m].created_at
    BY <1>2, <2>1, <2>2 DEF TokenStreamData
  <2>5. meta'[m] # NoMeta
    BY <1>2, <2>1, <2>3, TimelockAssumption
  <2> QED
    BY <2>2, <2>4, <2>5 DEF Carried
<1>6. ASSUME transfer_recipient(n, s, r)
      PROVE  Carried(m)
  <2>1. /\ meta[n] # NoMeta
        /\ meta' = [meta EXCEPT ![n].recipient = r]
        /\ opened' = opened \cup {r}
        /\ \/ meta[n].ix.transferable_by_recipient
           \/ meta[n].ix.transferable_by_sender /\ s = meta[n].sender
        /\ s = meta[n].recipient
    BY <1>6 DEF transfer_recipient, TransferAuthorized, Open
  <2>2. [meta[n] EXCEPT !.recipient = r] \in TokenStreamData
    <3>1. meta[n] \in TokenStreamData
      BY <1>2, <2>1, StreamData
    <3> QED
      BY <3>1 DEF TokenStreamData
  <2>3. /\ meta'[m].ix = meta[m].ix
        /\ meta'[m].closable_at = meta[m].closable_at
        /\ meta'[m].sender = meta[m].sender
        /\ meta'[m].created_at = meta[m].created_at
        /\ meta'[m].recipient # meta[m].recipient => m = n /\ meta'[m].recipient = r
    BY <1>2, <2>1 DEF TokenStreamData
  <2>4. meta'[m] # NoMeta
    BY <1>2, <2>1, <2>2, TimelockAssumption
  <2> QED
    BY <1>2, <2>1, <2>3, <2>4 DEF Carried
<1>7. ASSUME NEW amount \in Amounts, topup_stream(n, s, amount)
      PROVE  Carried(m) \/ Extended(m, amount)
  <2>1. amount \in U64
    BY TimelockAssumption
  <2>2. /\ n \in opened /\ meta[n] # NoMeta
        /\ ToppedUp(n, amount) \in StreamInstruction
        /\ closable(ToppedUp(n, amount)) \in U64
        /\ meta' = [meta EXCEPT ![n] =
             [meta[n] EXCEPT !.ix = ToppedUp(n, amount),
                             !.closable_at = closable(ToppedUp(n, amount))]]
        /\ ~ClosablePanics(meta[n].ix) /\ ~ClosablePanics(ToppedUp(n, amount))
        /\ meta[n].ix.deposited_amount + amount <= MaxDeposit
        /\ opened' = opened
    <3>1. /\ ~ClosablePanics(meta[n].ix) /\ ~ClosablePanics(ToppedUp(n, amount))
          /\ meta[n].ix.deposited_amount + amount <= MaxDeposit
          /\ opened' = opened
      BY <1>7 DEF topup_stream
    <3> QED
      BY <1>2, <1>7, <2>1, <3>1, TopUp
  <2>3. CASE m # n
    <3>1. meta'[m] = meta[m]
      BY <1>2, <2>2, <2>3
    <3> QED
      BY <2>2, <3>1 DEF Carried
  <2>4. CASE m = n
    <3>1. /\ meta'[m] \in TokenStreamData
          /\ meta'[m].ix = ToppedUp(m, amount)
          /\ meta'[m].closable_at = closable(ToppedUp(m, amount))
          /\ meta'[m].sender = meta[m].sender
          /\ meta'[m].created_at = meta[m].created_at
          /\ meta'[m].recipient = meta[m].recipient
      BY <1>2, <2>2, <2>4 DEF TokenStreamData
    <3> QED
      BY <2>2, <2>4, <3>1, TimelockAssumption DEF Extended
  <2> QED
    BY <2>3, <2>4
<1> QED
  BY <1>1, <1>3, <1>4, <1>5, <1>6, <1>7, TimelockAssumption

LEMMA StreamAfter ==
  ASSUME IInv, [Next]_vars, NEW m \in Streams, meta[m] # NoMeta
  PROVE  Carried(m) \/ \E amount \in U64 : Extended(m, amount)
<1>1. CASE process_instruction
  BY <1>1, InstructionOnStream
<1>2. CASE meta' = meta /\ (m \in opened' => m \in opened)
  BY <1>2 DEF Carried
<1>3. Tick \/ Environment \/ UNCHANGED vars =>
        meta' = meta /\ (m \in opened' => m \in opened)
  BY Accounts DEF Tick, Environment, PlainTransfer, StrayTransfer,
                  CloseAccount, OpenAccount, vars
<1> QED
  BY <1>1, <1>2, <1>3 DEF Next

(* The metadata account of a stream is written by create first.            *)
LEMMA StreamBefore ==
  ASSUME IInv, [Next]_vars, NEW m \in Streams, meta[m] = NoMeta,
         meta'[m] # NoMeta
  PROVE  \E s \in Wallets, r \in Wallets, ix \in Instructions :
           create(m, s, r, ix)
<1>1. process_instruction
  BY DEF Next, Tick, Environment, PlainTransfer, StrayTransfer,
         CloseAccount, OpenAccount, vars
<1>2. PICK n \in Streams, s \in Wallets, r \in Wallets :
        \/ \E ix \in Instructions : create(n, s, r, ix)
        \/ \E amount \in Amounts : withdraw(n, r, s, amount)
        \/ \E c \in Wallets : cancel(n, c, s, r)
        \/ transfer_recipient(n, s, r)
        \/ \E amount \in Amounts : topup_stream(n, s, amount)
  BY <1>1 DEF process_instruction
<1>3. \A x : meta' = [meta EXCEPT ![n] = x] => n = m
  BY DEF IInv, TypeOK
<1>4. \/ \E ix \in Instructions : create(n, s, r, ix)
      \/ meta[n] # NoMeta
  BY <1>2 DEF withdraw, WithdrawOk, cancel, CancelOk, transfer_recipient,
              topup_stream, Open
<1>5. n = m
  <2>1. ASSUME NEW ix \in Instructions, create(n, s, r, ix) PROVE n = m
    BY <1>3, <2>1 DEF create
  <2>2. ASSUME NEW amount \in Amounts, withdraw(n, r, s, amount) PROVE n = m
    BY <2>2 DEF withdraw, IInv, TypeOK
  <2>3. ASSUME NEW c \in Wallets, cancel(n, c, s, r) PROVE n = m
    BY <2>3 DEF cancel, IInv, TypeOK
  <2>4. ASSUME transfer_recipient(n, s, r) PROVE n = m
    BY <2>4 DEF transfer_recipient, IInv, TypeOK
  <2>5. ASSUME NEW amount \in Amounts, topup_stream(n, s, amount) PROVE n = m
    BY <2>5 DEF topup_stream, IInv, TypeOK
  <2> QED
    BY <1>2, <2>1, <2>2, <2>3, <2>4, <2>5
<1> QED
  BY <1>4, <1>5
-----------------------------------------------------------------------------
(* The closing time.                                                       *)

(* The closing time of terms ix, as create and topup_stream store it: what *)
(* closable() says, without a panic for a recurring stream, and not after  *)
(* the end of another one.                                                 *)
RightlyClosable(ix, at) ==
  /\ InRange(ix) /\ CliffTime(ix) + ix.deposited_amount < MaxU64 =>
       at = IF ClosablePanics(ix) THEN ix.end_time ELSE closable(ix)
  /\ IF Recurring(ix) THEN ~ClosablePanics(ix) ELSE at <= ix.end_time

ClosingInv ==
  \A m \in Streams :
    Open(m) => RightlyClosable(meta[m].ix, meta[m].closable_at)

LEMMA ClosableAtCreation ==
  ASSUME NEW ix \in StreamInstruction, SaneTimes(ix),
         NeedsClosable(ix) => ~ClosablePanics(ix)
  PROVE  RightlyClosable(ix, IF NeedsClosable(ix) THEN closable(ix)
                                                 ELSE ix.end_time)
<1>1. CASE NeedsClosable(ix)
  BY <1>1, ClosableByEnd DEF RightlyClosable, NeedsClosable
<1>2. CASE ~NeedsClosable(ix)
  <2>1. ~Recurring(ix) /\ ix.deposited_amount >= ix.total_amount
        /\ ix.end_time \in Nat
    <3>1. /\ ix.deposited_amount \in Nat /\ ix.total_amount \in Nat
          /\ ix.end_time \in Nat
      BY Fields, WordsAreNat
    <3>2. ~Recurring(ix) /\ ~(ix.deposited_amount < ix.total_amount)
      BY <1>2 DEF NeedsClosable
    <3> QED
      BY <3>1, <3>2
  <2>2. InRange(ix) /\ CliffTime(ix) + ix.deposited_amount < MaxU64
          /\ ~ClosablePanics(ix)
        => closable(ix) = ix.end_time
    BY <2>1, FullDepositLasts
  <2> QED
    BY <1>2, <2>1, <2>2 DEF RightlyClosable
<1> QED
  BY <1>1, <1>2

LEMMA NextKeepsClosing ==
  ASSUME IInv, ClosingInv, [Next]_vars
  PROVE  ClosingInv'
<1> SUFFICES ASSUME NEW m \in Streams, meta'[m] # NoMeta, m \in opened'
             PROVE  RightlyClosable(meta'[m].ix, meta'[m].closable_at)
  BY DEF ClosingInv, Open
<1>1. CASE meta[m] = NoMeta
  <2>1. PICK s \in Wallets, r \in Wallets, ix \in Instructions :
          create(m, s, r, ix)
    BY <1>1, StreamBefore
  <2>2. SaneTimes(ix) /\ meta' = [meta EXCEPT ![m] = NewStream(s, r, ix)]
    BY <2>1, Creation DEF IInv
  <2>3. /\ meta'[m].ix = ix
        /\ meta'[m].closable_at =
             IF NeedsClosable(ix) THEN closable(ix) ELSE ix.end_time
    BY <2>2 DEF NewStream, IInv, TypeOK
  <2>4. RightlyClosable(ix, meta'[m].closable_at)
    BY <2>1, <2>2, <2>3, ClosableAtCreation, TimelockAssumption DEF create
  <2> QED
    BY <2>3, <2>4
<1>2. CASE meta[m] # NoMeta /\ Carried(m)
  BY <1>2 DEF ClosingInv, Carried, Open
<1>3. ASSUME meta[m] # NoMeta, NEW amount \in U64, Extended(m, amount)
      PROVE  RightlyClosable(meta'[m].ix, meta'[m].closable_at)
  <2>1. SaneTimes(meta[m].ix) /\ meta[m].ix \in StreamInstruction
    BY <1>3, StreamData DEF IInv, TermsSane
  <2>2. SaneTimes(ToppedUp(m, amount))
    BY <2>1 DEF ToppedUp, SaneTimes, StreamInstruction
  <2> QED
    BY <1>3, <2>2, ClosableByEnd DEF Extended, RightlyClosable
<1> QED
  BY <1>1, <1>2, <1>3, StreamAfter

LEMMA ClosingInvariance == Spec => []ClosingInv
<1>1. Init => ClosingInv
  BY DEF Init, ClosingInv, Open
<1>2. IInv /\ ClosingInv /\ [Next]_vars => ClosingInv'
  BY NextKeepsClosing
<1> QED
  BY <1>1, <1>2, Invariance, PTL DEF Spec

(* create stores the end time without computing anything when all is       *)
(* deposited, and that is what closable() says too; topup_stream stores    *)
(* what closable() says of the new deposit; no other instruction changes   *)
(* the deposit.                                                            *)
THEOREM ClosingTimeIsCurrent == Spec => []ClosableAtIsCurrent
<1>1. ClosingInv => ClosableAtIsCurrent
  BY DEF ClosingInv, RightlyClosable, ClosableAtIsCurrent
<1> QED
  BY <1>1, ClosingInvariance, PTL

-----------------------------------------------------------------------------
(* What an expired stream still owes.                                      *)

(* A deposit that has lasted is less than what its rate makes of the time  *)
(* elapsed.                                                                *)
LEMMA UsedUp ==
  ASSUME NEW beyond \in Nat, NEW rate \in Nat \ {0}, NEW elapsed \in Nat,
         elapsed > beyond \div rate
  PROVE  beyond + 1 <= rate * elapsed
<1>1. beyond \div rate \in Nat /\ beyond < rate * (beyond \div rate) + rate
  BY Division
<1> DEFINE lasts == beyond \div rate
<1> HIDE DEF lasts
<1>2. lasts \in Nat /\ lasts + 1 <= elapsed /\ beyond < rate * lasts + rate
  BY <1>1 DEF lasts
<1>3. (lasts + 1) * rate <= elapsed * rate
  BY <1>2, ProductMonotone
<1>4. (lasts + 1) * rate = rate * lasts + rate /\ elapsed * rate = rate * elapsed
  BY <1>2
<1>5. rate * lasts \in Nat /\ rate * elapsed \in Nat
  BY <1>2
<1> QED
  BY <1>2, <1>3, <1>4, <1>5

(* n whole periods and a part of the next have passed.  When the rate is a *)
(* period's amount per second, rounded down, one more period releases all. *)
LEMMA RateUsesUp ==
  ASSUME NEW beyond \in Nat, NEW n \in Nat, NEW period \in Nat \ {0},
         NEW amount \in Nat, amount \div period # 0, NEW elapsed \in Nat,
         elapsed > beyond \div (amount \div period),
         elapsed < n * period + period
  PROVE  beyond < n * amount + amount
<1> DEFINE rate == amount \div period
<1>1. rate \in Nat \ {0} /\ period * rate <= amount
  BY Division
<1> HIDE DEF rate
<1>2. beyond + 1 <= rate * elapsed
  BY <1>1, UsedUp DEF rate
<1>3. elapsed <= (n + 1) * period
  BY ProductMonotone
<1>4. elapsed * rate <= ((n + 1) * period) * rate
  <2>1. (n + 1) * period \in Nat
    BY ProductMonotone
  <2> QED
    BY <1>1, <1>3, <2>1, ProductMonotone
<1>5. (period * rate) * (n + 1) <= amount * (n + 1)
  <2>1. period * rate \in Nat
    BY <1>1
  <2> QED
    BY <1>1, <2>1, ProductMonotone
<1>6. /\ elapsed * rate = rate * elapsed
      /\ ((n + 1) * period) * rate = (period * rate) * (n + 1)
      /\ amount * (n + 1) = n * amount + amount
  BY <1>1
<1>7. /\ rate * elapsed \in Nat /\ (period * rate) * (n + 1) \in Nat
      /\ n * amount + amount \in Nat
  BY <1>1
<1> QED
  BY <1>2, <1>4, <1>5, <1>6, <1>7

(* The same on the line from the cliff to the end: the rate is the amount  *)
(* to vest per second, rounded down.                                       *)
LEMMA LineUsesUp ==
  ASSUME NEW beyond \in Nat, NEW n \in Nat, NEW period \in Nat \ {0},
         NEW whole \in Nat, NEW span \in Nat \ {0}, NEW rate \in Nat \ {0},
         rate * span <= whole, NEW elapsed \in Nat,
         elapsed > beyond \div rate, elapsed < n * period + period
  PROVE  (beyond + 1) * span < n * period * whole + whole * period
<1>1. beyond + 1 <= rate * elapsed
  BY UsedUp
<1>2. /\ rate * elapsed \in Nat /\ rate * span \in Nat
      /\ n * period \in Nat /\ n * period + period \in Nat
  OBVIOUS
<1>3. (beyond + 1) * span <= (rate * elapsed) * span
  BY <1>1, <1>2, ProductMonotone
<1>4. (rate * span) * elapsed <= whole * elapsed
  BY <1>2, ProductMonotone
<1>5. (elapsed + 1) * whole <= (n * period + period) * whole
  BY <1>2, ProductMonotone
<1>6. /\ (rate * elapsed) * span = (rate * span) * elapsed
      /\ (elapsed + 1) * whole = whole * elapsed + whole
      /\ (n * period + period) * whole = n * period * whole + whole * period
  OBVIOUS
<1>7. whole > 0
  <2>1. 1 * span <= rate * span /\ 1 * span = span
    BY ProductMonotone
  <2> QED
    BY <1>2, <2>1
<1>8. /\ (beyond + 1) * span \in Nat /\ (rate * span) * elapsed \in Nat
      /\ whole * elapsed \in Nat
      /\ n * period * whole + whole * period \in Nat
  BY <1>2
<1> QED
  BY <1>3, <1>4, <1>5, <1>6, <1>7, <1>8

(* From the closing time of closable() on, what has not vested is less     *)
(* than a period's worth.                                                  *)
LEMMA ExpiredIsDone ==
  ASSUME TypeOK, NEW m \in Streams, Open(m), SaneTimes(meta[m].ix),
         InRange(meta[m].ix), meta[m].ix.period > 0,
         CliffTime(meta[m].ix) + meta[m].ix.deposited_amount < MaxU64,
         ~ClosablePanics(meta[m].ix), now >= closable(meta[m].ix),
         ~FullyVested(meta[m].ix, now)
  PROVE  OutOfFunds(meta[m])
<1> DEFINE ix == meta[m].ix
           beyond == ix.deposited_amount - ix.cliff_amount
           rate == AmountPerSecond(ix)
           elapsed == now - CliffTime(ix)
           n == PeriodsPassed(ix, now)
           rel == Released(ix, now)
           span == ix.end_time - CliffTime(ix)
           whole == WrapSub(ix.total_amount, ix.cliff_amount)
<1>1. /\ ix \in StreamInstruction /\ now \in U64 /\ now <= MaxTime
      /\ MaxTime \in Nat
  BY StreamData, ClockInU64, TimelockAssumption DEF Open, TypeOK, U64
<1>2. /\ ix.deposited_amount \in Nat /\ ix.cliff_amount \in Nat
      /\ ix.total_amount \in Nat /\ ix.release_rate \in Nat
      /\ ix.end_time \in Nat /\ ix.start_time \in Nat /\ ix.cliff \in Nat
      /\ CliffTime(ix) \in Nat /\ now \in Nat /\ ix.period \in Nat \ {0}
      /\ beyond \in Int
  BY <1>1, Fields, WordsAreNat
<1>3. /\ ~BelowCliffAmount(ix) =>
           /\ beyond \in Nat /\ rate \in Nat \ {0} /\ beyond \div rate \in Nat
           /\ FundsRunOut(ix) = CliffTime(ix) + (beyond \div rate) + 1
           /\ now >= FundsRunOut(ix)
      /\ BelowCliffAmount(ix) => now >= CliffTime(ix) /\ beyond < 0
  <2>1. ASSUME ~BelowCliffAmount(ix)
        PROVE  /\ beyond \in Nat /\ rate \in Nat \ {0}
               /\ beyond \div rate \in Nat
               /\ FundsRunOut(ix) = CliffTime(ix) + (beyond \div rate) + 1
    BY <1>1, <2>1, Rate, RunsOutAt
  <2>2. now >= FundsRunOut(ix) \/ BelowCliffAmount(ix)
    BY <1>2 DEF closable, FullyVested
  <2>3. BelowCliffAmount(ix) => now >= CliffTime(ix) /\ beyond < 0
    BY <1>2 DEF closable, BelowCliffAmount
  <2> QED
    BY <2>1, <2>2, <2>3
<1>4. elapsed \in Nat /\ now >= CliffTime(ix)
  <2> HIDE DEF beyond, rate
  <2> QED
    BY <1>2, <1>3
<1>5. ~NotStarted(ix, now)
  BY <1>2, <1>4 DEF NotStarted, CliffTime, SaneTimes
<1>6. /\ n \in Nat /\ n <= now /\ elapsed < n * ix.period + ix.period
  BY <1>1, <1>2, <1>5, Periods, WordsAreNat
<1>7. ~BelowCliffAmount(ix) => elapsed > beyond \div rate
  <2> HIDE DEF beyond, rate
  <2> QED
    BY <1>2, <1>3
<1>8. rel \in Nat /\ Imprecision \in Nat
  BY <1>1, <1>2, <1>5, ReleasedInU64, FloatAssumption, WordsAreNat DEF ReleasesEvenly
<1>9. CASE Recurring(ix)
  <2>1. n * ix.release_rate <= rel + Imprecision
    <3>1. ix.release_rate * now <= MaxU64
      <4>1. now * ix.release_rate <= MaxTime * ix.release_rate
        BY <1>1, <1>2, ProductMonotone
      <4>2. /\ now * ix.release_rate = ix.release_rate * now
            /\ MaxTime * ix.release_rate = ix.release_rate * MaxTime
            /\ ix.release_rate * MaxTime \in Nat /\ ix.release_rate * now \in Nat
        BY <1>1, <1>2
      <4>3. ix.cliff_amount + ix.release_rate * MaxTime + Imprecision <= MaxU64
        BY <1>9 DEF InRange
      <4> QED
        BY <1>2, <1>8, <4>1, <4>2, <4>3
    <3> QED
      BY <1>1, <1>2, <1>5, <1>9, <3>1, RecurringReleased
  <2>2. ~BelowCliffAmount(ix) =>
          beyond < n * ix.release_rate + ix.release_rate
    <3>1. rate = ix.release_rate \div ix.period
      BY <1>9 DEF AmountPerSecond
    <3> HIDE DEF ix, beyond, rate, elapsed, n
    <3> QED
      BY <1>2, <1>3, <1>4, <1>6, <1>7, <3>1, RateUsesUp
  <2>3. n * ix.release_rate \in Nat
    BY <1>2, <1>6
  <2>4. beyond - rel < ix.release_rate + Imprecision
    <3> HIDE DEF ix, beyond, n, rel
    <3> QED
      BY <1>2, <1>3, <1>8, <2>1, <2>2, <2>3
  <2> QED
    BY <1>9, <2>4 DEF OutOfFunds
<1>10. CASE ~Recurring(ix)
  <2>1. /\ now < ix.end_time /\ span \in Nat \ {0}
        /\ whole = ix.total_amount - ix.cliff_amount /\ whole \in Nat
    BY <1>2, <1>4, <1>10 DEF FullyVested, InRange, WrapSub
  <2>2. n * ix.period * whole <= (rel + 1 + Imprecision) * span
    BY <1>1, <1>2, <1>5, <1>10, <2>1, VestingReleased
  <2>3. ~BelowCliffAmount(ix) =>
          (beyond + 1) * span < n * ix.period * whole + whole * ix.period
    <3>1. ~BelowCliffAmount(ix) => rate * span <= whole
      <4>1. SecondsNr(ix) = span
        BY <1>2, <1>4, <2>1 DEF SecondsNr, WrapSub
      <4> QED
        BY <1>1, <1>10, <4>1, Rate
    <3> HIDE DEF ix, beyond, rate, elapsed, n, span, whole
    <3> QED
      BY <1>2, <1>3, <1>4, <1>6, <1>7, <2>1, <3>1, LineUsesUp
  <2>4. /\ whole * ix.period \in Nat /\ Imprecision * span \in Nat
        /\ (rel + 1 + Imprecision) * span
             = rel * span + span + Imprecision * span
        /\ (beyond + 1) * span = beyond * span + span
        /\ (beyond - rel) * span = beyond * span - rel * span
        /\ n * ix.period * whole \in Nat /\ rel * span \in Nat
        /\ beyond * span \in Int
    <3> HIDE DEF ix, beyond, n, rel, span, whole
    <3> QED
      BY <1>2, <1>6, <1>8, <2>1
  <2>5. BelowCliffAmount(ix) => beyond * span <= -1
    <3>1. ASSUME BelowCliffAmount(ix) PROVE beyond * span <= -1
      <4>1. beyond <= -1 /\ beyond \in Int
        BY <1>2, <1>3, <3>1
      <4> HIDE DEF beyond, span
      <4>2. beyond * span <= (-1) * span
        BY <2>1, <4>1, ProductMonotoneInt
      <4> QED
        BY <2>1, <2>4, <4>1, <4>2
    <3> QED
      BY <3>1
  <2>6. (beyond - rel) * span < whole * ix.period + Imprecision * span
    <3> HIDE DEF ix, beyond, n, rel, span, whole
    <3>1. CASE BelowCliffAmount(ix)
      BY <2>4, <2>5, <3>1
    <3>2. CASE ~BelowCliffAmount(ix)
      BY <2>1, <2>2, <2>3, <2>4, <3>2
    <3> QED
      BY <3>1, <3>2
  <2> QED
    BY <1>10, <2>1, <2>6 DEF OutOfFunds
<1> QED
  BY <1>9, <1>10

(* Third parties get to close a stream only when nothing is lost by it:    *)
(* either all of it has vested, or its deposit cannot pay for another      *)
(* period.  A non-recurring stream whose closable() panics stores its end  *)
(* time, and a recurring one of that kind is never created.                *)
THEOREM OnlyDoneExpires == Spec => []ExpiredMeansDone
<1>1. ASSUME IInv, ClosingInv, NEW m \in Streams, Open(m), InRange(meta[m].ix),
             Expired(m), meta[m].ix.period > 0,
             CliffTime(meta[m].ix) + meta[m].ix.deposited_amount < MaxU64
      PROVE  FullyVested(meta[m].ix, now) \/ OutOfFunds(meta[m])
  <2> DEFINE ix == meta[m].ix
  <2>1. /\ TypeOK /\ SaneTimes(ix)
        /\ meta[m].closable_at =
             IF ClosablePanics(ix) THEN ix.end_time ELSE closable(ix)
        /\ Recurring(ix) => ~ClosablePanics(ix)
        /\ now >= meta[m].closable_at
    BY <1>1 DEF IInv, TermsSane, Open, ClosingInv, RightlyClosable, Expired
  <2>2. CASE ClosablePanics(ix)
    BY <2>1, <2>2 DEF FullyVested
  <2>3. CASE ~ClosablePanics(ix)
    BY <1>1, <2>1, <2>3, ExpiredIsDone
  <2> QED
    BY <2>2, <2>3
<1>2. IInv /\ ClosingInv => ExpiredMeansDone
  BY <1>1 DEF ExpiredMeansDone
<1> QED
  BY <1>2, Invariance, ClosingInvariance, PTL

(* When the deposits of a stream do not exceed a u64, no instruction       *)
(* changes anything else agreed on, and a top-up only postpones the time   *)
(* from which third parties may close it.                                  *)
THEOREM TermsAreKept ==
  ASSUME MaxDeposit <= MaxU64
  PROVE  Spec => TermsKept
<1>1. ASSUME IInv, ClosableAtIsCurrent, [Next]_vars, NEW m \in Streams,
             meta[m] # NoMeta
      PROVE  LET d == meta[m]
                 e == meta'[m]
             IN /\ e # NoMeta
                /\ e.sender = d.sender /\ e.created_at = d.created_at
                /\ e.ix = [d.ix EXCEPT !.deposited_amount =
                                         e.ix.deposited_amount]
                /\ e.recipient # d.recipient =>
                     /\ \/ d.ix.transferable_by_recipient
                        \/ d.ix.transferable_by_sender
                             /\ d.sender = d.recipient
                     /\ e.recipient \in opened'
                /\ InRange(d.ix)
                     /\ CliffTime(d.ix) + e.ix.deposited_amount < MaxU64
                   => e.closable_at >= d.closable_at
  <2>1. /\ meta[m] \in TokenStreamData /\ meta[m].ix \in StreamInstruction
        /\ SaneTimes(meta[m].ix)
    BY <1>1, StreamData DEF IInv, TermsSane
  <2>2. CASE Carried(m)
    <3>1. meta[m].closable_at \in Nat
      BY <2>1, WordsAreNat DEF TokenStreamData
    <3>2. meta[m].ix = [meta[m].ix EXCEPT !.deposited_amount =
                                            meta[m].ix.deposited_amount]
      BY <2>1 DEF StreamInstruction
    <3> QED
      BY <2>2, <3>1, <3>2 DEF Carried
  <2>3. ASSUME NEW amount \in U64, Extended(m, amount),
               InRange(meta[m].ix),
               CliffTime(meta[m].ix) + meta'[m].ix.deposited_amount < MaxU64
        PROVE  meta'[m].closable_at >= meta[m].closable_at
    <3> DEFINE ix == meta[m].ix
               jx == meta'[m].ix
    <3>1. /\ jx = ToppedUp(m, amount) /\ jx \in StreamInstruction
          /\ meta'[m].closable_at = closable(jx) /\ Open(m)
          /\ ~ClosablePanics(ix) /\ ~ClosablePanics(jx)
          /\ ix.deposited_amount + amount <= MaxDeposit
      BY <1>1, <2>3 DEF Extended, Open
    <3>2. jx.deposited_amount = WrapAdd(ix.deposited_amount, amount)
      BY <2>1, <3>1 DEF ToppedUp, StreamInstruction
    <3>3. /\ ix.deposited_amount \in Nat /\ amount \in Nat
          /\ CliffTime(ix) \in Nat
      BY <2>1, Fields, WordsAreNat
    <3>4. /\ ix.deposited_amount <= jx.deposited_amount
          /\ jx.deposited_amount \in Nat
      BY <3>1, <3>2, <3>3, TimelockAssumption DEF WrapAdd
    <3>5. CliffTime(ix) + ix.deposited_amount < MaxU64
      BY <2>3, <3>3, <3>4
    <3>6. meta[m].closable_at = closable(ix)
      BY <1>1, <2>3, <3>1, <3>5 DEF ClosableAtIsCurrent
    <3>7. jx = [ix EXCEPT !.deposited_amount = jx.deposited_amount]
      BY <2>1, <3>1, <3>2 DEF ToppedUp
    <3>8. closable(ix) <= closable(jx)
      BY <2>1, <2>3, <3>1, <3>4, <3>7, ClosableGrows
    <3>9. closable(ix) \in Nat /\ closable(jx) \in Nat
      BY <2>1, <3>1, ClosableInU64, WordsAreNat
    <3> QED
      BY <3>1, <3>6, <3>8, <3>9
  <2>4. ASSUME NEW amount \in U64, Extended(m, amount)
        PROVE  meta'[m].ix = [meta[m].ix EXCEPT !.deposited_amount =
                                                  meta'[m].ix.deposited_amount]
    BY <2>1, <2>4 DEF Extended, ToppedUp, StreamInstruction
  <2> QED
    BY <1>1, <2>2, <2>3, <2>4, StreamAfter DEF Extended
<1>2. IInv /\ ClosableAtIsCurrent /\ [Next]_vars =>
        [\A m \in Streams :
           LET d == meta[m]
               e == meta'[m]
           IN d # NoMeta =>
                /\ e # NoMeta
                /\ e.sender = d.sender /\ e.created_at = d.created_at
                /\ e.ix = [d.ix EXCEPT !.deposited_amount =
                                         e.ix.deposited_amount]
                /\ e.recipient # d.recipient =>
                     /\ \/ d.ix.transferable_by_recipient
                        \/ d.ix.transferable_by_sender
                             /\ d.sender = d.recipient
                     /\ e.recipient \in opened'
                /\ InRange(d.ix)
                     /\ CliffTime(d.ix) + e.ix.deposited_amount < MaxU64
                   => e.closable_at >= d.closable_at]_vars
  BY <1>1
<1> QED
  BY <1>2, Invariance, ClosingTimeIsCurrent, PTL DEF Spec, TermsKept
-----------------------------------------------------------------------------
(* The end of a stream.                                                    *)

(* The recipient's account could hold the whole escrow too: always so when *)
(* the tokens of the mint fit in a u64, as those of a real mint do.        *)
RoomToSettle(m) == balance[meta[m].recipient] + balance[m] <= MaxU64

(* From its end on a stream pays out what its escrow holds, no more and no *)
(* less, and the cancel passes every check.                                *)
LEMMA EndSettles ==
  ASSUME IInv, ClosingInv, NEW m \in Streams, Open(m),
         FullyVested(meta[m].ix, now), stray[m] = 0, RoomToSettle(m),
         {meta[m].sender, meta[m].recipient} \subseteq opened,
         NEW c \in Wallets
  PROVE  CancelOk(m, c, meta[m].sender, meta[m].recipient)
<1> DEFINE ix == meta[m].ix
           w == meta[m].withdrawn_amount
           s == meta[m].sender
           r == meta[m].recipient
<1>1. /\ meta[m] \in TokenStreamData /\ ix \in StreamInstruction
      /\ w \in U64 /\ ix.deposited_amount \in U64
      /\ s \in Wallets /\ r \in Wallets /\ SaneTimes(ix) /\ now \in U64
      /\ m \in opened /\ TypeOK
  BY StreamData, ClockInU64 DEF IInv, TermsSane, Open
<1>2. now >= ix.end_time /\ ~Recurring(ix)
  BY DEF FullyVested
<1>3. ~NotStarted(ix, now) /\ ~AvailablePanics(ix, now)
  BY <1>1, <1>2, Fields
  DEF NotStarted, AvailablePanics, FullyVested, SaneTimes, U64
<1>4. Available(m) = WrapSub(ix.deposited_amount, w) /\ Available(m) \in U64
  BY <1>1, <1>3, WordArithmetic DEF Available, available
<1>5. balance[m] = Available(m)
  <2>1. balance[m] = WrapSub(WrapAdd(ix.deposited_amount, 0), w)
    BY <1>1 DEF IInv, EscrowBacked
  <2>2. WrapAdd(ix.deposited_amount, 0) = ix.deposited_amount
    BY <1>1 DEF WrapAdd, U64
  <2> QED
    BY <1>4, <2>1, <2>2
<1>6. Remains(m) = 0
  BY <1>1, <1>4 DEF Remains, WithdrawnAfter, WrapAdd, WrapSub, U64
<1>7. Expired(m)
  <2>1. meta[m].closable_at <= ix.end_time
    BY <1>2 DEF ClosingInv, RightlyClosable
  <2>2. /\ meta[m].closable_at \in Nat /\ ix.end_time \in Nat /\ now \in Nat
    BY <1>1, Fields, WordsAreNat DEF TokenStreamData
  <2> QED
    BY <1>2, <2>1, <2>2 DEF Expired
<1>8. CanMove(balance, m, r, Available(m))
  BY <1>1, <1>4, <1>5 DEF CanMove, RoomToSettle, U64
<1>9. CanClose(AfterRefund(m, s, r), m)
  <2> DEFINE left == AfterPay(m, r)
  <2>1. left \in [TokenAccounts -> U64] /\ left[m] = 0
    BY <1>1, <1>4, <1>5, <1>8, Accounts, Transfer
    DEF AfterPay, CanMove, TypeOK, SplTypeOK, U64
  <2>2. AfterRefund(m, s, r) = Moved(left, m, s, 0)
    BY <1>6 DEF AfterRefund
  <2> HIDE DEF left
  <2>3. Moved(left, m, s, 0)[m] = 0
    BY <1>1, <2>1, Accounts DEF Moved
  <2> QED
    BY <1>1, <2>2, <2>3 DEF CanClose
<1> QED
  BY <1>3, <1>6, <1>7, <1>8, <1>9 DEF CancelOk, PartiesMatch

(* NeverLocked, where the recipient has room: nothing but stray tokens or  *)
(* a closed token account of a party keeps anybody from closing a stream   *)
(* that has ended.                                                         *)
LEMMA SettledWhereRoom ==
  ASSUME IInv, ClosingInv, \A m \in Streams : Open(m) => RoomToSettle(m)
  PROVE  NeverLocked
BY EndSettles DEF NeverLocked
=============================================================================
