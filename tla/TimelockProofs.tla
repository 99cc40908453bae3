--------------------------- MODULE TimelockProofs ---------------------------
(***************************************************************************)
(* Proofs that the timelock program keeps its invariants, and about the    *)
(* payments of withdraw and cancel: who gets them, how much they are, and  *)
(* what they add up to when a stream is closed.  For any number of wallets *)
(* and streams, any amounts and any word width.                            *)
(***************************************************************************)
EXTENDS TimelockProperties, VestingProofs

USE MaxU64Assumption

-----------------------------------------------------------------------------
(* A transfer that the token program accepts changes two accounts.         *)
LEMMA Transfer ==
  ASSUME NEW bal \in [TokenAccounts -> U64],
         NEW from \in TokenAccounts, NEW to \in TokenAccounts, from # to,
         NEW amount \in U64,
         amount <= bal[from], bal[to] + amount <= MaxU64
  PROVE  /\ Moved(bal, from, to, amount) \in [TokenAccounts -> U64]
         /\ Moved(bal, from, to, amount)[from] = bal[from] - amount
         /\ Moved(bal, from, to, amount)[to] = bal[to] + amount
         /\ \A a \in TokenAccounts \ {from, to} :
              Moved(bal, from, to, amount)[a] = bal[a]
BY DEF Moved, U64

(* Wallets' accounts and escrow accounts differ.                           *)
LEMMA Accounts ==
  ASSUME NEW m \in Streams, NEW w \in Wallets
  PROVE  m \in TokenAccounts /\ w \in TokenAccounts /\ m # w
BY DisjointAccounts DEF TokenAccounts

(* The data of a stream that exists.                                       *)
LEMMA StreamData ==
  ASSUME TypeOK, NEW m \in Streams, meta[m] # NoMeta
  PROVE  /\ meta[m] \in TokenStreamData
         /\ meta[m].ix \in StreamInstruction
         /\ meta[m].withdrawn_amount \in U64
         /\ meta[m].ix.deposited_amount \in U64
         /\ meta[m].sender \in Wallets /\ meta[m].recipient \in Wallets
BY DEF TypeOK, TokenStreamData, StreamInstruction

LEMMA ClockInU64 ==
  ASSUME TypeOK
  PROVE  now \in U64 /\ now + 1 \in Nat /\ (now < MaxTime => now + 1 \in U64)
BY TimelockAssumption DEF TypeOK, U64

(* Writing the data of one stream.                                         *)
LEMMA Written ==
  ASSUME TypeOK, NEW m \in Streams, NEW d \in TokenStreamData
  PROVE  /\ [meta EXCEPT ![m] = d] \in [Streams -> TokenStreamData \cup {NoMeta}]
         /\ [meta EXCEPT ![m] = d][m] = d
         /\ \A n \in Streams \ {m} : [meta EXCEPT ![m] = d][n] = meta[n]
         /\ d # NoMeta
BY TimelockAssumption DEF TypeOK

-----------------------------------------------------------------------------
(* What each instruction does to its stream and the escrow of it.          *)

(* withdraw books what it pays, and closes the escrow only when empty.     *)
LEMMA Withdrawal ==
  ASSUME TypeOK, TermsSane, NEW m \in Streams, NEW r \in Wallets,
         NEW s \in Wallets, NEW amount \in U64, withdraw(m, r, s, amount)
  PROVE  /\ meta[m] # NoMeta
         /\ \E paid \in U64 :
              /\ paid <= Available(m) /\ paid <= balance[m]
              /\ Available(m) \in U64
              /\ ~AvailablePanics(meta[m].ix, now)
              /\ meta' = [meta EXCEPT ![m] =
                   [meta[m] EXCEPT !.withdrawn_amount =
                                     WrapAdd(meta[m].withdrawn_amount, paid),
                                   !.last_withdrawn_at = now]]
              /\ balance' \in [TokenAccounts -> U64]
              /\ balance'[m] = balance[m] - paid
              /\ \A n \in Streams \ {m} : balance'[n] = balance[n]
         /\ \/ opened' = opened
            \/ opened' = opened \ {m} /\ balance'[m] = 0
         /\ lamports' \in [Wallets -> Nat]
<1> DEFINE paid == Requested(amount, Available(m))
<1>1. /\ Open(m) /\ meta[m] # NoMeta /\ ~AvailablePanics(meta[m].ix, now)
      /\ amount <= Available(m) /\ CanMove(balance, m, r, paid)
  BY DEF withdraw, WithdrawOk, Open
<1>2. Available(m) \in U64
  BY <1>1, StreamData, ClockInU64, AvailableInU64 DEF Available, TermsSane
<1>3. paid \in U64 /\ paid <= Available(m)
  BY <1>1, <1>2 DEF Requested, U64
<1>4. meta' = [meta EXCEPT ![m].withdrawn_amount = WithdrawnAfter(m, paid),
                           ![m].last_withdrawn_at = now]
  BY DEF withdraw
<1>5. balance' = Moved(balance, m, r, paid)
  BY DEF withdraw
<1> HIDE DEF paid
<1>6. meta' = [meta EXCEPT ![m] =
                 [meta[m] EXCEPT !.withdrawn_amount =
                                   WrapAdd(meta[m].withdrawn_amount, paid),
                                 !.last_withdrawn_at = now]]
  BY <1>4 DEF WithdrawnAfter
<1>7. /\ balance' \in [TokenAccounts -> U64]
      /\ paid <= balance[m]
      /\ balance'[m] = balance[m] - paid
      /\ \A n \in Streams \ {m} : balance'[n] = balance[n]
  BY <1>1, <1>3, <1>5, Accounts, Transfer DEF CanMove, TypeOK, SplTypeOK
<1>8. \/ opened' = opened
      \/ opened' = opened \ {m} /\ balance'[m] = 0
  BY <1>5 DEF withdraw, WithdrawOk, CanClose, paid
<1>9. lamports' \in [Wallets -> Nat]
  BY TimelockAssumption DEF withdraw, TypeOK
<1> QED
  BY <1>1, <1>2, <1>3, <1>6, <1>7, <1>8, <1>9

(* cancel books what the recipient gets, refunds the rest of the deposit   *)
(* and closes the escrow.                                                  *)
LEMMA Cancellation ==
  ASSUME TypeOK, TermsSane, NEW m \in Streams, NEW c \in Wallets,
         NEW s \in Wallets, NEW r \in Wallets, cancel(m, c, s, r)
  PROVE  /\ meta[m] # NoMeta
         /\ ~AvailablePanics(meta[m].ix, now)
         /\ Available(m) \in U64
         /\ \E last, at \in U64 :
              meta' = [meta EXCEPT ![m] =
                [meta[m] EXCEPT !.withdrawn_amount =
                                  WrapAdd(meta[m].withdrawn_amount, Available(m)),
                                !.last_withdrawn_at = last,
                                !.canceled_at = at]]
         /\ balance' \in [TokenAccounts -> U64]
         /\ balance'[m] = 0
         /\ \A n \in Streams \ {m} : balance'[n] = balance[n]
         /\ opened' = opened \ {m}
         /\ lamports' \in [Wallets -> Nat]
<1>1. /\ Open(m) /\ meta[m] # NoMeta /\ ~AvailablePanics(meta[m].ix, now)
      /\ CanMove(balance, m, r, Available(m))
      /\ Remains(m) > 0 => CanMove(AfterPay(m, r), m, s, Remains(m))
      /\ CanClose(AfterRefund(m, s, r), m)
  BY DEF cancel, CancelOk, Open
<1>2. Available(m) \in U64
  BY <1>1, StreamData, ClockInU64, AvailableInU64 DEF Available, TermsSane
<1>3. Remains(m) \in U64
  BY <1>1, <1>2, StreamData, WordArithmetic DEF Remains, WithdrawnAfter
<1>4. /\ AfterPay(m, r) \in [TokenAccounts -> U64]
      /\ \A n \in Streams \ {m} : AfterPay(m, r)[n] = balance[n]
  BY <1>1, <1>2, Accounts, Transfer DEF AfterPay, CanMove, TypeOK, SplTypeOK
<1>5. Remains(m) <= AfterPay(m, r)[m] /\ AfterPay(m, r)[s] + Remains(m) <= MaxU64
  BY <1>1, <1>3, <1>4, Accounts DEF CanMove, U64
<1>6. /\ AfterRefund(m, s, r) \in [TokenAccounts -> U64]
      /\ \A n \in Streams \ {m} : AfterRefund(m, s, r)[n] = balance[n]
  BY <1>3, <1>4, <1>5, Accounts, Transfer DEF AfterRefund
<1>7. balance' = AfterRefund(m, s, r) /\ opened' = opened \ {m}
  BY DEF cancel
<1>8. AfterRefund(m, s, r)[m] = 0
  BY <1>1 DEF CanClose
<1>9. \E last, at \in U64 :
        meta' = [meta EXCEPT ![m] =
          [meta[m] EXCEPT !.withdrawn_amount =
                            WrapAdd(meta[m].withdrawn_amount, Available(m)),
                          !.last_withdrawn_at = last,
                          !.canceled_at = at]]
  <2> DEFINE last == IF Expired(m) THEN meta[m].last_withdrawn_at ELSE now
             at == IF Expired(m) THEN meta[m].canceled_at ELSE now
  <2>1. last \in U64 /\ at \in U64
    BY <1>1, StreamData, ClockInU64 DEF TokenStreamData
  <2>2. meta' = [meta EXCEPT ![m] =
          [meta[m] EXCEPT !.withdrawn_amount =
                            WrapAdd(meta[m].withdrawn_amount, Available(m)),
                          !.last_withdrawn_at = last,
                          !.canceled_at = at]]
    BY DEF cancel, WithdrawnAfter
  <2> HIDE DEF last, at
  <2> QED
    BY <2>1, <2>2
<1>10. lamports' \in [Wallets -> Nat]
  BY TimelockAssumption DEF cancel, TypeOK
<1> QED
  BY <1>1, <1>2, <1>6, <1>7, <1>8, <1>9, <1>10

(* create opens an escrow that holds the deposit of a stream whose terms   *)
(* passed duration_sanity and whose vesting lies ahead.                    *)
LEMMA Creation ==
  ASSUME TypeOK, EscrowBacked, NEW m \in Streams, NEW s \in Wallets,
         NEW r \in Wallets, NEW ix \in Instructions, create(m, s, r, ix)
  PROVE  /\ meta[m] = NoMeta
         /\ NewStream(s, r, ix) \in TokenStreamData
         /\ SaneTimes(ix) /\ NotStarted(ix, now)
         /\ meta' = [meta EXCEPT ![m] = NewStream(s, r, ix)]
         /\ balance' \in [TokenAccounts -> U64]
         /\ balance'[m] = ix.deposited_amount
         /\ \A n \in Streams \ {m} : balance'[n] = balance[n]
         /\ opened' = opened \cup {r, m}
         /\ lamports' \in [Wallets -> Nat]
<1>1. ix \in StreamInstruction
  BY TimelockAssumption
<1>2. /\ meta[m] = NoMeta /\ m \notin opened
      /\ duration_sanity(now, ix.start_time, ix.end_time, ix.cliff)
      /\ NeedsClosable(ix) => ~ClosablePanics(ix)
      /\ lamports[s] >= CreateRent(r) + 2 * Lps
      /\ balance[s] >= ix.deposited_amount
      /\ opened' = opened \cup {r, m}
      /\ meta' = [meta EXCEPT ![m] = NewStream(s, r, ix)]
      /\ balance' = Moved(balance, s, m, ix.deposited_amount)
      /\ lamports' = [lamports EXCEPT ![s] = @ - CreateRent(r)]
  BY DEF create, Fresh
<1>3. SaneTimes(ix) /\ NotStarted(ix, now)
  BY <1>1, <1>2, Fields, ClockInU64
  DEF duration_sanity, SaneTimes, NotStarted, U64
<1>4. NewStream(s, r, ix) \in TokenStreamData
  <2>1. (IF NeedsClosable(ix) THEN closable(ix) ELSE ix.end_time) \in U64
    BY <1>1, <1>2, Fields, ClosableInU64
  <2>2. now \in U64 /\ 0 \in U64
    BY ClockInU64 DEF U64
  <2> QED
    BY <1>1, <2>1, <2>2 DEF NewStream, TokenStreamData
<1>5. balance[m] = 0
  BY <1>2 DEF EscrowBacked
<1>6. balance \in [TokenAccounts -> U64] /\ ix.deposited_amount \in U64
  BY <1>1, Fields DEF TypeOK, SplTypeOK
<1>7. /\ balance' \in [TokenAccounts -> U64]
      /\ balance'[m] = ix.deposited_amount
      /\ \A n \in Streams \ {m} : balance'[n] = balance[n]
  <2>1. ix.deposited_amount <= balance[s] /\ balance[m] + ix.deposited_amount <= MaxU64
    BY <1>2, <1>5, <1>6, Accounts DEF U64
  <2>2. balance'[m] = balance[m] + ix.deposited_amount
    BY <1>2, <1>6, <2>1, Accounts, Transfer
  <2> QED
    BY <1>2, <1>5, <1>6, <2>1, <2>2, Accounts, Transfer DEF U64
<1>8. lamports' \in [Wallets -> Nat]
  BY <1>2, TimelockAssumption DEF TypeOK, CreateRent, AtaRent
<1> QED
  BY <1>2, <1>3, <1>4, <1>7, <1>8

(* topup_stream adds the same amount to the deposit and to the escrow.     *)
LEMMA TopUp ==
  ASSUME TypeOK, NEW m \in Streams, NEW s \in Wallets, NEW amount \in U64,
         topup_stream(m, s, amount)
  PROVE  /\ m \in opened /\ meta[m] # NoMeta
         /\ ToppedUp(m, amount) \in StreamInstruction
         /\ closable(ToppedUp(m, amount)) \in U64
         /\ meta' = [meta EXCEPT ![m] =
              [meta[m] EXCEPT !.ix = ToppedUp(m, amount),
                              !.closable_at = closable(ToppedUp(m, amount))]]
         /\ balance' \in [TokenAccounts -> U64]
         /\ balance'[m] = balance[m] + amount
         /\ \A n \in Streams \ {m} : balance'[n] = balance[n]
<1>1. /\ m \in opened /\ meta[m] # NoMeta /\ CanMove(balance, s, m, amount)
      /\ ~ClosablePanics(ToppedUp(m, amount))
      /\ meta' = [meta EXCEPT ![m].ix = ToppedUp(m, amount),
                              ![m].closable_at = closable(ToppedUp(m, amount))]
      /\ balance' = Moved(balance, s, m, amount)
  BY DEF topup_stream, ClosableAfter, Open
<1>2. ToppedUp(m, amount) \in StreamInstruction
  <2>1. WrapAdd(meta[m].ix.deposited_amount, amount) \in U64
    BY <1>1, StreamData, WordArithmetic
  <2> QED
    BY <1>1, <2>1, StreamData DEF ToppedUp, StreamInstruction
<1>3. closable(ToppedUp(m, amount)) \in U64
  BY <1>1, <1>2, ClosableInU64
<1>4. meta' = [meta EXCEPT ![m] =
                [meta[m] EXCEPT !.ix = ToppedUp(m, amount),
                                !.closable_at = closable(ToppedUp(m, amount))]]
  BY <1>1
<1>5. /\ balance' \in [TokenAccounts -> U64]
      /\ balance'[m] = balance[m] + amount
      /\ \A n \in Streams \ {m} : balance'[n] = balance[n]
  BY <1>1, Accounts, Transfer DEF CanMove, TypeOK, SplTypeOK
<1> QED
  BY <1>1, <1>2, <1>3, <1>4, <1>5

-----------------------------------------------------------------------------
(* Pacing.                                                                 *)

(* The part of the total that vests above the cliff amount.                *)
LEMMA WholeInRange ==
  ASSUME NEW ix \in StreamInstruction, InRange(ix)
  PROVE  /\ WrapSub(ix.total_amount, ix.cliff_amount)
               = ix.total_amount - ix.cliff_amount
         /\ ix.total_amount - ix.cliff_amount \in Nat
BY Fields DEF InRange, WrapSub, U64

(* Terms in range leave room for everything the schedule releases.         *)
LEMMA NoOverflow ==
  ASSUME NEW ix \in StreamInstruction, SaneTimes(ix), InRange(ix),
         NEW t \in U64, t <= MaxTime,
         ~NotStarted(ix, t), ~FullyVested(ix, t), ix.period > 0
  PROVE  /\ Released(ix, t) \in Nat
         /\ Released(ix, t) + ix.cliff_amount <= MaxU64
<1>1. t \in U64 /\ t <= MaxTime /\ MaxTime \in Nat
  BY TimelockAssumption
<1>2. CASE Recurring(ix)
  <2>1. /\ Released(ix, t) \in Nat
        /\ Released(ix, t) <= ix.release_rate * t + Imprecision
    BY <1>1, <1>2, RecurringReleased, WordsAreNat
  <2>2. t * ix.release_rate <= MaxTime * ix.release_rate
        /\ t * ix.release_rate \in Nat
    BY <1>1, Fields, ProductMonotone DEF U64
  <2>3. ix.release_rate * t <= ix.release_rate * MaxTime
    BY <1>1, <2>2, Fields DEF U64
  <2>4. ix.cliff_amount + ix.release_rate * MaxTime + Imprecision <= MaxU64
    BY <1>2 DEF InRange
  <2>5. /\ ix.release_rate * t \in Nat /\ ix.release_rate * MaxTime \in Nat
        /\ ix.cliff_amount \in Nat
    BY <1>1, Fields DEF U64
  <2> QED
    BY <2>1, <2>3, <2>4, <2>5, FloatAssumption DEF ReleasesEvenly
<1>3. CASE ~Recurring(ix)
  <2>1. t < ix.end_time
    BY <1>1, <1>3, VestingTimes
  <2>2. Released(ix, t) \in Nat
        /\ Released(ix, t) <= ix.total_amount - ix.cliff_amount + Imprecision
    BY <1>1, <1>3, <2>1, VestingReleased, WholeInRange, WordsAreNat
  <2>3. ix.total_amount + Imprecision <= MaxU64
    BY <1>3 DEF InRange
  <2>4. ix.total_amount \in Nat /\ ix.cliff_amount \in Nat /\ Imprecision \in Nat
    BY Fields, WordsAreNat, FloatAssumption DEF ReleasesEvenly
  <2> QED
    BY <2>2, <2>3, <2>4
<1> QED
  BY <1>2, <1>3

(* Paying no more than what is available keeps to what was released.       *)
LEMMA PacedPayment ==
  ASSUME TypeOK, NEW d \in TokenStreamData, SaneTimes(d.ix), InRange(d.ix),
         ~AvailablePanics(d.ix, now), WithinReleased(d), NEW paid \in U64,
         paid <= available(d.ix, d.withdrawn_amount, now),
         NEW e \in TokenStreamData, e.ix = d.ix,
         e.withdrawn_amount = WrapAdd(d.withdrawn_amount, paid)
  PROVE  WithinReleased(e)
<1>1. d.ix \in StreamInstruction /\ d.withdrawn_amount \in U64
      /\ now \in U64 /\ now <= MaxTime
  BY ClockInU64, TimelockAssumption DEF TypeOK, TokenStreamData
<1>2. CASE NotStarted(d.ix, now)
  <2>1. d.withdrawn_amount = 0 /\ paid = 0
    BY <1>2 DEF WithinReleased, available, U64
  <2> QED
    BY <1>2, <2>1 DEF WithinReleased, WrapAdd
<1>3. CASE ~NotStarted(d.ix, now) /\ FullyVested(d.ix, now)
  BY <1>3 DEF WithinReleased
<1>4. CASE ~NotStarted(d.ix, now) /\ ~FullyVested(d.ix, now)
  <2> DEFINE rel == Released(d.ix, now)
  <2>1. d.ix.period > 0
    BY <1>1, <1>4, Fields DEF AvailablePanics, U64
  <2>2. rel \in Nat /\ rel + d.ix.cliff_amount <= MaxU64
    BY <1>1, <1>4, <2>1, NoOverflow
  <2>3. d.withdrawn_amount <= d.ix.cliff_amount + rel
    BY <1>1, <1>4, <2>2, Fields DEF WithinReleased, U64
  <2>4. available(d.ix, d.withdrawn_amount, now)
          = WrapSub(WrapAdd(rel, d.ix.cliff_amount), d.withdrawn_amount)
    BY <1>4 DEF available
  <2> HIDE DEF rel
  <2>5. WrapAdd(d.withdrawn_amount, paid) <= d.ix.cliff_amount + rel
    BY <1>1, <2>2, <2>3, <2>4, Fields DEF WrapAdd, WrapSub, U64
  <2> QED
    BY <1>4, <2>1, <2>5 DEF WithinReleased, rel
<1> QED
  BY <1>2, <1>3, <1>4

(* Time only releases more.                                                *)
LEMMA PacedTick ==
  ASSUME TypeOK, NEW d \in TokenStreamData, SaneTimes(d.ix), InRange(d.ix),
         WithinReleased(d), Tick
  PROVE  /\ NotStarted(d.ix, now + 1) => d.withdrawn_amount = 0
         /\ ~NotStarted(d.ix, now + 1) =>
              \/ FullyVested(d.ix, now + 1)
              \/ d.withdrawn_amount = 0
              \/ /\ d.ix.period > 0
                 /\ d.withdrawn_amount
                      <= d.ix.cliff_amount + Released(d.ix, now + 1)
<1> DEFINE ix == d.ix
<1>1. ix \in StreamInstruction /\ d.withdrawn_amount \in U64
  BY DEF TokenStreamData
<1>2. now \in U64 /\ now + 1 \in U64
  BY ClockInU64 DEF Tick
<1>3. NotStarted(ix, now + 1) => NotStarted(ix, now)
  BY <1>1, <1>2, Fields DEF NotStarted, U64
<1>4. FullyVested(ix, now) => FullyVested(ix, now + 1)
  BY <1>1, <1>2, Fields DEF FullyVested, U64
<1>5. CASE NotStarted(ix, now) \/ FullyVested(ix, now) \/ d.withdrawn_amount = 0
  BY <1>3, <1>4, <1>5 DEF WithinReleased
<1>6. CASE ~NotStarted(ix, now) /\ ~FullyVested(ix, now) /\ d.withdrawn_amount # 0
  <2>1. ix.period > 0 /\ d.withdrawn_amount <= ix.cliff_amount + Released(ix, now)
    BY <1>6 DEF WithinReleased
  <2>2. ~FullyVested(ix, now + 1) => ~NotStarted(ix, now + 1)
    BY <1>3, <1>6
  <2>3. ~FullyVested(ix, now + 1) =>
          /\ Released(ix, now) \in Nat
          /\ Released(ix, now + 1) \in U64
          /\ Released(ix, now) <= Released(ix, now + 1)
    <3>1. SUFFICES ASSUME ~FullyVested(ix, now + 1)
                   PROVE  /\ Released(ix, now) \in Nat
                          /\ Released(ix, now + 1) \in U64
                          /\ Released(ix, now) <= Released(ix, now + 1)
      OBVIOUS
    <3>2. Released(ix, now + 1) \in U64
      BY <1>1, <1>2, <2>1, <2>2, <3>1, ReleasedInU64
    <3>3. CASE Recurring(ix)
      BY <1>1, <1>2, <1>6, <2>1, <3>2, <3>3, RecurringReleased, WordsAreNat
    <3>4. CASE ~Recurring(ix)
      <4>1. now < ix.end_time
        BY <1>1, <1>2, <1>6, <3>4, VestingTimes
      <4>2. now + 1 < ix.end_time
        BY <1>1, <1>2, <3>1, <3>4, Fields DEF FullyVested, U64
      <4> QED
        BY <1>1, <1>2, <1>6, <2>1, <3>2, <3>4, <4>1, <4>2, VestingReleased,
           WordsAreNat
    <3> QED
      BY <3>3, <3>4
  <2> QED
    BY <1>1, <1>3, <1>6, <2>1, <2>3, Fields DEF U64
<1> QED
  BY <1>5, <1>6

-----------------------------------------------------------------------------
(* The invariant is inductive.                                             *)

(* An instruction writes the data d of one stream m and leaves the escrow  *)
(* accounts of the others alone: what remains to be shown of it.           *)
LEMMA OneStream ==
  ASSUME IInv, NEW m \in Streams, NEW d \in TokenStreamData,
         now' = now, stray' = stray,
         meta' = [meta EXCEPT ![m] = d],
         lamports' \in [Wallets -> Nat],
         opened' \subseteq TokenAccounts,
         \A n \in Streams \ {m} : n \in opened' <=> n \in opened,
         balance' \in [TokenAccounts -> U64],
         \A n \in Streams \ {m} : balance'[n] = balance[n],
         m \in opened' =>
           balance'[m] = WrapSub(WrapAdd(d.ix.deposited_amount, stray[m]),
                                 d.withdrawn_amount),
         m \notin opened' => balance'[m] = 0,
         SaneTimes(d.ix),
         InRange(d.ix) => WithinReleased(d)
  PROVE  IInv'
<1>1. /\ meta' \in [Streams -> TokenStreamData \cup {NoMeta}]
      /\ meta'[m] = d /\ d # NoMeta
      /\ \A n \in Streams \ {m} : meta'[n] = meta[n]
  BY Written DEF IInv
<1>2. TypeOK'
  BY <1>1 DEF IInv, TypeOK, SplTypeOK
<1>3. StrayNeedsEscrow'
  BY <1>1 DEF IInv, StrayNeedsEscrow
<1>4. EscrowBacked'
  <2>1. SUFFICES ASSUME NEW n \in Streams
                 PROVE  /\ n \in opened' => meta'[n] # NoMeta
                        /\ balance'[n] =
                             IF n \in opened'
                               THEN WrapSub(WrapAdd(meta'[n].ix.deposited_amount,
                                                    stray'[n]),
                                            meta'[n].withdrawn_amount)
                               ELSE 0
    BY DEF EscrowBacked
  <2>2. CASE n = m
    BY <1>1, <2>2
  <2>3. CASE n # m
    BY <1>1, <2>3 DEF IInv, EscrowBacked
  <2> QED
    BY <2>2, <2>3
<1>5. TermsSane'
  BY <1>1 DEF IInv, TermsSane
<1>6. Paced'
  <2>1. SUFFICES ASSUME NEW n \in Streams, meta'[n] # NoMeta, InRange(meta'[n].ix)
                 PROVE  WithinReleased(meta[n])'
    BY DEF Paced
  <2>2. CASE n = m
    BY <1>1, <2>1, <2>2 DEF WithinReleased
  <2>3. CASE n # m
    BY <1>1, <2>1, <2>3 DEF IInv, Paced, WithinReleased
  <2> QED
    BY <2>2, <2>3
<1> QED
  BY <1>2, <1>3, <1>4, <1>5, <1>6 DEF IInv

LEMMA CreateKeepsIInv ==
  ASSUME IInv, NEW m \in Streams, NEW s \in Wallets, NEW r \in Wallets,
         NEW ix \in Instructions, create(m, s, r, ix)
  PROVE  IInv'
<1> DEFINE d == NewStream(s, r, ix)
<1>1. /\ meta[m] = NoMeta /\ d \in TokenStreamData
      /\ SaneTimes(ix) /\ NotStarted(ix, now)
      /\ meta' = [meta EXCEPT ![m] = d]
      /\ balance' \in [TokenAccounts -> U64]
      /\ balance'[m] = ix.deposited_amount
      /\ \A n \in Streams \ {m} : balance'[n] = balance[n]
      /\ opened' = opened \cup {r, m}
      /\ lamports' \in [Wallets -> Nat]
  BY Creation DEF IInv
<1>2. d.ix = ix /\ d.withdrawn_amount = 0
  BY DEF NewStream
<1>3. stray[m] = 0 /\ ix.deposited_amount \in U64
  BY <1>1, <1>2 DEF IInv, StrayNeedsEscrow, TokenStreamData, StreamInstruction
<1>4. now' = now /\ stray' = stray
  BY DEF create
<1>5. /\ opened' \subseteq TokenAccounts
      /\ \A n \in Streams \ {m} : n \in opened' <=> n \in opened
      /\ m \in opened'
  BY <1>1, Accounts DEF IInv, TypeOK, SplTypeOK
<1>6. balance'[m] = WrapSub(WrapAdd(d.ix.deposited_amount, stray[m]),
                            d.withdrawn_amount)
  BY <1>1, <1>2, <1>3, BooksAtStart
<1>7. WithinReleased(d)
  BY <1>1, <1>2 DEF WithinReleased
<1> HIDE DEF d
<1> QED
  BY <1>1, <1>2, <1>4, <1>5, <1>6, <1>7, OneStream

LEMMA WithdrawKeepsIInv ==
  ASSUME IInv, NEW m \in Streams, NEW r \in Wallets, NEW s \in Wallets,
         NEW amount \in U64, withdraw(m, r, s, amount)
  PROVE  IInv'
<1>1. meta[m] # NoMeta /\ m \in opened /\ now' = now /\ stray' = stray
  BY DEF withdraw, WithdrawOk, Open
<1>2. PICK paid \in U64 :
        /\ paid <= Available(m) /\ paid <= balance[m]
        /\ Available(m) \in U64
        /\ ~AvailablePanics(meta[m].ix, now)
        /\ meta' = [meta EXCEPT ![m] =
             [meta[m] EXCEPT !.withdrawn_amount =
                               WrapAdd(meta[m].withdrawn_amount, paid),
                             !.last_withdrawn_at = now]]
        /\ balance' \in [TokenAccounts -> U64]
        /\ balance'[m] = balance[m] - paid
        /\ \A n \in Streams \ {m} : balance'[n] = balance[n]
  BY Withdrawal DEF IInv
<1>3. /\ \/ opened' = opened
         \/ opened' = opened \ {m} /\ balance'[m] = 0
      /\ lamports' \in [Wallets -> Nat]
  BY Withdrawal DEF IInv
<1> DEFINE d == [meta[m] EXCEPT !.withdrawn_amount =
                                  WrapAdd(meta[m].withdrawn_amount, paid),
                                !.last_withdrawn_at = now]
<1>4. /\ meta[m] \in TokenStreamData /\ meta[m].ix \in StreamInstruction
      /\ meta[m].withdrawn_amount \in U64
      /\ meta[m].ix.deposited_amount \in U64 /\ stray[m] \in U64
  BY <1>1, StreamData DEF IInv, TypeOK
<1>5. /\ WrapAdd(meta[m].withdrawn_amount, paid) \in U64
      /\ now \in U64
  BY <1>4, WordArithmetic, ClockInU64 DEF IInv
<1>6. /\ d \in TokenStreamData /\ d.ix = meta[m].ix
      /\ d.withdrawn_amount = WrapAdd(meta[m].withdrawn_amount, paid)
  BY <1>4, <1>5 DEF TokenStreamData
<1>7. meta' = [meta EXCEPT ![m] = d]
  BY <1>2
<1> HIDE DEF d
<1>8. balance'[m] = WrapSub(WrapAdd(d.ix.deposited_amount, stray[m]),
                            d.withdrawn_amount)
  <2> DEFINE received == WrapAdd(meta[m].ix.deposited_amount, stray[m])
  <2>1. received \in U64
    BY <1>4, WordArithmetic
  <2>2. balance[m] = WrapSub(received, meta[m].withdrawn_amount)
    BY <1>1 DEF IInv, EscrowBacked
  <2> HIDE DEF received
  <2>3. WrapSub(received, d.withdrawn_amount) = balance[m] - paid
    BY <1>2, <1>4, <1>6, <2>1, <2>2, BooksAfterPayment
  <2> QED
    BY <1>2, <1>6, <2>3 DEF received
<1>9. SaneTimes(meta[m].ix)
  BY <1>1 DEF IInv, TermsSane
<1>10. InRange(d.ix) => WithinReleased(d)
  <2>1. SUFFICES ASSUME InRange(meta[m].ix) PROVE WithinReleased(d)
    BY <1>6
  <2>2. WithinReleased(meta[m])
    BY <1>1, <2>1 DEF IInv, Paced
  <2> QED
    BY <1>2, <1>4, <1>6, <1>9, <2>1, <2>2, PacedPayment DEF IInv, Available
<1>11. /\ opened' \subseteq TokenAccounts
       /\ \A n \in Streams \ {m} : n \in opened' <=> n \in opened
  BY <1>3 DEF IInv, TypeOK, SplTypeOK
<1>12. m \notin opened' => balance'[m] = 0
  BY <1>1, <1>3
<1> QED
  BY <1>1, <1>2, <1>3, <1>6, <1>7, <1>8, <1>9, <1>10, <1>11, <1>12, OneStream

LEMMA CancelKeepsIInv ==
  ASSUME IInv, NEW m \in Streams, NEW c \in Wallets, NEW s \in Wallets,
         NEW r \in Wallets, cancel(m, c, s, r)
  PROVE  IInv'
<1>1. /\ meta[m] # NoMeta
      /\ ~AvailablePanics(meta[m].ix, now)
      /\ Available(m) \in U64
      /\ balance' \in [TokenAccounts -> U64]
      /\ balance'[m] = 0
      /\ \A n \in Streams \ {m} : balance'[n] = balance[n]
      /\ opened' = opened \ {m}
      /\ lamports' \in [Wallets -> Nat]
      /\ now' = now /\ stray' = stray
  BY Cancellation DEF IInv, cancel
<1>2. PICK last \in U64, at \in U64 :
        meta' = [meta EXCEPT ![m] =
          [meta[m] EXCEPT !.withdrawn_amount =
                            WrapAdd(meta[m].withdrawn_amount, Available(m)),
                          !.last_withdrawn_at = last,
                          !.canceled_at = at]]
  BY Cancellation DEF IInv
<1> DEFINE d == [meta[m] EXCEPT !.withdrawn_amount =
                                  WrapAdd(meta[m].withdrawn_amount, Available(m)),
                                !.last_withdrawn_at = last,
                                !.canceled_at = at]
<1>3. /\ meta[m] \in TokenStreamData
      /\ WrapAdd(meta[m].withdrawn_amount, Available(m)) \in U64
  BY <1>1, StreamData, WordArithmetic DEF IInv
<1>4. /\ d \in TokenStreamData /\ d.ix = meta[m].ix
      /\ d.withdrawn_amount = WrapAdd(meta[m].withdrawn_amount, Available(m))
  BY <1>3 DEF TokenStreamData
<1>5. meta' = [meta EXCEPT ![m] = d]
  BY <1>2
<1> HIDE DEF d
<1>6. SaneTimes(meta[m].ix)
  BY <1>1 DEF IInv, TermsSane
<1>7. InRange(d.ix) => WithinReleased(d)
  <2>1. SUFFICES ASSUME InRange(meta[m].ix) PROVE WithinReleased(d)
    BY <1>4
  <2>2. WithinReleased(meta[m])
    BY <1>1, <2>1 DEF IInv, Paced
  <2>3. Available(m) <= available(meta[m].ix, meta[m].withdrawn_amount, now)
    BY <1>1 DEF Available, U64
  <2> QED
    BY <1>1, <1>3, <1>4, <1>6, <2>1, <2>2, <2>3, PacedPayment DEF IInv
<1>8. /\ opened' \subseteq TokenAccounts
      /\ \A n \in Streams \ {m} : n \in opened' <=> n \in opened
      /\ m \notin opened'
  BY <1>1 DEF IInv, TypeOK, SplTypeOK
<1> QED
  BY <1>1, <1>4, <1>5, <1>6, <1>7, <1>8, OneStream

LEMMA TransferRecipientKeepsIInv ==
  ASSUME IInv, NEW m \in Streams, NEW w \in Wallets, NEW r \in Wallets,
         transfer_recipient(m, w, r)
  PROVE  IInv'
<1>1. /\ meta[m] # NoMeta /\ m \in opened
      /\ r \notin opened => lamports[w] >= TokenRent + Lps
      /\ meta' = [meta EXCEPT ![m].recipient = r]
      /\ opened' = opened \cup {r}
      /\ lamports' = [lamports EXCEPT ![w] = @ - AtaRent(r)]
      /\ now' = now /\ balance' = balance /\ stray' = stray
  BY DEF transfer_recipient, TransferAffordable, Open
<1> DEFINE d == [meta[m] EXCEPT !.recipient = r]
<1>2. meta[m] \in TokenStreamData
  BY <1>1, StreamData DEF IInv
<1>3. /\ d \in TokenStreamData /\ d.ix = meta[m].ix
      /\ d.withdrawn_amount = meta[m].withdrawn_amount
  BY <1>2 DEF TokenStreamData
<1>4. meta' = [meta EXCEPT ![m] = d]
  BY <1>1
<1> HIDE DEF d
<1>5. SaneTimes(d.ix) /\ (InRange(d.ix) => WithinReleased(d))
  BY <1>1, <1>3 DEF IInv, TermsSane, Paced, WithinReleased
<1>6. lamports' \in [Wallets -> Nat]
  BY <1>1, TimelockAssumption DEF IInv, TypeOK, AtaRent
<1>7. /\ opened' \subseteq TokenAccounts /\ m \in opened'
      /\ \A n \in Streams \ {m} : n \in opened' <=> n \in opened
  BY <1>1, Accounts DEF IInv, TypeOK, SplTypeOK
<1>8. balance' \in [TokenAccounts -> U64]
  BY <1>1 DEF IInv, TypeOK, SplTypeOK
<1>9. balance'[m] = WrapSub(WrapAdd(d.ix.deposited_amount, stray[m]),
                            d.withdrawn_amount)
  BY <1>1, <1>3 DEF IInv, EscrowBacked
<1> QED
  BY <1>1, <1>3, <1>4, <1>5, <1>6, <1>7, <1>8, <1>9, OneStream

LEMMA TopUpKeepsIInv ==
  ASSUME IInv, NEW m \in Streams, NEW s \in Wallets, NEW amount \in U64,
         topup_stream(m, s, amount)
  PROVE  IInv'
<1>1. /\ m \in opened /\ meta[m] # NoMeta
      /\ ToppedUp(m, amount) \in StreamInstruction
      /\ balance' \in [TokenAccounts -> U64]
      /\ balance'[m] = balance[m] + amount
      /\ \A n \in Streams \ {m} : balance'[n] = balance[n]
      /\ now' = now /\ opened' = opened
      /\ lamports' = lamports /\ stray' = stray
  BY TopUp DEF IInv, topup_stream
<1> DEFINE at == closable(ToppedUp(m, amount))
           d == [meta[m] EXCEPT !.ix = ToppedUp(m, amount), !.closable_at = at]
<1>2. at \in U64 /\ meta' = [meta EXCEPT ![m] = d]
  BY TopUp DEF IInv
<1> HIDE DEF at
<1>3. /\ meta[m] \in TokenStreamData /\ meta[m].ix \in StreamInstruction
      /\ meta[m].withdrawn_amount \in U64
      /\ meta[m].ix.deposited_amount \in U64 /\ stray[m] \in U64
  BY <1>1, StreamData DEF IInv, TypeOK
<1>4. /\ d \in TokenStreamData /\ d.ix = ToppedUp(m, amount)
      /\ d.withdrawn_amount = meta[m].withdrawn_amount
  BY <1>1, <1>2, <1>3 DEF TokenStreamData
<1>5. meta' = [meta EXCEPT ![m] = d]
  BY <1>2
<1> HIDE DEF d
<1>6. d.ix = [meta[m].ix EXCEPT !.deposited_amount =
                WrapAdd(meta[m].ix.deposited_amount, amount)]
  BY <1>4 DEF ToppedUp
<1>7. /\ d.ix.deposited_amount = WrapAdd(meta[m].ix.deposited_amount, amount)
      /\ d.ix.start_time = meta[m].ix.start_time
      /\ d.ix.end_time = meta[m].ix.end_time
      /\ d.ix.total_amount = meta[m].ix.total_amount
      /\ d.ix.period = meta[m].ix.period
      /\ d.ix.cliff = meta[m].ix.cliff
      /\ d.ix.cliff_amount = meta[m].ix.cliff_amount
      /\ d.ix.release_rate = meta[m].ix.release_rate
  BY <1>3, <1>6 DEF StreamInstruction
<1>8. SaneTimes(d.ix)
  BY <1>1, <1>7 DEF IInv, TermsSane, SaneTimes
<1>9. InRange(d.ix) => WithinReleased(d)
  <2>1. SUFFICES ASSUME InRange(d.ix) PROVE WithinReleased(d)
    OBVIOUS
  <2>2. InRange(meta[m].ix)
    BY <1>7, <2>1 DEF InRange, Recurring
  <2>3. WithinReleased(meta[m])
    BY <1>1, <2>2 DEF IInv, Paced
  <2>4. /\ NotStarted(d.ix, now) <=> NotStarted(meta[m].ix, now)
        /\ FullyVested(d.ix, now) <=> FullyVested(meta[m].ix, now)
        /\ Released(d.ix, now) = Released(meta[m].ix, now)
    BY <1>7 DEF NotStarted, FullyVested, Recurring, Released, PeriodsPassed,
                PeriodAmount, CliffTime
  <2> QED
    BY <1>4, <1>7, <2>3, <2>4 DEF WithinReleased
<1>10. balance'[m] = WrapSub(WrapAdd(d.ix.deposited_amount, stray[m]),
                             d.withdrawn_amount)
  <2>1. balance[m] = WrapSub(WrapAdd(meta[m].ix.deposited_amount, stray[m]),
                             meta[m].withdrawn_amount)
    BY <1>1 DEF IInv, EscrowBacked
  <2>2. balance[m] + amount <= MaxU64
    BY DEF topup_stream, CanMove
  <2> QED
    BY <1>1, <1>3, <1>4, <1>7, <2>1, <2>2, BooksAfterDeposit
<1>11. lamports' \in [Wallets -> Nat] /\ opened' \subseteq TokenAccounts
  BY <1>1 DEF IInv, TypeOK, SplTypeOK
<1> QED
  BY <1>1, <1>4, <1>5, <1>8, <1>9, <1>10, <1>11, OneStream

(* Steps of the token program's other users leave the streams' data alone. *)
LEMMA SameStreams ==
  ASSUME IInv, now' = now, meta' = meta, TypeOK',
         StrayNeedsEscrow', EscrowBacked'
  PROVE  IInv'
BY DEF IInv, TermsSane, Paced, WithinReleased

LEMMA EnvironmentKeepsIInv ==
  ASSUME IInv, Environment
  PROVE  IInv'
<1>1. ASSUME NEW w \in Wallets, NEW to \in Wallets, NEW amount \in OutsideAmounts,
             PlainTransfer(w, to, amount)
      PROVE  IInv'
  <2>1. /\ w # to /\ CanMove(balance, w, to, amount) /\ amount \in U64
        /\ balance' = Moved(balance, w, to, amount)
        /\ now' = now /\ meta' = meta /\ opened' = opened
        /\ lamports' = lamports /\ stray' = stray
    BY <1>1, TimelockAssumption DEF PlainTransfer
  <2>2. /\ balance' \in [TokenAccounts -> U64]
        /\ \A m \in Streams : balance'[m] = balance[m]
    BY <2>1, Accounts, Transfer DEF CanMove, IInv, TypeOK, SplTypeOK
  <2> QED
    BY <2>1, <2>2, SameStreams
    DEF IInv, TypeOK, SplTypeOK, EscrowBacked, StrayNeedsEscrow
<1>2. ASSUME NEW w \in Wallets, NEW m \in Streams, NEW amount \in OutsideAmounts,
             StrayTransfer(w, m, amount)
      PROVE  IInv'
  <2>1. /\ CanMove(balance, w, m, amount) /\ amount \in U64
        /\ balance' = Moved(balance, w, m, amount)
        /\ stray' = [stray EXCEPT ![m] = WrapAdd(stray[m], amount)]
        /\ now' = now /\ meta' = meta /\ opened' = opened /\ lamports' = lamports
    BY <1>2, TimelockAssumption DEF StrayTransfer
  <2>2. /\ balance' \in [TokenAccounts -> U64]
        /\ balance'[m] = balance[m] + amount
        /\ \A n \in Streams \ {m} : balance'[n] = balance[n]
    BY <2>1, Accounts, Transfer DEF CanMove, IInv, TypeOK, SplTypeOK
  <2>3. /\ stray' \in [Streams -> U64]
        /\ stray'[m] = WrapAdd(stray[m], amount)
        /\ \A n \in Streams \ {m} : stray'[n] = stray[n]
    BY <2>1, WordArithmetic DEF IInv, TypeOK
  <2>4. m \in opened /\ meta[m] # NoMeta /\ balance[m] + amount <= MaxU64
    BY <2>1 DEF CanMove, IInv, EscrowBacked
  <2>5. balance'[m] = WrapSub(WrapAdd(meta[m].ix.deposited_amount, stray'[m]),
                              meta[m].withdrawn_amount)
    BY <2>1, <2>2, <2>3, <2>4, StreamData, BooksAfterDeposit
    DEF IInv, EscrowBacked, TypeOK
  <2>6. TypeOK' /\ StrayNeedsEscrow'
    BY <2>1, <2>2, <2>3, <2>4 DEF IInv, TypeOK, SplTypeOK, StrayNeedsEscrow
  <2>7. EscrowBacked'
    <3>1. SUFFICES ASSUME NEW n \in Streams
                   PROVE  /\ n \in opened => meta[n] # NoMeta
                          /\ balance'[n] =
                               IF n \in opened
                                 THEN WrapSub(WrapAdd(meta[n].ix.deposited_amount,
                                                      stray'[n]),
                                              meta[n].withdrawn_amount)
                                 ELSE 0
      BY <2>1 DEF EscrowBacked
    <3>2. CASE n = m
      BY <2>4, <2>5, <3>2
    <3>3. CASE n # m
      BY <2>2, <2>3, <3>3 DEF IInv, EscrowBacked
    <3> QED
      BY <3>2, <3>3
  <2> QED
    BY <2>1, <2>6, <2>7, SameStreams
<1>3. ASSUME NEW w \in Wallets, CloseAccount(w) \/ OpenAccount(w)
      PROVE  IInv'
  <2>1. /\ now' = now /\ meta' = meta /\ balance' = balance /\ stray' = stray
        /\ opened' = opened \ {w} \/ opened' = opened \cup {w}
    BY <1>3 DEF CloseAccount, OpenAccount
  <2>2. lamports' \in [Wallets -> Nat]
    BY <1>3, TimelockAssumption DEF CloseAccount, OpenAccount, IInv, TypeOK
  <2>3. \A m \in Streams : m \in opened' <=> m \in opened
    BY <2>1, Accounts
  <2>4. TypeOK'
    BY <2>1, <2>2, Accounts DEF IInv, TypeOK, SplTypeOK, TokenAccounts
  <2> QED
    BY <2>1, <2>3, <2>4, SameStreams DEF IInv, EscrowBacked, StrayNeedsEscrow
<1> QED
  BY <1>1, <1>2, <1>3 DEF Environment

LEMMA TickKeepsIInv ==
  ASSUME IInv, Tick
  PROVE  IInv'
<1>1. /\ now < MaxTime /\ now' = now + 1 /\ meta' = meta /\ opened' = opened
      /\ balance' = balance /\ lamports' = lamports /\ stray' = stray
  BY DEF Tick
<1>2. TypeOK'
  BY <1>1, TimelockAssumption DEF IInv, TypeOK, SplTypeOK, U64
<1>3. StrayNeedsEscrow' /\ EscrowBacked' /\ TermsSane'
  BY <1>1 DEF IInv, StrayNeedsEscrow, EscrowBacked, TermsSane
<1>4. Paced'
  <2>1. SUFFICES ASSUME NEW m \in Streams, meta[m] # NoMeta, InRange(meta[m].ix)
                 PROVE  WithinReleased(meta[m])'
    BY <1>1 DEF Paced
  <2>2. /\ meta[m] \in TokenStreamData /\ SaneTimes(meta[m].ix)
        /\ WithinReleased(meta[m])
    BY <2>1, StreamData DEF IInv, TermsSane, Paced
  <2> QED
    BY <1>1, <2>1, <2>2, PacedTick DEF IInv, WithinReleased
<1> QED
  BY <1>2, <1>3, <1>4 DEF IInv

LEMMA InitIInv ==
  ASSUME Init
  PROVE  IInv
<1>1. TypeOK
  BY TimelockAssumption DEF Init, TypeOK, SplTypeOK, TokenAccounts, U64
<1>2. \A m \in Streams : meta[m] = NoMeta /\ stray[m] = 0
                          /\ m \notin opened /\ balance[m] = 0
  BY DisjointAccounts DEF Init, TokenAccounts
<1> QED
  BY <1>1, <1>2 DEF IInv, StrayNeedsEscrow, EscrowBacked, TermsSane, Paced

LEMMA NextKeepsIInv ==
  ASSUME IInv, [Next]_vars
  PROVE  IInv'
<1>1. ASSUME NEW m \in Streams, NEW s \in Wallets, NEW r \in Wallets,
             \E ix \in Instructions : create(m, s, r, ix)
      PROVE  IInv'
  BY <1>1, CreateKeepsIInv
<1>2. ASSUME NEW m \in Streams, NEW s \in Wallets, NEW r \in Wallets,
             \E amount \in Amounts : withdraw(m, r, s, amount)
      PROVE  IInv'
  BY <1>2, WithdrawKeepsIInv, TimelockAssumption
<1>3. ASSUME NEW m \in Streams, NEW s \in Wallets, NEW r \in Wallets,
             \E c \in Wallets : cancel(m, c, s, r)
      PROVE  IInv'
  BY <1>3, CancelKeepsIInv
<1>4. ASSUME NEW m \in Streams, NEW s \in Wallets, NEW r \in Wallets,
             transfer_recipient(m, s, r)
      PROVE  IInv'
  BY <1>4, TransferRecipientKeepsIInv
<1>5. ASSUME NEW m \in Streams, NEW s \in Wallets,
             \E amount \in Amounts : topup_stream(m, s, amount)
      PROVE  IInv'
  BY <1>5, TopUpKeepsIInv, TimelockAssumption
<1>6. CASE Tick
  BY <1>6, TickKeepsIInv
<1>7. CASE Environment
  BY <1>7, EnvironmentKeepsIInv
<1>8. CASE UNCHANGED vars
  BY <1>8 DEF vars, IInv, TypeOK, SplTypeOK, StrayNeedsEscrow, EscrowBacked,
              TermsSane, Paced, WithinReleased
<1> QED
  BY <1>1, <1>2, <1>3, <1>4, <1>5, <1>6, <1>7, <1>8
  DEF Next, process_instruction

(* The inductive invariant holds in every reachable state.                 *)
THEOREM Invariance == Spec => []IInv
<1>1. Init => IInv
  BY InitIInv
<1>2. IInv /\ [Next]_vars => IInv'
  BY NextKeepsIInv
<1> QED
  BY <1>1, <1>2, PTL DEF Spec

(* Type correctness: whatever clients, the token program's other users and *)
(* the clock do, every amount and timestamp the program computes and       *)
(* stores is a word and no account goes below zero.                        *)
THEOREM TypeCorrectness == Spec => []TypeOK
<1>1. IInv => TypeOK
  BY DEF IInv
<1> QED
  BY <1>1, Invariance, PTL

(* Solvency: create, withdraw, cancel and topup_stream keep the books of   *)
(* the metadata and the tokens of the escrow account in agreement, also    *)
(* where the u64 arithmetic of the deposit or the withdrawals wraps.       *)
THEOREM Solvency == Spec => []EscrowBacked
<1>1. IInv => EscrowBacked
  BY DEF IInv
<1> QED
  BY <1>1, Invariance, PTL

-----------------------------------------------------------------------------
(* The vesting promise.                                                    *)

(* Whole periods stay below the line that NeverAhead draws.                *)
LEMMA ReleasedBelowLine ==
  ASSUME TypeOK, NEW d \in TokenStreamData, SaneTimes(d.ix), InRange(d.ix),
         WithinReleased(d)
  PROVE  WithinSchedule(d)
<1> DEFINE ix == d.ix
           span == ix.end_time - CliffTime(ix)
           whole == ix.total_amount - ix.cliff_amount
           elapsed == now - CliffTime(ix)
           beyond == d.withdrawn_amount - ix.cliff_amount - Imprecision
           beyondLine == Released(ix, now) - Imprecision
<1>1. /\ ix \in StreamInstruction /\ d.withdrawn_amount \in U64 /\ now \in U64
      /\ Imprecision \in Nat
  BY ClockInU64, FloatAssumption DEF TokenStreamData, ReleasesEvenly
<1>2. CASE NotStarted(ix, now)
  BY <1>2 DEF WithinReleased, WithinSchedule
<1>3. CASE ~NotStarted(ix, now) /\ Recurring(ix)
  <2>1. /\ ix.period \in Nat /\ ix.release_rate \in Nat /\ elapsed \in Nat
        /\ beyond \in Int /\ ix.release_rate * elapsed \in Nat
    BY <1>1, <1>3, Fields, VestingTimes DEF U64
  <2>2. CASE beyond <= 0
    <3> HIDE DEF elapsed, beyond
    <3>1. beyond * ix.period <= 0
      BY <2>1, <2>2
    <3> QED
      BY <1>3, <2>1, <3>1 DEF WithinSchedule, elapsed, beyond
  <2>3. CASE beyond > 0
    <3>1. ix.period > 0 /\ d.withdrawn_amount <= ix.cliff_amount + Released(ix, now)
      BY <1>1, <1>3, <2>3, Fields DEF WithinReleased, FullyVested, U64
    <3>2. /\ Released(ix, now) \in U64
          /\ beyondLine * ix.period <= ix.release_rate * elapsed
      BY <1>1, <1>3, <3>1, RecurringReleased
    <3>3. beyondLine \in Int /\ beyond <= beyondLine
      BY <1>1, <3>1, <3>2, Fields DEF U64
    <3> HIDE DEF elapsed, beyond, beyondLine
    <3>4. beyond * ix.period <= beyondLine * ix.period
      BY <2>1, <3>3, ProductMonotoneInt
    <3>5. beyond * ix.period <= ix.release_rate * elapsed
      BY <2>1, <3>2, <3>3, <3>4
    <3> QED
      BY <1>3, <3>5 DEF WithinSchedule, elapsed, beyond
  <2> QED
    BY <2>1, <2>2, <2>3
<1>4. CASE ~NotStarted(ix, now) /\ ~Recurring(ix)
  <2>1. SUFFICES ASSUME now < ix.end_time
                 PROVE  beyond * span <= whole * elapsed
    BY <1>4 DEF WithinSchedule
  <2>2. ~FullyVested(ix, now)
    BY <1>1, <2>1, Fields DEF FullyVested, U64
  <2>3. /\ span \in Nat /\ whole \in Nat /\ elapsed \in Nat
        /\ beyond \in Int /\ whole * elapsed \in Nat
    BY <1>1, <1>4, Fields, VestingTimes, WholeInRange DEF U64
  <2>4. CASE beyond <= 0
    <3> HIDE DEF span, whole, elapsed, beyond
    <3>1. beyond * span <= 0
      BY <2>3, <2>4
    <3> QED
      BY <2>3, <3>1
  <2>5. CASE beyond > 0
    <3>1. d.withdrawn_amount # 0
      BY <1>1, <2>5, Fields DEF U64
    <3>2. /\ ix.period > 0
          /\ d.withdrawn_amount <= ix.cliff_amount + Released(ix, now)
      BY <1>4, <2>2, <3>1 DEF WithinReleased
    <3>3. /\ Released(ix, now) \in U64
          /\ beyondLine * span <= whole * elapsed
      BY <1>1, <1>4, <2>1, <3>2, VestingReleased, WholeInRange
    <3>4. beyondLine \in Int /\ beyond <= beyondLine
      BY <1>1, <3>2, <3>3, Fields DEF U64
    <3> HIDE DEF span, whole, elapsed, beyond, beyondLine
    <3>5. beyond * span <= beyondLine * span
      BY <2>3, <3>4, ProductMonotoneInt
    <3> QED
      BY <2>3, <3>3, <3>4, <3>5
  <2> QED
    BY <2>3, <2>4, <2>5
<1> QED
  BY <1>2, <1>3, <1>4

(* The vesting promise: no sequence of withdrawals, cancels, top-ups and   *)
(* recipient transfers gets the recipient side ahead of the schedule.      *)
THEOREM VestingPromise == Spec => []NeverAhead
<1>1. IInv => NeverAhead
  <2>1. SUFFICES ASSUME IInv, NEW m \in Streams, meta[m] # NoMeta,
                        InRange(meta[m].ix)
                 PROVE  WithinSchedule(meta[m])
    BY DEF NeverAhead
  <2>2. WithinReleased(meta[m]) /\ SaneTimes(meta[m].ix) /\ TypeOK
    BY <2>1 DEF IInv, Paced, TermsSane
  <2>3. meta[m] \in TokenStreamData
    BY <2>1, <2>2, StreamData
  <2> QED
    BY <2>1, <2>2, <2>3, ReleasedBelowLine
<1> QED
  BY <1>1, Invariance, PTL

-----------------------------------------------------------------------------
(* A closed stream.                                                        *)

(* No instruction applies to a closed stream: each wants its escrow open,  *)
(* or, create, its metadata account empty; and nothing else touches it.    *)
LEMMA ClosedStays ==
  ASSUME IInv, [Next]_vars, NEW m \in Streams, Closed(m)
  PROVE  meta'[m] = meta[m] /\ m \notin opened' /\ balance'[m] = 0
<1>1. meta[m] # NoMeta /\ m \notin opened /\ balance[m] = 0
  BY DEF Closed, IInv, EscrowBacked
<1>2. TypeOK /\ EscrowBacked /\ TermsSane
  BY DEF IInv
<1>3. meta \in [Streams -> TokenStreamData \cup {NoMeta}]
  BY <1>2 DEF TypeOK
<1>4. ASSUME NEW n \in Streams, NEW s \in Wallets, NEW r \in Wallets,
             NEW ix \in Instructions, create(n, s, r, ix)
      PROVE  meta'[m] = meta[m] /\ m \notin opened' /\ balance'[m] = 0
  <2>1. n # m
    BY <1>1, <1>4 DEF create, Fresh
  <2> QED
    BY <1>1, <1>2, <1>3, <1>4, <2>1, Creation, Accounts
<1>5. ASSUME NEW n \in Streams, NEW s \in Wallets, NEW r \in Wallets,
             NEW amount \in U64, withdraw(n, r, s, amount)
      PROVE  meta'[m] = meta[m] /\ m \notin opened' /\ balance'[m] = 0
  <2>1. n # m
    BY <1>1, <1>5 DEF withdraw, WithdrawOk, Open
  <2>2. balance'[m] = balance[m]
    BY <1>2, <1>5, <2>1, Withdrawal
  <2> QED
    BY <1>1, <1>3, <1>5, <2>1, <2>2 DEF withdraw
<1>6. ASSUME NEW n \in Streams, NEW c \in Wallets, NEW s \in Wallets,
             NEW r \in Wallets, cancel(n, c, s, r)
      PROVE  meta'[m] = meta[m] /\ m \notin opened' /\ balance'[m] = 0
  <2>1. n # m
    BY <1>1, <1>6 DEF cancel, CancelOk, Open
  <2>2. balance'[m] = balance[m]
    BY <1>2, <1>6, <2>1, Cancellation
  <2> QED
    BY <1>1, <1>3, <1>6, <2>1, <2>2 DEF cancel
<1>7. ASSUME NEW n \in Streams, NEW w \in Wallets, NEW r \in Wallets,
             transfer_recipient(n, w, r)
      PROVE  meta'[m] = meta[m] /\ m \notin opened' /\ balance'[m] = 0
  BY <1>1, <1>3, <1>7, Accounts DEF transfer_recipient, Open
<1>8. ASSUME NEW n \in Streams, NEW s \in Wallets, NEW amount \in U64,
             topup_stream(n, s, amount)
      PROVE  meta'[m] = meta[m] /\ m \notin opened' /\ balance'[m] = 0
  <2>1. n # m
    BY <1>1, <1>8 DEF topup_stream, Open
  <2>2. balance'[m] = balance[m]
    BY <1>2, <1>8, <2>1, TopUp
  <2> QED
    BY <1>1, <1>3, <1>8, <2>1, <2>2 DEF topup_stream
<1>9. ASSUME NEW w \in Wallets, NEW to \in TokenAccounts, NEW amount \in U64,
             CanMove(balance, w, to, amount),
             balance' = Moved(balance, w, to, amount), w # to,
             meta' = meta, opened' = opened
      PROVE  meta'[m] = meta[m] /\ m \notin opened' /\ balance'[m] = 0
  BY <1>1, <1>2, <1>9, Accounts, Transfer DEF CanMove, TypeOK, SplTypeOK
<1>10. CASE Tick
  BY <1>1, <1>10 DEF Tick
<1>11. CASE Environment
  <2>1. ASSUME NEW w \in Wallets, NEW to \in Wallets,
               NEW amount \in OutsideAmounts, PlainTransfer(w, to, amount)
        PROVE  meta'[m] = meta[m] /\ m \notin opened' /\ balance'[m] = 0
    BY <1>9, <2>1, TimelockAssumption DEF PlainTransfer, TokenAccounts
  <2>2. ASSUME NEW w \in Wallets, NEW n \in Streams,
               NEW amount \in OutsideAmounts, StrayTransfer(w, n, amount)
        PROVE  meta'[m] = meta[m] /\ m \notin opened' /\ balance'[m] = 0
    BY <1>9, <2>2, TimelockAssumption, Accounts DEF StrayTransfer
  <2>3. ASSUME NEW w \in Wallets, CloseAccount(w) \/ OpenAccount(w)
        PROVE  meta'[m] = meta[m] /\ m \notin opened' /\ balance'[m] = 0
    BY <1>1, <2>3, Accounts DEF CloseAccount, OpenAccount
  <2> QED
    BY <1>11, <2>1, <2>2, <2>3 DEF Environment
<1>12. CASE UNCHANGED vars
  BY <1>1, <1>12 DEF vars
<1> QED
  BY <1>4, <1>5, <1>6, <1>7, <1>8, <1>10, <1>11, <1>12, TimelockAssumption
  DEF Next, process_instruction

(* Whatever arrives late (a retried withdraw, a second cancel, a top-up, a *)
(* create with the key of an old stream), a closed stream stays as it is.  *)
THEOREM Finality == Spec => ClosedForGood
<1>1. IInv /\ [Next]_vars =>
        [\A m \in Streams :
           Closed(m) => /\ meta'[m] = meta[m]
                        /\ m \notin opened'
                        /\ balance'[m] = 0]_vars
  BY ClosedStays
<1> QED
  BY <1>1, Invariance, PTL DEF Spec, ClosedForGood

-----------------------------------------------------------------------------
(* A withdraw by r that pays amount paid and leaves d in the books.        *)
WithdrawStep(m, r, paid, d) ==
  /\ meta[m] # NoMeta /\ m \in opened /\ r = meta[m].recipient
  /\ ~AvailablePanics(meta[m].ix, now)
  /\ paid <= Available(m) /\ paid <= balance[m]
  /\ balance[r] + paid <= MaxU64
  /\ balance' = Moved(balance, m, r, paid)
  /\ d = [meta[m] EXCEPT
            !.withdrawn_amount = WrapAdd(meta[m].withdrawn_amount, paid),
            !.last_withdrawn_at = now]
  /\ d.withdrawn_amount = WrapAdd(meta[m].withdrawn_amount, paid)
  /\ d.ix = meta[m].ix /\ d.sender = meta[m].sender
  /\ d.recipient = meta[m].recipient
  /\ meta' = [meta EXCEPT ![m] = d]
  /\ \/ opened' = opened
     \/ /\ opened' = opened \ {m} /\ balance'[m] = 0
        /\ d.withdrawn_amount = d.ix.deposited_amount

(* What withdraw does to the accounts of the recipient and the escrow.     *)
LEMMA WithdrawPays ==
  ASSUME IInv, NEW m \in Streams, NEW r \in Wallets, NEW s \in Wallets,
         NEW amount \in U64, withdraw(m, r, s, amount)
  PROVE  \E paid \in U64, d \in TokenStreamData : WithdrawStep(m, r, paid, d)
<1> DEFINE paid == Requested(amount, Available(m))
           d == [meta[m] EXCEPT !.withdrawn_amount =
                                  WrapAdd(meta[m].withdrawn_amount, paid),
                                !.last_withdrawn_at = now]
<1>1. /\ meta[m] # NoMeta /\ m \in opened /\ r = meta[m].recipient
      /\ ~AvailablePanics(meta[m].ix, now)
      /\ amount <= Available(m) /\ CanMove(balance, m, r, paid)
      /\ balance' = Moved(balance, m, r, paid)
  BY DEF withdraw, WithdrawOk, Open
<1>2. paid \in U64 /\ paid <= Available(m)
  <2>1. Available(m) \in U64
    BY <1>1, StreamData, ClockInU64, AvailableInU64 DEF Available, IInv, TermsSane
  <2> QED
    BY <1>1, <2>1 DEF Requested, U64
<1>3. /\ meta' = [meta EXCEPT ![m].withdrawn_amount = WithdrawnAfter(m, paid),
                              ![m].last_withdrawn_at = now]
      /\ \/ opened' = opened
         \/ /\ opened' = opened \ {m} /\ balance'[m] = 0
            /\ WithdrawnAfter(m, paid) = meta[m].ix.deposited_amount
  BY <1>1 DEF withdraw, WithdrawOk, CanClose, Exhausts
<1> HIDE DEF paid
<1>4. meta' = [meta EXCEPT ![m] = d]
  BY <1>3 DEF WithdrawnAfter
<1>5. /\ d \in TokenStreamData /\ d.ix = meta[m].ix /\ d.sender = meta[m].sender
      /\ d.recipient = meta[m].recipient
      /\ d.withdrawn_amount = WrapAdd(meta[m].withdrawn_amount, paid)
  <2>1. meta[m] \in TokenStreamData /\ now \in U64
        /\ WrapAdd(meta[m].withdrawn_amount, paid) \in U64
    BY <1>1, <1>2, StreamData, ClockInU64, WordArithmetic DEF IInv
  <2> QED
    BY <2>1 DEF TokenStreamData
<1> HIDE DEF d
<1>6. paid <= balance[m] /\ balance[r] + paid <= MaxU64
  BY <1>1 DEF CanMove
<1>7. \/ opened' = opened
      \/ /\ opened' = opened \ {m} /\ balance'[m] = 0
         /\ d.withdrawn_amount = d.ix.deposited_amount
  BY <1>3, <1>5 DEF WithdrawnAfter
<1> QED
  BY <1>1, <1>2, <1>4, <1>5, <1>6, <1>7 DEF d, WithdrawStep

(* A cancel that leaves d in the books.                                    *)
CancelStep(m, s, r, d) ==
  /\ meta[m] # NoMeta /\ m \in opened
  /\ r = meta[m].recipient /\ s = meta[m].sender
  /\ ~AvailablePanics(meta[m].ix, now)
  /\ Available(m) \in U64 /\ Remains(m) \in U64
  /\ Available(m) <= balance[m]
  /\ balance[r] + Available(m) <= MaxU64
  /\ AfterPay(m, r)[s] + Remains(m) <= MaxU64
  /\ balance' = Moved(Moved(balance, m, r, Available(m)), m, s, Remains(m))
  /\ balance[m] = Available(m) + Remains(m) /\ balance'[m] = 0
  /\ d.withdrawn_amount = WrapAdd(meta[m].withdrawn_amount, Available(m))
  /\ d.ix = meta[m].ix /\ d.sender = meta[m].sender
  /\ d.recipient = meta[m].recipient
  /\ meta' = [meta EXCEPT ![m] = d]
  /\ opened' = opened \ {m}

(* What cancel does to the accounts of both parties and the escrow.        *)
LEMMA CancelPays ==
  ASSUME IInv, NEW m \in Streams, NEW c \in Wallets, NEW s \in Wallets,
         NEW r \in Wallets, cancel(m, c, s, r)
  PROVE  \E d \in TokenStreamData : CancelStep(m, s, r, d)
<1> DEFINE last == IF Expired(m) THEN meta[m].last_withdrawn_at ELSE now
           at == IF Expired(m) THEN meta[m].canceled_at ELSE now
           d == [meta[m] EXCEPT !.withdrawn_amount =
                                  WrapAdd(meta[m].withdrawn_amount, Available(m)),
                                !.last_withdrawn_at = last,
                                !.canceled_at = at]
<1>1. /\ meta[m] # NoMeta /\ m \in opened
      /\ r = meta[m].recipient /\ s = meta[m].sender
      /\ ~AvailablePanics(meta[m].ix, now)
      /\ CanMove(balance, m, r, Available(m))
      /\ Remains(m) > 0 => CanMove(AfterPay(m, r), m, s, Remains(m))
      /\ CanClose(AfterRefund(m, s, r), m)
      /\ balance' = AfterRefund(m, s, r) /\ opened' = opened \ {m}
  BY DEF cancel, CancelOk, Open, PartiesMatch
<1>2. Available(m) \in U64 /\ Remains(m) \in U64
  <2>1. Available(m) \in U64
    BY <1>1, StreamData, ClockInU64, AvailableInU64 DEF Available, IInv, TermsSane
  <2> QED
    BY <1>1, <2>1, StreamData, WordArithmetic DEF Remains, WithdrawnAfter, IInv
<1>3. Available(m) <= balance[m] /\ balance[r] + Available(m) <= MaxU64
  BY <1>1 DEF CanMove
<1>4. /\ AfterPay(m, r) \in [TokenAccounts -> U64]
      /\ AfterPay(m, r)[m] = balance[m] - Available(m)
  BY <1>2, <1>3, Accounts, Transfer DEF AfterPay, IInv, TypeOK, SplTypeOK
<1>5. /\ Remains(m) <= AfterPay(m, r)[m]
      /\ AfterPay(m, r)[s] + Remains(m) <= MaxU64
  BY <1>1, <1>2, <1>4, Accounts DEF CanMove, U64
<1>6. balance'[m] = AfterPay(m, r)[m] - Remains(m)
  BY <1>1, <1>2, <1>4, <1>5, Accounts, Transfer DEF AfterRefund
<1>7. balance'[m] = 0 /\ balance[m] = Available(m) + Remains(m)
  BY <1>1, <1>2, <1>4, <1>6, Accounts DEF CanClose, IInv, TypeOK, SplTypeOK, U64
<1>8. /\ d \in TokenStreamData /\ d.ix = meta[m].ix /\ d.sender = meta[m].sender
      /\ d.recipient = meta[m].recipient
      /\ d.withdrawn_amount = WrapAdd(meta[m].withdrawn_amount, Available(m))
  <2>1. /\ meta[m] \in TokenStreamData /\ last \in U64 /\ at \in U64
        /\ WrapAdd(meta[m].withdrawn_amount, Available(m)) \in U64
    BY <1>1, <1>2, StreamData, ClockInU64, WordArithmetic DEF IInv, TokenStreamData
  <2> HIDE DEF last, at
  <2> QED
    BY <2>1 DEF TokenStreamData
<1>9. meta' = [meta EXCEPT ![m] = d]
  BY DEF cancel, WithdrawnAfter
<1> HIDE DEF d
<1> QED
  BY <1>1, <1>2, <1>3, <1>5, <1>7, <1>8, <1>9
  DEF AfterRefund, AfterPay, CancelStep
-----------------------------------------------------------------------------
(* What each action takes from the escrow of stream m.                     *)

LEMMA WalletsPay ==
  ASSUME TypeOK, NEW from \in Wallets, NEW to \in TokenAccounts,
         NEW amount \in U64, balance' = Moved(balance, from, to, amount),
         NEW m \in Streams
  PROVE  balance'[m] >= balance[m]
<1>1. m # from /\ m \in TokenAccounts /\ from \in TokenAccounts
  BY DisjointAccounts DEF TokenAccounts
<1>2. balance[m] \in Nat /\ amount \in Nat
  BY <1>1, MaxU64Assumption DEF TypeOK, SplTypeOK, U64
<1>3. \/ balance'[m] = balance[m]
      \/ balance'[m] = balance[m] + amount
  BY <1>1 DEF Moved, TypeOK, SplTypeOK
<1> QED
  BY <1>2, <1>3

LEMMA EnvironmentTakesNothing ==
  ASSUME TypeOK, Tick \/ Environment, NEW m \in Streams
  PROVE  balance'[m] >= balance[m]
<1>1. balance[m] \in Nat
  BY MaxU64Assumption DEF TypeOK, SplTypeOK, TokenAccounts, U64
<1>2. CASE UNCHANGED balance
  BY <1>1, <1>2
<1>3. ASSUME NEW w \in Wallets, NEW to \in Wallets,
             NEW amount \in OutsideAmounts, PlainTransfer(w, to, amount)
      PROVE  balance'[m] >= balance[m]
  BY <1>3, WalletsPay, TimelockAssumption DEF PlainTransfer, TokenAccounts
<1>4. ASSUME NEW w \in Wallets, NEW n \in Streams,
             NEW amount \in OutsideAmounts, StrayTransfer(w, n, amount)
      PROVE  balance'[m] >= balance[m]
  BY <1>4, WalletsPay, TimelockAssumption DEF StrayTransfer, TokenAccounts
<1> QED
  BY <1>2, <1>3, <1>4 DEF Tick, Environment, CloseAccount, OpenAccount

LEMMA CreateTakesNothing ==
  ASSUME TypeOK, NEW n \in Streams, NEW s \in Wallets, NEW r \in Wallets,
         NEW ix \in Instructions, create(n, s, r, ix), NEW m \in Streams
  PROVE  balance'[m] >= balance[m]
<1>1. ix.deposited_amount \in U64
  BY TimelockAssumption DEF StreamInstruction
<1> QED
  BY <1>1, WalletsPay DEF create, TokenAccounts

(* withdraw and cancel move tokens from the escrow of their own stream, to *)
(* wallets.                                                                *)
LEMMA WithdrawTakesItsOwn ==
  ASSUME TypeOK, NEW n \in Streams, NEW r \in Wallets, NEW s \in Wallets,
         NEW amount \in U64, withdraw(n, r, s, amount), NEW m \in Streams,
         balance'[m] < balance[m]
  PROVE  m = n /\ r = meta[m].recipient
<1>1. m # r /\ m \in TokenAccounts /\ balance[m] \in Nat
  BY DisjointAccounts, MaxU64Assumption
     DEF TokenAccounts, TypeOK, SplTypeOK, U64
<1>2. balance' = Moved(balance, n, r, Requested(amount, Available(n)))
      /\ r = meta[n].recipient
  BY DEF withdraw, WithdrawOk
<1>3. m # n => balance'[m] = balance[m]
  BY <1>1, <1>2 DEF Moved, TypeOK, SplTypeOK
<1> QED
  BY <1>1, <1>2, <1>3

LEMMA CancelTakesItsOwn ==
  ASSUME TypeOK, NEW n \in Streams, NEW c \in Wallets, NEW s \in Wallets,
         NEW r \in Wallets, cancel(n, c, s, r), NEW m \in Streams,
         balance'[m] < balance[m]
  PROVE  m = n /\ s = meta[m].sender /\ r = meta[m].recipient
<1>1. m # r /\ m # s /\ m \in TokenAccounts /\ balance[m] \in Nat
  BY DisjointAccounts, MaxU64Assumption
     DEF TokenAccounts, TypeOK, SplTypeOK, U64
<1>2. /\ balance' = Moved(Moved(balance, n, r, Available(n)), n, s, Remains(n))
      /\ s = meta[n].sender /\ r = meta[n].recipient
  BY DEF cancel, CancelOk, PartiesMatch, AfterRefund, AfterPay
<1>3. m # n => balance'[m] = balance[m]
  BY <1>1, <1>2 DEF Moved, TypeOK, SplTypeOK
<1> QED
  BY <1>1, <1>2, <1>3

LEMMA TopUpTakesNothing ==
  ASSUME TypeOK, NEW n \in Streams, NEW s \in Wallets, NEW amount \in Amounts,
         topup_stream(n, s, amount), NEW m \in Streams
  PROVE  balance'[m] >= balance[m]
BY WalletsPay, TimelockAssumption DEF topup_stream, TokenAccounts

-----------------------------------------------------------------------------
(* Who is paid.                                                            *)

PaysParties(m) ==
  LET d == meta[m]
      paid == WrapSub(meta'[m].withdrawn_amount, d.withdrawn_amount)
  IN /\ \A a \in TokenAccounts \ {m, d.sender, d.recipient} :
            balance'[a] = balance[a]
     /\ d.sender # d.recipient =>
          /\ balance'[d.recipient] = balance[d.recipient] + paid
          /\ balance'[d.sender] =
               balance[d.sender] + (balance[m] - balance'[m]) - paid

(* What is booked is what was added, also when the sum wraps around.       *)
LEMMA BookedIsAdded ==
  ASSUME NEW a \in U64, NEW b \in U64
  PROVE  WrapSub(WrapAdd(a, b), a) = b
BY DEF U64, WrapAdd, WrapSub

LEMMA WithdrawPaysParties ==
  ASSUME IInv, NEW m \in Streams, NEW r \in Wallets, NEW s \in Wallets,
         NEW amount \in U64, withdraw(m, r, s, amount)
  PROVE  PaysParties(m)
<1>1. PICK paid \in U64, d \in TokenStreamData : WithdrawStep(m, r, paid, d)
  BY WithdrawPays
<1>2. /\ TypeOK /\ meta[m] # NoMeta /\ r = meta[m].recipient
      /\ paid <= balance[m] /\ balance[r] + paid <= MaxU64
      /\ balance' = Moved(balance, m, r, paid)
      /\ meta' = [meta EXCEPT ![m] = d]
      /\ d.withdrawn_amount = WrapAdd(meta[m].withdrawn_amount, paid)
  BY <1>1 DEF WithdrawStep, IInv
<1>3. /\ meta[m].withdrawn_amount \in U64 /\ meta[m].sender \in Wallets
      /\ meta'[m] = d
  BY <1>2, StreamData DEF TypeOK
<1>4. WrapSub(meta'[m].withdrawn_amount, meta[m].withdrawn_amount) = paid
  BY <1>2, <1>3, BookedIsAdded
<1>5. /\ balance'[m] = balance[m] - paid /\ balance'[r] = balance[r] + paid
      /\ \A a \in TokenAccounts \ {m, r} : balance'[a] = balance[a]
  BY <1>2, Accounts, Transfer DEF TypeOK, SplTypeOK
<1>6. /\ m \in TokenAccounts /\ meta[m].sender \in TokenAccounts
      /\ meta[m].sender # m
      /\ balance[m] \in Nat /\ balance[meta[m].sender] \in Nat /\ paid \in Nat
  BY <1>2, <1>3, Accounts, WordsAreNat DEF TypeOK, SplTypeOK
<1>7. meta[m].sender # r =>
        balance'[meta[m].sender] =
          balance[meta[m].sender] + (balance[m] - balance'[m]) - paid
  BY <1>5, <1>6
<1> QED
  BY <1>2, <1>4, <1>5, <1>7 DEF PaysParties

LEMMA CancelPaysParties ==
  ASSUME IInv, NEW m \in Streams, NEW c \in Wallets, NEW s \in Wallets,
         NEW r \in Wallets, cancel(m, c, s, r)
  PROVE  PaysParties(m)
<1> DEFINE paid == Available(m)
           left == Moved(balance, m, r, Available(m))
<1>1. PICK d \in TokenStreamData : CancelStep(m, s, r, d)
  BY CancelPays
<1>2. /\ TypeOK /\ meta[m] # NoMeta
      /\ r = meta[m].recipient /\ s = meta[m].sender
      /\ paid \in U64 /\ Remains(m) \in U64
      /\ paid <= balance[m] /\ balance[r] + paid <= MaxU64
      /\ left[s] + Remains(m) <= MaxU64
      /\ balance' = Moved(left, m, s, Remains(m))
      /\ balance[m] = paid + Remains(m) /\ balance'[m] = 0
      /\ meta' = [meta EXCEPT ![m] = d]
      /\ d.withdrawn_amount = WrapAdd(meta[m].withdrawn_amount, paid)
  BY <1>1 DEF CancelStep, AfterPay, IInv
<1> HIDE DEF paid, left
<1>3. /\ meta[m].withdrawn_amount \in U64 /\ meta'[m] = d
  BY <1>2, StreamData DEF TypeOK
<1>4. WrapSub(meta'[m].withdrawn_amount, meta[m].withdrawn_amount) = paid
  BY <1>2, <1>3, BookedIsAdded
<1>5. /\ left \in [TokenAccounts -> U64]
      /\ left[m] = balance[m] - paid /\ left[r] = balance[r] + paid
      /\ \A a \in TokenAccounts \ {m, r} : left[a] = balance[a]
  BY <1>2, Accounts, Transfer DEF TypeOK, SplTypeOK, left, paid
<1>6. /\ balance[m] \in Nat /\ balance[s] \in Nat /\ balance[r] \in Nat
      /\ paid \in Nat /\ Remains(m) \in Nat
  BY <1>2, Accounts, WordsAreNat DEF TypeOK, SplTypeOK
<1>7. /\ balance'[s] = left[s] + Remains(m)
      /\ \A a \in TokenAccounts \ {m, s} : balance'[a] = left[a]
  <2>1. Remains(m) <= left[m]
    BY <1>2, <1>5, <1>6
  <2> QED
    BY <1>2, <1>5, <2>1, Accounts, Transfer
<1>8. \A a \in TokenAccounts \ {m, s, r} : balance'[a] = balance[a]
  BY <1>5, <1>7
<1>9. s # r => /\ balance'[r] = balance[r] + paid
               /\ balance'[s] = balance[s] + (balance[m] - balance'[m]) - paid
  <2>1. s # r => balance'[r] = left[r] /\ left[s] = balance[s]
    BY <1>5, <1>7, Accounts
  <2> QED
    BY <1>2, <1>5, <1>6, <1>7, <2>1
<1> QED
  BY <1>2, <1>4, <1>8, <1>9 DEF PaysParties

(* Only withdraw and cancel take tokens out of an escrow, and what they    *)
(* take goes to the parties that the metadata names.                       *)
THEOREM PartiesArePaid == Spec => EscrowPaysParties
<1>1. ASSUME IInv, Next, NEW m \in Streams, balance'[m] < balance[m]
      PROVE  PaysParties(m)
  <2>1. TypeOK /\ ~(balance'[m] >= balance[m]) /\ ~UNCHANGED balance
    <3>1. IInv'
      BY <1>1, NextKeepsIInv
    <3>2. balance[m] \in Nat /\ balance'[m] \in Nat
      BY <1>1, <3>1, WordsAreNat DEF IInv, TypeOK, SplTypeOK, TokenAccounts
    <3> QED
      BY <1>1, <3>2 DEF IInv
  <2>2. process_instruction
    BY <1>1, <2>1, EnvironmentTakesNothing DEF Next
  <2>3. PICK n \in Streams, s \in Wallets, r \in Wallets :
          \/ \E ix \in Instructions : create(n, s, r, ix)
          \/ \E amount \in Amounts : withdraw(n, r, s, amount)
          \/ \E c \in Wallets : cancel(n, c, s, r)
          \/ transfer_recipient(n, s, r)
          \/ \E amount \in Amounts : topup_stream(n, s, amount)
    BY <2>2 DEF process_instruction
  <2>4. ASSUME NEW ix \in Instructions, create(n, s, r, ix) PROVE FALSE
    BY <2>1, <2>4, CreateTakesNothing
  <2>5. ASSUME NEW amount \in Amounts, withdraw(n, r, s, amount)
        PROVE  PaysParties(m)
    <3>1. amount \in U64
      BY TimelockAssumption
    <3>2. m = n
      BY <1>1, <2>1, <2>5, <3>1, WithdrawTakesItsOwn
    <3> QED
      BY <1>1, <2>5, <3>1, <3>2, WithdrawPaysParties
  <2>6. ASSUME NEW c \in Wallets, cancel(n, c, s, r)
        PROVE  PaysParties(m)
    <3>1. m = n
      BY <1>1, <2>1, <2>6, CancelTakesItsOwn
    <3> QED
      BY <1>1, <2>6, <3>1, CancelPaysParties
  <2>7. ASSUME transfer_recipient(n, s, r) PROVE FALSE
    BY <2>1, <2>7 DEF transfer_recipient
  <2>8. ASSUME NEW amount \in Amounts, topup_stream(n, s, amount) PROVE FALSE
    BY <2>1, <2>8, TopUpTakesNothing
  <2> QED
    BY <2>3, <2>4, <2>5, <2>6, <2>7, <2>8
<1>2. IInv /\ [Next]_vars =>
        [\A m \in Streams : balance'[m] < balance[m] => PaysParties(m)]_vars
  BY <1>1
<1>3. Spec => [][\A m \in Streams :
                   balance'[m] < balance[m] => PaysParties(m)]_vars
  BY <1>2, Invariance, PTL DEF Spec
<1> QED
  BY <1>3 DEF EscrowPaysParties, PaysParties

-----------------------------------------------------------------------------
(* What a stream has paid when it is closed.                               *)

(* With what was withdrawn before, the payment of a cancel comes to the    *)
(* deposit or to what the schedule has reached.                            *)
LEMMA LastPaymentIsFair ==
  ASSUME IInv, NEW m \in Streams, meta[m] # NoMeta, InRange(meta[m].ix),
         ~AvailablePanics(meta[m].ix, now)
  PROVE  WrapAdd(meta[m].withdrawn_amount, Available(m))
           \in {meta[m].ix.deposited_amount, Entitled(meta[m].ix)}
<1> DEFINE ix == meta[m].ix
           w == meta[m].withdrawn_amount
<1>1. /\ ix \in StreamInstruction /\ w \in U64 /\ ix.deposited_amount \in U64
      /\ SaneTimes(ix) /\ InRange(ix) /\ WithinReleased(meta[m])
      /\ now \in U64 /\ now <= MaxTime /\ ~AvailablePanics(ix, now)
  BY StreamData, ClockInU64 DEF IInv, TermsSane, Paced, TypeOK
<1>2. \A a \in U64 : WrapAdd(w, WrapSub(a, w)) = a
  BY <1>1 DEF U64, WrapAdd, WrapSub
<1>3. CASE NotStarted(ix, now)
  <2>1. w = 0 /\ Available(m) = 0 /\ Entitled(ix) = 0
    BY <1>1, <1>3 DEF WithinReleased, Available, available, Entitled
  <2> QED
    BY <2>1 DEF WrapAdd
<1>4. CASE ~NotStarted(ix, now) /\ FullyVested(ix, now)
  <2>1. Available(m) = WrapSub(ix.deposited_amount, w)
    BY <1>4 DEF Available, available
  <2> QED
    BY <1>1, <1>2, <2>1
<1>5. CASE ~NotStarted(ix, now) /\ ~FullyVested(ix, now)
  <2>1. /\ Available(m) = WrapSub(WrapAdd(Released(ix, now), ix.cliff_amount), w)
        /\ Entitled(ix) = ix.cliff_amount + Released(ix, now)
    BY <1>5 DEF Available, available, Entitled
  <2>2. ix.period > 0
    BY <1>1, <1>5, Fields DEF AvailablePanics, U64
  <2>3. /\ Released(ix, now) \in Nat
        /\ Released(ix, now) + ix.cliff_amount <= MaxU64
    BY <1>1, <1>5, <2>2, NoOverflow
  <2>4. ix.cliff_amount \in Nat
    BY <1>1, Fields, WordsAreNat
  <2>5. /\ WrapAdd(Released(ix, now), ix.cliff_amount) = Entitled(ix)
        /\ Entitled(ix) \in U64
    BY <2>1, <2>3, <2>4 DEF WrapAdd, U64
  <2> QED
    BY <1>2, <2>1, <2>5
<1> QED
  BY <1>3, <1>4, <1>5

(* withdraw closes an escrow when the whole deposit was withdrawn; cancel  *)
(* pays what is missing from what the schedule has reached.                *)
THEOREM FairSettlement == Spec => SettledFairly
<1>1. ASSUME IInv, Next, NEW m \in Streams, Open(m), m \notin opened',
             InRange(meta[m].ix)
      PROVE  meta'[m].withdrawn_amount
               \in {meta[m].ix.deposited_amount, Entitled(meta[m].ix)}
  <2>1. m \in opened /\ meta[m] # NoMeta /\ TypeOK
    BY <1>1 DEF Open, IInv
  <2>2. ~(Tick \/ Environment)
    BY <1>1, <2>1, Accounts
       DEF Tick, Environment, PlainTransfer, StrayTransfer, CloseAccount,
           OpenAccount
  <2>3. PICK n \in Streams, s \in Wallets, r \in Wallets :
          \/ \E ix \in Instructions : create(n, s, r, ix)
          \/ \E amount \in Amounts : withdraw(n, r, s, amount)
          \/ \E c \in Wallets : cancel(n, c, s, r)
          \/ transfer_recipient(n, s, r)
          \/ \E amount \in Amounts : topup_stream(n, s, amount)
    BY <1>1, <2>2 DEF Next, process_instruction
  <2>4. CASE \E amount \in Amounts : withdraw(n, r, s, amount)
    <3>1. PICK paid \in U64, d \in TokenStreamData : WithdrawStep(n, r, paid, d)
      BY <1>1, <2>4, WithdrawPays, TimelockAssumption
    <3>2. /\ m = n /\ meta' = [meta EXCEPT ![n] = d] /\ d.ix = meta[n].ix
          /\ d.withdrawn_amount = d.ix.deposited_amount
      BY <1>1, <2>1, <3>1 DEF WithdrawStep
    <3> QED
      BY <2>1, <3>2 DEF TypeOK
  <2>5. CASE \E c \in Wallets : cancel(n, c, s, r)
    <3>1. PICK d \in TokenStreamData : CancelStep(n, s, r, d)
      BY <1>1, <2>5, CancelPays
    <3>2. /\ m = n /\ meta' = [meta EXCEPT ![n] = d]
          /\ ~AvailablePanics(meta[n].ix, now)
          /\ d.withdrawn_amount = WrapAdd(meta[n].withdrawn_amount, Available(n))
      BY <1>1, <2>1, <3>1 DEF CancelStep
    <3>3. meta'[m] = d
      BY <2>1, <3>2 DEF TypeOK
    <3> QED
      BY <1>1, <2>1, <3>2, <3>3, LastPaymentIsFair
  <2>6. ~\E ix \in Instructions : create(n, s, r, ix)
    BY <1>1, <2>1 DEF create
  <2>7. ~transfer_recipient(n, s, r)
    BY <1>1, <2>1 DEF transfer_recipient
  <2>8. ~\E amount \in Amounts : topup_stream(n, s, amount)
    BY <1>1, <2>1 DEF topup_stream
  <2> QED
    BY <2>3, <2>4, <2>5, <2>6, <2>7, <2>8
<1>2. IInv /\ [Next]_vars =>
        [\A m \in Streams :
           Open(m) /\ m \notin opened' /\ InRange(meta[m].ix) =>
             meta'[m].withdrawn_amount
               \in {meta[m].ix.deposited_amount, Entitled(meta[m].ix)}]_vars
  BY <1>1
<1> QED
  BY <1>2, Invariance, PTL DEF Spec, SettledFairly
=============================================================================
