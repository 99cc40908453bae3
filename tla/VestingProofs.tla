--------------------------- MODULE VestingProofs ---------------------------
(***************************************************************************)
(* Facts about the arithmetic of Vesting, for every word width and every   *)
(* stream: what the invariants of Timelock rest on.                        *)
(***************************************************************************)
EXTENDS Vesting, TLAPS

USE MaxU64Assumption

(* Sums and differences of two words are words.                            *)
LEMMA WordArithmetic ==
  ASSUME NEW a \in U64, NEW b \in U64
  PROVE  WrapAdd(a, b) \in U64 /\ WrapSub(a, b) \in U64
BY DEF U64, WrapAdd, WrapSub

LEMMA WordsAreNat == U64 \subseteq Nat
BY DEF U64

(* The books of an escrow, deposit + stray - withdrawn in word arithmetic, *)
(* follow a payment out of it, a deposit and a stray transfer into it.     *)
LEMMA BooksAfterPayment ==
  ASSUME NEW received \in U64, NEW withdrawn \in U64, NEW paid \in U64,
         paid <= WrapSub(received, withdrawn)
  PROVE  WrapSub(received, WrapAdd(withdrawn, paid))
           = WrapSub(received, withdrawn) - paid
BY DEF U64, WrapAdd, WrapSub

LEMMA BooksAfterDeposit ==
  ASSUME NEW deposit \in U64, NEW others \in U64, NEW withdrawn \in U64,
         NEW amount \in U64,
         WrapSub(WrapAdd(deposit, others), withdrawn) + amount <= MaxU64
  PROVE  /\ WrapSub(WrapAdd(WrapAdd(deposit, amount), others), withdrawn)
              = WrapSub(WrapAdd(deposit, others), withdrawn) + amount
         /\ WrapSub(WrapAdd(deposit, WrapAdd(others, amount)), withdrawn)
              = WrapSub(WrapAdd(deposit, others), withdrawn) + amount
BY DEF U64, WrapAdd, WrapSub

LEMMA BooksAtStart ==
  ASSUME NEW deposit \in U64
  PROVE  WrapSub(WrapAdd(deposit, 0), 0) = deposit
BY DEF U64, WrapAdd, WrapSub

(* Integer division by a positive number rounds down.                      *)
LEMMA Division ==
  ASSUME NEW n \in Nat, NEW d \in Nat \ {0}
  PROVE  /\ n \div d \in Nat
         /\ d * (n \div d) <= n
         /\ n < d * (n \div d) + d
         /\ n \div d <= n
OBVIOUS

LEMMA DivisionSuccessor ==
  ASSUME NEW n \in Nat, NEW d \in Nat \ {0}
  PROVE  (n + 1) \div d \in {n \div d, n \div d + 1}
OBVIOUS

LEMMA ProductMonotone ==
  ASSUME NEW a \in Nat, NEW b \in Nat, a <= b, NEW c \in Nat
  PROVE  /\ a * c <= b * c
         /\ a * c \in Nat /\ b * c \in Nat
OBVIOUS

LEMMA ProductMonotoneInt ==
  ASSUME NEW a \in Int, NEW b \in Int, a <= b, NEW c \in Nat
  PROVE  a * c <= b * c
OBVIOUS

LEMMA ProductCancel ==
  ASSUME NEW a \in Nat, NEW b \in Nat, NEW c \in Nat \ {0}, c * a <= c * b
  PROVE  a <= b
OBVIOUS

LEMMA QuotientBound ==
  ASSUME NEW q \in Nat, NEW n \in Nat, NEW d \in Nat \ {0}, q * d <= n
  PROVE  q <= n \div d
OBVIOUS

-----------------------------------------------------------------------------
(* The fields of a stream that the arithmetic uses.                        *)
LEMMA Fields ==
  ASSUME NEW ix \in StreamInstruction
  PROVE  /\ ix.start_time \in U64 /\ ix.end_time \in U64
         /\ ix.deposited_amount \in U64 /\ ix.total_amount \in U64
         /\ ix.period \in U64 /\ ix.cliff \in U64
         /\ ix.cliff_amount \in U64 /\ ix.release_rate \in U64
         /\ CliffTime(ix) \in U64
BY DEF StreamInstruction, CliffTime

(* While a stream that is not recurring vests, its cliff lies before its   *)
(* end, and vesting has begun.                                             *)
LEMMA VestingTimes ==
  ASSUME NEW ix \in StreamInstruction, SaneTimes(ix), NEW t \in U64,
         ~NotStarted(ix, t)
  PROVE  /\ CliffTime(ix) <= t /\ CliffTime(ix) <= ix.end_time
         /\ ~FullyVested(ix, t) => Recurring(ix) \/ t < ix.end_time
BY Fields DEF SaneTimes, NotStarted, FullyVested, Recurring, CliffTime, U64

-----------------------------------------------------------------------------
(* How the released amount relates to the straight line of the schedule.   *)

(* The periods passed do not overlap the present one, which has not passed *)
(* yet, and grow with time.                                                *)
LEMMA Periods ==
  ASSUME NEW ix \in StreamInstruction, SaneTimes(ix), NEW t \in U64,
         ~NotStarted(ix, t), ix.period > 0
  PROVE  /\ PeriodsPassed(ix, t) \in U64
         /\ PeriodsPassed(ix, t) * ix.period <= t - CliffTime(ix)
         /\ t - CliffTime(ix) < PeriodsPassed(ix, t) * ix.period + ix.period
         /\ PeriodsPassed(ix, t) <= t
         /\ t + 1 \in U64 => PeriodsPassed(ix, t + 1)
                              \in {PeriodsPassed(ix, t), PeriodsPassed(ix, t) + 1}
<1> DEFINE elapsed == t - CliffTime(ix)
<1>1. elapsed \in Nat /\ elapsed <= t /\ ix.period \in Nat \ {0}
  BY VestingTimes, Fields DEF U64
<1>2. /\ PeriodsPassed(ix, t) = elapsed \div ix.period
      /\ t + 1 \in U64 => PeriodsPassed(ix, t + 1) = (elapsed + 1) \div ix.period
  BY VestingTimes, Fields DEF PeriodsPassed, WrapSub, U64
<1> HIDE DEF elapsed
<1>3. /\ elapsed \div ix.period \in Nat
      /\ ix.period * (elapsed \div ix.period) <= elapsed
      /\ elapsed < ix.period * (elapsed \div ix.period) + ix.period
      /\ elapsed \div ix.period <= elapsed
      /\ (elapsed + 1) \div ix.period
           \in {elapsed \div ix.period, elapsed \div ix.period + 1}
  BY <1>1, Division, DivisionSuccessor
<1> QED
  BY <1>1, <1>2, <1>3, Fields DEF elapsed, U64

(* A recurring stream stays within its rate, and keeps it.                 *)
LEMMA RecurringReleased ==
  ASSUME NEW ix \in StreamInstruction, SaneTimes(ix), NEW t \in U64,
         ~NotStarted(ix, t), ix.period > 0, Recurring(ix)
  PROVE  /\ Released(ix, t) \in U64
         /\ (Released(ix, t) - Imprecision) * ix.period
              <= ix.release_rate * (t - CliffTime(ix))
         /\ Released(ix, t) <= ix.release_rate * t + Imprecision
         /\ ix.release_rate * t <= MaxU64 =>
              PeriodsPassed(ix, t) * ix.release_rate
                <= Released(ix, t) + Imprecision
         /\ t + 1 \in U64 => Released(ix, t) <= Released(ix, t + 1)
<1> DEFINE n == PeriodsPassed(ix, t)
           n1 == PeriodsPassed(ix, t + 1)
           rate == ix.release_rate
           elapsed == t - CliffTime(ix)
           rel == Released(ix, t)
<1>1. /\ n \in U64 /\ n * ix.period <= elapsed /\ n <= t
      /\ t + 1 \in U64 => n1 \in {n, n + 1}
  BY Periods
<1>2. /\ rate \in U64 /\ ix.period \in Nat /\ t \in Nat /\ elapsed \in Nat
  BY Fields, VestingTimes DEF U64
<1>3. /\ rel = ReleasedOver(n, AsF64(rate))
      /\ Released(ix, t + 1) = ReleasedOver(n1, AsF64(rate))
  BY DEF Released, PeriodAmount
<1>4. t + 1 \in U64 => n1 \in U64
  <2>1. SUFFICES ASSUME t + 1 \in U64 PROVE n1 \in U64
    OBVIOUS
  <2>2. ~NotStarted(ix, t + 1)
    BY Fields DEF NotStarted, U64
  <2> QED
    BY <2>1, <2>2, Periods
<1> HIDE DEF n, n1, rate, elapsed, rel
<1>5. /\ rel \in U64 /\ rel <= n * rate + Imprecision /\ Imprecision \in Nat
      /\ n * rate <= MaxU64 => n * rate <= rel + Imprecision
      /\ n + 1 \in U64 => rel <= ReleasedOver(n + 1, AsF64(rate))
  BY <1>1, <1>2, <1>3, FloatAssumption DEF ReleasesEvenly
<1>6. t + 1 \in U64 => rel <= Released(ix, t + 1)
  BY <1>1, <1>3, <1>4, <1>5 DEF U64
<1>7. /\ n \in Nat /\ rate \in Nat /\ rel \in Nat
  BY <1>1, <1>2, <1>5 DEF U64
<1>8. n * rate \in Nat /\ n * rate <= t * rate /\ n * ix.period \in Nat
  BY <1>1, <1>2, <1>7, ProductMonotone
<1>9. (n * ix.period) * rate <= elapsed * rate
  BY <1>1, <1>2, <1>7, <1>8, ProductMonotone
<1>10. (rel - Imprecision) * ix.period <= rate * elapsed
  <2>1. rel - Imprecision <= n * rate
    BY <1>5, <1>7, <1>8
  <2>2. (rel - Imprecision) * ix.period <= (n * rate) * ix.period
    BY <1>2, <1>5, <1>7, <1>8, <2>1, ProductMonotoneInt
  <2>3. (n * rate) * ix.period = (n * ix.period) * rate
        /\ elapsed * rate = rate * elapsed
    BY <1>2, <1>7
  <2>4. /\ (rel - Imprecision) * ix.period \in Int /\ rate * elapsed \in Int
        /\ (n * ix.period) * rate \in Int
    BY <1>2, <1>5, <1>7, <1>8
  <2> QED
    BY <1>9, <2>2, <2>3, <2>4
<1>11. rel <= rate * t + Imprecision
  BY <1>2, <1>5, <1>7, <1>8
<1>12. rate * t <= MaxU64 => n * rate <= rel + Imprecision
  <2>1. t * rate = rate * t /\ rate * t \in Nat
    BY <1>2, <1>7
  <2> QED
    BY <1>5, <1>8, <2>1
<1> QED
  BY <1>5, <1>6, <1>10, <1>11, <1>12 DEF rel, rate, elapsed, n

(* A vesting stream stays below the line from its cliff to its end, and    *)
(* within its total, but for the imprecision of floats, and it releases    *)
(* what its periods are worth, but for that and a token.                   *)
LEMMA VestingReleased ==
  ASSUME NEW ix \in StreamInstruction, SaneTimes(ix), NEW t \in U64,
         ~NotStarted(ix, t), ix.period > 0, ~Recurring(ix), t < ix.end_time
  PROVE  LET whole == WrapSub(ix.total_amount, ix.cliff_amount)
             span == ix.end_time - CliffTime(ix)
         IN /\ Released(ix, t) \in U64
            /\ (Released(ix, t) - Imprecision) * span
                 <= whole * (t - CliffTime(ix))
            /\ Released(ix, t) <= whole + Imprecision
            /\ PeriodsPassed(ix, t) * ix.period * whole
                 <= (Released(ix, t) + 1 + Imprecision) * span
            /\ t + 1 < ix.end_time => Released(ix, t) <= Released(ix, t + 1)
<1> DEFINE n == PeriodsPassed(ix, t)
           n1 == PeriodsPassed(ix, t + 1)
           whole == WrapSub(ix.total_amount, ix.cliff_amount)
           span == ix.end_time - CliffTime(ix)
           elapsed == t - CliffTime(ix)
           amount == PerPeriod(whole, span, ix.period)
           rel == Released(ix, t)
<1>1. t + 1 \in U64 /\ ~NotStarted(ix, t + 1)
  BY Fields DEF NotStarted, U64
<1>2. /\ n \in U64 /\ n1 \in U64 /\ n1 \in {n, n + 1}
      /\ n * ix.period <= elapsed /\ n1 * ix.period <= elapsed + 1
  BY <1>1, Periods, Fields, VestingTimes DEF U64
<1>3. whole \in U64 /\ ix.period \in U64 \ {0}
  BY Fields, WordArithmetic
<1>4. /\ elapsed \in Nat /\ span \in U64 \ {0} /\ elapsed < span
      /\ t + 1 < ix.end_time => elapsed + 1 < span
  BY Fields, VestingTimes DEF U64
<1>5. /\ rel = ReleasedOver(n, amount)
      /\ Released(ix, t + 1) = ReleasedOver(n1, amount)
  <2>1. WrapSub(ix.end_time, CliffTime(ix)) = span
    BY <1>4, Fields DEF WrapSub, U64
  <2> QED
    BY <2>1 DEF Released, PeriodAmount
<1> HIDE DEF n, n1, whole, span, elapsed, rel
<1>6. /\ n \in Nat /\ n1 \in Nat /\ whole \in Nat /\ span \in Nat \ {0}
      /\ ix.period \in Nat \ {0} /\ n * ix.period \in Nat /\ n1 * ix.period \in Nat
  BY <1>2, <1>3, <1>4, ProductMonotone DEF U64
<1>7. /\ n \in 0 .. span \div ix.period
      /\ t + 1 < ix.end_time => n1 <= span \div ix.period
  <2>1. n * ix.period <= span /\ (t + 1 < ix.end_time => n1 * ix.period <= span)
    BY <1>2, <1>4, <1>6
  <2>2. span \div ix.period \in Nat
    BY <1>6, Division
  <2> QED
    BY <1>6, <2>1, <2>2, QuotientBound
<1>8. /\ rel \in U64 /\ Imprecision \in Nat
      /\ rel * span <= n * ix.period * whole + Imprecision * span
      /\ n * ix.period * whole <= (rel + 1 + Imprecision) * span
      /\ n + 1 <= span \div ix.period => rel <= ReleasedOver(n + 1, amount)
  BY <1>3, <1>4, <1>5, <1>7, FloatAssumption DEF ReleasesEvenly
<1> HIDE DEF amount
<1>9. t + 1 < ix.end_time => rel <= Released(ix, t + 1)
  BY <1>2, <1>5, <1>7, <1>8 DEF U64
<1>10. rel \in Nat /\ rel * span \in Nat /\ Imprecision * span \in Nat
  BY <1>6, <1>8, ProductMonotone DEF U64
<1>11. /\ (n * ix.period) * whole <= elapsed * whole
       /\ elapsed * whole <= span * whole
       /\ n * ix.period * whole = (n * ix.period) * whole
       /\ (n * ix.period) * whole \in Nat
  BY <1>2, <1>4, <1>6, ProductMonotone
<1>12. (rel - Imprecision) * span = rel * span - Imprecision * span
  BY <1>6, <1>8, <1>10
<1>13. (rel - Imprecision) * span <= whole * elapsed
  <2>1. elapsed * whole = whole * elapsed /\ whole * elapsed \in Nat
    BY <1>4, <1>6
  <2> QED
    BY <1>8, <1>10, <1>11, <1>12, <2>1
<1>14. rel <= whole + Imprecision
  <2>1. rel * span <= (whole + Imprecision) * span
    <3>1. (whole + Imprecision) * span = span * whole + Imprecision * span
      BY <1>6, <1>8
    <3>2. elapsed * whole \in Nat /\ span * whole \in Nat
      BY <1>4, <1>6
    <3>3. n * ix.period * whole <= span * whole
      BY <1>11, <3>2
    <3>4. rel * span <= span * whole + Imprecision * span
      BY <1>8, <1>10, <1>11, <3>2, <3>3
    <3> QED
      BY <3>1, <3>4
  <2>2. span * rel <= span * (whole + Imprecision)
    BY <1>6, <1>8, <1>10, <2>1
  <2> DEFINE bound == whole + Imprecision
  <2>3. bound \in Nat
    BY <1>6, <1>8
  <2>4. span * rel <= span * bound
    BY <2>2
  <2> HIDE DEF bound
  <2>5. rel <= bound
    BY <1>6, <1>10, <2>3, <2>4, ProductCancel
  <2> QED
    BY <2>5 DEF bound
<1> QED
  BY <1>8, <1>9, <1>13, <1>14 DEF rel, whole, span, elapsed, n

-----------------------------------------------------------------------------
(* The results of available() and closable().                              *)

(* While it vests, what a stream has released is a word.                   *)
LEMMA ReleasedInU64 ==
  ASSUME NEW ix \in StreamInstruction, SaneTimes(ix), NEW t \in U64,
         ~NotStarted(ix, t), ~FullyVested(ix, t), ix.period > 0
  PROVE  Released(ix, t) \in U64
<1>1. CASE Recurring(ix)
  BY <1>1, RecurringReleased
<1>2. CASE ~Recurring(ix)
  <2>1. t < ix.end_time
    BY <1>2, VestingTimes
  <2> QED
    BY <1>2, <2>1, VestingReleased
<1> QED
  BY <1>1, <1>2

(* What withdraw and cancel compute is a word.                             *)
LEMMA AvailableInU64 ==
  ASSUME NEW ix \in StreamInstruction, SaneTimes(ix), NEW t \in U64,
         NEW withdrawn \in U64, ~AvailablePanics(ix, t)
  PROVE  available(ix, withdrawn, t) \in U64
<1>1. CASE NotStarted(ix, t)
  BY <1>1 DEF available, U64
<1>2. CASE ~NotStarted(ix, t) /\ FullyVested(ix, t)
  BY <1>2, Fields, WordArithmetic DEF available
<1>3. CASE ~NotStarted(ix, t) /\ ~FullyVested(ix, t)
  <2>1. ix.period > 0
    BY <1>3, Fields DEF AvailablePanics, U64
  <2>2. Released(ix, t) \in U64
    BY <1>3, <2>1, ReleasedInU64
  <2>3. WrapAdd(Released(ix, t), ix.cliff_amount) \in U64
    BY <2>2, Fields, WordArithmetic
  <2> QED
    BY <1>3, <2>3, WordArithmetic DEF available
<1> QED
  BY <1>1, <1>2, <1>3

(* What create and topup_stream store as closing time is a word.           *)
LEMMA ClosableInU64 ==
  ASSUME NEW ix \in StreamInstruction, ~ClosablePanics(ix)
  PROVE  closable(ix) \in U64
<1>1. CASE BelowCliffAmount(ix)
  BY <1>1, Fields DEF closable
<1>2. CASE ~BelowCliffAmount(ix)
  <2> DEFINE beyond == ix.deposited_amount - ix.cliff_amount
             rate == AmountPerSecond(ix)
  <2>1. beyond \in U64
    BY <1>2, Fields DEF BelowCliffAmount, U64
  <2>2. rate \in Nat \ {0}
    <3>1. SecondsNr(ix) \in U64 /\ WrapSub(ix.total_amount, ix.cliff_amount) \in U64
      BY Fields, WordArithmetic DEF SecondsNr
    <3>2. ~RatePanics(ix) /\ AmountPerSecond(ix) # 0
      BY <1>2 DEF ClosablePanics
    <3> QED
      BY <3>1, <3>2, Fields, Division DEF AmountPerSecond, RatePanics, U64
  <2>3. beyond \div rate \in U64
    <3> HIDE DEF beyond, rate
    <3> QED
      BY <2>1, <2>2, Division DEF U64
  <2>4. 1 \in U64
    BY DEF U64
  <2>5. FundsRunOut(ix) \in U64
    BY <2>3, <2>4, Fields, WordArithmetic DEF FundsRunOut
  <2> QED
    BY <1>2, <2>5, Fields DEF closable
<1> QED
  BY <1>1, <1>2
=============================================================================
