---------------------------- MODULE FloatProofs ----------------------------
(***************************************************************************)
(* That rounding as IEEE 754 has it gives the program what it needs of its *)
(* floats: FloatAssumption, which the other proofs rest on, follows from   *)
(* the rounding of each single operation.                                  *)
(***************************************************************************)
EXTENDS Rounding, TLAPS

USE MaxU64Assumption

(* How coarse the floats may be for the largest u64: every amount goes     *)
(* through seven operations.  Significands of 53 bits and full u64s make *)
(* Imprecision 7 * 2^11; it is 0 for u64s of 25 bits.                      *)
FineEnough ==
  /\ Imprecision \in Nat
  /\ Accuracy > 7
  /\ \/ 7 * MaxU64 <= Imprecision * Accuracy
     \/ 7 * MaxU64 * MaxU64 < Accuracy

-----------------------------------------------------------------------------
(* The errors of several operations add up.                                *)

LEMMA Times ==
  ASSUME NEW a \in Int, NEW b \in Int, a <= b, NEW c \in Nat
  PROVE  a * c <= b * c
OBVIOUS

LEMMA Cancel ==
  ASSUME NEW a \in Int, NEW b \in Int, NEW c \in Nat \ {0}, a * c <= b * c
  PROVE  a <= b
OBVIOUS

LEMMA Quotients ==
  ASSUME NEW n \in Nat, NEW d \in Nat \ {0}
  PROVE  n \div d \in Nat /\ (n \div d) * d <= n /\ n < (n \div d + 1) * d
OBVIOUS

LEMMA Chain ==
  ASSUME NEW x \in Nat, NEW y \in Nat, NEW z \in Nat, NEW i \in Nat,
         NEW j \in Nat, i + j < Accuracy, Within(x, y, i), Within(y, z, j)
  PROVE  Within(x, z, i + j)
<1> DEFINE acc == Accuracy
           a == Accuracy - i
           b == Accuracy - j
           c == Accuracy - (i + j)
<1>1. /\ acc \in Nat \ {0} /\ a \in Nat \ {0} /\ b \in Nat \ {0} /\ c \in Nat \ {0}
      /\ x * a <= y * acc /\ y * b <= z * acc
  BY RoundingAssumption DEF Within
<1>2. a * b = acc * c + i * j /\ i * j \in Nat
  BY <1>1
<1> HIDE DEF acc, a, b, c
<1>3. x * a * b <= y * acc * b
  BY <1>1, Times
<1>4. y * b * acc <= z * acc * acc
  BY <1>1, Times
<1>5. acc * c * x <= a * b * x
  <2>1. acc * c <= a * b
    BY <1>1, <1>2
  <2> QED
    BY <1>1, <2>1, Times
<1>6. x * c * acc <= z * acc * acc
  <2>1. /\ x * c * acc = acc * c * x /\ x * a * b = a * b * x
        /\ y * acc * b = y * b * acc
    BY <1>1
  <2> QED
    BY <1>1, <1>3, <1>4, <1>5, <2>1
<1>7. x * c <= z * acc
  BY <1>1, <1>6, Cancel
<1> QED
  BY <1>7 DEF Within, acc, c

LEMMA ThreeTimes ==
  ASSUME NEW x \in Nat, NEW y \in Nat, NEW z \in Nat, NEW v \in Nat,
         Accuracy > 7, Within(x, y, 1), Within(y, z, 1), Within(z, v, 1)
  PROVE  Within(x, v, 3)
<1>1. Accuracy \in Nat
  BY RoundingAssumption
<1>2. Within(x, z, 1 + 1)
  BY <1>1, Chain
<1>3. Within(x, z, 2)
  BY <1>2
<1>4. Within(x, v, 2 + 1)
  BY <1>1, <1>3, Chain
<1> QED
  BY <1>4

LEMMA WithinTimes ==
  ASSUME NEW x \in Nat, NEW y \in Nat, NEW k \in Nat, NEW c \in Nat,
         Within(x, y, k)
  PROVE  Within(x * c, y * c, k)
<1>1. Accuracy \in Nat
  BY RoundingAssumption
<1>2. x * (Accuracy - k) * c <= y * Accuracy * c
  BY <1>1, Times DEF Within
<1>3. /\ x * (Accuracy - k) * c = x * c * (Accuracy - k)
      /\ y * Accuracy * c = y * c * Accuracy
  BY <1>1
<1> QED
  BY <1>2, <1>3 DEF Within

LEMMA WithinCancel ==
  ASSUME NEW x \in Nat, NEW y \in Nat, NEW k \in Nat, NEW c \in Nat \ {0},
         Within(x * c, y * c, k)
  PROVE  Within(x, y, k)
<1>1. Accuracy \in Nat
  BY RoundingAssumption
<1>2. /\ x * (Accuracy - k) * c = x * c * (Accuracy - k)
      /\ y * Accuracy * c = y * c * Accuracy
  BY <1>1
<1>3. x * (Accuracy - k) * c <= y * Accuracy * c
  BY <1>2 DEF Within
<1>4. x * (Accuracy - k) <= y * Accuracy
  BY <1>1, <1>3, Cancel
<1> QED
  BY <1>4 DEF Within

-----------------------------------------------------------------------------
(* What the operations of available() come to.                             *)

(* A u64 as a float.                                                       *)
LEMMA Counted ==
  ASSUME NEW n \in U64
  PROVE  /\ AsF64(n) \in Counts /\ Value(AsF64(n)) \in Nat /\ n * One \in Nat
         /\ Within(Value(AsF64(n)), n * One, 1)
         /\ Within(n * One, Value(AsF64(n)), 1)
<1>1. n \in Nat /\ One \in Nat
  BY RoundingAssumption DEF U64
<1> QED
  BY <1>1, RoundingAssumption DEF Counts, Near

(* It is 0 only if the u64 is.                                             *)
LEMMA CountedPositive ==
  ASSUME NEW n \in U64 \ {0}, Accuracy > 7
  PROVE  Value(AsF64(n)) > 0
<1>1. /\ n \in Nat \ {0} /\ One \in Nat \ {0} /\ Accuracy \in Nat
  BY RoundingAssumption DEF U64
<1>2. /\ Value(AsF64(n)) \in Nat
      /\ n * One * (Accuracy - 1) <= Value(AsF64(n)) * Accuracy
  BY Counted DEF Within
<1>3. n * One * (Accuracy - 1) > 0
  BY <1>1
<1> QED
  BY <1>1, <1>2, <1>3

(* So many periods, at so much each.                                       *)
LEMMA Multiplied ==
  ASSUME NEW n \in U64, NEW r \in Rates, Value(r) \in Nat, Accuracy > 7
  PROVE  LET product == Value(FloatMul(AsF64(n), r))
         IN /\ product \in Nat
            /\ Within(product, n * Value(r), 2)
            /\ Within(n * Value(r), product, 2)
<1> DEFINE product == Value(FloatMul(AsF64(n), r))
           count == Value(AsF64(n))
           rate == Value(r)
<1>1. /\ product \in Nat /\ count \in Nat /\ rate \in Nat /\ n \in Nat
      /\ n * One \in Nat /\ One \in Nat \ {0} /\ Accuracy \in Nat
      /\ n * rate \in Nat /\ product * One \in Nat /\ count * rate \in Nat
      /\ n * rate * One \in Nat
  BY Counted, RoundingAssumption DEF U64
<1>2. /\ Within(product * One, count * rate, 1)
      /\ Within(count * rate, product * One, 1)
  BY Counted, RoundingAssumption DEF Near
<1>3. /\ Within(count * rate, n * One * rate, 1)
      /\ Within(n * One * rate, count * rate, 1)
  BY <1>1, Counted, WithinTimes
<1>4. n * One * rate = n * rate * One
  BY <1>1
<1> HIDE DEF product, count, rate
<1>5. Within(product * One, n * rate * One, 2)
  <2>1. Within(product * One, n * rate * One, 1 + 1)
    BY <1>1, <1>2, <1>3, <1>4, Chain
  <2> QED
    BY <2>1
<1>6. Within(n * rate * One, product * One, 2)
  <2>1. Within(n * rate * One, product * One, 1 + 1)
    BY <1>1, <1>2, <1>3, <1>4, Chain
  <2> QED
    BY <2>1
<1>7. Within(product, n * rate, 2) /\ Within(n * rate, product, 2)
  BY <1>1, <1>5, <1>6, WithinCancel
<1> QED
  BY <1>1, <1>7 DEF product, rate

(* A recurring stream: the rate is a u64.                                  *)
LEMMA RecurringRounded ==
  ASSUME NEW n \in U64, NEW rate \in U64, Accuracy > 7
  PROVE  LET product == Value(FloatMul(AsF64(n), AsF64(rate)))
         IN /\ product \in Nat
            /\ Within(product, n * rate * One, 3)
            /\ Within(n * rate * One, product, 3)
<1> DEFINE product == Value(FloatMul(AsF64(n), AsF64(rate)))
           r == Value(AsF64(rate))
<1>1. /\ n \in Nat /\ rate \in Nat /\ r \in Nat /\ AsF64(rate) \in Rates
      /\ rate * One \in Nat /\ n * r \in Nat /\ n * rate * One \in Nat
      /\ Accuracy \in Nat /\ One \in Nat
  BY Counted, RoundingAssumption DEF U64, Rates
<1>2. /\ product \in Nat /\ Within(product, n * r, 2) /\ Within(n * r, product, 2)
  BY <1>1, Multiplied
<1>3. Within(r * n, rate * One * n, 1) /\ Within(rate * One * n, r * n, 1)
  BY <1>1, Counted, WithinTimes
<1>4. r * n = n * r /\ rate * One * n = n * rate * One
  BY <1>1
<1> HIDE DEF product, r
<1>5. Within(product, n * rate * One, 2 + 1)
  BY <1>1, <1>2, <1>3, <1>4, Chain
<1>6. Within(n * rate * One, product, 1 + 2)
  BY <1>1, <1>2, <1>3, <1>4, Chain
<1> QED
  BY <1>2, <1>5, <1>6 DEF product

(* The number of periods in a span of time.                                *)
LEMMA RatioRounded ==
  ASSUME NEW span \in U64 \ {0}, NEW period \in U64 \ {0}, Accuracy > 7
  PROVE  LET q == Value(FloatDiv(AsF64(span), AsF64(period)))
         IN /\ q \in Nat \ {0}
            /\ Within(q * period, span * One, 3)
            /\ Within(span * One, q * period, 3)
<1> DEFINE q == Value(FloatDiv(AsF64(span), AsF64(period)))
           s == Value(AsF64(span))
           p == Value(AsF64(period))
<1>1. /\ span \in Nat \ {0} /\ period \in Nat \ {0} /\ s \in Nat /\ p \in Nat
      /\ One \in Nat \ {0} /\ Accuracy \in Nat
  BY Counted, RoundingAssumption DEF U64
<1>2. /\ q \in Nat /\ Within(q * p, s * One, 1) /\ Within(s * One, q * p, 1)
  <2>1. AsF64(span) \in Counts /\ AsF64(period) \in Counts /\ p > 0
    BY Counted, CountedPositive
  <2> QED
    BY <2>1, RoundingAssumption DEF Near
<1>3. /\ Within(s * One, span * One * One, 1)
      /\ Within(span * One * One, s * One, 1)
  BY <1>1, Counted, WithinTimes
<1>4. /\ Within(p * q, period * One * q, 1)
      /\ Within(period * One * q, p * q, 1)
  BY <1>1, <1>2, Counted, WithinTimes
<1> HIDE DEF q, s, p
<1>5. /\ p * q = q * p /\ period * One * q = q * period * One
      /\ q * p \in Nat /\ q * period \in Nat /\ q * period * One \in Nat
      /\ s * One \in Nat /\ span * One \in Nat /\ span * One * One \in Nat
  BY <1>1, <1>2
<1>6. Within(q * period, span * One, 3)
  <2>1. Within(q * period * One, span * One * One, 3)
    BY <1>1, <1>2, <1>3, <1>4, <1>5, ThreeTimes
  <2> QED
    BY <1>1, <1>5, <2>1, WithinCancel
<1>7. Within(span * One, q * period, 3)
  <2>1. Within(span * One * One, q * period * One, 3)
    BY <1>1, <1>2, <1>3, <1>4, <1>5, ThreeTimes
  <2> QED
    BY <1>1, <1>5, <2>1, WithinCancel
<1>8. q # 0
  <2>1. span * One * (Accuracy - 3) <= q * period * Accuracy
    BY <1>7 DEF Within
  <2>2. span * One * (Accuracy - 3) \in Nat \ {0}
    BY <1>1
  <2>3. q = 0 => q * period * Accuracy = 0
    BY <1>1
  <2> QED
    BY <2>1, <2>2, <2>3
<1> QED
  BY <1>2, <1>6, <1>7, <1>8 DEF q

(* What a period releases of a whole.                                      *)
LEMMA RateRounded ==
  ASSUME NEW whole \in U64, NEW span \in U64 \ {0}, NEW period \in U64 \ {0},
         Accuracy > 7
  PROVE  LET q == Value(FloatDiv(AsF64(span), AsF64(period)))
             r == Value(PerPeriod(whole, span, period))
         IN /\ PerPeriod(whole, span, period) \in Rates /\ r \in Nat
            /\ Within(r * q, whole * One * One, 2)
            /\ Within(whole * One * One, r * q, 2)
<1> DEFINE ratio == FloatDiv(AsF64(span), AsF64(period))
           q == Value(ratio)
           r == Value(PerPeriod(whole, span, period))
           w == Value(AsF64(whole))
<1>1. /\ whole \in Nat /\ w \in Nat /\ q \in Nat \ {0}
      /\ One \in Nat \ {0} /\ Accuracy \in Nat
  BY Counted, RatioRounded, RoundingAssumption DEF U64
<1>2. ratio \in Ratios /\ AsF64(whole) \in Counts
  BY Counted DEF Ratios
<1>3. PerPeriod(whole, span, period) \in Rates
  BY <1>2 DEF PerPeriod, Rates
<1>4. /\ r \in Nat /\ Within(r * q, w * One, 1) /\ Within(w * One, r * q, 1)
  <2>1. PerPeriod(whole, span, period) = FloatDiv(AsF64(whole), ratio)
    BY DEF PerPeriod
  <2> QED
    BY <1>1, <1>2, <2>1, RoundingAssumption DEF Near
<1>5. /\ Within(w * One, whole * One * One, 1)
      /\ Within(whole * One * One, w * One, 1)
  BY <1>1, Counted, WithinTimes
<1> HIDE DEF r, q, w
<1>6. r * q \in Nat /\ w * One \in Nat /\ whole * One * One \in Nat
  BY <1>1, <1>4
<1>7. Within(r * q, whole * One * One, 1 + 1)
  BY <1>1, <1>4, <1>5, <1>6, Chain
<1>8. Within(whole * One * One, r * q, 1 + 1)
  BY <1>1, <1>4, <1>5, <1>6, Chain
<1>9. 1 + 1 = 2
  OBVIOUS
<1> QED
  BY <1>3, <1>4, <1>7, <1>8, <1>9 DEF r, q, ratio

(* A stream with an end.                                                   *)
LEMMA SpreadRounded ==
  ASSUME NEW whole \in U64, NEW span \in U64 \ {0}, NEW period \in U64 \ {0},
         NEW n \in U64, Accuracy > 7
  PROVE  LET product == Value(FloatMul(AsF64(n), PerPeriod(whole, span, period)))
         IN /\ product \in Nat
            /\ Within(product * span, n * period * whole * One, 7)
            /\ Within(n * period * whole * One, product * span, 7)
<1> DEFINE x == Value(FloatMul(AsF64(n), PerPeriod(whole, span, period)))
           q == Value(FloatDiv(AsF64(span), AsF64(period)))
           r == Value(PerPeriod(whole, span, period))
<1>1. /\ n \in Nat /\ whole \in Nat /\ span \in Nat /\ period \in Nat
      /\ q \in Nat /\ r \in Nat /\ One \in Nat \ {0} /\ Accuracy \in Nat
  BY RatioRounded, RateRounded, RoundingAssumption DEF U64
<1>2. /\ x \in Nat /\ Within(x, n * r, 2) /\ Within(n * r, x, 2)
  BY RateRounded, Multiplied
<1>3. /\ Within(q * period, span * One, 3) /\ Within(span * One, q * period, 3)
      /\ Within(r * q, whole * One * One, 2) /\ Within(whole * One * One, r * q, 2)
  BY RatioRounded, RateRounded
<1> HIDE DEF x, q, r
<1> DEFINE shared == x * span * One
           steps == x * (q * period)
           exactly == n * period * (r * q)
           exact == n * period * whole * One * One
<1>4. /\ shared = span * One * x /\ steps = q * period * x
      /\ exactly = n * r * (q * period) /\ exactly = r * q * (n * period)
      /\ exact = whole * One * One * (n * period)
      /\ q * period \in Nat /\ n * period \in Nat /\ n * r \in Nat
      /\ r * q \in Nat /\ span * One \in Nat /\ whole * One * One \in Nat
      /\ shared \in Nat /\ steps \in Nat /\ exactly \in Nat /\ exact \in Nat
  BY <1>1, <1>2
<1>5. Within(shared, steps, 3) /\ Within(steps, shared, 3)
  <2>1. /\ Within(span * One * x, q * period * x, 3)
        /\ Within(q * period * x, span * One * x, 3)
    BY <1>2, <1>3, <1>4, WithinTimes
  <2> QED
    BY <1>4, <2>1
<1>6. Within(steps, exactly, 2) /\ Within(exactly, steps, 2)
  <2>1. /\ Within(x * (q * period), n * r * (q * period), 2)
        /\ Within(n * r * (q * period), x * (q * period), 2)
    BY <1>2, <1>4, WithinTimes
  <2> QED
    BY <1>4, <2>1
<1>7. Within(exactly, exact, 2) /\ Within(exact, exactly, 2)
  <2>1. /\ Within(r * q * (n * period), whole * One * One * (n * period), 2)
        /\ Within(whole * One * One * (n * period), r * q * (n * period), 2)
    BY <1>3, <1>4, WithinTimes
  <2> QED
    BY <1>4, <2>1
<1> HIDE DEF shared, steps, exactly, exact
<1>8. /\ shared \in Nat /\ steps \in Nat /\ exactly \in Nat /\ exact \in Nat
      /\ 2 + 2 < Accuracy /\ 3 + 4 < Accuracy /\ 4 + 3 < Accuracy
  BY <1>1, <1>4
<1>9. Within(shared, exact, 7) /\ Within(exact, shared, 7)
  <2>1. Within(steps, exact, 2 + 2) /\ Within(exact, steps, 2 + 2)
    BY <1>6, <1>7, <1>8, Chain
  <2>2. Within(steps, exact, 4) /\ Within(exact, steps, 4)
    BY <2>1
  <2>3. Within(shared, exact, 3 + 4)
    BY <1>5, <1>8, <2>2, Chain
  <2>4. Within(exact, shared, 4 + 3)
    BY <1>5, <1>8, <2>2, Chain
  <2> QED
    BY <2>3, <2>4
<1>10. /\ Within(x * span * One, n * period * whole * One * One, 7)
       /\ Within(n * period * whole * One * One, x * span * One, 7)
  BY <1>9 DEF shared, exact
<1>11. x * span \in Nat /\ n * period * whole * One \in Nat
  BY <1>1, <1>2
<1>12. /\ Within(x * span, n * period * whole * One, 7)
       /\ Within(n * period * whole * One, x * span, 7)
  BY <1>1, <1>10, <1>11, WithinCancel
<1> QED
  BY <1>2, <1>12 DEF x

-----------------------------------------------------------------------------
(* Truncation.                                                             *)

(* A truncated amount per span is not ahead of the exact one...            *)
LEMMA NotAhead ==
  ASSUME FineEnough, NEW exact \in Nat, NEW span \in U64 \ {0}, NEW x \in Nat,
         Within(x * span, exact * One, 7),
         NEW released \in U64, released <= x \div One
  PROVE  released * span <= exact + Imprecision * span
<1> DEFINE total == released * span
           slack == Imprecision * span
<1>1. /\ One \in Nat \ {0} /\ Accuracy \in Nat \ {0} /\ Accuracy - 7 \in Nat
      /\ Imprecision \in Nat /\ span \in Nat \ {0} /\ released \in Nat
      /\ total \in Nat /\ slack \in Nat /\ x * span \in Nat
  BY RoundingAssumption DEF FineEnough, U64
<1>2. released * One <= x
  <2>1. x \div One \in Nat /\ (x \div One) * One <= x
    BY <1>1, Quotients
  <2>2. released * One <= (x \div One) * One
    BY <1>1, <2>1, Times
  <2> QED
    BY <1>1, <2>1, <2>2
<1>3. total * One * (Accuracy - 7) <= exact * Accuracy * One
  <2>1. released * One * span <= x * span
    BY <1>1, <1>2, Times
  <2>2. released * One * span * (Accuracy - 7) <= x * span * (Accuracy - 7)
    BY <1>1, <2>1, Times
  <2>3. x * span * (Accuracy - 7) <= exact * One * Accuracy
    BY DEF Within
  <2>4. /\ released * One * span * (Accuracy - 7) = total * One * (Accuracy - 7)
        /\ exact * One * Accuracy = exact * Accuracy * One
        /\ released * One * span * (Accuracy - 7) \in Nat
        /\ x * span * (Accuracy - 7) \in Nat /\ exact * One * Accuracy \in Nat
    BY <1>1
  <2> QED
    BY <2>2, <2>3, <2>4
<1> HIDE DEF total, slack
<1>4. total * Accuracy <= exact * Accuracy + 7 * total
  <2>1. total * (Accuracy - 7) * One <= exact * Accuracy * One
    BY <1>1, <1>3
  <2>2. total * (Accuracy - 7) <= exact * Accuracy
    BY <1>1, <2>1, Cancel
  <2> QED
    BY <1>1, <2>2
<1>5. CASE 7 * MaxU64 <= Imprecision * Accuracy
  <2>1. 7 * total <= slack * Accuracy
    <3>1. 7 * released <= Imprecision * Accuracy
      BY <1>1, <1>5 DEF U64
    <3>2. 7 * released * span <= Imprecision * Accuracy * span
      BY <1>1, <3>1, Times
    <3> QED
      BY <1>1, <3>2 DEF total, slack
  <2>2. total * Accuracy <= (exact + slack) * Accuracy
    BY <1>1, <1>4, <2>1
  <2> QED
    BY <1>1, <2>2, Cancel DEF total, slack
<1>6. CASE 7 * MaxU64 * MaxU64 < Accuracy
  <2>1. 7 * total < Accuracy
    <3>1. released * span <= MaxU64 * span
      BY <1>1, Times DEF U64
    <3>2. span * MaxU64 <= MaxU64 * MaxU64
      BY <1>1, Times DEF U64
    <3> QED
      BY <1>1, <1>6, <3>1, <3>2 DEF total
  <2>2. total * Accuracy < (exact + 1) * Accuracy
    BY <1>1, <1>4, <2>1
  <2>3. ~ (exact + 1 <= total)
    <3>1. exact + 1 <= total => (exact + 1) * Accuracy <= total * Accuracy
      BY <1>1, Times
    <3> QED
      BY <1>1, <2>2, <3>1
  <2> QED
    BY <1>1, <2>3 DEF total, slack
<1> QED
  BY <1>5, <1>6 DEF FineEnough

(* ... nor behind it by more than truncation and Imprecision explain.      *)
LEMMA NotBehind ==
  ASSUME FineEnough, NEW exact \in Nat, NEW span \in U64 \ {0}, NEW x \in Nat,
         Within(exact * One, x * span, 7), exact <= MaxU64 * span
  PROVE  /\ exact <= (x \div One + 1 + Imprecision) * span
         /\ 7 * MaxU64 <= Imprecision * Accuracy
              => exact < (x \div One + 1 + Imprecision) * span
<1> DEFINE whole == x \div One
           next == (whole + 1) * span
           slack == Imprecision * span
<1>1. /\ One \in Nat \ {0} /\ Accuracy \in Nat \ {0} /\ Accuracy - 7 \in Nat \ {0}
      /\ Imprecision \in Nat /\ span \in Nat \ {0} /\ whole \in Nat
      /\ next \in Nat /\ slack \in Nat /\ x < (whole + 1) * One
  <2>1. One \in Nat \ {0} /\ Accuracy \in Nat \ {0}
    BY RoundingAssumption
  <2>2. whole \in Nat /\ x < (whole + 1) * One
    BY <2>1, Quotients
  <2>3. Accuracy - 7 \in Nat \ {0} /\ Imprecision \in Nat /\ span \in Nat \ {0}
    BY <2>1 DEF FineEnough, U64
  <2> HIDE DEF whole
  <2> QED
    BY <2>1, <2>2, <2>3
<1>2. (whole + 1 + Imprecision) * span = next + slack
  BY <1>1
<1>3. exact * (Accuracy - 7) * One < next * Accuracy * One
  <2>1. exact * One * (Accuracy - 7) <= x * span * Accuracy
    BY DEF Within
  <2>2. x + 1 <= (whole + 1) * One /\ x + 1 \in Nat /\ (whole + 1) * One \in Nat
    BY <1>1
  <2>3. span * Accuracy \in Nat \ {0}
    BY <1>1
  <2> HIDE DEF whole
  <2>4. (x + 1) * (span * Accuracy) <= (whole + 1) * One * (span * Accuracy)
    BY <2>2, <2>3, Times
  <2>5. /\ (whole + 1) * One * (span * Accuracy) = next * Accuracy * One
        /\ (x + 1) * (span * Accuracy) = x * span * Accuracy + span * Accuracy
        /\ exact * One * (Accuracy - 7) = exact * (Accuracy - 7) * One
        /\ x * span * Accuracy \in Nat /\ exact * One * (Accuracy - 7) \in Nat
        /\ next * Accuracy * One \in Nat
    BY <1>1
  <2> HIDE DEF next
  <2> QED
    BY <2>1, <2>3, <2>4, <2>5
<1> HIDE DEF whole, next, slack
<1>4. exact * Accuracy < next * Accuracy + 7 * exact
  <2>1. ~ (next * Accuracy <= exact * (Accuracy - 7))
    <3>1. next * Accuracy <= exact * (Accuracy - 7)
            => next * Accuracy * One <= exact * (Accuracy - 7) * One
      BY <1>1, Times
    <3>2. /\ next * Accuracy * One \in Nat /\ exact * (Accuracy - 7) * One \in Nat
      BY <1>1
    <3> QED
      BY <1>3, <3>1, <3>2
  <2> QED
    BY <1>1, <2>1
<1>5. 7 * MaxU64 <= Imprecision * Accuracy => exact < next + slack
  <2> SUFFICES ASSUME 7 * MaxU64 <= Imprecision * Accuracy
               PROVE  exact < next + slack
    OBVIOUS
  <2>1. 7 * exact <= slack * Accuracy
    <3>1. 7 * MaxU64 * span <= Imprecision * Accuracy * span
      BY <1>1, Times
    <3>2. 7 * exact <= 7 * MaxU64 * span
      BY <1>1
    <3>3. Imprecision * Accuracy * span = slack * Accuracy
      BY <1>1 DEF slack
    <3> QED
      BY <1>1, <3>1, <3>2, <3>3
  <2>2. exact * Accuracy < (next + slack) * Accuracy
    BY <1>1, <1>4, <2>1
  <2>3. next + slack <= exact => (next + slack) * Accuracy <= exact * Accuracy
    BY <1>1, Times
  <2> QED
    BY <1>1, <2>2, <2>3
<1>6. 7 * MaxU64 * MaxU64 < Accuracy => exact <= next
  <2> SUFFICES ASSUME 7 * MaxU64 * MaxU64 < Accuracy
               PROVE  exact <= next
    OBVIOUS
  <2>1. 7 * exact < Accuracy
    <3>1. span * MaxU64 <= MaxU64 * MaxU64
      BY <1>1, Times DEF U64
    <3> QED
      BY <1>1, <3>1
  <2>2. exact * Accuracy < (next + 1) * Accuracy
    BY <1>1, <1>4, <2>1
  <2>3. next + 1 <= exact => (next + 1) * Accuracy <= exact * Accuracy
    BY <1>1, Times
  <2> QED
    BY <1>1, <2>2, <2>3
<1> QED
  BY <1>1, <1>2, <1>5, <1>6 DEF FineEnough, whole

-----------------------------------------------------------------------------
(* The amount released.                                                    *)

LEMMA ReleasedIs ==
  ASSUME NEW n \in U64, NEW r \in Rates
  PROVE  LET units == Value(FloatMul(AsF64(n), r)) \div One
         IN /\ ReleasedOver(n, r) \in U64 /\ ReleasedOver(n, r) <= units
            /\ ReleasedOver(n, r) \in {units, MaxU64}
            /\ units \in Nat
<1> DEFINE units == Value(FloatMul(AsF64(n), r)) \div One
<1>1. units \in Nat
  BY Counted, RoundingAssumption, Quotients
<1>2. Trunc(FloatMul(AsF64(n), r)) = units
  BY Counted, RoundingAssumption
<1>3. ReleasedOver(n, r) = IF units <= MaxU64 THEN units ELSE MaxU64
  BY <1>2 DEF ReleasedOver, AsU64
<1> HIDE DEF units
<1>4. ReleasedOver(n, r) \in U64 /\ ReleasedOver(n, r) <= units
      /\ ReleasedOver(n, r) \in {units, MaxU64}
  BY <1>1, <1>3 DEF U64
<1> QED
  BY <1>1, <1>4 DEF units

LEMMA ReleasedGrows ==
  ASSUME NEW n \in U64, n + 1 \in U64, NEW r \in Rates
  PROVE  ReleasedOver(n, r) <= ReleasedOver(n + 1, r)
<1> DEFINE x == Value(FloatMul(AsF64(n), r))
           y == Value(FloatMul(AsF64(n + 1), r))
<1>1. /\ x \in Nat /\ y \in Nat /\ One \in Nat \ {0} /\ x <= y
  BY Counted, RoundingAssumption
<1>2. /\ Trunc(FloatMul(AsF64(n), r)) = x \div One
      /\ Trunc(FloatMul(AsF64(n + 1), r)) = y \div One
  BY Counted, RoundingAssumption
<1> HIDE DEF x, y
<1>3. x \div One \in Nat /\ y \div One \in Nat /\ x \div One <= y \div One
  BY <1>1
<1> QED
  BY <1>2, <1>3 DEF ReleasedOver, AsU64

LEMMA Looser ==
  ASSUME NEW x \in Nat, NEW y \in Nat, Within(x, y, 3)
  PROVE  Within(x, y, 7)
<1>1. Accuracy \in Nat
  BY RoundingAssumption
<1>2. x * (Accuracy - 7) <= x * (Accuracy - 3)
  BY <1>1
<1> QED
  BY <1>1, <1>2 DEF Within

(* At a constant rate.                                                     *)
LEMMA RecurringIsEven ==
  ASSUME FineEnough, NEW rate \in U64, NEW n \in U64
  PROVE  LET released == ReleasedOver(n, AsF64(rate))
         IN /\ released \in U64
            /\ released <= n * rate + Imprecision
            /\ n * rate <= MaxU64 => n * rate <= released + Imprecision
            /\ n + 1 \in U64 => released <= ReleasedOver(n + 1, AsF64(rate))
<1> DEFINE released == ReleasedOver(n, AsF64(rate))
           x == Value(FloatMul(AsF64(n), AsF64(rate)))
           exact == n * rate
<1>1. /\ n \in Nat /\ rate \in Nat /\ exact \in Nat /\ One \in Nat \ {0}
      /\ 1 \in U64 \ {0} /\ Imprecision \in Nat /\ Accuracy > 7
      /\ Accuracy \in Nat
  BY RoundingAssumption DEF FineEnough, U64
<1>2. AsF64(rate) \in Rates
  BY Counted DEF Rates
<1>3. /\ released \in U64 /\ released <= x \div One
      /\ released \in {x \div One, MaxU64} /\ x \div One \in Nat
  BY <1>2, ReleasedIs
<1>4. /\ x \in Nat /\ Within(x * 1, exact * One, 7)
      /\ Within(exact * One, x * 1, 7)
  <2>1. /\ x \in Nat /\ Within(x, exact * One, 3) /\ Within(exact * One, x, 3)
    BY <1>1, RecurringRounded
  <2>2. x * 1 = x /\ exact * One \in Nat
    BY <1>1, <2>1
  <2> QED
    BY <2>1, <2>2, Looser
<1>5. n + 1 \in U64 => released <= ReleasedOver(n + 1, AsF64(rate))
  BY <1>2, ReleasedGrows
<1>6. 7 * MaxU64 * MaxU64 < Accuracy /\ exact <= MaxU64 => exact = x \div One
  <2> SUFFICES ASSUME 7 * MaxU64 * MaxU64 < Accuracy, exact <= MaxU64
               PROVE  exact = x \div One
    OBVIOUS
  <2>1. n <= Accuracy /\ rate <= Accuracy /\ exact \in 0 .. Accuracy
    <3>1. MaxU64 <= MaxU64 * MaxU64
      OBVIOUS
    <3> QED
      BY <1>1, <3>1 DEF U64
  <2>2. Value(AsF64(n)) = n * One /\ Value(AsF64(rate)) = rate * One
    BY <2>1, RoundingAssumption
  <2>3. Value(AsF64(n)) * Value(AsF64(rate)) = exact * One * One
    BY <1>1, <2>2
  <2>4. x = exact * One
    BY <1>2, <2>1, <2>3, Counted, RoundingAssumption
  <2> HIDE DEF x, exact
  <2>5. (exact * One) \div One = exact
    BY <1>1
  <2> QED
    BY <2>4, <2>5
<1> HIDE DEF released, x, exact
<1>7. released <= exact + Imprecision
  <2>1. released * 1 <= exact + Imprecision * 1
    BY <1>1, <1>3, <1>4, NotAhead
  <2> QED
    BY <1>1, <1>3, <2>1 DEF U64
<1>8. exact <= MaxU64 => exact <= released + Imprecision
  <2> SUFFICES ASSUME exact <= MaxU64
               PROVE  exact <= released + Imprecision
    OBVIOUS
  <2>1. CASE released = MaxU64
    BY <1>1, <2>1
  <2>2. CASE released = x \div One /\ 7 * MaxU64 <= Imprecision * Accuracy
    <3>1. exact <= MaxU64 * 1
      OBVIOUS
    <3>2. exact < (x \div One + 1 + Imprecision) * 1
      BY <1>1, <1>4, <2>2, <3>1, NotBehind
    <3> DEFINE units == x \div One
    <3>3. units \in Nat /\ exact < (units + 1 + Imprecision) * 1 /\ released = units
      BY <1>3, <2>2, <3>2
    <3> HIDE DEF units
    <3> QED
      BY <1>1, <3>3
  <2>3. CASE released = x \div One /\ 7 * MaxU64 * MaxU64 < Accuracy
    BY <1>1, <1>6, <2>3
  <2> QED
    BY <1>3, <2>1, <2>2, <2>3 DEF FineEnough
<1> QED
  BY <1>3, <1>5, <1>7, <1>8 DEF released, exact

(* Evenly over a span.                                                     *)
LEMMA SpreadIsEven ==
  ASSUME FineEnough, NEW whole \in U64, NEW span \in U64 \ {0},
         NEW period \in U64 \ {0}, NEW n \in 0 .. span \div period
  PROVE  LET amount == PerPeriod(whole, span, period)
             released == ReleasedOver(n, amount)
         IN /\ released \in U64
            /\ released * span <= n * period * whole + Imprecision * span
            /\ n * period * whole <= (released + 1 + Imprecision) * span
            /\ n + 1 <= span \div period => released <= ReleasedOver(n + 1, amount)
<1> DEFINE amount == PerPeriod(whole, span, period)
           released == ReleasedOver(n, amount)
           x == Value(FloatMul(AsF64(n), amount))
           exact == n * period * whole
<1>1. /\ whole \in Nat /\ span \in Nat \ {0} /\ period \in Nat \ {0}
      /\ One \in Nat \ {0} /\ Imprecision \in Nat /\ Accuracy > 7
      /\ whole <= MaxU64 /\ span <= MaxU64
  BY RoundingAssumption DEF FineEnough, U64
<1>2. /\ span \div period \in Nat /\ (span \div period) * period <= span
      /\ span \div period <= span
  <2>1. span \div period \in Nat /\ (span \div period) * period <= span
    BY <1>1, Quotients
  <2> DEFINE times == span \div period
  <2>2. times \in Nat /\ times * period <= span
    BY <2>1
  <2> HIDE DEF times
  <2>3. 1 * times <= period * times
    BY <1>1, <2>2, Times
  <2>4. times <= span
    BY <1>1, <2>2, <2>3
  <2> QED
    BY <2>1, <2>4 DEF times
<1>3. n \in Nat /\ n <= span \div period /\ n \in U64
  BY <1>1, <1>2 DEF U64
<1>4. exact \in Nat /\ exact <= MaxU64 * span
  <2>1. n * period <= (span \div period) * period
    BY <1>1, <1>2, <1>3, Times
  <2>2. n * period <= span /\ n * period \in Nat
    BY <1>1, <1>2, <1>3, <2>1
  <2>3. n * period * whole <= span * whole
    BY <1>1, <2>2, Times
  <2>4. whole * span <= MaxU64 * span
    BY <1>1, Times
  <2> QED
    BY <1>1, <1>3, <2>3, <2>4
<1>5. /\ released \in U64 /\ released <= x \div One
      /\ released \in {x \div One, MaxU64} /\ x \div One \in Nat
      /\ amount \in Rates
  BY <1>1, <1>3, RateRounded, ReleasedIs
<1>6. /\ x \in Nat /\ Within(x * span, exact * One, 7)
      /\ Within(exact * One, x * span, 7)
  BY <1>1, <1>3, SpreadRounded
<1>7. n + 1 <= span \div period => released <= ReleasedOver(n + 1, amount)
  <2> SUFFICES ASSUME n + 1 <= span \div period
               PROVE  released <= ReleasedOver(n + 1, amount)
    OBVIOUS
  <2>1. n + 1 \in U64
    BY <1>1, <1>2, <1>3 DEF U64
  <2> QED
    BY <1>3, <1>5, <2>1, ReleasedGrows
<1> HIDE DEF amount, released, x, exact
<1>8. released * span <= exact + Imprecision * span
  BY <1>4, <1>5, <1>6, NotAhead
<1>9. exact <= (released + 1 + Imprecision) * span
  <2>1. CASE released = x \div One
    BY <1>4, <1>6, <2>1, NotBehind
  <2>2. CASE released = MaxU64
    <3>1. MaxU64 * span <= (MaxU64 + 1 + Imprecision) * span
      BY <1>1, Times
    <3>2. MaxU64 * span \in Nat /\ (MaxU64 + 1 + Imprecision) * span \in Nat
      BY <1>1
    <3> QED
      BY <1>4, <2>2, <3>1, <3>2
  <2> QED
    BY <1>5, <2>1, <2>2
<1> QED
  BY <1>5, <1>7, <1>8, <1>9 DEF released, amount, exact

(* FloatAssumption holds of any arithmetic that rounds as IEEE 754 wants:  *)
(* with 53 bits, whole u64s and an Imprecision of 7 * 2^11 units, or with  *)
(* an Imprecision of 0 as long as amounts and times have 25 bits.          *)
THEOREM RoundingIsEnough ==
  ASSUME FineEnough
  PROVE  ReleasesEvenly
<1>1. Imprecision \in Nat
  BY DEF FineEnough
<1> QED
  BY <1>1, RecurringIsEven, SpreadIsEven DEF ReleasesEvenly
=============================================================================
