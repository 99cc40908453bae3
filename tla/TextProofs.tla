----------------------------- MODULE TextProofs -----------------------------
(***************************************************************************)
(* Proofs about the text of an amount: encode_base10 loses no digit that   *)
(* counts and writes none that does not, for any amount and any number of  *)
(* decimals.                                                               *)
(***************************************************************************)
EXTENDS AmountText, TLAPS, FiniteSetTheorems, SequenceTheorems,
        WellFoundedInduction

-----------------------------------------------------------------------------
(* Recursion on numbers, by the least counterexample.                      *)

LEMMA Least ==
  ASSUME NEW Q \in SUBSET Nat, Q # {}
  PROVE  \E n \in Q : \A k \in Q : n <= k
<1>1. PICK n \in Q : \A k \in Q : ~ (<<k, n>> \in OpToRel(<, Nat))
  BY NatLessThanWellFounded, WFMin
<1>2. ASSUME NEW k \in Q, k < n
      PROVE  <<k, n>> \in OpToRel(<, Nat)
  <2>1. <<k, n>> \in Nat \X Nat /\ <<k, n>>[1] < <<k, n>>[2]
    BY <1>2
  <2> QED
    BY <2>1 DEF OpToRel
<1>3. \A k \in Q : ~ (k < n)
  BY <1>1, <1>2
<1> QED
  BY <1>3

(* g iterates step from a up to n.                                         *)
Iterates(g, n, a, step) ==
  /\ g \in [0 .. n -> Nat]
  /\ g[0] = a
  /\ \A k \in 1 .. n : g[k] = step[k][g[k - 1]]

LEMMA IteratesAgree ==
  ASSUME NEW n \in Nat, NEW k \in Nat, k <= n, NEW a, NEW step,
         NEW g, Iterates(g, n, a, step), NEW h, Iterates(h, k, a, step)
  PROVE  \A i \in 0 .. k : g[i] = h[i]
<1> DEFINE Q == {i \in 0 .. k : g[i] # h[i]}
<1> SUFFICES ASSUME Q # {} PROVE FALSE
  OBVIOUS
<1>1. PICK i \in Q : \A j \in Q : i <= j
  <2>1. Q \in SUBSET Nat
    OBVIOUS
  <2> HIDE DEF Q
  <2> QED
    BY <2>1, Least
<1>2. i \in 1 .. k /\ i \in 1 .. n
  <2>1. g[0] = h[0]
    BY DEF Iterates
  <2> QED
    BY <2>1
<1>3. g[i - 1] = h[i - 1]
  BY <1>1, <1>2
<1> QED
  BY <1>2, <1>3 DEF Iterates

LEMMA IteratesExist ==
  ASSUME NEW D \in SUBSET Nat, \A k \in D : 0 .. k \subseteq D,
         NEW a \in Nat, NEW step \in [D -> [Nat -> Nat]], NEW n \in D
  PROVE  \E g : Iterates(g, n, a, step)
<1> DEFINE Q == {k \in D : ~ \E g : Iterates(g, k, a, step)}
<1> SUFFICES ASSUME Q # {} PROVE FALSE
  OBVIOUS
<1>1. PICK k \in Q : \A j \in Q : k <= j
  <2>1. Q \in SUBSET Nat
    OBVIOUS
  <2> HIDE DEF Q
  <2> QED
    BY <2>1, Least
<1>2. k # 0
  <2>1. Iterates([i \in 0 .. 0 |-> a], 0, a, step)
    BY DEF Iterates
  <2> QED
    BY <2>1
<1>3. /\ k \in D /\ k \in Nat /\ k - 1 \in D /\ k - 1 \in Nat
      /\ ~ \E g : Iterates(g, k, a, step)
  BY <1>2
<1>4. PICK h : Iterates(h, k - 1, a, step)
  BY <1>1, <1>3
<1> HIDE DEF Q
<1> DEFINE g == [i \in 0 .. k |-> IF i = k THEN step[k][h[k - 1]] ELSE h[i]]
<1>5. step[k][h[k - 1]] \in Nat
  <2>1. h[k - 1] \in Nat
    BY <1>3, <1>4 DEF Iterates
  <2> QED
    BY <1>3, <2>1
<1>6. Iterates(g, k, a, step)
  <2>1. h \in [0 .. k - 1 -> Nat] /\ h[0] = a
    BY <1>4 DEF Iterates
  <2>2. ASSUME NEW i \in 0 .. k, i # k
        PROVE  h[i] \in Nat
    <3>1. i \in 0 .. k - 1
      BY <1>3, <2>2
    <3> QED
      BY <2>1, <3>1
  <2>3. g \in [0 .. k -> Nat] /\ g[0] = a
    <3>1. \A i \in 0 .. k :
            (IF i = k THEN step[k][h[k - 1]] ELSE h[i]) \in Nat
      BY <1>5, <2>2
    <3>2. 0 \in 0 .. k /\ 0 # k
      BY <1>3
    <3> QED
      BY <2>1, <3>1, <3>2
  <2>4. ASSUME NEW i \in 1 .. k
        PROVE  g[i] = step[i][g[i - 1]]
    <3>1. g[i - 1] = h[i - 1]
      BY <1>3
    <3>2. CASE i = k
      BY <3>1, <3>2
    <3>3. CASE i # k
      <4>1. i \in 1 .. k - 1 /\ g[i] = h[i]
        BY <1>3, <3>3
      <4>2. h[i] = step[i][h[i - 1]]
        BY <1>4, <4>1 DEF Iterates
      <4> QED
        BY <3>1, <4>1, <4>2
    <3> QED
      BY <3>2, <3>3
  <2> QED
    BY <2>3, <2>4 DEF Iterates
<1> QED
  BY <1>3, <1>6

(* So a recursion on an initial part of the numbers defines a function.    *)
LEMMA Recursion ==
  ASSUME NEW D \in SUBSET Nat, \A k \in D : 0 .. k \subseteq D,
         NEW a \in Nat, NEW step \in [D -> [Nat -> Nat]]
  PROVE  \E g \in [D -> Nat] :
           \A k \in D : g[k] = IF k = 0 THEN a ELSE step[k][g[k - 1]]
<1> DEFINE upto(n) == CHOOSE g : Iterates(g, n, a, step)
           g == [n \in D |-> upto(n)[n]]
<1>1. \A n \in D : Iterates(upto(n), n, a, step)
  BY IteratesExist
<1>2. ASSUME NEW n \in D
      PROVE  g[n] = upto(n)[n] /\ upto(n)[n] \in Nat
  <2> HIDE DEF upto
  <2>1. upto(n) \in [0 .. n -> Nat]
    BY <1>1 DEF Iterates
  <2>2. n \in 0 .. n
    OBVIOUS
  <2> QED
    BY <2>1, <2>2
<1>3. ASSUME NEW n \in D, n # 0
      PROVE  g[n - 1] = upto(n)[n - 1]
  <2>1. n - 1 \in D /\ n - 1 \in Nat /\ n \in Nat
    BY <1>3
  <2> HIDE DEF upto
  <2>2. Iterates(upto(n), n, a, step) /\ Iterates(upto(n - 1), n - 1, a, step)
    BY <1>1, <2>1
  <2>3. \A i \in 0 .. n - 1 : upto(n)[i] = upto(n - 1)[i]
    BY <2>1, <2>2, IteratesAgree
  <2> QED
    BY <2>1, <2>3
<1>4. ASSUME NEW n \in D
      PROVE  g[n] = IF n = 0 THEN a ELSE step[n][g[n - 1]]
  <2> HIDE DEF upto
  <2>1. Iterates(upto(n), n, a, step) /\ n \in Nat
    BY <1>1
  <2>2. CASE n = 0
    BY <2>1, <2>2 DEF Iterates
  <2>3. CASE n # 0
    <3>1. n \in 1 .. n
      BY <2>1, <2>3
    <3>2. upto(n)[n] = step[n][upto(n)[n - 1]]
      BY <2>1, <3>1 DEF Iterates
    <3>3. g[n - 1] = upto(n)[n - 1]
      BY <2>3, <1>3
    <3>4. g[n] = upto(n)[n]
      OBVIOUS
    <3> HIDE DEF g
    <3> QED
      BY <2>3, <3>2, <3>3, <3>4
  <2> QED
    BY <2>2, <2>3
<1> HIDE DEF upto
<1>5. g \in [D -> Nat]
  BY <1>2
<1> QED
  BY <1>4, <1>5

-----------------------------------------------------------------------------
(* Powers of ten.                                                          *)

LEMMA PowersExist ==
  /\ Pow10 \in [Nat -> Nat]
  /\ Pow10 = [k \in Nat |-> IF k = 0 THEN 1 ELSE 10 * Pow10[k - 1]]
<1> DEFINE step == [k \in Nat |-> [v \in Nat |-> 10 * v]]
           IsPow(g) == g = [k \in Nat |-> IF k = 0 THEN 1 ELSE 10 * g[k - 1]]
<1>1. PICK g \in [Nat -> Nat] :
        \A k \in Nat : g[k] = IF k = 0 THEN 1 ELSE step[k][g[k - 1]]
  <2>1. /\ step \in [Nat -> [Nat -> Nat]] /\ 1 \in Nat
        /\ Nat \in SUBSET Nat /\ \A k \in Nat : 0 .. k \subseteq Nat
    OBVIOUS
  <2> HIDE DEF step
  <2> QED
    BY <2>1, Recursion
<1>2. ASSUME NEW k \in Nat
      PROVE  g[k] = IF k = 0 THEN 1 ELSE 10 * g[k - 1]
  <2>1. k # 0 => g[k - 1] \in Nat
    OBVIOUS
  <2>2. k # 0 => step[k][g[k - 1]] = 10 * g[k - 1]
    BY <2>1
  <2> QED
    BY <1>1, <2>2
<1>3. IsPow(g)
  BY <1>2
<1>4. IsPow(Pow10)
  BY <1>3 DEF Pow10
<1>5. ASSUME NEW k \in Nat PROVE Pow10[k] \in Nat
  <2> DEFINE Q == {i \in Nat : Pow10[i] \notin Nat}
  <2> SUFFICES ASSUME Q # {} PROVE FALSE
    OBVIOUS
  <2>1. PICK i \in Q : \A j \in Q : i <= j
    <3>1. Q \in SUBSET Nat
      OBVIOUS
    <3> HIDE DEF Q
    <3> QED
      BY <3>1, Least
  <2>2. Pow10[i] = IF i = 0 THEN 1 ELSE 10 * Pow10[i - 1]
    BY <1>4
  <2>3. i # 0 => Pow10[i - 1] \in Nat
    BY <2>1
  <2> QED
    BY <2>2, <2>3
<1> QED
  BY <1>4, <1>5

LEMMA Powers ==
  /\ \A k \in Nat : Pow10[k] \in Nat \ {0}
  /\ Pow10[0] = 1
  /\ \A k \in Nat : Pow10[k + 1] = 10 * Pow10[k]
<1>1. \A k \in Nat : Pow10[k] = IF k = 0 THEN 1 ELSE 10 * Pow10[k - 1]
  BY PowersExist
<1>2. \A k \in Nat : Pow10[k] \in Nat
  BY PowersExist
<1>3. ASSUME NEW k \in Nat PROVE Pow10[k + 1] = 10 * Pow10[k]
  <2>1. k + 1 \in Nat /\ k + 1 # 0 /\ (k + 1) - 1 = k
    OBVIOUS
  <2> QED
    BY <1>1, <2>1
<1>4. ASSUME NEW k \in Nat PROVE Pow10[k] # 0
  <2> DEFINE Q == {i \in Nat : Pow10[i] = 0}
  <2> SUFFICES ASSUME Q # {} PROVE FALSE
    OBVIOUS
  <2>1. PICK i \in Q : \A j \in Q : i <= j
    <3>1. Q \in SUBSET Nat
      OBVIOUS
    <3> HIDE DEF Q
    <3> QED
      BY <3>1, Least
  <2>2. i \in Nat /\ Pow10[i] = 0 /\ i # 0
    BY <1>1
  <2>3. i - 1 \in Nat /\ Pow10[i - 1] # 0
    BY <2>1, <2>2
  <2> QED
    BY <1>1, <1>2, <2>2, <2>3
<1> QED
  BY <1>1, <1>2, <1>3, <1>4

(* More digits, a larger number.                                           *)
LEMMA PowersGrow ==
  ASSUME NEW k \in Nat, NEW n \in Nat, k <= n
  PROVE  Pow10[k] <= Pow10[n]
<1> DEFINE Q == {i \in Nat : k <= i /\ ~ (Pow10[k] <= Pow10[i])}
<1> SUFFICES ASSUME Q # {} PROVE FALSE
  OBVIOUS
<1>1. PICK i \in Q : \A j \in Q : i <= j
  <2>1. Q \in SUBSET Nat
    OBVIOUS
  <2> HIDE DEF Q
  <2> QED
    BY <2>1, Least
<1>2. i \in Nat /\ k <= i /\ ~ (Pow10[k] <= Pow10[i]) /\ Pow10[k] \in Nat
  BY Powers
<1>3. i # k
  BY <1>2
<1>4. i - 1 \in Nat /\ k <= i - 1 /\ Pow10[k] <= Pow10[i - 1]
  BY <1>1, <1>2, <1>3
<1>5. Pow10[i] = 10 * Pow10[i - 1] /\ Pow10[i - 1] \in Nat
  <2>1. (i - 1) + 1 = i
    BY <1>2
  <2> QED
    BY <1>4, <2>1, Powers
<1> HIDE DEF Q
<1> QED
  BY <1>2, <1>4, <1>5

LEMMA Times ==
  ASSUME NEW a \in Int, NEW b \in Int, a <= b, NEW c \in Nat
  PROVE  a * c <= b * c
OBVIOUS

LEMMA Quotients ==
  ASSUME NEW n \in Nat, NEW d \in Nat \ {0}
  PROVE  n \div d \in Nat /\ (n \div d) * d <= n /\ n < (n \div d + 1) * d
OBVIOUS

LEMMA QuotientIs ==
  ASSUME NEW n \in Nat, NEW d \in Nat \ {0}, NEW q \in Nat,
         q * d <= n, n < (q + 1) * d
  PROVE  n \div d = q
<1> DEFINE p == n \div d
<1>1. p \in Nat /\ p * d <= n /\ n < (p + 1) * d
  BY Quotients
<1> HIDE DEF p
<1>2. ~ (p < q)
  <2> SUFFICES ASSUME p + 1 <= q PROVE FALSE
    BY <1>1
  <2>1. (p + 1) * d <= q * d
    BY <1>1, Times
  <2> QED
    BY <1>1, <2>1
<1>3. ~ (q < p)
  <2> SUFFICES ASSUME q + 1 <= p PROVE FALSE
    BY <1>1
  <2>1. (q + 1) * d <= p * d
    BY <1>1, Times
  <2> QED
    BY <1>1, <2>1
<1>4. p = q
  BY <1>1, <1>2, <1>3
<1> QED
  BY <1>4 DEF p

LEMMA SmallQuotient ==
  ASSUME NEW n \in Nat, NEW d \in Nat \ {0}, n < d
  PROVE  n \div d = 0
OBVIOUS

(* One digit more: the quotient by a power is ten times the one by the     *)
(* next power, and a digit.                                                *)
LEMMA NextDigit ==
  ASSUME NEW n \in Nat, NEW k \in Nat
  PROVE  LET q == n \div Pow10[k]
         IN /\ q \in Nat /\ q % 10 \in 0 .. 9
            /\ n \div Pow10[k + 1] \in Nat
            /\ q = 10 * (n \div Pow10[k + 1]) + (q % 10)
<1> DEFINE d == Pow10[k]
           q == n \div d
           r == q \div 10
<1>1. d \in Nat \ {0} /\ Pow10[k + 1] = 10 * d
  BY Powers
<1>2. q \in Nat /\ q * d <= n /\ n < (q + 1) * d
  BY <1>1, Quotients
<1> HIDE DEF d, q
<1>3. r \in Nat /\ 10 * r <= q /\ q + 1 <= 10 * (r + 1)
      /\ q % 10 \in 0 .. 9 /\ q = 10 * r + (q % 10)
  <2>1. q \in Nat
    BY <1>2
  <2>2. /\ q \div 10 \in Nat /\ (q \div 10) * 10 <= q
        /\ q < (q \div 10 + 1) * 10
    BY <2>1, Quotients
  <2>3. q % 10 \in 0 .. 9
    BY <2>1
  <2>4. q = 10 * (q \div 10) + (q % 10)
    BY <2>1
  <2> QED
    BY <2>1, <2>2, <2>3, <2>4
<1> HIDE DEF r
<1>4. (10 * r) * d <= q * d /\ (q + 1) * d <= (10 * (r + 1)) * d
  BY <1>1, <1>2, <1>3, Times
<1>5. 10 * d \in Nat \ {0} /\ (10 * r) * d = r * (10 * d)
      /\ (10 * (r + 1)) * d = (r + 1) * (10 * d)
      /\ r * (10 * d) \in Nat /\ (r + 1) * (10 * d) \in Nat
      /\ q * d \in Nat /\ (q + 1) * d \in Nat
  BY <1>1, <1>2, <1>3
<1>6. r * (10 * d) <= n /\ n < (r + 1) * (10 * d)
  BY <1>2, <1>4, <1>5
<1>7. n \div (10 * d) = r
  BY <1>3, <1>5, <1>6, QuotientIs
<1> QED
  BY <1>1, <1>2, <1>3, <1>7 DEF d, q, r

-----------------------------------------------------------------------------
(* What the steps of encode_base10 return.                                 *)

Chars == 0 .. 9 \cup {Point}

LEMMA Largest ==
  ASSUME NEW S \in SUBSET Nat, S # {}, NEW n \in Nat, \A x \in S : x <= n
  PROVE  Max(S) \in S /\ \A x \in S : x <= Max(S)
<1> DEFINE Q == {k \in Nat : n - k \in S}
<1>1. ASSUME NEW x \in S
      PROVE  x \in Nat /\ n - x \in Nat /\ n - (n - x) = x
  OBVIOUS
<1>2. Q \in SUBSET Nat /\ Q # {}
  BY <1>1
<1>3. PICK q \in Q : \A k \in Q : q <= k
  <2> HIDE DEF Q
  <2> QED
    BY <1>2, Least
<1>4. q \in Nat /\ n - q \in S
  OBVIOUS
<1>5. ASSUME NEW x \in S
      PROVE  n - q >= x
  <2>1. n - x \in Q
    BY <1>1
  <2>2. q <= n - x /\ x \in Nat
    BY <1>3, <2>1
  <2> HIDE DEF Q
  <2> QED
    BY <1>4, <2>2
<1> HIDE DEF Q
<1>6. Max(S) \in S /\ \A x \in S : Max(S) >= x
  BY <1>4, <1>5 DEF Max
<1> QED
  BY <1>6

LEMMA SameEnd ==
  ASSUME NEW a \in Nat, NEW b \in Nat, 1 .. a = 1 .. b
  PROVE  a = b
OBVIOUS

(* The digits of n, zeros in front only to reach the width.                *)
LEMMA PaddedIs ==
  ASSUME NEW n \in 0 .. MaxAmount, NEW width \in Nat \ {0}
  PROVE  LET s == Padded(n, width)
             len == Len(s)
         IN /\ s \in Seq(0 .. 9) /\ len \in Nat /\ width <= len
            /\ \A i \in 1 .. len : s[i] = (n \div Pow10[len - i]) % 10
            /\ n < Pow10[len]
            /\ width < len => Pow10[len - 1] <= n
<1> DEFINE Lengths == {k \in 1 .. MaxDigits : n >= Pow10[k - 1]}
           S == {width} \cup Lengths
           len == Max(S)
           s == [i \in 1 .. len |-> (n \div Pow10[len - i]) % 10]
<1>1. MaxDigits \in Nat /\ n \in Nat /\ n < Pow10[MaxDigits]
  BY AmountTextAssumption, Powers
<1>2. len \in S /\ \A x \in S : x <= len
  <2>1. S \in SUBSET Nat /\ S # {}
    BY <1>1
  <2>2. width + MaxDigits \in Nat /\ \A x \in S : x <= width + MaxDigits
    BY <1>1
  <2> HIDE DEF S
  <2> QED
    BY <2>1, <2>2, Largest
<1> HIDE DEF len
<1>3. len \in Nat \ {0} /\ width <= len
  BY <1>1, <1>2
<1>4. \A i \in 1 .. len : (n \div Pow10[len - i]) % 10 \in 0 .. 9
  <2>1. ASSUME NEW i \in 1 .. len
        PROVE  (n \div Pow10[len - i]) % 10 \in 0 .. 9
    <3>1. len - i \in Nat
      BY <1>3
    <3> QED
      BY <1>1, <3>1, NextDigit
  <2> QED
    BY <2>1
<1>5. s \in Seq(0 .. 9) /\ Len(s) = len
  <2>1. s \in [1 .. len -> 0 .. 9]
    BY <1>4
  <2>2. s \in Seq(0 .. 9)
    BY <1>3, <2>1, SeqDef
  <2>3. Len(s) \in Nat /\ DOMAIN s = 1 .. Len(s)
    BY <2>2, LenProperties
  <2>4. DOMAIN s = 1 .. len
    BY <2>1
  <2> HIDE DEF s
  <2>5. Len(s) = len
    BY <1>3, <2>3, <2>4, SameEnd
  <2> QED
    BY <2>2, <2>5
<1>6. n < Pow10[len]
  <2>1. CASE len < MaxDigits
    <3>1. len + 1 \in 1 .. MaxDigits /\ (len + 1) - 1 = len
      BY <1>1, <1>3, <2>1
    <3>2. len + 1 \notin Lengths
      BY <1>2, <1>3
    <3>3. ~ (n >= Pow10[len])
      BY <3>1, <3>2
    <3> QED
      BY <1>1, <1>3, <3>3, Powers
  <2>2. CASE MaxDigits <= len
    <3>1. Pow10[MaxDigits] <= Pow10[len]
      BY <1>1, <1>3, <2>2, PowersGrow
    <3> QED
      BY <1>1, <1>3, <3>1, Powers
  <2> QED
    BY <1>1, <1>3, <2>1, <2>2
<1>7. width < len => Pow10[len - 1] <= n
  <2> SUFFICES ASSUME width < len PROVE Pow10[len - 1] <= n
    OBVIOUS
  <2>1. len \in Lengths
    BY <1>2
  <2>2. len - 1 \in Nat
    BY <1>3
  <2> QED
    BY <1>1, <2>1, <2>2, Powers
<1>8. Padded(n, width) = s
  BY DEF Padded, len, s, S, Lengths
<1>9. \A i \in 1 .. len : s[i] = (n \div Pow10[len - i]) % 10
  OBVIOUS
<1> HIDE DEF s
<1> QED
  BY <1>3, <1>5, <1>6, <1>7, <1>8, <1>9

(* The point before the last digits.                                       *)
LEMMA WithPointIs ==
  ASSUME NEW n \in 0 .. MaxAmount, NEW p \in Nat
  PROVE  LET s == Padded(n, 1 + p)
             w == WithPoint(n, p)
             whole == Len(s) - p
         IN /\ w \in Seq(Chars) /\ Len(w) = Len(s) + 1
            /\ whole \in Nat \ {0}
            /\ \A i \in 1 .. whole : w[i] = s[i]
            /\ w[whole + 1] = Point
            /\ \A i \in whole + 2 .. Len(s) + 1 : w[i] = s[i - 1]
<1> DEFINE s == Padded(n, 1 + p)
           len == Len(s)
           whole == len - p
           front == SubSeq(s, 1, whole)
           back == SubSeq(s, whole + 1, len)
           left == front \o <<Point>>
           w == left \o back
<1>1. s \in Seq(Chars) /\ len \in Nat /\ whole \in Nat \ {0}
  <2>1. 1 + p \in Nat \ {0}
    OBVIOUS
  <2>2. s \in Seq(0 .. 9) /\ len \in Nat /\ 1 + p <= len
    BY <2>1, PaddedIs
  <2> HIDE DEF s
  <2>3. s \in Seq(Chars)
    BY <2>2, SeqMonotonic DEF Chars
  <2> QED
    BY <2>2, <2>3
<1>2. WithPoint(n, p) = w
  <2>1. (len - p + 1) - 1 = whole /\ len - p + 1 = whole + 1
    BY <1>1
  <2> QED
    BY <2>1 DEF WithPoint, InsertAt
<1> HIDE DEF s
<1>3. \A i \in 1 .. len : s[i] \in Chars
  BY <1>1, ElementOfSeq
<1> HIDE DEF len
<1>4. /\ front \in Seq(Chars) /\ Len(front) = whole
      /\ \A i \in 1 .. whole : front[i] = s[i]
  <2>1. \A i \in 1 .. whole : s[i] \in Chars
    BY <1>1, <1>3
  <2>2. /\ Len(front) = IF 1 <= whole THEN whole - 1 + 1 ELSE 0
        /\ \A i \in 1 .. whole - 1 + 1 : front[i] = s[1 + i - 1]
        /\ front \in Seq(Chars)
    BY <1>1, <2>1, SubSeqProperties
  <2> HIDE DEF front
  <2> QED
    BY <1>1, <2>2
<1>5. /\ back \in Seq(Chars) /\ Len(back) = p
      /\ \A i \in 1 .. p : back[i] = s[whole + i]
  <2>1. \A i \in whole + 1 .. len : s[i] \in Chars
    BY <1>1, <1>3
  <2>2. /\ Len(back) = IF whole + 1 <= len THEN len - (whole + 1) + 1 ELSE 0
        /\ \A i \in 1 .. len - (whole + 1) + 1 :
             back[i] = s[(whole + 1) + i - 1]
        /\ back \in Seq(Chars)
    BY <1>1, <2>1, SubSeqProperties
  <2> HIDE DEF back
  <2> QED
    BY <1>1, <2>2
<1> HIDE DEF front, back, w
<1>6. /\ left \in Seq(Chars) /\ Len(left) = whole + 1
      /\ \A i \in 1 .. whole : left[i] = s[i]
      /\ left[whole + 1] = Point
  <2>1. <<Point>> \in Seq(Chars) /\ Len(<<Point>>) = 1 /\ <<Point>>[1] = Point
    BY DEF Chars
  <2>2. /\ left \in Seq(Chars) /\ Len(left) = Len(front) + Len(<<Point>>)
        /\ \A i \in 1 .. Len(front) + Len(<<Point>>) :
             left[i] = IF i <= Len(front) THEN front[i]
                       ELSE <<Point>>[i - Len(front)]
    BY <1>4, <2>1, ConcatProperties
  <2> HIDE DEF left
  <2>3. Len(left) = whole + 1
    BY <1>4, <2>1, <2>2
  <2>4. ASSUME NEW i \in 1 .. whole
        PROVE  left[i] = s[i]
    <3>1. i \in 1 .. Len(front) + Len(<<Point>>) /\ i <= Len(front)
      BY <1>1, <1>4, <2>1
    <3> QED
      BY <1>4, <2>2, <3>1
  <2>5. left[whole + 1] = Point
    <3>1. /\ whole + 1 \in 1 .. Len(front) + Len(<<Point>>)
          /\ ~ (whole + 1 <= Len(front)) /\ (whole + 1) - Len(front) = 1
      BY <1>1, <1>4, <2>1
    <3> QED
      BY <2>1, <2>2, <3>1
  <2> QED
    BY <2>2, <2>3, <2>4, <2>5
<1> HIDE DEF left
<1>7. /\ w \in Seq(Chars) /\ Len(w) = Len(left) + Len(back)
      /\ \A i \in 1 .. Len(left) + Len(back) :
           w[i] = IF i <= Len(left) THEN left[i] ELSE back[i - Len(left)]
  BY <1>5, <1>6, ConcatProperties DEF w
<1>8. ASSUME NEW i \in whole + 2 .. len + 1
      PROVE  w[i] = s[i - 1]
  <2>1. i \in 1 .. Len(left) + Len(back) /\ ~ (i <= Len(left))
    BY <1>1, <1>5, <1>6
  <2>2. i - Len(left) \in 1 .. p /\ whole + (i - Len(left)) = i - 1
    <3>1. Len(left) = len - p + 1 /\ i \in Int /\ i <= len + 1
          /\ len - p + 2 <= i
      BY <1>1, <1>6
    <3> QED
      BY <1>1, <3>1
  <2> QED
    BY <1>5, <1>7, <2>1, <2>2
<1>9. /\ Len(w) = len + 1 /\ w[whole + 1] = Point
      /\ \A i \in 1 .. whole : w[i] = s[i]
  BY <1>1, <1>5, <1>6, <1>7
<1> QED
  BY <1>1, <1>2, <1>7, <1>8, <1>9 DEF s, len, whole

(* TrimEnd takes all of one character off the end, and nothing else.       *)
LEMMA TrimEndIs ==
  ASSUME NEW s \in Seq(Chars), NEW c
  PROVE  LET t == TrimEnd(s, c)
         IN /\ t \in Seq(Chars) /\ Len(t) \in 0 .. Len(s)
            /\ \A i \in 1 .. Len(t) : t[i] = s[i]
            /\ Len(t) # 0 => t[Len(t)] # c
            /\ \A i \in Len(t) + 1 .. Len(s) : s[i] = c
<1> DEFINE S == {0} \cup {i \in DOMAIN s : s[i] # c}
           last == Max(S)
           t == SubSeq(s, 1, last)
<1>1. Len(s) \in Nat /\ DOMAIN s = 1 .. Len(s)
  BY LenProperties
<1>2. last \in S /\ \A x \in S : x <= last
  <2>1. S \in SUBSET Nat /\ S # {} /\ \A x \in S : x <= Len(s)
    BY <1>1
  <2> HIDE DEF S
  <2> QED
    BY <1>1, <2>1, Largest
<1> HIDE DEF last
<1>3. last \in 0 .. Len(s) /\ (last # 0 => s[last] # c)
  BY <1>1, <1>2
<1>4. \A i \in last + 1 .. Len(s) : s[i] = c
  BY <1>1, <1>2, <1>3
<1>5. \A i \in 1 .. last : s[i] \in Chars
  BY <1>1, <1>3, ElementOfSeq
<1>6. /\ t \in Seq(Chars)
      /\ Len(t) = IF 1 <= last THEN last - 1 + 1 ELSE 0
      /\ \A i \in 1 .. last - 1 + 1 : t[i] = s[1 + i - 1]
  BY <1>3, <1>5, SubSeqProperties
<1>7. TrimEnd(s, c) = t
  BY DEF TrimEnd, last
<1> HIDE DEF t, S
<1>8. Len(t) = last /\ \A i \in 1 .. last : t[i] = s[i]
  BY <1>1, <1>3, <1>6
<1>9. last # 0 => last \in 1 .. last
  BY <1>3
<1> QED
  BY <1>3, <1>4, <1>6, <1>7, <1>8, <1>9

-----------------------------------------------------------------------------
(* The text in the log.                                                    *)

(* The text is the one of the amount.                                      *)
Logged ==
  /\ amount \in 0 .. MaxAmount
  /\ places \in Nat
  /\ text = encode_base10(amount, places)

(* The digit that counts 10^k.                                             *)
Digit(k) == (amount \div Pow10[k]) % 10

(* Where the len digits of the amount stand in the text: whole ones, and,  *)
(* if any of the others counts, the point and those up to the last one     *)
(* that does.                                                              *)
Layout(len) ==
  LET whole == len - places
      last == Len(text)
  IN /\ text \in Seq(Chars)
     /\ whole \in Nat \ {0}
     /\ last \in whole .. len + 1
     /\ last # whole + 1
     /\ \A i \in 1 .. whole : text[i] = Digit(len - i)
     /\ last # whole =>
          /\ text[whole + 1] = Point
          /\ \A i \in whole + 2 .. last : text[i] = Digit(len - (i - 1))
          /\ text[last] # 0
     /\ \A i \in whole + 2 .. len + 1 : last < i => Digit(len - (i - 1)) = 0
     /\ amount < Pow10[len]
     /\ 1 < whole => Pow10[len - 1] <= amount

LEMMA DigitIs ==
  ASSUME Logged, NEW k \in Nat
  PROVE  Digit(k) \in 0 .. 9 /\ Digit(k) # Point
<1>1. amount \in Nat /\ Point \notin 0 .. 9
  BY AmountTextAssumption DEF Logged
<1>2. Digit(k) \in 0 .. 9
  BY <1>1, NextDigit DEF Digit
<1> QED
  BY <1>1, <1>2

(* encode_base10 lays its amount out so.                                   *)
LEMMA TextIs ==
  ASSUME Logged
  PROVE  \E len \in Nat : Layout(len)
<1> DEFINE s == Padded(amount, 1 + places)
           w == WithPoint(amount, places)
           t == TrimEnd(w, 0)
           len == Len(s)
           whole == len - places
           last == Len(text)
           m == Len(t)
<1>1. amount \in 0 .. MaxAmount /\ places \in Nat /\ 1 + places \in Nat \ {0}
      /\ text = TrimEnd(t, Point) /\ Point \notin 0 .. 9
  BY AmountTextAssumption DEF Logged, encode_base10
<1>2. /\ len \in Nat /\ 1 + places <= len
      /\ \A i \in 1 .. len : s[i] = Digit(len - i)
      /\ amount < Pow10[len]
      /\ 1 + places < len => Pow10[len - 1] <= amount
  BY <1>1, PaddedIs DEF Digit
<1>3. /\ w \in Seq(Chars) /\ Len(w) = len + 1 /\ whole \in Nat \ {0}
      /\ \A i \in 1 .. whole : w[i] = s[i]
      /\ w[whole + 1] = Point
      /\ \A i \in whole + 2 .. len + 1 : w[i] = s[i - 1]
  BY <1>1, WithPointIs
<1> HIDE DEF s, w
<1>4. /\ t \in Seq(Chars) /\ m \in 0 .. len + 1
      /\ \A i \in 1 .. m : t[i] = w[i]
      /\ m # 0 => t[m] # 0
      /\ \A i \in m + 1 .. len + 1 : w[i] = 0
  BY <1>3, TrimEndIs
<1> HIDE DEF t
<1>5. /\ text \in Seq(Chars) /\ last \in 0 .. m
      /\ \A i \in 1 .. last : text[i] = t[i]
      /\ last # 0 => text[last] # Point
      /\ \A i \in last + 1 .. m : t[i] = Point
  BY <1>1, <1>4, TrimEndIs
<1> HIDE DEF len, last, m
<1>6. \A i \in 1 .. len : s[i] \in 0 .. 9 /\ s[i] # Point
  <2>1. ASSUME NEW i \in 1 .. len
        PROVE  s[i] \in 0 .. 9 /\ s[i] # Point
    <3>1. len - i \in Nat
      BY <1>2
    <3> QED
      BY <1>2, <3>1, DigitIs
  <2> QED
    BY <2>1
<1>7. whole + 1 <= m
  <2> SUFFICES ASSUME m < whole + 1 PROVE FALSE
    BY <1>3, <1>4
  <2>1. whole + 1 \in m + 1 .. len + 1
    BY <1>1, <1>2, <1>3, <1>4
  <2>2. Point = 0
    BY <1>3, <1>4, <2>1
  <2> QED
    BY <1>1, <2>2
<1>8. \A i \in 1 .. m : i # whole + 1 => t[i] # Point
  <2>1. ASSUME NEW i \in 1 .. m, i # whole + 1
        PROVE  t[i] # Point
    <3>1. CASE i <= whole
      <4>1. i \in 1 .. whole /\ i \in 1 .. len
        BY <1>1, <1>2, <1>3, <3>1
      <4> QED
        BY <1>3, <1>4, <1>6, <4>1
    <3>2. CASE whole + 2 <= i
      <4>1. i \in whole + 2 .. len + 1 /\ i - 1 \in 1 .. len
        BY <1>1, <1>2, <1>3, <1>4, <3>2
      <4> QED
        BY <1>3, <1>4, <1>6, <4>1
    <3> QED
      BY <1>3, <2>1, <3>1, <3>2
  <2> QED
    BY <2>1
<1>9. whole <= last
  <2> SUFFICES ASSUME last < whole PROVE FALSE
    BY <1>3, <1>4, <1>5
  <2>1. whole \in last + 1 .. m /\ whole \in 1 .. m /\ whole # whole + 1
    BY <1>3, <1>4, <1>5, <1>7
  <2> QED
    BY <1>5, <1>8, <2>1
<1>10. last # whole + 1
  <2> SUFFICES ASSUME last = whole + 1 PROVE FALSE
    OBVIOUS
  <2>1. last # 0 /\ whole + 1 \in 1 .. last /\ whole + 1 \in 1 .. m
    BY <1>3, <1>4, <1>5
  <2> QED
    BY <1>3, <1>4, <1>5, <2>1
<1>11. last # whole => last = m
  <2> SUFFICES ASSUME last # whole, last # m PROVE FALSE
    OBVIOUS
  <2>1. m \in last + 1 .. m /\ m \in 1 .. m /\ m # whole + 1
    BY <1>3, <1>4, <1>5, <1>7, <1>9, <1>10
  <2> QED
    BY <1>5, <1>8, <2>1
<1>12. ASSUME NEW i \in 1 .. whole
       PROVE  text[i] = Digit(len - i)
  <2>1. i \in 1 .. last /\ i \in 1 .. m /\ i \in 1 .. len
    BY <1>1, <1>2, <1>3, <1>4, <1>5, <1>9
  <2> QED
    BY <1>2, <1>3, <1>4, <1>5, <2>1
<1>13. ASSUME last # whole
       PROVE  /\ text[whole + 1] = Point
              /\ \A i \in whole + 2 .. last : text[i] = Digit(len - (i - 1))
              /\ text[last] # 0
  <2>1. last = m /\ whole + 2 <= last /\ last <= len + 1
    BY <1>3, <1>4, <1>5, <1>9, <1>10, <1>11, <1>13
  <2>2. whole + 1 \in 1 .. last /\ last \in 1 .. last /\ last # 0
    BY <1>3, <1>4, <1>5, <2>1
  <2>3. ASSUME NEW i \in whole + 2 .. last
        PROVE  text[i] = Digit(len - (i - 1))
    <3>1. i \in 1 .. last /\ i \in whole + 2 .. len + 1 /\ i - 1 \in 1 .. len
      BY <1>2, <1>3, <1>4, <1>5, <2>1
    <3> QED
      BY <1>2, <1>3, <1>4, <1>5, <2>1, <3>1
  <2> QED
    BY <1>3, <1>4, <1>5, <2>1, <2>2, <2>3
<1>14. ASSUME NEW i \in whole + 2 .. len + 1, last < i
       PROVE  Digit(len - (i - 1)) = 0
  <2>1. i \in m + 1 .. len + 1 /\ i - 1 \in 1 .. len
    <3>1. m < i
      <4>1. CASE last = whole
        <5> SUFFICES ASSUME i <= m PROVE FALSE
          BY <1>2, <1>3, <1>4
        <5>1. i \in last + 1 .. m /\ i \in 1 .. m /\ i # whole + 1
          BY <1>2, <1>3, <1>4, <1>5, <4>1
        <5> QED
          BY <1>5, <1>8, <5>1
      <4> QED
        BY <1>11, <1>14, <4>1
    <3> QED
      BY <1>2, <1>3, <1>4, <3>1
  <2> QED
    BY <1>2, <1>3, <1>4, <2>1
<1>15. last \in whole .. len + 1
  BY <1>2, <1>3, <1>4, <1>5, <1>9
<1>16. 1 < whole => Pow10[len - 1] <= amount
  BY <1>1, <1>2
<1>17. Layout(len)
  BY <1>2, <1>3, <1>5, <1>10, <1>12, <1>13, <1>14, <1>15, <1>16
     DEF Layout, last
<1> QED
  BY <1>2, <1>17

(* The digits before the point, and those after it.                        *)
LEMMA SidesAre ==
  ASSUME Logged, NEW len \in Nat, Layout(len)
  PROVE  LET whole == len - places
         IN /\ Before = 1 .. whole /\ Cardinality(Before) = whole
            /\ After = whole + 2 .. Len(text)
            /\ Cardinality(After)
                 = IF Len(text) = whole THEN 0 ELSE Len(text) - whole - 1
<1> DEFINE whole == len - places
           last == Len(text)
<1>1. /\ DOMAIN text = 1 .. last /\ whole \in Nat \ {0}
      /\ last \in whole .. len + 1 /\ last # whole + 1 /\ last \in Nat
      /\ last # whole => text[whole + 1] = Point
  BY LenProperties DEF Layout
<1>2. ASSUME NEW i \in 1 .. last, i # whole + 1
      PROVE  text[i] # Point
  <2>1. CASE i <= whole
    <3>1. i \in 1 .. whole /\ len - i \in Nat
      BY <1>1, <2>1 DEF Logged
    <3> QED
      BY <3>1, DigitIs DEF Layout
  <2>2. CASE whole < i
    <3>1. last # whole /\ i \in whole + 2 .. last /\ len - (i - 1) \in Nat
      BY <1>1, <1>2, <2>2
    <3> QED
      BY <3>1, DigitIs DEF Layout
  <2> QED
    BY <1>1, <2>1, <2>2
<1> HIDE DEF whole, last
<1>3. Before = 1 .. whole
  <2>1. ASSUME NEW i \in 1 .. whole
        PROVE  i \in Before
    <3>1. i \in 1 .. last /\ \A j \in 1 .. i : j \in 1 .. last /\ j # whole + 1
      BY <1>1
    <3> QED
      BY <1>1, <1>2, <3>1 DEF Before
  <2>2. ASSUME NEW i \in Before
        PROVE  i \in 1 .. whole
    <3>1. i \in 1 .. last /\ \A j \in 1 .. i : text[j] # Point
      BY <1>1 DEF Before
    <3>2. ~ (whole + 1 \in 1 .. i)
      <4> SUFFICES ASSUME whole + 1 \in 1 .. i PROVE FALSE
        OBVIOUS
      <4>1. last # whole
        BY <1>1, <3>1
      <4> QED
        BY <1>1, <3>1, <4>1
    <3> QED
      BY <1>1, <3>1, <3>2
  <2> QED
    BY <2>1, <2>2
<1>4. After = whole + 2 .. last
  <2>1. ASSUME NEW i \in whole + 2 .. last
        PROVE  i \in After
    <3>1. i \in 1 .. last /\ last # whole /\ whole + 1 \in 1 .. i - 1
      BY <1>1
    <3> QED
      BY <1>1, <3>1 DEF After
  <2>2. ASSUME NEW i \in After
        PROVE  i \in whole + 2 .. last
    <3>1. i \in 1 .. last
      BY <1>1 DEF After
    <3>2. PICK j \in 1 .. i - 1 : text[j] = Point
      BY DEF After
    <3>3. j \in 1 .. last
      BY <1>1, <3>1
    <3>4. j = whole + 1
      BY <1>2, <3>2, <3>3
    <3> QED
      BY <1>1, <3>1, <3>4
  <2> QED
    BY <2>1, <2>2
<1>5. Cardinality(1 .. whole) = whole
  BY <1>1, FS_Interval
<1>6. Cardinality(whole + 2 .. last) = IF last = whole THEN 0 ELSE last - whole - 1
  <2>1. whole + 2 \in Int /\ last \in Int
    BY <1>1
  <2>2. Cardinality(whole + 2 .. last)
          = IF whole + 2 > last THEN 0 ELSE last - (whole + 2) + 1
    BY <2>1, FS_Interval
  <2> QED
    BY <1>1, <2>2
<1> QED
  BY <1>3, <1>4, <1>5, <1>6 DEF whole, last

(* Reading is the recursion it is written as.                              *)
LEMMA ReadingIs ==
  ASSUME text \in Seq(Chars)
  PROVE  /\ Reading \in [0 .. Len(text) -> Nat]
         /\ Reading[0] = 0
         /\ \A i \in 1 .. Len(text) :
              Reading[i] = IF text[i] = Point THEN Reading[i - 1]
                           ELSE 10 * Reading[i - 1] + text[i]
<1> DEFINE D == 0 .. Len(text)
           Longer(i, v) == IF text[i] = Point THEN v ELSE 10 * v + text[i]
           step == [i \in D |-> [v \in Nat |-> IF i = 0 THEN 0 ELSE Longer(i, v)]]
           IsReading(g) ==
             g = [i \in 0 .. Len(text) |->
                    IF i = 0 THEN 0
                    ELSE IF text[i] = Point THEN g[i - 1]
                    ELSE 10 * g[i - 1] + text[i]]
<1>1. Len(text) \in Nat
  BY LenProperties
<1>2. ASSUME NEW i \in 1 .. Len(text), NEW v \in Nat
      PROVE  Longer(i, v) \in Nat
  <2>1. text[i] \in 0 .. 9 \/ text[i] = Point
    BY <1>1, ElementOfSeq DEF Chars
  <2> QED
    BY <2>1
<1> HIDE DEF Longer
<1>3. step \in [D -> [Nat -> Nat]]
  <2>1. ASSUME NEW i \in D, NEW v \in Nat
        PROVE  (IF i = 0 THEN 0 ELSE Longer(i, v)) \in Nat
    <3>1. i # 0 => i \in 1 .. Len(text)
      BY <1>1
    <3> QED
      BY <1>2, <3>1
  <2> QED
    BY <2>1
<1>4. PICK g \in [D -> Nat] :
        \A k \in D : g[k] = IF k = 0 THEN 0 ELSE step[k][g[k - 1]]
  <2>1. D \in SUBSET Nat /\ (\A k \in D : 0 .. k \subseteq D) /\ 0 \in Nat
    BY <1>1
  <2> HIDE DEF D, step
  <2> QED
    BY <1>3, <2>1, Recursion
<1>5. ASSUME NEW k \in D
      PROVE  g[k] = IF k = 0 THEN 0 ELSE Longer(k, g[k - 1])
  <2>1. k # 0 => k - 1 \in D
    BY <1>1
  <2>2. k # 0 => g[k - 1] \in Nat
    BY <2>1
  <2>3. k # 0 => step[k][g[k - 1]] = Longer(k, g[k - 1])
    BY <2>2
  <2> QED
    BY <1>4, <2>3
<1>6. IsReading(g)
  BY <1>5 DEF Longer
<1>7. Reading = CHOOSE h : IsReading(h)
  BY DEF Reading
<1> HIDE DEF IsReading
<1>8. IsReading(Reading)
  BY <1>6, <1>7
<1>9. /\ DOMAIN Reading = D
      /\ \A k \in D : Reading[k] = IF k = 0 THEN 0 ELSE Longer(k, Reading[k - 1])
  BY <1>8 DEF IsReading, Longer
<1>10. \A k \in D : Reading[k] \in Nat
  <2> DEFINE Q == {k \in D : Reading[k] \notin Nat}
  <2> SUFFICES ASSUME Q # {} PROVE FALSE
    OBVIOUS
  <2>1. PICK k \in Q : \A j \in Q : k <= j
    <3>1. Q \in SUBSET Nat
      BY <1>1
    <3> HIDE DEF Q
    <3> QED
      BY <3>1, Least
  <2>2. k \in D /\ Reading[k] \notin Nat /\ k # 0
    BY <1>9
  <2>3. k - 1 \in D /\ k \in 1 .. Len(text) /\ Reading[k - 1] \in Nat
    BY <1>1, <2>1, <2>2
  <2> QED
    BY <1>2, <1>9, <2>2, <2>3
<1>11. Reading = [k \in D |-> Reading[k]]
  BY <1>8 DEF IsReading
<1>12. Reading \in [D -> Nat]
  BY <1>10, <1>11
<1>13. 0 \in D /\ \A i \in 1 .. Len(text) : i \in D /\ i # 0
  BY <1>1
<1> QED
  BY <1>9, <1>12, <1>13 DEF Longer

(* Reading up to the i-th character leaves the digits from there on.       *)
LEMMA ReadSoFar ==
  ASSUME Logged, NEW len \in Nat, Layout(len), NEW n \in 0 .. Len(text)
  PROVE  Reading[n] = IF n <= len - places THEN amount \div Pow10[len - n]
                      ELSE amount \div Pow10[len - (n - 1)]
<1> DEFINE whole == len - places
           last == Len(text)
           rest(i) == IF i <= whole THEN len - i ELSE len - (i - 1)
           Q == {i \in 0 .. last : Reading[i] # amount \div Pow10[rest(i)]}
<1>1. /\ text \in Seq(Chars) /\ whole \in Nat \ {0} /\ last \in whole .. len + 1
      /\ last # whole + 1 /\ amount \in Nat /\ places \in Nat /\ last \in Nat
      /\ \A i \in 1 .. whole : text[i] = Digit(len - i)
      /\ last # whole =>
           /\ text[whole + 1] = Point
           /\ \A i \in whole + 2 .. last : text[i] = Digit(len - (i - 1))
  BY LenProperties DEF Layout, Logged
<1>2. \A i \in 0 .. last : rest(i) \in Nat
  BY <1>1
<1>3. SUFFICES ASSUME Q # {} PROVE FALSE
  <2>1. n \notin Q => Reading[n] = amount \div Pow10[rest(n)]
    OBVIOUS
  <2> QED
    BY <2>1
<1>4. PICK i \in Q : \A j \in Q : i <= j
  <2>1. Q \in SUBSET Nat
    BY <1>1
  <2> HIDE DEF Q
  <2> QED
    BY <1>3, <2>1, Least
<1>5. i \in 0 .. last /\ Reading[i] # amount \div Pow10[rest(i)]
  OBVIOUS
<1>6. i # 0
  <2> SUFFICES ASSUME i = 0 PROVE FALSE
    OBVIOUS
  <2>1. Reading[0] = 0 /\ rest(i) = len
    BY <1>1, ReadingIs
  <2>2. amount \div Pow10[len] = 0
    <3>1. Pow10[len] \in Nat \ {0} /\ amount < Pow10[len]
      BY Powers DEF Layout
    <3> QED
      BY <1>1, <3>1, SmallQuotient
  <2> QED
    BY <1>5, <2>1, <2>2
<1>7. /\ i \in 1 .. last /\ i - 1 \in 0 .. last
      /\ Reading[i - 1] = amount \div Pow10[rest(i - 1)]
  BY <1>1, <1>4, <1>5, <1>6
<1> HIDE DEF Q
<1>8. Reading[i] = IF text[i] = Point THEN Reading[i - 1]
                   ELSE 10 * Reading[i - 1] + text[i]
  BY <1>1, <1>7, ReadingIs
<1>9. CASE i = whole + 1
  <2>1. last # whole /\ rest(i) = rest(i - 1)
    BY <1>1, <1>7, <1>9
  <2> QED
    BY <1>1, <1>5, <1>7, <1>8, <1>9, <2>1
<1>10. CASE i # whole + 1
  <2>1. rest(i - 1) = rest(i) + 1 /\ rest(i) \in Nat
    BY <1>1, <1>2, <1>7, <1>10
  <2>2. text[i] = Digit(rest(i))
    <3>1. CASE i <= whole
      BY <1>1, <1>7, <3>1
    <3>2. CASE whole < i
      <4>1. last # whole /\ i \in whole + 2 .. last
        BY <1>1, <1>7, <1>10, <3>2
      <4> QED
        BY <1>1, <3>2, <4>1
    <3> QED
      BY <1>1, <1>7, <3>1, <3>2
  <2> HIDE DEF rest
  <2>3. text[i] # Point
    BY <2>1, <2>2, DigitIs
  <2>4. amount \div Pow10[rest(i)]
          = 10 * (amount \div Pow10[rest(i) + 1]) + Digit(rest(i))
    BY <1>1, <2>1, NextDigit DEF Digit
  <2> QED
    BY <1>5, <1>7, <1>8, <2>1, <2>2, <2>3, <2>4
<1> QED
  BY <1>9, <1>10

(* Zeros at the end do not count.                                          *)
LEMMA ZerosAtTheEnd ==
  ASSUME Logged, NEW k \in Nat, \A j \in 0 .. k - 1 : Digit(j) = 0
  PROVE  (amount \div Pow10[k]) * Pow10[k] = amount
<1> DEFINE whole(j) == (amount \div Pow10[j]) * Pow10[j]
           Q == {j \in 0 .. k : whole(j) # amount}
<1> SUFFICES ASSUME Q # {} PROVE FALSE
  OBVIOUS
<1>1. PICK i \in Q : \A j \in Q : i <= j
  <2>1. Q \in SUBSET Nat
    OBVIOUS
  <2> HIDE DEF Q
  <2> QED
    BY <2>1, Least
<1>2. i \in 0 .. k /\ whole(i) # amount /\ amount \in Nat
  BY DEF Logged
<1>3. i # 0
  <2>1. amount \div 1 = amount
    BY <1>2
  <2> QED
    BY <1>2, <2>1, Powers
<1>4. i - 1 \in Nat /\ i - 1 \in 0 .. k - 1 /\ (i - 1) + 1 = i
      /\ whole(i - 1) = amount
  BY <1>1, <1>2, <1>3
<1> HIDE DEF Q
<1>5. amount \div Pow10[i - 1] = 10 * (amount \div Pow10[i])
      /\ amount \div Pow10[i] \in Nat
  <2>1. Digit(i - 1) = 0
    BY <1>4
  <2>2. LET q == amount \div Pow10[i - 1]
        IN /\ amount \div Pow10[(i - 1) + 1] \in Nat
           /\ q = 10 * (amount \div Pow10[(i - 1) + 1]) + (q % 10)
    BY <1>2, <1>4, NextDigit
  <2> QED
    BY <1>4, <2>1, <2>2 DEF Digit
<1>6. Pow10[i] = 10 * Pow10[i - 1] /\ Pow10[i - 1] \in Nat
  BY <1>4, Powers
<1> DEFINE q == amount \div Pow10[i]
           d == Pow10[i - 1]
<1>7. q \in Nat /\ d \in Nat /\ (10 * q) * d = amount /\ q * (10 * d) # amount
  BY <1>2, <1>4, <1>5, <1>6
<1> HIDE DEF q, d
<1> QED
  BY <1>7

-----------------------------------------------------------------------------
(* The properties.                                                         *)

LEMMA LoggedReadsBack ==
  ASSUME Logged
  PROVE  ReadsBack
<1>1. PICK len \in Nat : Layout(len)
  BY TextIs
<1> DEFINE whole == len - places
           last == Len(text)
           left == places - Cardinality(After)
<1>2. /\ amount \in Nat /\ places \in Nat /\ whole \in Nat \ {0}
      /\ last \in whole .. len + 1 /\ last \in Nat /\ last # whole + 1
  BY <1>1, LenProperties DEF Layout, Logged
<1>3. Cardinality(After) = IF last = whole THEN 0 ELSE last - whole - 1
  BY <1>1, SidesAre
<1>4. /\ Cardinality(After) <= places /\ left \in Nat
      /\ left = IF last = whole THEN len - last ELSE len - (last - 1)
  BY <1>2, <1>3
<1>5. Reading[last] = amount \div Pow10[left]
  <2>1. last \in 0 .. last /\ (last <= whole <=> last = whole)
    BY <1>2
  <2>2. Reading[last] = IF last <= len - places THEN amount \div Pow10[len - last]
                        ELSE amount \div Pow10[len - (last - 1)]
    BY <1>1, <2>1, ReadSoFar
  <2> HIDE DEF left, last
  <2> QED
    BY <1>4, <2>1, <2>2
<1>6. \A j \in 0 .. left - 1 : Digit(j) = 0
  <2>1. ASSUME NEW j \in 0 .. left - 1
        PROVE  Digit(j) = 0
    <3> DEFINE i == len + 1 - j
    <3>1. i \in whole + 2 .. len + 1 /\ last < i /\ len - (i - 1) = j
      BY <1>2, <1>3, <1>4
    <3>2. Digit(len - (i - 1)) = 0
      BY <1>1, <3>1 DEF Layout
    <3> QED
      BY <3>1, <3>2
  <2> QED
    BY <2>1
<1>7. (amount \div Pow10[left]) * Pow10[left] = amount
  BY <1>4, <1>6, ZerosAtTheEnd
<1> QED
  BY <1>4, <1>5, <1>7 DEF ReadsBack, Meaning

LEMMA LoggedIsCanonical ==
  ASSUME Logged
  PROVE  Canonical
<1>1. PICK len \in Nat : Layout(len)
  BY TextIs
<1> DEFINE whole == len - places
           last == Len(text)
<1>2. /\ amount \in Nat /\ places \in Nat /\ whole \in Nat \ {0}
      /\ last \in whole .. len + 1 /\ last \in Nat /\ last # whole + 1
      /\ DOMAIN text = 1 .. last
  BY <1>1, LenProperties DEF Layout, Logged
<1>3. Before = 1 .. whole /\ Cardinality(Before) = whole
  BY <1>1, SidesAre
<1>4. ASSUME whole > 1
      PROVE  text[1] # 0
  <2>1. text[1] = Digit(len - 1) /\ Pow10[len - 1] <= amount
        /\ amount < Pow10[len]
    BY <1>1, <1>2, <1>4 DEF Layout
  <2>2. len - 1 \in Nat /\ (len - 1) + 1 = len
    BY <1>2, <1>4
  <2> DEFINE q == amount \div Pow10[len - 1]
  <2>3. amount \div Pow10[len] = 0
    <3>1. Pow10[len] \in Nat \ {0}
      BY Powers
    <3> QED
      BY <1>2, <2>1, <3>1, SmallQuotient
  <2>4. q \in Nat /\ q = 10 * (amount \div Pow10[(len - 1) + 1]) + (q % 10)
    BY <1>2, <2>2, NextDigit
  <2>5. q = q % 10
    <3> HIDE DEF q
    <3>1. q % 10 \in Nat
      BY <2>4
    <3> QED
      BY <2>2, <2>3, <2>4, <3>1
  <2>6. q # 0
    <3>1. Pow10[len - 1] \in Nat \ {0}
      BY <2>2, Powers
    <3>2. amount < (q + 1) * Pow10[len - 1]
      BY <1>2, <3>1, Quotients
    <3> HIDE DEF q
    <3> QED
      BY <1>2, <2>1, <3>1, <3>2
  <2> QED
    BY <2>1, <2>5, <2>6 DEF Digit
<1>5. ASSUME Before # DOMAIN text
      PROVE  text[last] \notin {0, Point}
  <2>1. last # whole
    BY <1>2, <1>3, <1>5
  <2>2. last \in whole + 2 .. last /\ len - (last - 1) \in Nat
    BY <1>2, <2>1
  <2>3. text[last] # 0 /\ text[last] = Digit(len - (last - 1))
    BY <1>1, <2>1, <2>2 DEF Layout
  <2> QED
    BY <2>2, <2>3, DigitIs
<1>6. 1 \in Before
  BY <1>2, <1>3
<1> QED
  BY <1>3, <1>4, <1>5, <1>6 DEF Canonical

LEMMA LoggedAlways == TextSpec => []Logged
<1>1. TextInit => Logged
  BY AmountTextAssumption DEF TextInit, Logged
<1>2. Logged /\ [Log]_tvars => Logged'
  BY AmountTextAssumption DEF Logged, Log, tvars
<1> QED
  BY <1>1, <1>2, PTL DEF TextSpec

(* encode_base10 of utils.rs says every amount as it is, whatever the      *)
(* number of decimals: what the program logs of a deposit, a withdrawal or *)
(* a refund reads back as what was moved.                                  *)
THEOREM TextMeansAmount == TextSpec => []ReadsBack
  BY LoggedAlways, LoggedReadsBack, PTL

(* And in the one way an amount is written: its trimming of zeros and of   *)
(* the point leaves none that says nothing.                                *)
THEOREM TextIsCanonical == TextSpec => []Canonical
  BY LoggedAlways, LoggedIsCanonical, PTL
=============================================================================
