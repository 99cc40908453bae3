----------------------------- MODULE AmountText -----------------------------
(***************************************************************************)
(* encode_base10 of utils.rs: an amount of a token's smallest unit as the  *)
(* decimal text that the program logs for every deposit, withdrawal and    *)
(* refund.  A text is a sequence of digits with at most one Point.         *)
(***************************************************************************)
EXTENDS Integers, FiniteSets, SequencesExt

CONSTANTS Point,        \* the character "."
          MaxAmount,    \* bound on the amounts tried
          MaxPlaces,    \* bound on the decimals of a mint
          MaxDigits     \* bound on the digits of an amount

(* 10 to the k                                                             *)
Pow10[k \in Nat] == IF k = 0 THEN 1 ELSE 10 * Pow10[k - 1]

ASSUME AmountTextAssumption ==
  /\ MaxAmount \in Nat
  /\ MaxPlaces \in Nat
  /\ MaxDigits \in Nat
  /\ MaxAmount < Pow10[MaxDigits]
  /\ Point \notin 0 .. 9

(* format!("{:0width$}"): the digits of n, at least width of them.         *)
Padded(n, width) ==
  LET len == Max({width} \cup {k \in 1 .. MaxDigits : n >= Pow10[k - 1]})
  IN [i \in 1 .. len |-> (n \div Pow10[len - i]) % 10]

(* trim_end_matches(c)                                                     *)
TrimEnd(s, c) ==
  SubSeq(s, 1, Max({0} \cup {i \in DOMAIN s : s[i] # c}))

(* The point goes in front of the last places digits.                      *)
UnpaddedWithPoint(amount, places) ==                                \* mutant
  LET s == Padded(amount, places)
  IN InsertAt(s, Len(s) - places + 1, Point)

WithPoint(amount, places) ==
  LET s == Padded(amount, 1 + places)
  IN InsertAt(s, Len(s) - places + 1, Point)

TrimmedPointFirst(amount, places) ==                                \* mutant
  TrimEnd(TrimEnd(WithPoint(amount, places), Point), 0)

(* Then the zeros and the point that end the text go.                      *)
encode_base10(amount, places) ==
  TrimEnd(TrimEnd(WithPoint(amount, places), 0), Point)

VARIABLES amount, places,  \* what is logged, and the mint's decimals
          text             \* how

tvars == <<amount, places, text>>

TextInit ==
  /\ amount = 0
  /\ places \in 0 .. MaxPlaces
  /\ text = encode_base10(amount, places)

(* One amount after the other.                                             *)
Log ==
  /\ amount < MaxAmount                                     \* bound
  /\ amount' = amount + 1
  /\ text' = encode_base10(amount + 1, places)
  /\ UNCHANGED places

TextSpec == TextInit /\ [][Log]_tvars

-----------------------------------------------------------------------------
(* The reference: what a text means.                                       *)
(* The digits before and after the point.                                  *)
Before == {i \in DOMAIN text : \A j \in 1 .. i : text[j] # Point}
After == {i \in DOMAIN text : \E j \in 1 .. i - 1 : text[j] = Point}

(* The number read so far, one character after the other.                  *)
Reading ==
  LET read[i \in 0 .. Len(text)] ==
        IF i = 0 THEN 0
        ELSE IF text[i] = Point THEN read[i - 1]
        ELSE 10 * read[i - 1] + text[i]
  IN read

(* In the smallest unit.                                                   *)
Meaning == Reading[Len(text)] * Pow10[places - Cardinality(After)]

(* The text in the log means the amount: neither a zero that counts nor a  *)
(* place is lost, also for amounts below one token and mints without       *)
(* decimals.                                                               *)
ReadsBack == Cardinality(After) <= places /\ Meaning = amount

(* And it is the shortest such text that starts with a digit: no zero in   *)
(* front of another digit, none after the last place that counts, no       *)
(* dangling point.                                                         *)
Canonical ==
  /\ Before # {}
  /\ Cardinality(Before) > 1 => text[1] # 0
  /\ Before # DOMAIN text => text[Len(text)] \notin {0, Point}
=============================================================================
