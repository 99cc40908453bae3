---------------------------- MODULE SupplyProofs ----------------------------
(***************************************************************************)
(* Proofs about the supply: no step mints or burns a token or a lamport,   *)
(* and so an account never lacks the room for what it is owed.  The sum of *)
(* the fold of the library is developed from its definition, by induction  *)
(* over the subsets of a finite set.                                       *)
(***************************************************************************)
EXTENDS TimelockSupply, ClosingProofs, FiniteSetTheorems

-----------------------------------------------------------------------------
(* Sums over finite sets.                                                  *)

(* The element that the fold takes next, and the function it is.           *)
First(V) == CHOOSE x \in V : TRUE

Adds(g, f, T) ==
  g = [s \in SUBSET T |-> IF s = {} THEN 0 ELSE f[First(s)] + g[s \ {First(s)}]]

(* Induction over subsets, as a minimal counterexample.                    *)
LEMMA Smallest ==
  ASSUME NEW T, IsFiniteSet(T), NEW Q \in SUBSET (SUBSET T), Q # {}
  PROVE  \E V \in Q : \A U \in Q : U \subseteq V => U = V
<1>1. IsWellFoundedOn(StrictSubsetOrdering(T), SUBSET T)
  BY FS_StrictSubsetOrderingWellFounded, FS_FiniteSubsetsOfFinite
<1>2. \E V \in Q : \A U \in Q : ~ (<<U, V>> \in StrictSubsetOrdering(T))
  BY <1>1, WFMin
<1> QED
  BY <1>2 DEF StrictSubsetOrdering

LEMMA FirstIn == ASSUME NEW V, V # {} PROVE First(V) \in V
BY DEF First

(* Two functions that add f over sets in common agree on them.             *)
LEMMA AddsAgree ==
  ASSUME NEW f, NEW T, NEW V, IsFiniteSet(V), V \subseteq T,
         NEW g, Adds(g, f, T), NEW h, Adds(h, f, V)
  PROVE  g[V] = h[V]
<1> DEFINE Q == {s \in SUBSET V : g[s] # h[s]}
<1> SUFFICES ASSUME Q # {} PROVE FALSE
  OBVIOUS
<1>1. PICK s \in Q : \A u \in Q : u \subseteq s => u = s
  <2>1. Q \in SUBSET (SUBSET V)
    OBVIOUS
  <2> HIDE DEF Q
  <2> QED
    BY <2>1, Smallest
<1>2. s \in SUBSET V /\ s \in SUBSET T
  OBVIOUS
<1>3. /\ g[s] = IF s = {} THEN 0 ELSE f[First(s)] + g[s \ {First(s)}]
      /\ h[s] = IF s = {} THEN 0 ELSE f[First(s)] + h[s \ {First(s)}]
  BY <1>2 DEF Adds
<1>4. s # {}
  BY <1>1, <1>3
<1>5. s \ {First(s)} \notin Q
  BY <1>1, <1>4, FirstIn
<1> QED
  BY <1>1, <1>2, <1>3, <1>4, <1>5

(* A sum is what such a function says of the whole set.                    *)
LEMMA SumByAdds ==
  ASSUME NEW f, NEW T
  PROVE  SumOf(f, T) = (CHOOSE g : Adds(g, f, T))[T]
BY DEF SumOf, MapThenSumSet, MapThenFoldSet, Adds, First

LEMMA SumUnfoldsIf ==
  ASSUME NEW f, NEW T, IsFiniteSet(T),
         \A V \in SUBSET T : \E g : Adds(g, f, V)
  PROVE  SumOf(f, T)
           = IF T = {} THEN 0 ELSE f[First(T)] + SumOf(f, T \ {First(T)})
<1>1. PICK g : Adds(g, f, T) /\ g = CHOOSE h : Adds(h, f, T)
  OBVIOUS
<1>2. SumOf(f, T) = g[T]
  BY <1>1, SumByAdds
<1>3. g[T] = IF T = {} THEN 0 ELSE f[First(T)] + g[T \ {First(T)}]
  BY <1>1 DEF Adds
<1>4. CASE T # {}
  <2> DEFINE V == T \ {First(T)}
  <2>1. V \in SUBSET T /\ IsFiniteSet(V)
    BY FS_Subset
  <2>2. PICK h : Adds(h, f, V) /\ h = CHOOSE k : Adds(k, f, V)
    BY <2>1
  <2>3. SumOf(f, V) = h[V]
    BY <2>2, SumByAdds
  <2>4. g[V] = h[V]
    BY <1>1, <2>1, <2>2, AddsAgree
  <2> QED
    BY <1>2, <1>3, <1>4, <2>3, <2>4
<1> QED
  BY <1>2, <1>3, <1>4

LEMMA AddsExists ==
  ASSUME NEW f, NEW T, IsFiniteSet(T)
  PROVE  \A V \in SUBSET T : \E g : Adds(g, f, V)
<1> DEFINE Q == {V \in SUBSET T : ~ \E g : Adds(g, f, V)}
<1> SUFFICES ASSUME Q # {} PROVE FALSE
  OBVIOUS
<1>1. PICK V \in Q : \A U \in Q : U \subseteq V => U = V
  <2>1. Q \in SUBSET (SUBSET T)
    OBVIOUS
  <2> HIDE DEF Q
  <2> QED
    BY <2>1, Smallest
<1> DEFINE Smaller(s) ==
             IF s = {} THEN 0 ELSE f[First(s)] + SumOf(f, s \ {First(s)})
           G == [s \in SUBSET V |-> Smaller(s)]
<1>2. ASSUME NEW s \in SUBSET V, s # V
      PROVE  SumOf(f, s) = Smaller(s)
  <2>1. IsFiniteSet(s)
    BY FS_Subset
  <2>2. \A U \in SUBSET s : \E g : Adds(g, f, U)
    BY <1>1, <1>2
  <2> QED
    BY <2>1, <2>2, SumUnfoldsIf
<1>3. ASSUME NEW s \in SUBSET V, s # {}
      PROVE  SumOf(f, s \ {First(s)}) = G[s \ {First(s)}]
  <2>1. s \ {First(s)} \in SUBSET V /\ s \ {First(s)} # V
    BY <1>3, FirstIn
  <2> QED
    BY <1>2, <2>1
<1>4. G = [s \in SUBSET V |->
             IF s = {} THEN 0 ELSE f[First(s)] + G[s \ {First(s)}]]
  <2>1. ASSUME NEW s \in SUBSET V
        PROVE  Smaller(s) =
                 IF s = {} THEN 0 ELSE f[First(s)] + G[s \ {First(s)}]
    BY <1>3
  <2> HIDE DEF Smaller
  <2> QED
    BY <2>1, Zenon
<1>5. Adds(G, f, V)
  BY <1>4 DEF Adds
<1> QED
  BY <1>1, <1>5

(* The sum of a finite set is its first element and the sum of the rest.   *)
LEMMA SumUnfolds ==
  ASSUME NEW f, NEW T, IsFiniteSet(T)
  PROVE  SumOf(f, T)
           = IF T = {} THEN 0 ELSE f[First(T)] + SumOf(f, T \ {First(T)})
BY AddsExists, SumUnfoldsIf

LEMMA SumType ==
  ASSUME NEW f, NEW T, IsFiniteSet(T), \A x \in T : f[x] \in Int
  PROVE  /\ SumOf(f, T) \in Int
         /\ (\A x \in T : f[x] >= 0) => SumOf(f, T) >= 0
<1> DEFINE Q == {V \in SUBSET T :
                   ~ /\ SumOf(f, V) \in Int
                     /\ (\A x \in V : f[x] >= 0) => SumOf(f, V) >= 0}
<1> SUFFICES ASSUME Q # {} PROVE FALSE
  OBVIOUS
<1>1. PICK V \in Q : \A U \in Q : U \subseteq V => U = V
  <2>1. Q \in SUBSET (SUBSET T)
    OBVIOUS
  <2> HIDE DEF Q
  <2> QED
    BY <2>1, Smallest
<1>2. V \in SUBSET T /\ IsFiniteSet(V)
  BY FS_Subset
<1>3. SumOf(f, V)
        = IF V = {} THEN 0 ELSE f[First(V)] + SumOf(f, V \ {First(V)})
  BY <1>2, SumUnfolds
<1>4. V # {}
  BY <1>1, <1>3
<1>5. First(V) \in V /\ V \ {First(V)} \notin Q /\ V \ {First(V)} \in SUBSET T
  BY <1>1, <1>4, FirstIn
<1> DEFINE rest == SumOf(f, V \ {First(V)})
<1>6. /\ rest \in Int
      /\ (\A x \in V : f[x] >= 0) => rest >= 0
  BY <1>5
<1>7. /\ SumOf(f, V) = f[First(V)] + rest /\ f[First(V)] \in Int
      /\ (\A x \in V : f[x] >= 0) => f[First(V)] >= 0
  BY <1>2, <1>3, <1>4, <1>5
<1> HIDE DEF rest
<1>8. SumOf(f, V) \in Int /\ ((\A x \in V : f[x] >= 0) => SumOf(f, V) >= 0)
  BY <1>6, <1>7
<1> QED
  BY <1>1, <1>8

(* Any element can be taken first.                                         *)
LEMMA SumSplits ==
  ASSUME NEW f, NEW T, IsFiniteSet(T), \A x \in T : f[x] \in Int, NEW z \in T
  PROVE  SumOf(f, T) = f[z] + SumOf(f, T \ {z})
<1> DEFINE Q == {V \in SUBSET T :
                   \E x \in V : SumOf(f, V) # f[x] + SumOf(f, V \ {x})}
<1> SUFFICES ASSUME Q # {} PROVE FALSE
  OBVIOUS
<1>1. PICK V \in Q : \A U \in Q : U \subseteq V => U = V
  <2>1. Q \in SUBSET (SUBSET T)
    OBVIOUS
  <2> HIDE DEF Q
  <2> QED
    BY <2>1, Smallest
<1>2. PICK x \in V : SumOf(f, V) # f[x] + SumOf(f, V \ {x})
  BY <1>1
<1> DEFINE y == First(V)
<1>3. /\ V \in SUBSET T /\ IsFiniteSet(V) /\ IsFiniteSet(V \ {x})
      /\ y \in V /\ f[x] \in Int /\ f[y] \in Int
      /\ SumOf(f, V) = f[y] + SumOf(f, V \ {y})
  <2>1. V \in SUBSET T /\ V # {}
    BY <1>1, <1>2
  <2>2. IsFiniteSet(V) /\ IsFiniteSet(V \ {x})
    BY <2>1, FS_Subset
  <2> QED
    BY <2>1, <2>2, FirstIn, SumUnfolds
<1> HIDE DEF y
<1>4. x # y
  BY <1>2, <1>3
<1>5. V \ {y} \notin Q /\ V \ {x} \notin Q
  BY <1>1, <1>3
<1>6. SumOf(f, V \ {y}) = f[x] + SumOf(f, (V \ {y}) \ {x})
  BY <1>3, <1>4, <1>5
<1>7. SumOf(f, V \ {x}) = f[y] + SumOf(f, (V \ {x}) \ {y})
  BY <1>3, <1>4, <1>5
<1>8. /\ (V \ {y}) \ {x} = (V \ {x}) \ {y}
      /\ SumOf(f, (V \ {x}) \ {y}) \in Int
  <2>1. IsFiniteSet((V \ {x}) \ {y}) /\ (V \ {x}) \ {y} \in SUBSET T
    BY <1>3, FS_Subset
  <2> QED
    BY <2>1, SumType
<1> DEFINE rest == SumOf(f, (V \ {x}) \ {y})
<1>9. /\ SumOf(f, V) = f[y] + (f[x] + rest)
      /\ f[x] + SumOf(f, V \ {x}) = f[x] + (f[y] + rest)
      /\ rest \in Int
  BY <1>3, <1>6, <1>7, <1>8
<1> HIDE DEF rest
<1> QED
  BY <1>2, <1>3, <1>9

(* Functions that agree have the same sum.                                 *)
LEMMA SumAgrees ==
  ASSUME NEW f, NEW h, NEW T, IsFiniteSet(T), \A x \in T : f[x] = h[x]
  PROVE  SumOf(f, T) = SumOf(h, T)
<1> DEFINE Q == {V \in SUBSET T : SumOf(f, V) # SumOf(h, V)}
<1> SUFFICES ASSUME Q # {} PROVE FALSE
  OBVIOUS
<1>1. PICK V \in Q : \A U \in Q : U \subseteq V => U = V
  <2>1. Q \in SUBSET (SUBSET T)
    OBVIOUS
  <2> HIDE DEF Q
  <2> QED
    BY <2>1, Smallest
<1>2. V \in SUBSET T /\ IsFiniteSet(V)
  BY FS_Subset
<1>3. /\ SumOf(f, V)
           = IF V = {} THEN 0 ELSE f[First(V)] + SumOf(f, V \ {First(V)})
      /\ SumOf(h, V)
           = IF V = {} THEN 0 ELSE h[First(V)] + SumOf(h, V \ {First(V)})
  BY <1>2, SumUnfolds
<1>4. V # {}
  BY <1>1, <1>3
<1>5. First(V) \in V /\ V \ {First(V)} \notin Q
  BY <1>1, <1>4, FirstIn
<1> QED
  BY <1>1, <1>2, <1>3, <1>4, <1>5

(* A change at one element changes the sum by as much.                     *)
LEMMA SumChanges ==
  ASSUME NEW T, IsFiniteSet(T), NEW f \in [T -> Int], NEW h \in [T -> Int],
         NEW x \in T, \A y \in T \ {x} : h[y] = f[y]
  PROVE  /\ SumOf(h, T) = SumOf(f, T) - f[x] + h[x]
         /\ SumOf(f, T) \in Int
<1> DEFINE rest == SumOf(f, T \ {x})
<1>1. h[x] \in Int /\ f[x] \in Int
  OBVIOUS
<1>2. IsFiniteSet(T \ {x})
  BY FS_RemoveElement
<1>3. SumOf(f, T) = f[x] + rest /\ SumOf(h, T) = h[x] + SumOf(h, T \ {x})
  BY SumSplits
<1>4. SumOf(h, T \ {x}) = rest /\ rest \in Int
  BY <1>2, SumAgrees, SumType
<1> HIDE DEF rest
<1> QED
  BY <1>1, <1>3, <1>4

(* A transfer between two accounts leaves the sum as it is.                *)
LEMMA SumMoved ==
  ASSUME NEW T, IsFiniteSet(T), NEW bal \in [T -> Int],
         NEW from \in T, NEW to \in T, from # to, NEW amount \in Int
  PROVE  /\ Moved(bal, from, to, amount) \in [T -> Int]
         /\ SumOf(Moved(bal, from, to, amount), T) = SumOf(bal, T)
<1> DEFINE less == [bal EXCEPT ![from] = @ - amount]
           more == Moved(bal, from, to, amount)
<1>1. /\ bal[from] \in Int /\ bal[to] \in Int
      /\ less \in [T -> Int] /\ less[from] = bal[from] - amount
      /\ less[to] = bal[to] /\ \A y \in T \ {from} : less[y] = bal[y]
  OBVIOUS
<1>2. /\ more \in [T -> Int] /\ more[to] = bal[to] + amount
      /\ \A y \in T \ {to} : more[y] = less[y]
  BY DEF Moved
<1> HIDE DEF less, more
<1>3. /\ SumOf(bal, T) \in Int
      /\ SumOf(less, T) = SumOf(bal, T) - bal[from] + less[from]
  BY <1>1, SumChanges
<1>4. /\ SumOf(less, T) \in Int
      /\ SumOf(more, T) = SumOf(less, T) - less[to] + more[to]
  BY <1>1, <1>2, SumChanges
<1>5. SumOf(more, T) = SumOf(bal, T)
  BY <1>1, <1>2, <1>3, <1>4
<1> QED
  BY <1>2, <1>5 DEF more

(* Elements that count for nothing may be left out.                        *)
LEMMA SumIgnoresZeros ==
  ASSUME NEW f, NEW T, IsFiniteSet(T), \A x \in T : f[x] \in Int,
         NEW V \in SUBSET T, \A x \in T \ V : f[x] = 0
  PROVE  SumOf(f, T) = SumOf(f, V)
<1> DEFINE Q == {U \in SUBSET (T \ V) : SumOf(f, V \cup U) # SumOf(f, V)}
<1> SUFFICES ASSUME SumOf(f, T) # SumOf(f, V) PROVE FALSE
  OBVIOUS
<1>1. T \ V \in Q
  <2>1. V \cup (T \ V) = T
    OBVIOUS
  <2> QED
    BY <2>1
<1>2. PICK U \in Q : \A W \in Q : W \subseteq U => W = U
  <2>1. Q \in SUBSET (SUBSET (T \ V)) /\ IsFiniteSet(T \ V)
    BY FS_Subset
  <2> HIDE DEF Q
  <2> QED
    BY <1>1, <2>1, Smallest
<1>3. PICK x \in U : TRUE
  <2>1. V \cup {} = V
    OBVIOUS
  <2> QED
    BY <1>2, <2>1
<1>4. /\ x \in V \cup U /\ f[x] = 0 /\ (V \cup U) \ {x} = V \cup (U \ {x})
      /\ V \cup U \in SUBSET T
  BY <1>2, <1>3
<1>5. SumOf(f, V \cup U) = 0 + SumOf(f, V \cup (U \ {x}))
  <2>1. IsFiniteSet(V \cup U)
    BY <1>4, FS_Subset
  <2> QED
    BY <1>4, <2>1, SumSplits
<1>6. SumOf(f, V \cup (U \ {x})) = SumOf(f, V)
  <2>1. U \ {x} \in SUBSET (T \ V) /\ U \ {x} \notin Q
    BY <1>2, <1>3
  <2> QED
    BY <2>1
<1>7. SumOf(f, V) \in Int
  <2>1. IsFiniteSet(V)
    BY FS_Subset
  <2> QED
    BY <2>1, SumType
<1> QED
  BY <1>2, <1>5, <1>6, <1>7

(* Two accounts never hold more than all of them.                          *)
LEMMA SumBounds ==
  ASSUME NEW T, IsFiniteSet(T), NEW f \in [T -> Nat],
         NEW x \in T, NEW y \in T, x # y
  PROVE  f[x] + f[y] <= SumOf(f, T)
<1> DEFINE rest == SumOf(f, (T \ {x}) \ {y})
<1>1. IsFiniteSet(T \ {x}) /\ IsFiniteSet((T \ {x}) \ {y})
  BY FS_RemoveElement
<1>2. /\ SumOf(f, T) = f[x] + SumOf(f, T \ {x})
      /\ SumOf(f, T \ {x}) = f[y] + rest
  BY <1>1, SumSplits
<1>3. rest \in Int /\ rest >= 0 /\ f[x] \in Nat /\ f[y] \in Nat
  BY <1>1, SumType
<1> HIDE DEF rest
<1> QED
  BY <1>2, <1>3

-----------------------------------------------------------------------------
(* No token is minted or burnt.                                            *)

LEMMA FiniteAccounts ==
  /\ IsFiniteSet(Wallets) /\ IsFiniteSet(Streams) /\ IsFiniteSet(TokenAccounts)
BY AccountsAreFinite, FS_Union DEF TokenAccounts

LEMMA BalancesAreInt ==
  ASSUME TypeOK
  PROVE  balance \in [TokenAccounts -> Int]
BY DEF TypeOK, SplTypeOK, U64

(* One transfer, between an escrow account and a wallet or two wallets.    *)
LEMMA TransferKeepsTokens ==
  ASSUME TypeOK, NEW from \in TokenAccounts, NEW to \in TokenAccounts,
         from # to, NEW amount \in U64,
         balance' = Moved(balance, from, to, amount)
  PROVE  SumOf(balance', TokenAccounts) = SumOf(balance, TokenAccounts)
<1>1. amount \in Int
  BY DEF U64
<1> QED
  BY <1>1, FiniteAccounts, BalancesAreInt, SumMoved

(* The two transfers of a cancel.                                          *)
LEMMA CancelKeepsTokens ==
  ASSUME IInv, NEW m \in Streams, NEW c \in Wallets, NEW s \in Wallets,
         NEW r \in Wallets, cancel(m, c, s, r)
  PROVE  SumOf(balance', TokenAccounts) = SumOf(balance, TokenAccounts)
<1> DEFINE paid == AfterPay(m, r)
<1>1. TypeOK /\ TermsSane /\ meta[m] # NoMeta /\ Available(m) \in U64
  BY Cancellation DEF IInv
<1>2. Available(m) \in Int /\ Remains(m) \in Int
  <2>1. meta[m].withdrawn_amount \in U64 /\ meta[m].ix.deposited_amount \in U64
    BY <1>1, StreamData
  <2>2. Remains(m) \in U64
    BY <1>1, <2>1, WordArithmetic DEF Remains, WithdrawnAfter
  <2> QED
    BY <1>1, <2>2 DEF U64
<1>3. m \in TokenAccounts /\ r \in TokenAccounts /\ s \in TokenAccounts
      /\ m # r /\ m # s
  BY Accounts
<1>4. /\ paid \in [TokenAccounts -> Int]
      /\ SumOf(paid, TokenAccounts) = SumOf(balance, TokenAccounts)
  BY <1>1, <1>2, <1>3, FiniteAccounts, BalancesAreInt, SumMoved DEF AfterPay
<1>5. balance' = Moved(paid, m, s, Remains(m))
  BY DEF cancel, AfterRefund
<1> HIDE DEF paid
<1>6. SumOf(balance', TokenAccounts) = SumOf(paid, TokenAccounts)
  BY <1>2, <1>3, <1>4, <1>5, FiniteAccounts, SumMoved
<1> QED
  BY <1>4, <1>6

LEMMA TokensKept ==
  ASSUME IInv, [Next]_vars
  PROVE  SumOf(balance', TokenAccounts) = SumOf(balance, TokenAccounts)
<1> DEFINE Kept == SumOf(balance', TokenAccounts) = SumOf(balance, TokenAccounts)
<1>1. TypeOK /\ TermsSane
  BY DEF IInv
<1>2. ASSUME NEW m \in Streams, NEW s \in Wallets, NEW r \in Wallets,
             NEW ix \in Instructions, create(m, s, r, ix)
      PROVE  Kept
  <2>1. balance' = Moved(balance, s, m, ix.deposited_amount)
        /\ ix.deposited_amount \in U64
    BY <1>2, Fields, TimelockAssumption DEF create
  <2> QED
    BY <1>1, <2>1, Accounts, TransferKeepsTokens
<1>3. ASSUME NEW m \in Streams, NEW s \in Wallets, NEW r \in Wallets,
             NEW amount \in Amounts, withdraw(m, r, s, amount)
      PROVE  Kept
  <2>1. amount \in U64 /\ Available(m) \in U64
    BY <1>1, <1>3, Withdrawal, TimelockAssumption
  <2>2. /\ balance' = Moved(balance, m, r, Requested(amount, Available(m)))
        /\ Requested(amount, Available(m)) \in U64
    BY <1>3, <2>1 DEF withdraw, Requested
  <2> QED
    BY <1>1, <2>2, Accounts, TransferKeepsTokens
<1>4. ASSUME NEW m \in Streams, NEW s \in Wallets, NEW amount \in Amounts,
             topup_stream(m, s, amount)
      PROVE  Kept
  <2>1. balance' = Moved(balance, s, m, amount) /\ amount \in U64
    BY <1>4, TimelockAssumption DEF topup_stream
  <2> QED
    BY <1>1, <2>1, Accounts, TransferKeepsTokens
<1>5. ASSUME NEW from \in Wallets, NEW to \in TokenAccounts,
             NEW amount \in OutsideAmounts, from # to,
             balance' = Moved(balance, from, to, amount)
      PROVE  Kept
  <2>1. amount \in U64 /\ from \in TokenAccounts
    BY TimelockAssumption DEF TokenAccounts
  <2> QED
    BY <1>1, <1>5, <2>1, TransferKeepsTokens
<1>6. ASSUME Environment PROVE Kept
  <2>1. \/ balance' = balance
        \/ \E from \in Wallets, to \in TokenAccounts, amount \in OutsideAmounts :
             from # to /\ balance' = Moved(balance, from, to, amount)
    BY <1>6, Accounts DEF Environment, PlainTransfer, StrayTransfer,
                          CloseAccount, OpenAccount, TokenAccounts
  <2> QED
    BY <1>5, <2>1
<1>7. ASSUME process_instruction PROVE Kept
  <2>1. PICK m \in Streams, s \in Wallets, r \in Wallets :
          \/ \E ix \in Instructions : create(m, s, r, ix)
          \/ \E amount \in Amounts : withdraw(m, r, s, amount)
          \/ \E c \in Wallets : cancel(m, c, s, r)
          \/ transfer_recipient(m, s, r)
          \/ \E amount \in Amounts : topup_stream(m, s, amount)
    BY <1>7 DEF process_instruction
  <2>2. transfer_recipient(m, s, r) => Kept
    BY DEF transfer_recipient
  <2> QED
    BY <1>2, <1>3, <1>4, <2>1, <2>2, CancelKeepsTokens
<1>8. ASSUME Tick \/ UNCHANGED vars PROVE Kept
  BY <1>8 DEF Tick, vars
<1> QED
  BY <1>6, <1>7, <1>8 DEF Next

-----------------------------------------------------------------------------
(* No lamport is, once the rent of the accounts is counted.                *)

(* A wallet that pays or gets an amount.                                   *)
LEMMA WalletPays ==
  ASSUME TypeOK, NEW w \in Wallets, NEW amount \in Int,
         lamports' = [lamports EXCEPT ![w] = @ + amount]
  PROVE  /\ SumOf(lamports, Wallets) \in Int
         /\ SumOf(lamports', Wallets) = SumOf(lamports, Wallets) + amount
<1> DEFINE after == lamports'
<1>1. /\ lamports \in [Wallets -> Int] /\ after \in [Wallets -> Int]
      /\ lamports[w] \in Int /\ after[w] = lamports[w] + amount
      /\ \A v \in Wallets \ {w} : after[v] = lamports[v]
  BY DEF TypeOK
<1> HIDE DEF after
<1>2. /\ SumOf(lamports, Wallets) \in Int
      /\ SumOf(after, Wallets) = SumOf(lamports, Wallets) - lamports[w] + after[w]
  BY <1>1, FiniteAccounts, SumChanges
<1> QED
  BY <1>1, <1>2 DEF after

(* The rent of a number of accounts of one kind, one of which is created   *)
(* or closed.                                                              *)
LEMMA RentOfAccounts ==
  ASSUME NEW S, IsFiniteSet(S), NEW a, NEW rent \in Nat
  PROVE  /\ rent * Cardinality(S) \in Int
         /\ a \notin S => rent * Cardinality(S \cup {a})
                            = rent * Cardinality(S) + rent
         /\ a \in S => rent * Cardinality(S \ {a}) = rent * Cardinality(S) - rent
<1> DEFINE n == Cardinality(S)
<1>1. n \in Nat
  BY FS_CardinalityType
<1>2. /\ Cardinality(S \cup {a}) = IF a \in S THEN n ELSE n + 1
      /\ a \in S => Cardinality(S \ {a}) = n - 1
  BY FS_AddElement, FS_RemoveElement
<1> HIDE DEF n
<1>3. /\ rent * n \in Int
      /\ rent * (n + 1) = rent * n + rent
      /\ rent * (n - 1) = rent * n - rent
  BY <1>1
<1> QED
  BY <1>1, <1>2, <1>3 DEF n

(* What is held is a number, and the rent of a token account a is in it.   *)
LEMMA RentOfTokenAccount ==
  ASSUME TypeOK, NEW a \in TokenAccounts, Recorded' = Recorded
  PROVE  /\ HeldRent \in Int
         /\ opened' = opened => HeldRent' = HeldRent
         /\ opened' = opened \cup {a} =>
              HeldRent' = HeldRent + IF a \in opened THEN 0 ELSE TokenRent
         /\ opened' = opened \ {a} /\ a \in opened =>
              HeldRent' = HeldRent - TokenRent
<1>1. IsFiniteSet(opened) /\ IsFiniteSet(Recorded)
  <2>1. opened \in SUBSET TokenAccounts /\ Recorded \in SUBSET Streams
    BY DEF TypeOK, SplTypeOK, Recorded
  <2> QED
    BY <2>1, FiniteAccounts, FS_Subset
<1>2. TokenRent \in Nat /\ MetaRent \in Nat
  BY TimelockAssumption
<1> DEFINE records == MetaRent * Cardinality(Recorded)
           accounts == TokenRent * Cardinality(opened)
           more == TokenRent * Cardinality(opened \cup {a})
           less == TokenRent * Cardinality(opened \ {a})
<1>3. /\ records \in Int /\ accounts \in Int
      /\ more = accounts + IF a \in opened THEN 0 ELSE TokenRent
      /\ a \in opened => less = accounts - TokenRent
  <2>1. records \in Int
    BY <1>1, <1>2, RentOfAccounts
  <2>2. accounts \in Int /\ (a \in opened => less = accounts - TokenRent)
    BY <1>1, <1>2, RentOfAccounts
  <2>3. a \notin opened => more = accounts + TokenRent
    BY <1>1, <1>2, RentOfAccounts
  <2>4. a \in opened => more = accounts
    <3>1. a \in opened => opened \cup {a} = opened
      OBVIOUS
    <3> QED
      BY <3>1
  <2> QED
    BY <2>1, <2>2, <2>3, <2>4
<1>4. /\ HeldRent = accounts + records
      /\ opened' = opened => HeldRent' = accounts + records
      /\ opened' = opened \cup {a} => HeldRent' = more + records
      /\ opened' = opened \ {a} => HeldRent' = less + records
  BY DEF HeldRent
<1> HIDE DEF records, accounts, more, less
<1> QED
  BY <1>2, <1>3, <1>4

(* The metadata account of a stream is there for good.                     *)
LEMMA RecordsStay ==
  ASSUME IInv, [Next]_vars, NEW n \in Streams, meta[n] # NoMeta,
         \A m \in Streams \ {n} : meta'[m] = meta[m]
  PROVE  Recorded' = Recorded
<1>1. meta'[n] # NoMeta
  BY StreamAfter DEF Carried, Extended
<1> QED
  BY <1>1 DEF Recorded

(* What the wallets have and what the accounts hold.                       *)
LamportsInAll == SumOf(lamports, Wallets) + HeldRent

(* A wallet gets what the accounts give up, or pays for what they hold.    *)
LEMMA RentMoves ==
  ASSUME TypeOK, NEW w \in Wallets, NEW amount \in Int,
         lamports' = [lamports EXCEPT ![w] = @ + amount],
         HeldRent \in Int, HeldRent' = HeldRent - amount
  PROVE  LamportsInAll' = LamportsInAll
<1> DEFINE before == SumOf(lamports, Wallets)
           after == SumOf(lamports', Wallets)
<1>1. before \in Int /\ after = before + amount
  BY WalletPays
<1>2. LamportsInAll = before + HeldRent /\ LamportsInAll' = after + HeldRent'
  BY DEF LamportsInAll
<1> HIDE DEF before, after
<1> QED
  BY <1>1, <1>2

(* The sender of a new stream pays for its two accounts, and for the       *)
(* recipient's token account if there is none.                             *)
LEMMA CreateKeepsLamports ==
  ASSUME IInv, NEW m \in Streams, NEW s \in Wallets, NEW r \in Wallets,
         NEW ix \in Instructions, create(m, s, r, ix)
  PROVE  LamportsInAll' = LamportsInAll
<1>1. /\ TypeOK /\ m \notin opened /\ meta[m] = NoMeta
      /\ opened' = (opened \cup {r}) \cup {m}
      /\ lamports' = [lamports EXCEPT ![s] = @ - CreateRent(r)]
      /\ meta' = [meta EXCEPT ![m] = NewStream(s, r, ix)]
      /\ NewStream(s, r, ix) \in TokenStreamData
  BY Creation DEF IInv, create, Fresh
<1>2. Recorded' = Recorded \cup {m} /\ m \notin Recorded
  <2>1. meta'[m] # NoMeta /\ \A n \in Streams \ {m} : meta'[n] = meta[n]
    BY <1>1, Written
  <2> QED
    BY <1>1, <2>1 DEF Recorded
<1>3. /\ IsFiniteSet(opened) /\ IsFiniteSet(Recorded)
      /\ IsFiniteSet(opened \cup {r})
      /\ r # m
  <2>1. opened \in SUBSET TokenAccounts /\ Recorded \in SUBSET Streams
    BY <1>1 DEF TypeOK, SplTypeOK, Recorded
  <2> QED
    BY <2>1, FiniteAccounts, FS_Subset, FS_AddElement, Accounts
<1>4. TokenRent \in Nat /\ MetaRent \in Nat
  BY TimelockAssumption
<1> DEFINE records == MetaRent * Cardinality(Recorded)
           accounts == TokenRent * Cardinality(opened)
           paid == TokenRent * Cardinality(opened \cup {r})
           both == TokenRent * Cardinality((opened \cup {r}) \cup {m})
           recorded == MetaRent * Cardinality(Recorded \cup {m})
<1>5. /\ records \in Int /\ accounts \in Int /\ paid \in Int
      /\ paid = accounts + AtaRent(r)
      /\ both = paid + TokenRent
      /\ recorded = records + MetaRent
  <2>1. m \notin opened \cup {r}
    BY <1>1, <1>3
  <2>2. records \in Int /\ accounts \in Int /\ paid \in Int
    BY <1>3, <1>4, RentOfAccounts
  <2>3. r \notin opened => paid = accounts + TokenRent
    BY <1>3, <1>4, RentOfAccounts
  <2>4. r \in opened => paid = accounts
    <3>1. r \in opened => opened \cup {r} = opened
      OBVIOUS
    <3> QED
      BY <3>1
  <2>5. both = paid + TokenRent
    BY <1>3, <1>4, <2>1, RentOfAccounts
  <2>6. recorded = records + MetaRent
    BY <1>2, <1>3, <1>4, RentOfAccounts
  <2> HIDE DEF records, accounts, paid, both, recorded
  <2> QED
    BY <2>2, <2>3, <2>4, <2>5, <2>6 DEF AtaRent
<1>6. HeldRent = accounts + records /\ HeldRent' = both + recorded
  BY <1>1, <1>2 DEF HeldRent
<1> HIDE DEF records, accounts, paid, both, recorded
<1>7. AtaRent(r) \in Int /\ CreateRent(r) = MetaRent + TokenRent + AtaRent(r)
  BY <1>4 DEF AtaRent, CreateRent
<1> DEFINE back == 0 - CreateRent(r)
<1>8. back \in Int /\ HeldRent \in Int /\ HeldRent' = HeldRent - back
  BY <1>4, <1>5, <1>6, <1>7
<1>9. lamports' = [lamports EXCEPT ![s] = @ + back]
  <2>1. lamports[s] - CreateRent(r) = lamports[s] + back
    BY <1>1, <1>4, <1>7 DEF TypeOK
  <2> QED
    BY <1>1, <2>1
<1> HIDE DEF back
<1> QED
  BY <1>1, <1>8, <1>9, RentMoves

(* The escrow account that withdraw or cancel closes gives its rent to the *)
(* sender account of the call.                                             *)
LEMMA PaymentKeepsLamports ==
  ASSUME IInv, [Next]_vars, NEW m \in Streams, Open(m),
         \A n \in Streams \ {m} : meta'[n] = meta[n],
         NEW s \in Wallets,
         \/ UNCHANGED <<opened, lamports>>
         \/ /\ opened' = opened \ {m}
            /\ lamports' = [lamports EXCEPT ![s] = @ + TokenRent]
  PROVE  LamportsInAll' = LamportsInAll
<1>1. TypeOK /\ Recorded' = Recorded /\ m \in TokenAccounts /\ m \in opened
  BY RecordsStay, Accounts DEF IInv, Open
<1>2. HeldRent \in Int /\ TokenRent \in Int
  BY <1>1, RentOfTokenAccount, TimelockAssumption
<1>3. CASE UNCHANGED <<opened, lamports>>
  BY <1>1, <1>3 DEF LamportsInAll, HeldRent
<1>4. CASE /\ opened' = opened \ {m}
           /\ lamports' = [lamports EXCEPT ![s] = @ + TokenRent]
  <2>1. HeldRent' = HeldRent - TokenRent
    BY <1>1, <1>4, RentOfTokenAccount
  <2> QED
    BY <1>1, <1>2, <1>4, <2>1, RentMoves
<1> QED
  BY <1>3, <1>4

(* A wallet opens the token account of a wallet r, its own or that of a    *)
(* new recipient, or finds it open; or it closes its own.                  *)
LEMMA WalletKeepsLamports ==
  ASSUME TypeOK, Recorded' = Recorded, NEW w \in Wallets, NEW r \in Wallets,
         \/ /\ opened' = opened \cup {r}
            /\ lamports' = [lamports EXCEPT ![w] = @ - AtaRent(r)]
         \/ /\ r \in opened /\ opened' = opened \ {r}
            /\ lamports' = [lamports EXCEPT ![w] = @ + TokenRent]
  PROVE  LamportsInAll' = LamportsInAll
<1>1. r \in TokenAccounts
  BY DEF TokenAccounts
<1>2. /\ HeldRent \in Int /\ TokenRent \in Int /\ AtaRent(r) \in Int
      /\ lamports[w] \in Int
  BY <1>1, RentOfTokenAccount, TimelockAssumption DEF AtaRent, TypeOK
<1>3. CASE /\ opened' = opened \cup {r}
           /\ lamports' = [lamports EXCEPT ![w] = @ - AtaRent(r)]
  <2> DEFINE back == 0 - AtaRent(r)
  <2>1. HeldRent' = HeldRent + AtaRent(r)
    BY <1>1, <1>3, RentOfTokenAccount DEF AtaRent
  <2>2. back \in Int /\ HeldRent' = HeldRent - back
        /\ lamports[w] - AtaRent(r) = lamports[w] + back
    BY <1>2, <2>1
  <2>3. lamports' = [lamports EXCEPT ![w] = @ + back]
    BY <1>3, <2>2
  <2> HIDE DEF back
  <2> QED
    BY <1>2, <2>2, <2>3, RentMoves
<1>4. CASE /\ r \in opened /\ opened' = opened \ {r}
           /\ lamports' = [lamports EXCEPT ![w] = @ + TokenRent]
  <2>1. HeldRent' = HeldRent - TokenRent
    BY <1>1, <1>4, RentOfTokenAccount
  <2> QED
    BY <1>2, <1>4, <2>1, RentMoves
<1> QED
  BY <1>3, <1>4

LEMMA LamportsKept ==
  ASSUME IInv, [Next]_vars
  PROVE  LamportsInAll' = LamportsInAll
<1> DEFINE Kept == LamportsInAll' = LamportsInAll
<1>1. TypeOK /\ meta \in [Streams -> TokenStreamData \cup {NoMeta}]
  BY DEF IInv, TypeOK
<1>2. ASSUME NEW m \in Streams, NEW s \in Wallets, NEW r \in Wallets,
             NEW amount \in Amounts, withdraw(m, r, s, amount)
      PROVE  Kept
  <2>1. Open(m) /\ \A n \in Streams \ {m} : meta'[n] = meta[n]
    BY <1>1, <1>2 DEF withdraw, WithdrawOk
  <2>2. \/ UNCHANGED <<opened, lamports>>
        \/ /\ opened' = opened \ {m}
           /\ lamports' = [lamports EXCEPT ![s] = @ + TokenRent]
    BY <1>2 DEF withdraw
  <2> QED
    BY <2>1, <2>2, PaymentKeepsLamports
<1>3. ASSUME NEW m \in Streams, NEW c \in Wallets, NEW s \in Wallets,
             NEW r \in Wallets, cancel(m, c, s, r)
      PROVE  Kept
  <2>1. Open(m) /\ \A n \in Streams \ {m} : meta'[n] = meta[n]
    BY <1>1, <1>3 DEF cancel, CancelOk
  <2>2. /\ opened' = opened \ {m}
        /\ lamports' = [lamports EXCEPT ![s] = @ + TokenRent]
    BY <1>3 DEF cancel
  <2> QED
    BY <2>1, <2>2, PaymentKeepsLamports
<1>4. ASSUME NEW m \in Streams, NEW w \in Wallets, NEW r \in Wallets,
             transfer_recipient(m, w, r)
      PROVE  Kept
  <2>1. Open(m) /\ \A n \in Streams \ {m} : meta'[n] = meta[n]
    BY <1>1, <1>4 DEF transfer_recipient
  <2>2. /\ opened' = opened \cup {r}
        /\ lamports' = [lamports EXCEPT ![w] = @ - AtaRent(r)]
    BY <1>4 DEF transfer_recipient
  <2>3. Recorded' = Recorded
    BY <2>1, RecordsStay DEF Open
  <2> QED
    BY <1>1, <2>2, <2>3, WalletKeepsLamports
<1>5. ASSUME NEW m \in Streams, NEW s \in Wallets, NEW amount \in Amounts,
             topup_stream(m, s, amount)
      PROVE  Kept
  <2>1. /\ Open(m) /\ \A n \in Streams \ {m} : meta'[n] = meta[n]
        /\ UNCHANGED <<opened, lamports>>
    BY <1>1, <1>5 DEF topup_stream
  <2> QED
    BY <2>1, RecordsStay DEF Open, LamportsInAll, HeldRent
<1>6. ASSUME process_instruction PROVE Kept
  <2>1. PICK m \in Streams, s \in Wallets, r \in Wallets :
          \/ \E ix \in Instructions : create(m, s, r, ix)
          \/ \E amount \in Amounts : withdraw(m, r, s, amount)
          \/ \E c \in Wallets : cancel(m, c, s, r)
          \/ transfer_recipient(m, s, r)
          \/ \E amount \in Amounts : topup_stream(m, s, amount)
    BY <1>6 DEF process_instruction
  <2> QED
    BY <1>2, <1>3, <1>4, <1>5, <2>1, CreateKeepsLamports
<1>7. ASSUME UNCHANGED <<meta, opened, lamports>> PROVE Kept
  BY <1>7 DEF LamportsInAll, HeldRent, Recorded
<1>8. ASSUME NEW w \in Wallets, CloseAccount(w) \/ OpenAccount(w)
      PROVE  Kept
  <2>1. Recorded' = Recorded
    BY <1>8 DEF CloseAccount, OpenAccount, Recorded
  <2>2. CASE CloseAccount(w)
    BY <1>1, <2>1, <2>2, WalletKeepsLamports DEF CloseAccount, CanClose
  <2>3. CASE OpenAccount(w)
    <3>1. /\ opened' = opened \cup {w}
          /\ lamports' = [lamports EXCEPT ![w] = @ - AtaRent(w)]
      BY <2>3 DEF OpenAccount, AtaRent
    <3> QED
      BY <1>1, <2>1, <3>1, WalletKeepsLamports
  <2> QED
    BY <1>8, <2>2, <2>3
<1>9. ASSUME Environment PROVE Kept
  <2>1. \/ UNCHANGED <<meta, opened, lamports>>
        \/ \E w \in Wallets : CloseAccount(w) \/ OpenAccount(w)
    BY <1>9 DEF Environment, PlainTransfer, StrayTransfer
  <2> QED
    BY <1>7, <1>8, <2>1
<1>10. ASSUME Tick \/ UNCHANGED vars PROVE Kept
  <2>1. UNCHANGED <<meta, opened, lamports>>
    BY <1>10 DEF Tick, vars
  <2> QED
    BY <1>7, <2>1
<1> QED
  BY <1>6, <1>9, <1>10 DEF Next

(* At the start no stream exists, and who has tokens has an account.       *)
LEMMA InitialSupply ==
  ASSUME Init
  PROVE  Conservation
<1>1. SumOf(balance, TokenAccounts) = SumOf(InitialBalance, Wallets)
  <2>1. /\ \A a \in TokenAccounts : balance[a] \in Int
        /\ \A a \in TokenAccounts \ Wallets : balance[a] = 0
        /\ \A w \in Wallets : balance[w] = InitialBalance[w]
        /\ Wallets \in SUBSET TokenAccounts
    BY TimelockAssumption DEF Init, TokenAccounts, U64
  <2>2. SumOf(balance, TokenAccounts) = SumOf(balance, Wallets)
    BY <2>1, FiniteAccounts, SumIgnoresZeros
  <2>3. SumOf(balance, Wallets) = SumOf(InitialBalance, Wallets)
    BY <2>1, FiniteAccounts, SumAgrees
  <2> QED
    BY <2>2, <2>3
<1>2. SumOf(lamports, Wallets) + HeldRent
        = SumOf(InitialLamports, Wallets)
            + TokenRent * Cardinality({w \in Wallets : InitialBalance[w] > 0})
  <2> DEFINE paying == {w \in Wallets : InitialBalance[w] > 0}
             rent == TokenRent * Cardinality(paying)
  <2>1. Recorded = {} /\ opened = paying /\ lamports = InitialLamports
    BY DEF Init, Recorded
  <2>2. MetaRent * Cardinality(Recorded) = 0
    BY <2>1, FS_EmptySet, TimelockAssumption
  <2>3. rent \in Int
    <3>1. IsFiniteSet(paying)
      BY FiniteAccounts, FS_Subset
    <3> HIDE DEF paying
    <3> QED
      BY <3>1, RentOfAccounts, TimelockAssumption
  <2> HIDE DEF paying
  <2>4. HeldRent = rent
    BY <2>1, <2>2, <2>3 DEF HeldRent
  <2> QED
    BY <2>1, <2>4 DEF paying
<1> QED
  BY <1>1, <1>2 DEF Conservation

(* create, withdraw, cancel and topup_stream only move tokens, and what    *)
(* they take as rent for an account they give back when they close it; the *)
(* rent of a metadata account stays there, as does the history.            *)
THEOREM SupplyIsConserved == Spec => []Conservation
<1>1. IInv /\ Conservation /\ [Next]_vars => Conservation'
  BY TokensKept, LamportsKept DEF Conservation, LamportsInAll
<1> QED
  BY <1>1, InitialSupply, Invariance, PTL DEF Spec

-----------------------------------------------------------------------------
(* Settlement.                                                             *)

(* A mint keeps the number of its tokens in a u64.                         *)
LEMMA RoomAlways ==
  ASSUME SumOf(InitialBalance, Wallets) <= MaxU64,
         TypeOK, Conservation, NEW m \in Streams, NEW w \in Wallets
  PROVE  balance[w] + balance[m] <= MaxU64
<1> DEFINE supply == SumOf(InitialBalance, Wallets)
<1>1. w \in TokenAccounts /\ m \in TokenAccounts /\ w # m
  BY Accounts
<1>2. balance \in [TokenAccounts -> Nat]
  BY DEF TypeOK, SplTypeOK, U64
<1>3. balance[w] + balance[m] <= supply
  BY <1>1, <1>2, FiniteAccounts, SumBounds DEF Conservation
<1>4. supply \in Int /\ balance[w] + balance[m] \in Int
  <2>1. \A v \in Wallets : InitialBalance[v] \in Int
    BY TimelockAssumption DEF U64
  <2> QED
    BY <1>1, <1>2, <2>1, FiniteAccounts, SumType
<1> HIDE DEF supply
<1>5. supply <= MaxU64
  BY DEF supply
<1> QED
  BY <1>3, <1>4, <1>5, MaxU64Assumption

(* Of a mint whose tokens fit in a u64, as a mint's supply does: from its  *)
(* end on, everybody can close a stream and pay out all that it holds, for *)
(* the check that could still fail, that the recipient's account has room, *)
(* never does.                                                             *)
THEOREM NothingIsStranded ==
  ASSUME SumOf(InitialBalance, Wallets) <= MaxU64
  PROVE  Spec => []NeverLocked
<1>1. IInv /\ ClosingInv /\ Conservation => NeverLocked
  <2>1. ASSUME IInv, Conservation, NEW m \in Streams, Open(m)
        PROVE  RoomToSettle(m)
    BY <2>1, RoomAlways, StreamData DEF IInv, Open, RoomToSettle
  <2> QED
    BY <2>1, SettledWhereRoom
<1> QED
  BY <1>1, Invariance, ClosingInvariance, SupplyIsConserved, PTL

USE MaxU64Assumption

(* A funded stream can pay: what is available is in the escrow, and it is  *)
(* all of it when the deposit is used up.                                  *)
LEMMA FundsReach ==
  ASSUME IInv, NEW m \in Streams, Open(m), InRange(meta[m].ix),
         ~AvailablePanics(meta[m].ix, now), stray[m] = 0,
         Entitled(meta[m].ix) <= meta[m].ix.deposited_amount
  PROVE  /\ Available(m) \in U64 /\ Available(m) <= balance[m]
         /\ Remains(m) = balance[m] - Available(m)
         /\ Exhausts(m, Available(m)) => Available(m) = balance[m]
<1> DEFINE ix == meta[m].ix
           w == meta[m].withdrawn_amount
           deposit == meta[m].ix.deposited_amount
<1>1. /\ ix \in StreamInstruction /\ w \in U64 /\ deposit \in U64
      /\ SaneTimes(ix) /\ WithinReleased(meta[m])
      /\ now \in U64 /\ now <= MaxTime /\ ~AvailablePanics(ix, now)
  BY StreamData, ClockInU64 DEF IInv, TermsSane, Paced, TypeOK, Open
<1>2. balance[m] = WrapSub(deposit, w)
  <2>1. balance[m] = WrapSub(WrapAdd(deposit, 0), w)
    BY DEF IInv, EscrowBacked, Open
  <2>2. WrapAdd(deposit, 0) = deposit
    BY <1>1 DEF WrapAdd, U64
  <2> QED
    BY <2>1, <2>2
<1>3. /\ Remains(m) = WrapSub(deposit, WrapAdd(w, Available(m)))
      /\ Exhausts(m, Available(m)) => WrapAdd(w, Available(m)) = deposit
  BY DEF Remains, WithdrawnAfter, Exhausts
<1>4. \/ Available(m) = WrapSub(deposit, w)
      \/ Available(m) \in U64 /\ w + Available(m) <= deposit
  <2>1. CASE NotStarted(ix, now)
    BY <1>1, <2>1 DEF WithinReleased, Available, available, U64
  <2>2. CASE ~NotStarted(ix, now) /\ FullyVested(ix, now)
    BY <2>2 DEF Available, available
  <2>3. CASE ~NotStarted(ix, now) /\ ~FullyVested(ix, now)
    <3> DEFINE rel == Released(ix, now)
    <3>1. ix.period > 0
      BY <1>1, <2>3, Fields DEF AvailablePanics, U64
    <3>2. rel \in Nat /\ rel + ix.cliff_amount <= MaxU64
      BY <1>1, <2>3, <3>1, NoOverflow
    <3>3. w <= ix.cliff_amount + rel
      BY <1>1, <2>3, <3>2, Fields DEF WithinReleased, U64
    <3>4. Available(m) = WrapSub(WrapAdd(rel, ix.cliff_amount), w)
      BY <2>3 DEF Available, available
    <3>5. ix.cliff_amount + rel <= deposit
      BY <2>3 DEF Entitled
    <3> HIDE DEF rel
    <3> QED
      BY <1>1, <3>2, <3>3, <3>4, <3>5, Fields DEF WrapAdd, WrapSub, U64
  <2> QED
    BY <2>1, <2>2, <2>3
<1> HIDE DEF ix, w, deposit
<1>5. CASE Available(m) = WrapSub(deposit, w)
  <2>1. WrapSub(deposit, w) \in U64 /\ WrapAdd(w, WrapSub(deposit, w)) = deposit
    BY <1>1 DEF WrapAdd, WrapSub, U64
  <2>2. Remains(m) = 0
    BY <1>1, <1>3, <1>5, <2>1 DEF WrapSub, U64
  <2> QED
    BY <1>2, <1>5, <2>1, <2>2 DEF U64
<1>6. CASE Available(m) \in U64 /\ w + Available(m) <= deposit
  <2>1. /\ WrapAdd(w, Available(m)) = w + Available(m)
        /\ balance[m] = deposit - w
        /\ Remains(m) = deposit - (w + Available(m))
    BY <1>1, <1>2, <1>3, <1>6 DEF WrapAdd, WrapSub, U64
  <2> QED
    BY <1>1, <1>3, <1>6, <2>1 DEF U64
<1> QED
  BY <1>4, <1>5, <1>6

(* The two calls that pay pass every check of theirs and of the token      *)
(* program.                                                                *)
LEMMA FundedCalls ==
  ASSUME SumOf(InitialBalance, Wallets) <= MaxU64, IInv, Conservation,
         NEW m \in Streams, Open(m), InRange(meta[m].ix),
         ~AvailablePanics(meta[m].ix, now), stray[m] = 0,
         Entitled(meta[m].ix) <= meta[m].ix.deposited_amount,
         {meta[m].sender, meta[m].recipient} \subseteq opened
  PROVE  /\ WithdrawOk(m, meta[m].recipient, meta[m].sender, 0)
         /\ CancelOk(m, meta[m].sender, meta[m].sender, meta[m].recipient)
<1> DEFINE s == meta[m].sender
           r == meta[m].recipient
           avail == Available(m)
           left == AfterPay(m, r)
<1>1. /\ s \in Wallets /\ r \in Wallets /\ {s, r, m} \subseteq opened
      /\ balance \in [TokenAccounts -> U64] /\ TypeOK
      /\ {s, r, m} \subseteq TokenAccounts /\ m \notin {s, r}
  BY StreamData, Accounts DEF Open, IInv, TypeOK, SplTypeOK
<1>2. /\ avail \in U64 /\ avail <= balance[m]
      /\ Remains(m) = balance[m] - avail
      /\ Exhausts(m, avail) => avail = balance[m]
  BY FundsReach
<1>3. balance[r] + balance[m] <= MaxU64 /\ balance[s] + balance[m] <= MaxU64
  BY <1>1, RoomAlways
<1>4. /\ balance[m] \in U64 /\ balance[r] \in U64 /\ balance[s] \in U64
  BY <1>1
<1>5. balance[r] + avail <= MaxU64
  BY <1>2, <1>3, <1>4 DEF U64
<1>6. CanMove(balance, m, r, avail)
  BY <1>1, <1>2, <1>5 DEF CanMove
<1>7. /\ left \in [TokenAccounts -> U64]
      /\ left[m] = balance[m] - avail /\ left[r] = balance[r] + avail
      /\ s # r => left[s] = balance[s]
  BY <1>1, <1>2, <1>5, Transfer DEF AfterPay
<1>8. WithdrawOk(m, r, s, 0)
  <2>1. Requested(0, avail) = avail /\ 0 <= avail
    BY <1>2 DEF Requested, U64
  <2>2. left = Moved(balance, m, r, avail)
    BY DEF AfterPay
  <2>3. Exhausts(m, avail) => CanClose(left, m)
    BY <1>1, <1>2, <1>4, <1>7 DEF CanClose, U64
  <2> HIDE DEF left
  <2> QED
    BY <1>6, <2>1, <2>2, <2>3 DEF WithdrawOk
<1>9. CancelOk(m, s, s, r)
  <2> DEFINE rest == Remains(m)
  <2>1. AfterRefund(m, s, r) = Moved(left, m, s, rest)
    BY DEF AfterRefund
  <2>2. CanMove(balance, m, r, Available(m))
    BY <1>6
  <2> HIDE DEF left, rest, avail, s, r
  <2>3. rest \in U64 /\ rest = left[m] /\ left[s] + rest <= MaxU64
    BY <1>2, <1>3, <1>4, <1>7 DEF U64, rest
  <2>4. CanMove(left, m, s, rest)
    BY <1>1, <1>4, <1>7, <2>3 DEF CanMove, U64
  <2>5. Moved(left, m, s, rest)[m] = 0
    <3>1. Moved(left, m, s, rest)[m] = left[m] - rest
      BY <1>1, <1>7, <2>3, Transfer DEF U64
    <3> QED
      BY <2>3, <3>1 DEF U64
  <2>6. CanClose(AfterRefund(m, s, r), m)
    BY <1>1, <2>1, <2>5 DEF CanClose
  <2> QED
    BY <2>2, <2>4, <2>6 DEF CancelOk, PartiesMatch, rest, left, s, r
<1> QED
  BY <1>8, <1>9

(* As long as the deposit covers what the schedule has reached, neither    *)
(* available() nor the checks of withdraw and cancel are in the way of the *)
(* recipient who asks for everything or of the sender who cancels.         *)
THEOREM FundedStreamsPay ==
  ASSUME SumOf(InitialBalance, Wallets) <= MaxU64
  PROVE  Spec => []PaysWhileFunded
<1>1. IInv /\ Conservation => PaysWhileFunded
  BY FundedCalls DEF PaysWhileFunded
<1> QED
  BY <1>1, Invariance, SupplyIsConserved, PTL
=============================================================================
