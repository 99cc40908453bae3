---------------------------- MODULE ClientProofs ----------------------------
(***************************************************************************)
(* That the timelock program keeps its promises to clients whose           *)
(* transactions arrive late, twice or never, and that only the parties'    *)
(* transactions move tokens out of an escrow.                              *)
(***************************************************************************)
EXTENDS Client, TimelockProofs

-----------------------------------------------------------------------------
(* Bags of transactions.                                                   *)

LEMMA AddedOne ==
  ASSUME NEW B, NEW x,
         \A y \in DOMAIN B : B[y] \in Nat \ {0}
  PROVE  /\ DOMAIN BagAdd(B, x) = DOMAIN B \cup {x}
         /\ \A y \in DOMAIN BagAdd(B, x) : BagAdd(B, x)[y] \in Nat \ {0}
BY DEF BagAdd

LEMMA RemovedOne ==
  ASSUME NEW B, NEW x \in DOMAIN B,
         \A y \in DOMAIN B : B[y] \in Nat \ {0}
  PROVE  /\ DOMAIN BagRemove(B, x) \subseteq DOMAIN B
         /\ \A y \in DOMAIN BagRemove(B, x) : BagRemove(B, x)[y] \in Nat \ {0}
         /\ BagRemove(B, x) # B
BY DEF BagRemove

(* What is left tells which one was removed.                               *)
LEMMA RemovedWhich ==
  ASSUME NEW B, NEW x \in DOMAIN B, NEW y \in DOMAIN B,
         \A z \in DOMAIN B : B[z] \in Nat \ {0},
         BagRemove(B, x) = BagRemove(B, y)
  PROVE  x = y
<1> SUFFICES ASSUME x # y PROVE FALSE
  OBVIOUS
<1>1. x \in DOMAIN BagRemove(B, y) /\ BagRemove(B, y)[x] = B[x]
  BY DEF BagRemove
<1>2. x \in DOMAIN BagRemove(B, x) => BagRemove(B, x)[x] = B[x] - 1
  BY DEF BagRemove
<1> QED
  BY <1>1, <1>2

(* The accounts a transaction names exist in the model.                    *)
LEMMA Named ==
  ASSUME NEW tx \in Transactions
  PROVE  /\ tx.stream \in Streams /\ tx.signer \in Wallets
         /\ tx.recipient \in Wallets
         /\ tx.op = "create" => tx.ix \in Instructions
         /\ tx.op = "withdraw" => tx.amount \in Amounts
         /\ tx.op = "cancel" => tx.sender \in Wallets
<1>1. CASE \E m \in Streams, w \in Wallets, r \in Wallets, ix \in Instructions :
             tx = CreateTx(m, w, r, ix)
  BY <1>1, ClientAssumption DEF CreateTx
<1>2. CASE \E m \in Streams, w \in Wallets, r \in Wallets,
              amount \in Requests : tx = WithdrawTx(m, w, r, amount)
  BY <1>2, ClientAssumption DEF WithdrawTx
<1>3. CASE \E m \in Streams, w \in Wallets, s \in Wallets, r \in Wallets :
             tx = CancelTx(m, w, s, r)
  BY <1>3 DEF CancelTx
<1>4. CASE \E m \in Streams, w \in Wallets, r \in Wallets :
             tx = TransferTx(m, w, r)
  BY <1>4 DEF TransferTx
<1> QED
  BY <1>1, <1>2, <1>3, <1>4 DEF Transactions

-----------------------------------------------------------------------------
(* Every step of the clients is a step of the timelock program and its     *)
(* environment, or invisible to them.                                      *)

LEMMA CallsSubmit ==
  ASSUME IInv, Calls
  PROVE  /\ UNCHANGED vars
         /\ \E tx \in Transactions : inflight' = BagAdd(inflight, tx)
<1>1. PICK m \in Streams, w \in Wallets :
        \/ \E r \in Wallets, ix \in Instructions : SdkCreate(m, w, r, ix)
        \/ \E amount \in Requests : SdkWithdraw(m, w, amount)
        \/ SdkCancel(m, w)
        \/ \E r \in Wallets : SdkTransferRecipient(m, w, r)
  BY DEF Calls
<1>2. HasMeta(m) => meta[m].sender \in Wallets /\ meta[m].recipient \in Wallets
  BY DEF IInv, TypeOK, HasMeta, TokenStreamData
<1>3. ASSUME NEW r \in Wallets, NEW ix \in Instructions, SdkCreate(m, w, r, ix)
      PROVE  /\ UNCHANGED vars
             /\ \E tx \in Transactions : inflight' = BagAdd(inflight, tx)
  <2>1. CreateTx(m, w, r, ix) \in Transactions
    BY DEF Transactions
  <2> QED
    BY <1>3, <2>1 DEF SdkCreate, Submit
<1>4. ASSUME NEW amount \in Requests, SdkWithdraw(m, w, amount)
      PROVE  /\ UNCHANGED vars
             /\ \E tx \in Transactions : inflight' = BagAdd(inflight, tx)
  <2>1. WithdrawTx(m, w, meta[m].recipient, amount) \in Transactions
    BY <1>2, <1>4 DEF Transactions, SdkWithdraw
  <2> QED
    BY <1>4, <2>1 DEF SdkWithdraw, Submit
<1>5. ASSUME SdkCancel(m, w)
      PROVE  /\ UNCHANGED vars
             /\ \E tx \in Transactions : inflight' = BagAdd(inflight, tx)
  <2>1. CancelTx(m, w, meta[m].sender, meta[m].recipient) \in Transactions
    BY <1>2, <1>5 DEF Transactions, SdkCancel
  <2> QED
    BY <1>5, <2>1 DEF SdkCancel, Submit
<1>6. ASSUME NEW r \in Wallets, SdkTransferRecipient(m, w, r)
      PROVE  /\ UNCHANGED vars
             /\ \E tx \in Transactions : inflight' = BagAdd(inflight, tx)
  <2>1. TransferTx(m, w, r) \in Transactions
    BY DEF Transactions
  <2> QED
    BY <1>6, <2>1 DEF SdkTransferRecipient, Submit
<1> QED
  BY <1>1, <1>3, <1>4, <1>5, <1>6

(* A withdraw that names no sender succeeds only if it leaves the escrow   *)
(* open, and then does what one with any sender would do.                  *)
LEMMA WithoutSender ==
  ASSUME TypeOK, NEW m \in Streams, NEW r, NEW s \in Wallets, NEW amount,
         withdraw(m, r, NoSender, amount)
  PROVE  withdraw(m, r, s, amount)
<1>1. NoSender # meta[m].sender
  <2>1. meta[m] \in TokenStreamData
    BY DEF TypeOK, withdraw, WithdrawOk, Open
  <2> QED
    BY <2>1, ClientAssumption DEF TokenStreamData
<1>2. ~Exhausts(m, Requested(amount, Available(m)))
  BY <1>1 DEF withdraw, WithdrawOk
<1> QED
  BY <1>2 DEF withdraw, WithdrawOk

LEMMA ExecuteIsInstruction ==
  ASSUME IInv, Sent, NEW tx \in BagToSet(inflight), Execute(tx)
  PROVE  process_instruction
<1>1. tx \in Transactions
  BY DEF Sent
<1>2. /\ tx.stream \in Streams /\ tx.signer \in Wallets
      /\ tx.recipient \in Wallets
      /\ tx.op = "create" => tx.ix \in Instructions
      /\ tx.op = "withdraw" => tx.amount \in Amounts
      /\ tx.op = "cancel" => tx.sender \in Wallets
  BY <1>1, Named
<1>3. CASE RunCreate(tx)
  BY <1>2, <1>3 DEF RunCreate, process_instruction
<1>4. CASE RunWithdraw(tx)
  <2>1. withdraw(tx.stream, tx.signer, tx.signer, tx.amount)
    BY <1>2, <1>4, WithoutSender DEF RunWithdraw, IInv
  <2> QED
    BY <1>2, <1>4, <2>1 DEF RunWithdraw, process_instruction
<1>5. CASE RunCancel(tx)
  BY <1>2, <1>5 DEF RunCancel, process_instruction
<1>6. CASE RunTransfer(tx)
  BY <1>2, <1>6 DEF RunTransfer, process_instruction
<1> QED
  BY <1>3, <1>4, <1>5, <1>6 DEF Execute

LEMMA ClientStep ==
  ASSUME IInv, Sent, [ClientNext]_cvars
  PROVE  [Next]_vars /\ Sent'
<1>1. \A tx \in DOMAIN inflight : inflight[tx] \in Nat \ {0}
  BY DEF Sent, BagToSet
<1>2. CASE Calls
  <2>1. PICK tx \in Transactions : inflight' = BagAdd(inflight, tx)
    BY <1>2, CallsSubmit
  <2>2. UNCHANGED vars
    BY <1>2, CallsSubmit
  <2>3. /\ DOMAIN inflight' = DOMAIN inflight \cup {tx}
        /\ \A y \in DOMAIN inflight' : inflight'[y] \in Nat \ {0}
    BY <1>1, <2>1, AddedOne
  <2>4. DOMAIN inflight \subseteq Transactions
    BY DEF Sent, BagToSet
  <2>5. \A y \in DOMAIN inflight' : y \in Transactions
    BY <2>3, <2>4
  <2>6. Sent'
    BY <2>3, <2>5 DEF Sent, BagToSet
  <2> QED
    BY <2>2, <2>6
<1>3. ASSUME NEW tx \in BagToSet(inflight), Execute(tx) \/ Drop(tx)
      PROVE  [Next]_vars /\ Sent'
  <2>1. inflight' = BagRemove(inflight, tx) /\ tx \in DOMAIN inflight
    BY <1>3 DEF Execute, Drop, BagToSet
  <2>2. Sent'
    BY <1>1, <2>1, RemovedOne DEF Sent, BagToSet
  <2>3. [Next]_vars
    BY <1>3, ExecuteIsInstruction DEF Drop, Next
  <2> QED
    BY <2>2, <2>3
<1>4. CASE (Tick \/ Environment) /\ UNCHANGED inflight
  BY <1>4 DEF Next, Sent
<1>5. CASE UNCHANGED cvars
  BY <1>5 DEF cvars, vars, Sent
<1> QED
  BY <1>2, <1>3, <1>4, <1>5 DEF ClientNext

LEMMA ClientInvariance == ClientSpec => [](IInv /\ Sent)
<1>1. ClientInit => IInv /\ Sent
  <2>1. ClientInit => IInv
    BY InitIInv DEF ClientInit
  <2>2. ClientInit => Sent
    BY DEF ClientInit, Sent, BagToSet, EmptyBag, SetToBag
  <2> QED
    BY <2>1, <2>2
<1>2. IInv /\ Sent /\ [ClientNext]_cvars => (IInv /\ Sent)'
  BY ClientStep, NextKeepsIInv
<1> QED
  BY <1>1, <1>2, PTL DEF ClientSpec

(* Clients that reach the program through the SDK and the Anchor program,  *)
(* with transactions lost, late and repeated, can bring about only what    *)
(* Timelock allows: all theorems about it hold for them too.               *)
THEOREM ClientsAreUsers == ClientSpec => Spec
<1>1. ClientInit => Init
  BY DEF ClientInit
<1>2. IInv /\ Sent /\ [ClientNext]_cvars => [Next]_vars
  BY ClientStep
<1> QED
  BY <1>1, <1>2, ClientInvariance, PTL DEF ClientSpec, Spec

(* In particular no retried, late or stale withdraw or cancel gets a       *)
(* recipient ahead of the schedule.                                        *)
THEOREM RetriesKeepPace == ClientSpec => []NeverAhead
  BY ClientsAreUsers, VestingPromise, PTL

(* And a stream that a call from the SDK closes, however late, has paid    *)
(* the deposit or exactly what the schedule had reached.                   *)
THEOREM RetriesSettleFairly == ClientSpec => SettledFairly
  BY ClientsAreUsers, FairSettlement, PTL
-----------------------------------------------------------------------------
(* Which transaction a step executes or drops.                             *)

LEMMA LeavesAlone ==
  ASSUME Sent, NEW tx \in BagToSet(inflight), Leaves(tx), ClientNext
  PROVE  Execute(tx) \/ Drop(tx)
<1>1. \A x \in DOMAIN inflight : inflight[x] \in Nat \ {0}
  BY DEF Sent, BagToSet
<1>2. tx \in DOMAIN inflight /\ inflight' = BagRemove(inflight, tx)
  BY DEF Leaves, BagToSet
<1>3. inflight' # inflight
  BY <1>1, <1>2, RemovedOne
<1>4. ~Calls
  <2>1. SUFFICES ASSUME NEW x, inflight' = BagAdd(inflight, x) PROVE FALSE
    BY DEF Calls, SdkCreate, SdkWithdraw, SdkCancel, SdkTransferRecipient,
           Submit
  <2>2. x \in DOMAIN inflight'
    BY <2>1 DEF BagAdd
  <2>3. x \in DOMAIN inflight
    BY <1>1, <1>2, <2>2, RemovedOne
  <2>4. inflight'[x] = inflight[x] + 1
    BY <2>1, <2>3 DEF BagAdd
  <2>5. inflight'[x] = inflight[x] \/ inflight'[x] = inflight[x] - 1
    BY <1>2, <2>2 DEF BagRemove
  <2> QED
    BY <1>1, <2>3, <2>4, <2>5
<1>5. PICK x \in BagToSet(inflight) : Execute(x) \/ Drop(x)
  BY <1>3, <1>4 DEF ClientNext
<1>6. x = tx
  BY <1>1, <1>2, <1>5, RemovedWhich DEF Execute, Drop, BagToSet
<1> QED
  BY <1>5, <1>6

(* A transaction that comes too late for its stream, or creates it again,  *)
(* fails: create wants a fresh stream and the others an open one.          *)
THEOREM RetriesAreHarmless == ClientSpec => LateCallsDoNothing
<1>1. ASSUME Sent, ClientNext, NEW tx \in BagToSet(inflight), Leaves(tx),
             Closed(tx.stream) \/ (tx.op = "create" /\ HasMeta(tx.stream))
      PROVE  UNCHANGED vars
  <2>1. Execute(tx) \/ Drop(tx)
    BY <1>1, LeavesAlone
  <2>2. ~Execute(tx)
    BY <1>1 DEF Execute, RunCreate, RunWithdraw, RunCancel, RunTransfer,
                create, withdraw, WithdrawOk, cancel, CancelOk,
                transfer_recipient, Open, Closed, Fresh, HasMeta
  <2> QED
    BY <2>1, <2>2 DEF Drop
<1>2. IInv /\ Sent /\ [ClientNext]_cvars =>
        [\A tx \in BagToSet(inflight) :
           /\ Leaves(tx)
           /\ Closed(tx.stream) \/ (tx.op = "create" /\ HasMeta(tx.stream))
           => UNCHANGED vars]_cvars
  BY <1>1
<1> QED
  BY <1>2, ClientInvariance, PTL DEF ClientSpec, LateCallsDoNothing
-----------------------------------------------------------------------------
(* Tokens leave an escrow only through withdraw and cancel; the Anchor     *)
(* program passes the signer on as the party that asks, and the timelock   *)
(* program compares both parties with the metadata.                        *)
THEOREM OnlyPartiesMoveFunds == ClientSpec => PartiesMoveFunds
<1>1. ASSUME IInv, Sent, ClientNext, NEW m \in Streams,
             balance'[m] < balance[m]
      PROVE  \E tx \in BagToSet(inflight) :
               /\ Leaves(tx)
               /\ tx.stream = m /\ tx.recipient = meta[m].recipient
               /\ tx.signer = IF tx.op = "cancel" THEN meta[m].sender
                                                  ELSE meta[m].recipient
  <2>1. TypeOK /\ balance[m] \in Nat /\ balance'[m] \in Nat
    <3>1. IInv'
      BY <1>1, ClientStep, NextKeepsIInv
    <3>2. \A x \in U64 : x \in Nat
      BY MaxU64Assumption DEF U64
    <3> QED
      BY <1>1, <3>1, <3>2 DEF IInv, TypeOK, SplTypeOK, TokenAccounts
  <2>2. ~(balance'[m] >= balance[m])
    BY <1>1, <2>1
  <2>3. ~UNCHANGED balance
    BY <1>1, <2>1
  <2>4. PICK tx \in BagToSet(inflight) : Execute(tx)
    <3>1. ~Calls
      BY <1>1, <2>3, CallsSubmit DEF vars
    <3>2. ~(Tick \/ Environment)
      BY <2>1, <2>2, EnvironmentTakesNothing
    <3> QED
      BY <1>1, <2>3, <3>1, <3>2 DEF ClientNext, Drop, vars
  <2>5. /\ tx.stream \in Streams /\ tx.signer \in Wallets
        /\ tx.recipient \in Wallets
        /\ tx.op = "create" => tx.ix \in Instructions
        /\ tx.op = "withdraw" => tx.amount \in U64
        /\ tx.op = "cancel" => tx.sender \in Wallets
    BY <1>1, Named, TimelockAssumption DEF Sent
  <2>6. Leaves(tx)
    BY <2>4 DEF Leaves, Execute
  <2>7. ~RunCreate(tx)
    BY <2>1, <2>2, <2>5, CreateTakesNothing DEF RunCreate
  <2>8. ~RunTransfer(tx)
    BY <2>3 DEF RunTransfer, transfer_recipient
  <2>9. CASE RunWithdraw(tx)
    <3>1. withdraw(tx.stream, tx.signer, tx.signer, tx.amount)
      BY <2>1, <2>5, <2>9, WithoutSender DEF RunWithdraw
    <3>2. tx.op = "withdraw" /\ tx.recipient = tx.signer
      BY <2>9 DEF RunWithdraw
    <3>3. tx.stream = m /\ tx.signer = meta[m].recipient
      BY <1>1, <2>1, <2>5, <3>1, <3>2, WithdrawTakesItsOwn
    <3> QED
      BY <2>6, <3>2, <3>3
  <2>10. CASE RunCancel(tx)
    <3>1. /\ tx.stream = m /\ tx.signer = meta[m].sender
          /\ tx.recipient = meta[m].recipient
      BY <1>1, <2>1, <2>5, <2>10, CancelTakesItsOwn DEF RunCancel
    <3> QED
      BY <2>6, <2>10, <3>1 DEF RunCancel
  <2> QED
    BY <2>4, <2>7, <2>8, <2>9, <2>10 DEF Execute
<1>2. IInv /\ Sent /\ [ClientNext]_cvars =>
        [\A m \in Streams :
           balance'[m] < balance[m] =>
             \E tx \in BagToSet(inflight) :
               /\ Leaves(tx)
               /\ tx.stream = m /\ tx.recipient = meta[m].recipient
               /\ tx.signer = IF tx.op = "cancel" THEN meta[m].sender
                                                  ELSE meta[m].recipient]_cvars
  BY <1>1
<1> QED
  BY <1>2, ClientInvariance, PTL DEF ClientSpec, PartiesMoveFunds
=============================================================================
