------------------------------- MODULE Client -------------------------------
(***************************************************************************)
(* The JavaScript SDK (packages/timelock/timelock.ts) and the Anchor       *)
(* program it calls (programs/timelock/src/lib.rs), composed with the      *)
(* timelock program.  A call reads the stream's metadata, makes a          *)
(* transaction of what it read and submits it.  The transaction is         *)
(* executed some time later, after others that were submitted later, or    *)
(* never: it is lost, fails, or expires.  A caller that got no answer      *)
(* calls again, with another transaction, while the first may still be     *)
(* under way.                                                              *)
(***************************************************************************)
EXTENDS TimelockProperties, Bags, BagsExt

CONSTANTS Requests,    \* the amounts asked of SdkWithdraw
          NoSender,    \* where a call names no sender account
          MaxInFlight  \* bound: transactions under way at a time

VARIABLE inflight  \* the transactions submitted and not executed, a bag

cvars == <<now, meta, opened, balance, lamports, stray, inflight>>

(* What the Anchor program makes of the arguments of create: streams that  *)
(* are not recurring and deposit their total.                              *)
FullyDeposited(ix) == [ix EXCEPT !.deposited_amount = ix.total_amount,
                                 !.release_rate = 0]

ASSUME ClientAssumption ==
  /\ Requests \subseteq Amounts
  /\ NoSender \notin Wallets
  /\ \A ix \in Instructions : FullyDeposited(ix) \in Instructions
  /\ MaxInFlight \in Nat

(* A transaction: the instruction, the wallet that signed it, and the      *)
(* owners of the token accounts it names.  A withdraw names no sender.     *)
CreateTx(m, w, r, ix) ==
  [op |-> "create", stream |-> m, signer |-> w, recipient |-> r,
   ix |-> FullyDeposited(ix)]
WithdrawTx(m, w, r, amount) ==
  [op |-> "withdraw", stream |-> m, signer |-> w, recipient |-> r,
   amount |-> amount]
CancelTx(m, w, s, r) ==
  [op |-> "cancel", stream |-> m, signer |-> w, sender |-> s, recipient |-> r]
TransferTx(m, w, r) ==
  [op |-> "transfer_recipient", stream |-> m, signer |-> w, recipient |-> r]

-----------------------------------------------------------------------------
(* The calls of the SDK, by wallet w.                                      *)

Submit(tx) ==
  /\ BagCardinality(inflight) < MaxInFlight                 \* bound
  /\ inflight' = BagAdd(inflight, tx)
  /\ UNCHANGED vars

SdkCreate(m, w, r, ix) == Submit(CreateTx(m, w, r, ix))

(* The others fail without a transaction when there is no metadata.        *)
SdkWithdraw(m, w, amount) ==
  /\ HasMeta(m)
  /\ Submit(WithdrawTx(m, w, meta[m].recipient, amount))

SdkCancel(m, w) ==
  /\ HasMeta(m)
  /\ Submit(CancelTx(m, w, meta[m].sender, meta[m].recipient))

SdkTransferRecipient(m, w, r) ==
  /\ HasMeta(m)
  /\ Submit(TransferTx(m, w, r))

-----------------------------------------------------------------------------
(* What the Anchor program does with a transaction: withdraw and cancel    *)
(* pass the signer on as recipient and as sender, with the token accounts  *)
(* that were in the metadata.  Those it declares as token accounts must be *)
(* initialised.  No sender is among withdraw's accounts, so that the       *)
(* withdrawal that would close the escrow fails as a whole.                *)
WithdrawDeclared(tx) == tx.recipient \in opened
CancelDeclared(tx) == {tx.sender, tx.recipient} \subseteq opened

RunAsNamed(tx) ==                                                   \* mutant
  /\ tx.op = "withdraw"
  /\ WithdrawDeclared(tx)
  /\ withdraw(tx.stream, tx.recipient, NoSender, tx.amount)

RunCreate(tx) ==
  /\ tx.op = "create"
  /\ create(tx.stream, tx.signer, tx.recipient, tx.ix)

RunWithdraw(tx) ==
  /\ tx.op = "withdraw"
  /\ WithdrawDeclared(tx)
  /\ tx.recipient = tx.signer
  /\ withdraw(tx.stream, tx.signer, NoSender, tx.amount)

RunCancel(tx) ==
  /\ tx.op = "cancel"
  /\ CancelDeclared(tx)
  /\ tx.sender = tx.signer
  /\ cancel(tx.stream, tx.signer, tx.sender, tx.recipient)

RunTransfer(tx) ==
  /\ tx.op = "transfer_recipient"
  /\ transfer_recipient(tx.stream, tx.signer, tx.recipient)

Execute(tx) ==
  /\ BagIn(tx, inflight)
  /\ inflight' = BagRemove(inflight, tx)
  /\ RunCreate(tx) \/ RunWithdraw(tx) \/ RunCancel(tx) \/ RunTransfer(tx)

(* A transaction that is lost, or too late, or fails.                      *)
Drop(tx) ==
  /\ BagIn(tx, inflight)
  /\ inflight' = BagRemove(inflight, tx)
  /\ UNCHANGED vars

-----------------------------------------------------------------------------
ClientInit == Init /\ inflight = EmptyBag

Calls ==
  \E m \in Streams, w \in Wallets :
    \/ \E r \in Wallets, ix \in Instructions : SdkCreate(m, w, r, ix)
    \/ \E amount \in Requests : SdkWithdraw(m, w, amount)
    \/ SdkCancel(m, w)
    \/ \E r \in Wallets : SdkTransferRecipient(m, w, r)

ClientNext ==
  \/ Calls
  \/ \E tx \in BagToSet(inflight) : Execute(tx) \/ Drop(tx)
  \/ (Tick \/ Environment) /\ UNCHANGED inflight

ClientSpec == ClientInit /\ [][ClientNext]_cvars

Transactions ==
  {CreateTx(m, w, r, ix) : m \in Streams, w \in Wallets, r \in Wallets,
                           ix \in Instructions}
  \cup {WithdrawTx(m, w, r, amount) :
          m \in Streams, w \in Wallets, r \in Wallets, amount \in Requests}
  \cup {CancelTx(m, w, s, r) :
          m \in Streams, w \in Wallets, s \in Wallets, r \in Wallets}
  \cup {TransferTx(m, w, r) : m \in Streams, w \in Wallets, r \in Wallets}

(* What is under way are transactions of the forms above, each once or     *)
(* more often.                                                             *)
Sent ==
  \A tx \in BagToSet(inflight) :
    tx \in Transactions /\ inflight[tx] \in Nat \ {0}

-----------------------------------------------------------------------------
(* The step that executes or drops tx.                                     *)
Leaves(tx) == BagIn(tx, inflight) /\ inflight' = BagRemove(inflight, tx)

(* Only calls by the parties move tokens: tokens leave an escrow only when *)
(* a transaction is executed that the stream's sender or its present       *)
(* recipient signed, and only if the recipient it names, from metadata     *)
(* read before it was submitted, is still the recipient.                   *)
PartiesMoveFunds ==
  [][\A m \in Streams :
       balance'[m] < balance[m] =>
         \E tx \in BagToSet(inflight) :
           /\ Leaves(tx)
           /\ tx.stream = m /\ tx.recipient = meta[m].recipient
           /\ tx.signer = IF tx.op = "cancel" THEN meta[m].sender
                                              ELSE meta[m].recipient]_cvars

(* A retry of what was done does nothing: a create that arrives when its   *)
(* stream exists charges nobody again, and whatever arrives for a stream   *)
(* that was closed in the meantime changes nothing.                        *)
LateCallsDoNothing ==
  [][\A tx \in BagToSet(inflight) :
       /\ Leaves(tx)
       /\ Closed(tx.stream) \/ (tx.op = "create" /\ HasMeta(tx.stream))
       => UNCHANGED vars]_cvars

-----------------------------------------------------------------------------
(* Callers that do not give up.  A transaction is neither unlucky for ever *)
(* nor under way for ever: it expires with the block hash it refers to.    *)
Delivery ==
  /\ WF_cvars(Tick /\ UNCHANGED inflight)
  /\ WF_cvars(\E tx \in BagToSet(inflight) : Drop(tx))

DeliverySpec == ClientSpec /\ Delivery

(* The recipient of m repeats its call for amount, and of infinitely many  *)
(* repetitions that could be executed one is.                              *)
RecipientAsks(m, amount) ==
  HasMeta(m) /\ SdkWithdraw(m, meta[m].recipient, amount)
RecipientHeard(m, amount) ==
  \E tx \in BagToSet(inflight) :
    /\ tx.op = "withdraw" /\ tx.stream = m /\ tx.amount = amount
    /\ Execute(tx)
RecipientInsists(m, amount) ==
  /\ SF_cvars(RecipientAsks(m, amount))
  /\ SF_cvars(RecipientHeard(m, amount))

(* So does the sender.                                                     *)
SenderCancels(m) ==
  HasMeta(m) /\ SdkCancel(m, meta[m].sender)
SenderHeard(m) ==
  \E tx \in BagToSet(inflight) :
    tx.op = "cancel" /\ tx.stream = m /\ Execute(tx)
SenderInsists(m) ==
  SF_cvars(SenderCancels(m)) /\ SF_cvars(SenderHeard(m))

(* Without stray tokens, and with token accounts for the wallets to pay.   *)
CanPayAll(m, wallets) == stray[m] = 0 /\ wallets \subseteq opened

NotYetPaid(m) ==
  WrapSub(meta[m].ix.deposited_amount, meta[m].withdrawn_amount)

(* A recipient that keeps asking for one token draws, through lost and     *)
(* stale transactions and whatever else wallets call in between, all of    *)
(* the deposit but the last token, for which the escrow would have to be   *)
(* closed; and so does the one after it when the stream is passed on.      *)
(* Only a cancel before the end leaves less (SettledFairly says how much). *)
AskingDrawsAllButOne ==
  \A m \in Streams :
    /\ RecipientInsists(m, 1)
    /\ <>[](HasMeta(m) /\ InRange(meta[m].ix)
              /\ CanPayAll(m, {meta[m].recipient}))
    => <>(/\ HasMeta(m)
          /\ \/ NotYetPaid(m) <= 1
             \/ Closed(m) /\ ~FullyVested(meta[m].ix, now))

(* A sender that keeps cancelling gets out, also before the end, although  *)
(* each of its transactions names the recipient of some earlier moment.    *)
CancellingEnds ==
  \A m \in Streams :
    /\ SenderInsists(m)
    /\ <>[](HasMeta(m) /\ CanPayAll(m, {meta[m].sender, meta[m].recipient}))
    => <>Closed(m)
=============================================================================
