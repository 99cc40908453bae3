------------------------------ MODULE Timelock ------------------------------
(***************************************************************************)
(* The timelock program: the five instructions of src/token.rs as the      *)
(* entrypoint dispatches them, over the metadata accounts of several       *)
(* streams, the token accounts they move funds between and the lamports    *)
(* that pay the accounts' rent.  The runtime runs one instruction at a     *)
(* time and drops every effect of one that returns an error or panics, so  *)
(* an instruction is one action whose guard is the conjunction of all its  *)
(* checks.  Other users of the token program and the clock act in between. *)
(***************************************************************************)
EXTENDS SplToken

CONSTANTS NoMeta,          \* the data of an empty metadata account
          Instructions,    \* what clients ask of create
          InitialBalance,  \* the tokens each wallet starts with
          InitialLamports, \* the lamports each wallet starts with
          MetaRent,        \* minimum_balance of a metadata account
          TokenRent,       \* minimum_balance of a token account
          Lps,             \* lamports per signature
          Amounts,         \* the amounts clients withdraw and top up
          OutsideAmounts,  \* the amounts sent without the program
          MaxTime,         \* bound: the clock stops here
          MaxDeposit,      \* bound on deposited_amount reached by topping up
          MaxStray         \* bound on tokens sent to an escrow from outside

VARIABLES now,       \* Clock::get()?.unix_timestamp
          meta,      \* the TokenStreamData of each metadata account
          lamports,  \* the lamports of each wallet
          stray      \* history: tokens an escrow got outside the program

vars == <<now, meta, opened, balance, lamports, stray>>

(* The metadata of a stream.  The token accounts it also names are the     *)
(* ones that derive from sender, recipient and the metadata key.           *)
TokenStreamData ==
  [created_at : U64, withdrawn_amount : U64, canceled_at : U64,
   closable_at : U64, last_withdrawn_at : U64,
   sender : Wallets, recipient : Wallets, ix : StreamInstruction]

ASSUME TimelockAssumption ==
  /\ NoMeta \notin TokenStreamData
  /\ Instructions \subseteq StreamInstruction
  /\ InitialBalance \in [Wallets -> U64]
  /\ InitialLamports \in [Wallets -> Nat]
  /\ MetaRent \in Nat /\ TokenRent \in Nat /\ Lps \in Nat
  /\ Amounts \subseteq U64 /\ OutsideAmounts \subseteq U64
  /\ MaxTime \in 1 .. MaxU64
  /\ MaxDeposit \in Nat /\ MaxStray \in Nat

HasMeta(m) == meta[m] # NoMeta                                      \* mutant
Open(m) == meta[m] # NoMeta /\ m \in opened
Closed(m) == meta[m] # NoMeta /\ m \notin opened

(* Every timestamp is positive: 0 in the metadata means "not yet".         *)
Init ==
  /\ now = 1
  /\ meta = [m \in Streams |-> NoMeta]
  /\ opened = {w \in Wallets : InitialBalance[w] > 0}
  /\ balance = [a \in TokenAccounts |->
                  IF a \in Wallets THEN InitialBalance[a] ELSE 0]
  /\ lamports = InitialLamports
  /\ stray = [m \in Streams |-> 0]

-----------------------------------------------------------------------------
(* Instruction 0: create.                                                  *)

(* TokenStreamData::new, and the closable_at create computes over it when  *)
(* the deposit is partial or the stream recurring.                         *)
NeedsClosable(ix) == ix.deposited_amount < ix.total_amount \/ Recurring(ix)

NewStreamOfTotal(s, r, ix) ==                                       \* mutant
  [created_at |-> now, withdrawn_amount |-> 0, canceled_at |-> 0,
   closable_at |-> ix.end_time, last_withdrawn_at |-> 0,
   sender |-> s, recipient |-> r,
   ix |-> [ix EXCEPT !.deposited_amount = ix.total_amount]]

NewStream(s, r, ix) ==
  [created_at |-> now, withdrawn_amount |-> 0, canceled_at |-> 0,
   closable_at |-> IF NeedsClosable(ix) THEN closable(ix) ELSE ix.end_time,
   last_withdrawn_at |-> 0, sender |-> s, recipient |-> r, ix |-> ix]

(* Rent for a token account of wallet w, if the instruction creates it.    *)
AtaRent(w) == IF w \in opened THEN 0 ELSE TokenRent

(* The sender s pays for both accounts, and for the recipient's token      *)
(* account when r has none.                                                *)
RentOfNewAccounts(r) == MetaRent + TokenRent                        \* mutant
CreateRent(r) == MetaRent + TokenRent + AtaRent(r)

(* Neither the metadata account nor the escrow account holds data.         *)
NoEscrow(m) == m \notin opened                                      \* mutant
Fresh(m) == meta[m] = NoMeta /\ m \notin opened

create(m, s, r, ix) ==
  /\ Fresh(m)
  /\ s \in opened
  /\ duration_sanity(now, ix.start_time, ix.end_time, ix.cliff)
  /\ NeedsClosable(ix) => ~ClosablePanics(ix)
  /\ lamports[s] >= CreateRent(r) + 2 * Lps
  /\ balance[s] >= ix.deposited_amount
  /\ opened' = opened \cup {r, m}
  /\ meta' = [meta EXCEPT ![m] = NewStream(s, r, ix)]
  /\ balance' = Moved(balance, s, m, ix.deposited_amount)
  /\ lamports' = [lamports EXCEPT ![s] = @ - CreateRent(r)]
  /\ UNCHANGED <<now, stray>>

-----------------------------------------------------------------------------
(* Instruction 1: withdraw, by the recipient r; s is the sender account    *)
(* the call names.  Amount 0 asks for everything available.                *)

Requested(amount, avail) == IF amount = 0 THEN avail ELSE amount

AvailableInAll(m) == available(meta[m].ix, 0, now)                  \* mutant
Available(m) == available(meta[m].ix, meta[m].withdrawn_amount, now)

LastPayment(m, paid) == paid                                        \* mutant
WithdrawnAfter(m, paid) == WrapAdd(meta[m].withdrawn_amount, paid)

(* Everything deposited has been withdrawn: the escrow is closed.          *)
Exhausts(m, paid) == WithdrawnAfter(m, paid) = meta[m].ix.deposited_amount

WithdrawOk(m, r, s, amount) ==
  /\ Open(m)
  /\ r = meta[m].recipient
  /\ ~AvailablePanics(meta[m].ix, now)
  /\ amount <= Available(m)
  /\ LET paid == Requested(amount, Available(m))
         left == Moved(balance, m, r, paid)
     IN /\ CanMove(balance, m, r, paid)
        /\ Exhausts(m, paid) => s = meta[m].sender /\ CanClose(left, m)

withdraw(m, r, s, amount) ==
  LET paid == Requested(amount, Available(m))
  IN /\ WithdrawOk(m, r, s, amount)
     /\ meta' = [meta EXCEPT ![m].withdrawn_amount = WithdrawnAfter(m, paid),
                             ![m].last_withdrawn_at = now]
     /\ balance' = Moved(balance, m, r, paid)
     /\ IF Exhausts(m, paid)
          THEN /\ opened' = opened \ {m}
               /\ lamports' = [lamports EXCEPT ![s] = @ + TokenRent]
          ELSE UNCHANGED <<opened, lamports>>
     /\ UNCHANGED <<now, stray>>

-----------------------------------------------------------------------------
(* Instruction 2: cancel, by the cancel authority c; s and r are the       *)
(* sender and the recipient the call names.                                *)

ExpiredLate(m) == now > meta[m].closable_at                         \* mutant
Expired(m) == now >= meta[m].closable_at

(* What is left of the deposit once the recipient got what is available.   *)
NotWithdrawn(m) ==                                                  \* mutant
  WrapSub(meta[m].ix.deposited_amount, meta[m].withdrawn_amount)
Remains(m) == WrapSub(meta[m].ix.deposited_amount,
                      WithdrawnAfter(m, Available(m)))

AfterPay(m, r) == Moved(balance, m, r, Available(m))
AllToRecipient(m, s, r) == Moved(AfterPay(m, r), m, r, Remains(m))  \* mutant
AfterRefund(m, s, r) == Moved(AfterPay(m, r), m, s, Remains(m))

SenderMatches(m, s, r) == s = meta[m].sender                        \* mutant
RecipientMatches(m, s, r) == r = meta[m].recipient                  \* mutant
PartiesMatch(m, s, r) == s = meta[m].sender /\ r = meta[m].recipient

CancelOk(m, c, s, r) ==
  /\ Open(m)
  /\ Expired(m) \/ c = s
  /\ PartiesMatch(m, s, r)
  /\ ~AvailablePanics(meta[m].ix, now)
  /\ CanMove(balance, m, r, Available(m))
  /\ Remains(m) > 0 => CanMove(AfterPay(m, r), m, s, Remains(m))
  /\ CanClose(AfterRefund(m, s, r), m)

cancel(m, c, s, r) ==
  /\ CancelOk(m, c, s, r)
  /\ meta' = [meta EXCEPT
                ![m].withdrawn_amount = WithdrawnAfter(m, Available(m)),
                ![m].last_withdrawn_at = IF Expired(m) THEN @ ELSE now,
                ![m].canceled_at = IF Expired(m) THEN @ ELSE now]
  /\ balance' = AfterRefund(m, s, r)
  /\ opened' = opened \ {m}
  /\ lamports' = [lamports EXCEPT ![s] = @ + TokenRent]
  /\ UNCHANGED <<now, stray>>

-----------------------------------------------------------------------------
(* Instruction 3: transfer_recipient, by wallet w, to wallet r.            *)

(* The flags admit the sender too, but a later check of the same           *)
(* instruction wants the wallet to be the recipient.                       *)
IsRecipient(m, w) == w = meta[m].recipient                          \* mutant
TransferAuthorized(m, w) ==
  /\ \/ meta[m].ix.transferable_by_recipient /\ w = meta[m].recipient
     \/ meta[m].ix.transferable_by_sender /\ w = meta[m].sender
  /\ w = meta[m].recipient

(* w pays for the token account of the new recipient r, if r has none.     *)
TransferFree(w, r) == TRUE                                          \* mutant
TransferAffordable(w, r) == r \notin opened => lamports[w] >= TokenRent + Lps

transfer_recipient(m, w, r) ==
  /\ Open(m)
  /\ TransferAuthorized(m, w)
  /\ TransferAffordable(w, r)
  /\ meta' = [meta EXCEPT ![m].recipient = r]
  /\ opened' = opened \cup {r}
  /\ lamports' = [lamports EXCEPT ![w] = @ - AtaRent(r)]
  /\ UNCHANGED <<now, balance, stray>>

-----------------------------------------------------------------------------
(* Instruction 4: topup_stream, by any wallet s that has the tokens.       *)

ToppedUpTo(m, amount) ==                                            \* mutant
  [meta[m].ix EXCEPT !.deposited_amount = amount]
ToppedUp(m, amount) ==
  [meta[m].ix EXCEPT !.deposited_amount = WrapAdd(@, amount)]

ClosableBefore(m, amount) == closable(meta[m].ix)                   \* mutant
ClosableAfter(m, amount) == closable(ToppedUp(m, amount))

topup_stream(m, s, amount) ==
  /\ Open(m)
  /\ amount > 0
  /\ ~ClosablePanics(meta[m].ix) /\ closable(meta[m].ix) >= now
  /\ CanMove(balance, s, m, amount)
  /\ ~ClosablePanics(ToppedUp(m, amount))
  /\ meta[m].ix.deposited_amount + amount <= MaxDeposit     \* bound
  /\ meta' = [meta EXCEPT ![m].ix = ToppedUp(m, amount),
                          ![m].closable_at = ClosableAfter(m, amount)]
  /\ balance' = Moved(balance, s, m, amount)
  /\ UNCHANGED <<now, opened, lamports, stray>>

-----------------------------------------------------------------------------
(* What happens outside the program.                                       *)

Tick ==
  /\ now < MaxTime                                          \* bound
  /\ now' = now + 1
  /\ UNCHANGED <<meta, opened, balance, lamports, stray>>

(* A wallet sends tokens to another wallet with the token program.         *)
PlainTransfer(from, to, amount) ==
  /\ from # to
  /\ amount > 0
  /\ CanMove(balance, from, to, amount)
  /\ balance' = Moved(balance, from, to, amount)
  /\ UNCHANGED <<now, meta, opened, lamports, stray>>

(* A wallet sends tokens to an escrow account without topup_stream.        *)
StrayTransfer(from, m, amount) ==
  /\ amount > 0
  /\ CanMove(balance, from, m, amount)
  /\ stray[m] + amount <= MaxStray                          \* bound
  /\ balance' = Moved(balance, from, m, amount)
  /\ stray' = [stray EXCEPT ![m] = WrapAdd(@, amount)]
  /\ UNCHANGED <<now, meta, opened, lamports>>

(* A wallet closes its empty token account, or opens it (again).           *)
CloseAccount(w) ==
  /\ CanClose(balance, w)
  /\ opened' = opened \ {w}
  /\ lamports' = [lamports EXCEPT ![w] = @ + TokenRent]
  /\ UNCHANGED <<now, meta, balance, stray>>

OpenAccount(w) ==
  /\ w \notin opened
  /\ lamports[w] >= TokenRent
  /\ opened' = opened \cup {w}
  /\ lamports' = [lamports EXCEPT ![w] = @ - TokenRent]
  /\ UNCHANGED <<now, meta, balance, stray>>

-----------------------------------------------------------------------------
process_instruction ==
  \E m \in Streams, s \in Wallets, r \in Wallets :
    \/ \E ix \in Instructions : create(m, s, r, ix)
    \/ \E amount \in Amounts : withdraw(m, r, s, amount)
    \/ \E c \in Wallets : cancel(m, c, s, r)
    \/ transfer_recipient(m, s, r)
    \/ \E amount \in Amounts : topup_stream(m, s, amount)

Environment ==
  \E w \in Wallets :
    \/ \E to \in Wallets, amount \in OutsideAmounts : PlainTransfer(w, to, amount)
    \/ \E m \in Streams, amount \in OutsideAmounts : StrayTransfer(w, m, amount)
    \/ CloseAccount(w)
    \/ OpenAccount(w)

Next == process_instruction \/ Tick \/ Environment

Spec == Init /\ [][Next]_vars
=============================================================================
