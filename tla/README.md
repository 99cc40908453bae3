# A TLA+ model of the timelock program

The repository is a Solana program that streams tokens: a sender locks a
deposit in an escrow, and a recipient draws from it as it vests. This directory
holds a model of the program, the TLC runs that check it on small instances and
the TLAPS proofs of its main properties for every instance.

Paths below are relative to the repository's root (`src/token.rs` is the crate's
file). Run everything from this directory:

    tlc -workers 2 -config MCTimelock.cfg MCTimelock
    tlapm TimelockProofs.tla

## 1. The system

| Component | State it keeps | Operations | Where |
|---|---|---|---|
| Instructions | per stream: a metadata account (`TokenStreamData`) and an escrow token account at an address derived from its key | `create`, `withdraw`, `cancel`, `transfer_recipient`, `topup_stream` | `src/token.rs` |
| Vesting arithmetic | none | `available(now)`, `closable()`, `duration_sanity` | `src/state.rs`, `src/utils.rs` |
| Entrypoint | none | `process_instruction` picks one of the five by its first byte | `src/entrypoint.rs` |
| SPL token, associated token account and system programs (external) | token accounts, lamports | transfer, close, create account | calls in `src/token.rs` |
| Clock, rent and fee sysvars (external) | the time, the rent rate | read by the instructions | calls in `src/token.rs` |
| Anchor program | none | `create`, `withdraw`, `cancel`, `transfer_recipient`: checks the accounts it declares and calls the crate (of an older revision) | `programs/timelock` |
| JavaScript SDK | none | `create`, `withdraw`, `cancel`, `transferRecipient`: reads a stream's metadata, derives the accounts of the call, submits a transaction to the Anchor program | `packages/timelock/timelock.ts` |
| Transactions under way (external) | those submitted and not yet executed | executed late, in any order, or lost | `program.rpc` in the SDK |
| Amounts in the log | none | `encode_base10` | `src/utils.rs` |
| Test SDK, tests, IDL generator, migrations | none | | `test-sdk`, `tests`, `misc`, `migrations` |

The instructions read the metadata, ask the arithmetic how much is available or
when the stream may be closed, call the token program to move tokens, and write
the metadata back. Clients, third parties and the token program's other users
submit their own instructions in between. The runtime runs one instruction at a
time on an account, and drops all effects of one that fails.

What is hard:

* **Agreement of two ledgers.** `withdrawn_amount` and `deposited_amount` are
  updated by four instructions, the tokens by the token program. Nothing
  reconciles them: `cancel` pays what the metadata says and then needs the escrow
  to be exactly empty.
* **Arithmetic.** u64 in a release build wraps; the amount available passes
  through three floating-point operations; several divisors may be zero.
* **Stored against computed.** `closable_at` is stored at creation and by a
  top-up; `cancel` reads the stored value, `topup_stream` computes a new one.
* **Interleaving.** A cancel by a third party races a top-up; a withdraw or a
  cancel prepared for one recipient runs after the stream was transferred; the
  recipient closes the token account that a cancel must pay.
* **Life after closing.** The metadata account stays, so that retries meet a
  stream whose escrow is gone and whose escrow address is free again.
* **Tokens from elsewhere.** Anybody can send tokens to an escrow account.
* **Settling.** A stream should always be closable by somebody in the end, and
  be closed if somebody keeps asking.
* **Calls through the SDK.** The accounts of a call come from metadata read
  earlier; the transaction may arrive after others, or never, and a caller that
  hears nothing repeats it while the first may still arrive.

What makes each component correct: the arithmetic never releases more than the
schedule, never less later than earlier, and lets third parties close a stream
only when it is done; the instructions keep the ledgers in agreement, pay only
the parties, keep the terms, and settle to the same totals whatever the order;
the entrypoint adds that no other operation exists; the token program conserves
tokens. Clients get their money by repeating a call until it is answered (the last
of it by the sender's cancel); a repeated call does nothing once the stream is
closed, and before that a repeated withdraw of a given amount pays again, but never
more than is due. The text of an
amount means the amount.

## 2. The modules

    Floats <- Vesting <- SplToken <- Timelock <- TimelockProperties
           <- Rounding                                 (<-: is extended by)

    TimelockProperties <- TimelockEscrow        INSTANCEs Escrow
                       <- TimelockLiveness
                       <- TimelockSupply
                       <- Client

    TimelockSupply, ScaledFloat <- MCTimelock <- MCDocs
    MCTimelock, Rounding <- MCNarrow
    MCTimelock, FixedPoint <- MCEscrow, MCLiveness, MCClient
                              (with TimelockEscrow, TimelockLiveness, Client)

    Rounding <- FloatProofs
    Vesting <- VestingProofs
    TimelockProperties, VestingProofs <- TimelockProofs <- ClosingProofs
    TimelockSupply, ClosingProofs <- SupplyProofs
    TimelockEscrow, TimelockProofs <- TimelockEscrowProofs
    Client, TimelockProofs <- ClientProofs

    AmountText <- TextProofs

* **Floats** is the f64 part of `available()`: the operations of the machine are
  constant operators, `ReleasedOver` and `PerPeriod` what the code computes with
  them. `ReleasesEvenly` is what the program needs of that: the amount released
  does not shrink as periods pass, exceeds the exact one by at most `Imprecision`
  tokens, and falls short of it by at most those and the token that truncation
  costs.
* **Vesting** has no variables: `StreamInstruction`, `duration_sanity`,
  `available` and `closable` as operators with the code's names. `WrapAdd` and
  `WrapSub` are u64 `+` and `-` of the release build (`Cargo.toml` sets no
  overflow checks). `AvailablePanics` and `ClosablePanics` say when a division by
  zero aborts the instruction. Of floats it assumes `ReleasesEvenly`
  (`FloatAssumption`) and nothing else.
* **Rounding** is what IEEE 754 says of the floats that occur, operation by
  operation: each returns the exact result if that is a small integer, otherwise
  errs by at most one part in `Accuracy` (2^53 for f64), and a product grows with
  its factors. `Value` is a float's value in parts so fine that it is an integer.
* **ScaledFloat** is IEEE 754 round-to-nearest-even with `Precision` bits of
  significand. The runs give it to Vesting; TLC evaluates `FloatAssumption` for
  it on every run.
* **FixedPoint** computes in 360ths rounded down instead, for the runs whose
  question is not about rounding and which explore more than ScaledFloat is fast
  for. It satisfies `FloatAssumption` too.
* **SplToken** (external) holds the token accounts: `opened` and `balance`. An
  account is named by the wallet or the stream it derives from.
* **Timelock** is the program. Its variables are `meta` (the data of each
  metadata account, or `NoMeta`), `opened` and `balance`, `lamports`, `now`, and
  the history variable `stray` (tokens an escrow got without `topup_stream`).
  Each instruction is one action whose guard is the conjunction of all its checks
  and those of the token program, because a failure anywhere undoes all of it. The
  accounts a caller may choose are parameters: `withdraw(m, r, s, amount)` may name
  a wrong sender, `cancel(m, c, s, r)` any authority and parties. The environment
  lets time pass, tokens move, and token accounts close and open.
* **TimelockProperties** states the type invariant, the invariants, the action
  properties and the inductive invariant `IInv`.
* **Escrow** is what the program promises, without clock, schedules, u64
  arithmetic and accounts. A deal is between a payer and a payee; `Agree` puts
  funds in escrow, `Add` adds to them, `Pay` pays no more than is due, `Settle`
  pays all that is due, as far as funds reach, returns the rest and is final,
  `Assign` passes an assignable deal on, and what is due only grows (`Vest`).
* **TimelockEscrow** maps Timelock to it: a stream's metadata and whether its
  escrow account exists are a deal (`AsDeal`), the balances are what is held and
  the parties' funds, and `DueOn` is the schedule of `available()`, in which after
  the end everything is due. `create` is an `Agree`, `withdraw` a `Pay`, `cancel` a
  `Settle`, `topup_stream` or a stray transfer an `Add`, `transfer_recipient` an
  `Assign`, a tick a `Vest`, transfers between wallets a `Trade`; opening and closing
  token accounts is invisible. `ImplementsEscrow` says so; `EscrowAssumption` names
  what it needs (below).
* **TimelockSupply** adds up what all accounts hold, tokens and lamports, for
  Conservation.
* **TimelockLiveness** adds callers that do not give up: `Sweep`, anybody's cancel
  after the end, and `Collect`, the recipient's withdrawal of everything available.
* **Client** composes the program with the SDK and the Anchor program. Its one new
  variable is `inflight`, the bag of transactions under way. `SdkCreate`,
  `SdkWithdraw`, `SdkCancel` and `SdkTransferRecipient` read `meta` and put a
  transaction of what they read into the bag; that the read precedes the rest of
  the call makes no difference, as the transaction may wait there. `Execute` runs
  one as the Anchor program does (`RunCreate`...: the signer becomes the recipient of
  a withdraw and the sender of a cancel, whatever token accounts the snapshot
  named, and declared token accounts must exist), `Drop` is its loss, its failure
  or the expiry of its block hash. The instructions are those of Timelock: the
  Anchor program pins an older revision of the crate, whose source is not in the
  repository, and the model asks how its calls fare with the present one. Which
  flags a stream has is a choice (`Instructions`), since the older revision has
  none. `withdraw` gets no sender (`NoSender`), since neither the SDK
  (`timelock.ts:164`) nor the Anchor program (`lib.rs:54`) names one. The crate looks
  at the sender only when everything deposited has been withdrawn
  (`src/token.rs:381`): through these clients the withdrawal that would close the
  escrow fails as a whole, at the latest a withdrawal of everything after the end,
  and only the sender's cancel pays the rest.
* **AmountText** is `encode_base10` on sequences of digits, with the amounts one
  after the other as its behaviour. What a text means is read off it one character
  after the other (`Reading`), which is not how it is written.
* **MC...** modules give TLC its instances. MCNarrow gives Rounding the floats of
  ScaledFloat, in 64th parts.
* **...Proofs** modules hold the proofs (section 5).

Operators commented `mutant` are not part of the model: each is a definition with
a plausible bug, to be put in the place of the one after it; some property must
then fail.

### What the model leaves out

* Checks that an account is writable, is owned by the right program or has the
  derived address: an account is named by the address it must have, so that a call
  that passes another stream's escrow account cannot be expressed. Signatures
  are the choice of the caller: `withdraw` is by its recipient, `create` and
  `topup_stream` by the sender, `transfer_recipient` by the authorized wallet,
  `cancel` by its authority. (After expiry `cancel` wants no signature at all;
  that a caller need not be who it says changes nothing, since any may call.)
* The mint, of which there is one, wrapped SOL (the SDK makes a temporary account
  for such a stream), and the sender's use of another token account than the
  associated one.
* The stream's name and its length check, the borsh layout, log messages.
* Transaction fees and the rent of system accounts. `lamports` only counts the
  rent of the accounts the instructions create and close.
* Several instructions in one transaction: they are consecutive steps, except
  that the failure of a later one would undo the earlier ones.
* That a wallet stores its tokens or its lamports elsewhere, frozen accounts,
  delegates.
* A clock that goes back: timestamps of a cluster do not.

## 3. The properties

Invariants: **EscrowBacked** (an escrow holds what was deposited or sent to it
and not withdrawn; a closed one holds nothing), **NeverAhead** (the recipient side
never gets ahead of the straight line of the schedule), **ClosableAtIsCurrent**
(the stored closing time is what `closable()` says of the present deposit),
**ExpiredMeansDone** (a stream that third parties may close is fully vested, or
its unreached deposit pays for less than one period, but for the imprecision of
floats), **PaysWhileFunded** (while the deposit covers what the schedule entitles
the recipient to, the recipient can withdraw all of it and the sender can cancel,
after whatever withdrawals, top-ups and transfers; this is the other side of the
finding below that a stream whose funds ran out can be neither withdrawn from nor
cancelled), **NeverLocked** (from its end
time on any caller's cancel of a stream that is not recurring succeeds, if both
parties have a token account and nobody put stray tokens into the escrow),
**Conservation** (tokens and lamports with rents are constant), **BooksInOrder**
(while deposits fit a u64, no stream pays out more than it took in), **ReadsBack**
and **Canonical** (the text of an amount means it, and is the shortest that does).

Action properties: **ClosedForGood** (a closed stream keeps its metadata, its
escrow stays closed and empty), **EscrowPaysParties** (tokens leave an escrow only
for its present recipient and its sender, and the recipient's part is what is
booked), **SettledFairly** (when an escrow closes, withdrawals sum to the deposit
or to exactly what the schedule reached), **TermsKept** (nothing but the deposit
changes; only an entitled recipient passes the stream on; a top-up never lets
third parties close earlier). With clients: **PartiesMoveFunds** (tokens leave
an escrow only by a transaction that a party signed and whose snapshot names the
present recipient), **LateCallsDoNothing** (a create for a stream that exists and
any call for a closed one change nothing when executed).

Refinement: **ImplementsEscrow**.

Liveness: **Settles** (a stream with an end is closed, if somebody keeps cancelling
it after its end and the parties keep a token account), **PaysOut** (a recipient that
keeps withdrawing gets the whole deposit; if a cancel closes the stream before its
end, exactly what the schedule had reached). Such a cancel need not be the sender's,
and `canceled_at` need not be set: a stream out of funds, or one whose first period
is longer than its funds last by `closable()`, may be closed by anybody (`Lumpy`,
cancelled at 6 of 8 before its first period has passed, goes back to the sender
untouched). With only the SDK and a network that loses calls: **AskingDrawsAllButOne**
(a recipient that keeps asking for one token draws all but the last one, unless the
stream is closed before its end) and **CancellingEnds** (a sender that keeps cancelling
closes the stream).

Preconditions. `create` accepts terms for which a schedule has no meaning (a cliff
amount above the total, sums above the largest u64). `InRange` excludes them from
the properties about the schedule; EscrowBacked, ClosedForGood and
EscrowPaysParties hold without it. `EscrowAssumption` has it of every stream, and
that all a stream ever takes in fits a u64: past that the books agree modulo 2^64
only, and nothing abstract could be said. The liveness properties speak of
streams without stray tokens: with them, `close_account` may fail for ever.

## 4. The runs

| Run | Configuration | What it shows |
|---|---|---|
| one_stream | MCTimelock.cfg, 49,242 states | One stream of one of four kinds (cliff and uneven period; partly funded; below its cliff amount; recurring), three wallets. All properties. |
| stray_tokens | MCStray.cfg, 38,155 states | Transfers between wallets and into escrows outside the program; periods longer than the time to expiry. |
| two_streams | MCTwoStreams.cfg, 113,663 states | Two streams between the same wallets; the streams and the two wallets that start alike are symmetric (the properties of this run treat them alike, and none is a liveness property). |
| narrow_word | MCNarrowWord.cfg, 29,530 states | MaxU64 = 7 and floats of two bits: additions wrap and rounding errs by up to 2 tokens. TLC evaluates `RoundingAssumption` for these floats (module MCNarrow); it fails for an `Accuracy` above 4, the one given. |
| escrow | MCEscrow.cfg, 25,817 states | A stream with a cliff, a partly funded one and a recurring one, with stray tokens, implement Escrow. |
| liveness | MCLiveness.cfg, 41,207 states | Settles and PaysOut, for a cliff stream, a partly funded one, one below its cliff amount, one with period 0, on which `available()` panics until the end, and one that anybody may close before its first period has passed. |
| client | MCClient.cfg, 138,120 states | Any two calls of two wallets under way at a time; the safety and the liveness properties with clients. |
| amount_text | AmountText.cfg, 10,505 states | ReadsBack and Canonical for amounts up to 2100 and up to 4 decimals. |
| doc_transfer_by_sender | DocTransferBySender.cfg | refutes SenderMayTransfer |
| doc_cancel_flags | DocCancelFlags.cfg | refutes CanceledOnlyIfCancelable |
| doc_expired_cancel | DocExpiredCancel.cfg | refutes AnyoneMayCancelExpired |
| doc_rent_returned | DocRentReturned.cfg | refutes BothRentsReturned |

Bounds. `MaxTime` lies past the end of every kind of stream and past the closing
time a top-up gives it, so that each is seen before its start, in every period,
at its end and after. `MaxDeposit` allows several top-ups. `Amounts` has 0 (which
`withdraw` takes for everything and `topup_stream` rejects) and two amounts that
leave remainders. Wallets start with few tokens and lamports, so that failures for
lack of either occur, and one of them has no token account at first. With two
wallets every party can be a third one's counterpart; the third in one_stream is
the stranger. `MaxStray` bounds stray tokens. The clock starts at 1 (a 0 in the
metadata means "not yet").

`MaxInFlight` is 2: with one transaction under way nothing overtakes, with two
one can be the repetition of the other, or arrive after any number of others that
came and went in the meantime. `Handover`, the stream of the client runs, is one
the SDK can create, with the flag that lets its recipient pass it on. The amounts
of amount_text go past two tokens of a mint with three decimals and have every
pattern of zeros in four digits' beginning, middle and end; `MaxDigits` bounds the
digits.

Deadlock is not checked: the clock stops at `MaxTime`, and a closed stream has
nothing left to do.

### Fairness

The safety properties need none. The program acts only when called, so no action
of it is fair by itself. The specifications of the liveness runs state the fairness
of the surroundings, and each property assumes one caller who insists, while
everybody else does as they like.

* `TickingSpec`: the clock advances, `WF(Tick)` (and `MaxTime` is past every end).
* Settles: `WF(Sweep)`. A cancel that stays possible is made at last. Weak fairness
  suffices because after the end the properties of a stream that make it possible
  last (that is what NeverLocked says), once the parties keep their accounts.
* PaysOut: `WF(Collect)`, for the same reason: what is available stays so.
* `DeliverySpec`: the clock advances, and what is under way leaves, `WF(Drop)`, since
  a block hash expires after a minute or two. Otherwise others could fill the
  network for ever.
* AskingDrawsAllButOne, CancellingEnds: the caller repeats its call
  (`SF(RecipientAsks)`), and of infinitely many repetitions that could be executed one is
  (`SF(RecipientHeard)`). The strong form is what a lossy network justifies: any
  transaction may be dropped or overtaken, but not every one of infinitely many.

The last assumption carries CancellingEnds: the sender's `cancel` names the
recipient of its snapshot (`timelock.ts:193`), and the program rejects another
(`src/token.rs:492`). A recipient who passes the stream back and forth between two
wallets, and wins every single race, is excluded by fairness and not by the
program.

### What the documentation says and the code does not

* `transferable_by_sender` (`src/state.rs:49`) never lets a sender transfer a
  stream to somebody else's benefit: after the flag check, `src/token.rs:652`
  wants the authorized wallet to be the recipient.
* `cancelable_by_sender` (`src/state.rs:43`) is not consulted: `src/token.rs:482`
  compares the cancel authority with the sender and nothing else.
* "When stream expires anyone can cancel" (`src/state.rs:315`): when the funds of a
  partly funded stream run out, `available()` goes on growing past the deposit, the
  transfer in `cancel` (`src/token.rs:505`) fails, and nobody can cancel until the
  end time; a recurring stream, which has none, waits for its recipient to withdraw
  exactly the rest. Tokens sent to the escrow account do not help the cancel: the
  payment then succeeds, but what remains of the deposit (`src/token.rs:525`) wraps
  to an amount that no escrow holds.
* The rent of both accounts is to be returned (`src/token.rs:46`); the metadata
  account's is not.
* `withdrawal_public` (`src/state.rs:47`, "Whether or not a 3rd party can initiate
  withdraw in the name of recipient") is not consulted: `src/token.rs:313` wants the
  withdraw authority to be the recipient, as the TODO before it says. No run shows
  this; in the model a withdraw is by its recipient.

## 5. The proofs

For any wallets, streams, amounts, times and word width, TLAPS proves:

| Theorem | Statement | Module |
|---|---|---|
| Invariance, TypeCorrectness, Solvency, VestingPromise, Finality | `[]IInv`, `[]TypeOK`, `[]EscrowBacked`, `[]NeverAhead`, `ClosedForGood` | TimelockProofs |
| PartiesArePaid, FairSettlement | `EscrowPaysParties`, `SettledFairly` | TimelockProofs |
| ClosingTimeIsCurrent, OnlyDoneExpires, TermsAreKept | `[]ClosableAtIsCurrent`, `[]ExpiredMeansDone`, `TermsKept` | ClosingProofs |
| SupplyIsConserved | `[]Conservation` | SupplyProofs |
| NothingIsStranded, FundedStreamsPay | `[]NeverLocked`, `[]PaysWhileFunded`, of a mint whose supply fits a u64 | SupplyProofs |
| InOrder, Refinement | `[]BooksInOrder`, `ImplementsEscrow` | TimelockEscrowProofs |
| ClientsAreUsers, RetriesKeepPace, RetriesSettleFairly, RetriesAreHarmless, OnlyPartiesMoveFunds | `ClientSpec => Spec`, and of ClientSpec `[]NeverAhead`, `SettledFairly`, `LateCallsDoNothing`, `PartiesMoveFunds` | ClientProofs |
| TextMeansAmount, TextIsCanonical | `[]ReadsBack`, `[]Canonical` | TextProofs |
| RoundingIsEnough | `ReleasesEvenly` follows from the rounding of each operation | FloatProofs |

**The inductive invariant.** EscrowBacked alone is inductive only with the types.
NeverAhead is not: the code compares withdrawals with whole periods (`Released`),
not with the line. Hence `Paced`, which says that what was withdrawn is within the
cliff amount and what was released by now. It needs `TermsSane` (the cliff precedes
the end of a vesting stream, so that differences of timestamps do not wrap), and a
tick keeps it because what is released grows. Since `available()` subtracts
`withdrawn_amount` from exactly that amount, `Paced` is also why that subtraction
does not wrap. `StrayNeedsEscrow` lets `create` start the books from the deposit
alone.

`VestingProofs` has the lemmas on the arithmetic: wrapping sums keep the books
(`BooksAfterPayment`, `BooksAfterDeposit`), `available` and `closable` are words,
`Released` stays below the line and grows with time (`RecurringReleased`,
`VestingReleased`). In `TimelockProofs` a lemma per instruction says what it does
to its stream and escrow (`Creation`, `Withdrawal`, `Cancellation`, `TopUp`),
`OneStream` what remains to be shown of an instruction that writes one stream,
and one lemma per action that it keeps `IInv`.

**Payments.** An escrow is only ever debited by its own withdraw or cancel, and a
lemma per instruction (`WithdrawTakesItsOwn`, `CancelTakesItsOwn`,
`CreateTakesNothing`...) says whose balances move. For SettledFairly, the sum that
`available()` adds to `withdrawn_amount` is the entitlement by `Paced`.

**Closing.** `ClosingInv` strengthens ClosableAtIsCurrent by what holds of the
stored time when `closable()` wraps or panics: that it is not past the end of a
vesting stream. ExpiredMeansDone follows where nothing wraps: the stored time is
the start of vesting and whole periods, as many as the deposit above the cliff
amount pays for, and one more; what these release by the lower bound of
`ReleasesEvenly` leaves less than a period's worth. NeverLocked reduces to
arithmetic modulo 2^64: after the end `available()` is exactly what the escrow
holds, and the payments succeed if the receiving accounts have room
(`RoomToSettle`). TermsAreKept needs `MaxDeposit` to be a word, so that a top-up
does not lower the deposit.

**Supply.** Conservation is a sum over all accounts. The library defines it by
recursion on sets, of which the provers know nothing; `SumUnfolds` derives its
recursion equation, and the facts about sums that follow (what a sum gains when
one term changes, when an amount moves between two terms, when a term joins) are
inductions on finite sets by the smallest counterexample. A transfer then moves an
amount between two terms; creating and closing accounts moves lamports between a
wallet and the rents. With a supply of at most a u64, which the token program
itself guarantees, no account overflows: that is the room which NeverLocked and
PaysWhileFunded need (`RoomAlways`). For PaysWhileFunded, what `available()`
returns is the entitlement less the withdrawals (`Paced`), hence within the
deposit less the withdrawals, which is what the escrow holds (EscrowBacked).

**Floats.** `FloatProofs` does not see `FloatAssumption`; it derives it. From two
integers to the amount released there are seven operations (conversions, two
divisions, a product) that round, and `Within(x, y, k)`, "x exceeds y by no more
than k operations may err", adds up along them (`Chain`). Seven errors of a part
in 2^53 stay within `Imprecision` tokens if `7 * MaxU64 <= Imprecision * 2^53`: for
amounts up to 2^64 that is 7 * 2^11 base units. And they cost nothing, with
`Imprecision` 0, if they are too small to reach the next multiple of one part in
the duration (`7 * MaxU64^2 < 2^53`: amounts and times of up to 25 bits).
`FineEnough` says that. Growth with the periods is the monotony of the last product.

**Refinement.** With BooksInOrder the wrapping sums of the books are sums, and the
balances of Escrow are numbers. Initial states map to initial states; each action
maps to the one named in section 2, by a lemma each, and `cancel` to `Settle`
because its two transfers leave nothing: what is paid is the smaller of what is
held and what is due beyond what was paid, as an `available()` beyond the escrow
fails.

**Clients.** `Sent` (every transaction under way has one of the four forms) is
inductive; then executing one is an action of Timelock with parameters in range (a
withdraw without a sender leaves the escrow open, and then any sender would do:
`WithoutSender`), and all else is a stutter or an environment step. So `ClientSpec => Spec`, and with
it everything proved of Spec.

**Texts.** The behaviour keeps `text = encode_base10(amount, places)`; the rest is
about that operator. `Layout` says where the digits of the amount stand in the text
and which are not there, by what padding, inserting and trimming return
(`PaddedIs`, `WithPointIs`, `TrimEndIs`). Read up to its i-th character the text says
the quotient of the amount by a power of ten (`ReadSoFar`), and the digits trimmed
off the end are zeros of the fraction (`ZerosAtTheEnd`). Powers and readings are
recursive functions; `Recursion` shows that such a definition defines one, by the
least counterexample, as all inductions here.

Assumptions: `MaxU64Assumption` (the word is not empty), `DisjointAccounts`
(wallets' and escrow accounts differ: one kind derives from wallet keys, the other
from the program's), `TimelockAssumption` (the constants have their types),
`ClientAssumption` (so do the client's), `AccountsAreFinite` (for sums),
`EscrowAssumption` (section 3), and `FloatAssumption`, which for f64 is a
consequence of `RoundingAssumption` (IEEE 754) by RoundingIsEnough.
`AmountTextAssumption`: `Point` is no digit, and `MaxDigits` digits are enough for
`MaxAmount`. Every configuration of the modules that state them satisfies them; TLC
evaluates them.

Only model-checked: the liveness properties, Settles, PaysOut,
AskingDrawsAllButOne and CancellingEnds, which the prover does not reach. What they rest on is proved where
it is about states: that a cancel after the end succeeds (NeverLocked), and a
withdrawal and the sender's cancel while funds last (PaysWhileFunded).

## 6. Not modelled

* `src/error.rs`, `src/lib.rs`: which error it is only shows in the client's log.
* `unpack_token_account`, `unpack_mint_account` and `pretty_time` of `src/utils.rs`:
  parsing of what SplToken has as state, and a duration for the log.
* `layout.ts`, the byte layout of the metadata, and the wrapped-SOL accounts of the
  SDK's `create`.
* The Anchor program with the revision of the crate it pins, whose source is not
  in the repository.
* IDL generator, migrations: build tooling. Test SDK and tests drive the program;
  they were read for how its instructions are meant to be used.
