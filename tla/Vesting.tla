------------------------------ MODULE Vesting ------------------------------
(***************************************************************************)
(* The arithmetic of one token stream: the checks on its timestamps        *)
(* (src/utils.rs), the amount its recipient may withdraw and the time at   *)
(* which anybody may close it (src/state.rs, impl TokenStreamData).        *)
(*                                                                         *)
(* Amounts and timestamps are u64.  The program is deployed as a release   *)
(* build whose Cargo.toml sets no overflow-checks, so + and - wrap around  *)
(* modulo MaxU64 + 1; a division by zero panics in every build, and a      *)
(* panic aborts the instruction without effect.                            *)
(*                                                                         *)
(* available() computes with f64, of which FloatAssumption is all that is  *)
(* assumed.                                                                *)
(***************************************************************************)
EXTENDS Floats

ASSUME FloatAssumption == ReleasesEvenly

(* For operands in U64 these are (a + b) % 2^w and (a - b) % 2^w.          *)
WrapAdd(a, b) == IF a + b <= MaxU64 THEN a + b ELSE a + b - (MaxU64 + 1)
SaturatingSub(a, b) == IF b <= a THEN a - b ELSE 0                  \* mutant
WrapSub(a, b) == IF b <= a THEN a - b ELSE a - b + (MaxU64 + 1)

(* What the client chooses when it creates a stream.  The stream's name is *)
(* the one field left out: nothing depends on it.                          *)
StreamInstruction ==
  [start_time : U64, end_time : U64, deposited_amount : U64,
   total_amount : U64, period : U64, cliff : U64, cliff_amount : U64,
   cancelable_by_sender : BOOLEAN, cancelable_by_recipient : BOOLEAN,
   withdrawal_public : BOOLEAN, transferable_by_sender : BOOLEAN,
   transferable_by_recipient : BOOLEAN, release_rate : U64]

duration_sanity(now, start, end, cliff) ==
  /\ now < start
  /\ start < end
  /\ cliff = 0 \/ (start <= cliff /\ cliff <= end)

(* What duration_sanity leaves true of a stream for the rest of its life.  *)
SaneTimes(ix) ==
  /\ ix.start_time < ix.end_time
  /\ ix.cliff = 0 \/ (ix.start_time <= ix.cliff /\ ix.cliff <= ix.end_time)

(* Vesting is counted from the cliff, or from the start without one.       *)
CliffTime(ix) == IF ix.cliff > 0 THEN ix.cliff ELSE ix.start_time

Recurring(ix) == ix.release_rate > 0

-----------------------------------------------------------------------------
(* available(): what the recipient may withdraw at time now.               *)

NotStarted(ix, now) == ix.start_time > now \/ ix.cliff > now

(* A recurring stream ignores its end time.                                *)
FullyVested(ix, now) == now >= ix.end_time /\ ~Recurring(ix)

PeriodsStarted(ix, now) ==                                          \* mutant
  WrapSub(now, CliffTime(ix)) \div ix.period + 1
PeriodsPassed(ix, now) == WrapSub(now, CliffTime(ix)) \div ix.period

(* A recurring stream releases its rate per period, another one the amount *)
(* above the cliff amount evenly until its end.                            *)
PeriodAmount(ix) ==
  IF Recurring(ix)
    THEN AsF64(ix.release_rate)
    ELSE PerPeriod(WrapSub(ix.total_amount, ix.cliff_amount),
                   WrapSub(ix.end_time, CliffTime(ix)), ix.period)

Released(ix, now) == ReleasedOver(PeriodsPassed(ix, now), PeriodAmount(ix))

AvailablePanics(ix, now) ==
  ~NotStarted(ix, now) /\ ~FullyVested(ix, now) /\ ix.period = 0

AvailableIgnoringPast(ix, withdrawn, now) ==                        \* mutant
  CASE NotStarted(ix, now)  -> 0
    [] ~NotStarted(ix, now) /\ FullyVested(ix, now)
         -> WrapSub(ix.deposited_amount, withdrawn)
    [] OTHER -> WrapAdd(Released(ix, now), ix.cliff_amount)

available(ix, withdrawn, now) ==
  CASE NotStarted(ix, now)  -> 0
    [] ~NotStarted(ix, now) /\ FullyVested(ix, now)
         -> WrapSub(ix.deposited_amount, withdrawn)
    [] OTHER
         -> WrapSub(WrapAdd(Released(ix, now), ix.cliff_amount), withdrawn)

-----------------------------------------------------------------------------
(* closable(): when a third party may close the stream.  The deposit is    *)
(* spread over whole seconds at a rate rounded down, plus one second.      *)

BelowTotalAmount(ix) == ix.deposited_amount < ix.total_amount       \* mutant
BelowCliffAmount(ix) == ix.deposited_amount < ix.cliff_amount

SecondsNr(ix) == WrapSub(ix.end_time, CliffTime(ix))

RatePanics(ix) == IF Recurring(ix) THEN ix.period = 0 ELSE SecondsNr(ix) = 0

AmountPerSecond(ix) ==
  IF Recurring(ix)
    THEN ix.release_rate \div ix.period
    ELSE WrapSub(ix.total_amount, ix.cliff_amount) \div SecondsNr(ix)

ClosablePanics(ix) ==
  /\ ~BelowCliffAmount(ix)
  /\ RatePanics(ix) \/ AmountPerSecond(ix) = 0

FundsRunOut(ix) ==
  WrapAdd(CliffTime(ix),
          WrapAdd((ix.deposited_amount - ix.cliff_amount)
                    \div AmountPerSecond(ix), 1))

ClosableBeyondEnd(ix) ==                                            \* mutant
  IF BelowCliffAmount(ix) THEN CliffTime(ix) ELSE FundsRunOut(ix)

closable(ix) ==
  IF BelowCliffAmount(ix) THEN CliffTime(ix)
  ELSE IF FundsRunOut(ix) > ix.end_time /\ ~Recurring(ix) THEN ix.end_time
  ELSE FundsRunOut(ix)
=============================================================================
