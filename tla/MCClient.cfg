\* Calls of the SDK that are retried, lost and out of date.
CONSTANTS
  alice = alice
  bob = bob
  carol = carol
  m1 = m1
  m2 = m2
  NoMeta = NoMeta
  NoSender = NoSender
  Wallets = {alice, bob}
  Streams = {m1}
  Instructions <- HandoverKinds
  InitialBalance <- Tokens
  InitialLamports <- Lamports
  MaxU64 = 15
  AsF64 <- Fixed
  FloatMul <- FixedTimes
  FloatDiv <- FixedOver
  Trunc <- WholePart
  Precision = 12
  Imprecision = 0
  MetaRent = 2
  TokenRent = 1
  Lps = 1
  Amounts = {0, 1}
  Requests = {0, 1}
  MaxInFlight = 2
  OutsideAmounts = {}
  MaxTime = 5
  MaxDeposit = 5
  MaxStray = 0

SPECIFICATION DeliverySpec

INVARIANTS
  NeverAhead

PROPERTIES
  PartiesMoveFunds
  LateCallsDoNothing
  AskingDrawsAllButOne
  CancellingEnds

CHECK_DEADLOCK FALSE
