\* Every stream ends when somebody keeps asking for it.
CONSTANTS
  alice = alice
  bob = bob
  carol = carol
  m1 = m1
  m2 = m2
  NoMeta = NoMeta
  Wallets = {alice, bob}
  Streams = {m1}
  Instructions <- EndingKinds
  InitialBalance <- Tokens
  InitialLamports <- Lamports
  MaxU64 = 15
  AsF64 <- Fixed
  FloatMul <- FixedTimes
  FloatDiv <- FixedOver
  Trunc <- WholePart
  Precision = 12
  Imprecision = 0
  MetaRent = 2
  TokenRent = 1
  Lps = 1
  Amounts = {0, 1, 2}
  OutsideAmounts = {1}
  MaxTime = 9
  MaxDeposit = 5
  MaxStray = 0

SPECIFICATION TickingSpec

PROPERTIES
  Settles
  PaysOut

CHECK_DEADLOCK FALSE
