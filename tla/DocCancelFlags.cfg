\* Cancelling a stream that neither flag makes cancelable.
CONSTANTS
  alice = alice
  bob = bob
  carol = carol
  m1 = m1
  m2 = m2
  NoMeta = NoMeta
  Wallets = {alice, bob}
  Streams = {m1}
  Instructions <- OpenKinds
  InitialBalance <- Tokens
  InitialLamports <- Lamports
  MaxU64 = 31
  AsF64 <- Nearest
  FloatMul <- Product
  FloatDiv <- Quotient
  Trunc <- Integral
  Precision = 12
  Imprecision = 0
  MetaRent = 2
  TokenRent = 1
  Lps = 1
  Amounts = {0, 1, 2}
  OutsideAmounts = {}
  MaxTime = 8
  MaxDeposit = 6
  MaxStray = 2

SPECIFICATION Spec

PROPERTY CanceledOnlyIfCancelable

CHECK_DEADLOCK FALSE
