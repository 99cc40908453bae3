\* A word so narrow that deposits, withdrawals and releases wrap around.
CONSTANTS
  alice = alice
  bob = bob
  carol = carol
  m1 = m1
  m2 = m2
  NoMeta = NoMeta
  Wallets = {alice, bob}
  Streams = {m1}
  Instructions <- NarrowKinds
  InitialBalance <- NarrowTokens
  InitialLamports <- Lamports
  MaxU64 = 7
  AsF64 <- Nearest
  FloatMul <- Product
  FloatDiv <- Quotient
  Trunc <- Integral
  Precision = 2
  Imprecision = 2
  Value <- InParts
  One = 64
  Accuracy = 4
  MetaRent = 2
  TokenRent = 1
  Lps = 1
  Amounts = {0, 1, 2}
  OutsideAmounts = {2}
  MaxTime = 7
  MaxDeposit = 9
  MaxStray = 2

SPECIFICATION Spec

INVARIANTS
  NeverLocked
  IInv

CHECK_DEADLOCK FALSE
