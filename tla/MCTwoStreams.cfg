\* Two streams at a time between two wallets that both send and receive.
CONSTANTS
  alice = alice
  bob = bob
  carol = carol
  m1 = m1
  m2 = m2
  NoMeta = NoMeta
  Wallets = {alice, bob}
  Streams = {m1, m2}
  Instructions <- BriefKinds
  InitialBalance <- TwoPayers
  InitialLamports <- TwoPayersLamports
  MaxU64 = 31
  AsF64 <- Nearest
  FloatMul <- Product
  FloatDiv <- Quotient
  Trunc <- Integral
  Precision = 12
  Imprecision = 0
  MetaRent = 2
  TokenRent = 1
  Lps = 1
  Amounts = {0, 1}
  OutsideAmounts = {}
  MaxTime = 4
  MaxDeposit = 3
  MaxStray = 1

SPECIFICATION Spec

SYMMETRY Interchangeable

INVARIANTS
  EscrowBacked

PROPERTIES
  EscrowPaysParties
  ClosedForGood

CHECK_DEADLOCK FALSE
