\* One stream of every kind among three wallets.
CONSTANTS
  alice = alice
  bob = bob
  carol = carol
  m1 = m1
  m2 = m2
  NoMeta = NoMeta
  Wallets = {alice, bob, carol}
  Streams = {m1}
  Instructions <- AllKinds
  InitialBalance <- Tokens
  InitialLamports <- Lamports
  MaxU64 = 31
  AsF64 <- Nearest
  FloatMul <- Product
  FloatDiv <- Quotient
  Trunc <- Integral
  Precision = 12
  Imprecision = 0
  MetaRent = 2
  TokenRent = 1
  Lps = 1
  Amounts = {0, 1, 2}
  OutsideAmounts = {}
  MaxTime = 7
  MaxDeposit = 5
  MaxStray = 1

SPECIFICATION Spec

INVARIANTS
  TypeOK
  EscrowBacked
  NeverAhead
  ClosableAtIsCurrent
  ExpiredMeansDone
  NeverLocked
  PaysWhileFunded
  IInv
  Conservation

PROPERTIES
  ClosedForGood
  EscrowPaysParties
  SettledFairly
  TermsKept

CHECK_DEADLOCK FALSE
