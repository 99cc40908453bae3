\* One stream, with tokens sent outside the program, as a deal of Escrow.
CONSTANTS
  alice = alice
  bob = bob
  carol = carol
  m1 = m1
  m2 = m2
  NoMeta = NoMeta
  Wallets = {alice, bob}
  Streams = {m1}
  Instructions <- DealKinds
  InitialBalance <- Tokens
  InitialLamports <- Lamports
  MaxU64 = 15
  AsF64 <- Fixed
  FloatMul <- FixedTimes
  FloatDiv <- FixedOver
  Trunc <- WholePart
  Precision = 12
  Imprecision = 0
  MetaRent = 2
  TokenRent = 1
  Lps = 1
  Amounts = {0, 1, 2}
  OutsideAmounts = {1}
  MaxTime = 7
  MaxDeposit = 5
  MaxStray = 1

SPECIFICATION Spec

INVARIANTS
  BooksInOrder

PROPERTIES
  ImplementsEscrow

CHECK_DEADLOCK FALSE
