\* Every amount up to two tokens of a mint with three decimals, and more.
CONSTANTS
  Point = Point
  MaxAmount = 2100
  MaxPlaces = 4
  MaxDigits = 4

SPECIFICATION TextSpec

INVARIANTS
  ReadsBack
  Canonical

CHECK_DEADLOCK FALSE
