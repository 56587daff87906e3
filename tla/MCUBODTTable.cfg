CONSTANTS
  NumNodes = 2
  Costs <- SmallCosts
  Multiplier = 2
  Primes <- SmallPrimes
  LoadFactor = 1
  RowSize = 4
  IntRange = 24
  MaxRows = 4
SPECIFICATION Spec
INVARIANTS
  IInv
PROPERTIES
  ImplementsMap
