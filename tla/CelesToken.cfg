SPECIFICATION Spec
CONSTANTS
  N = 4
  MaxAmount = 4
  Existing = {1, 2, 3}
INVARIANTS
  SupplyIsHeld
  BalancesBounded
