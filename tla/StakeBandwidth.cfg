SPECIFICATION Spec
CONSTANTS
  N = 2
  Liquid = 2
  RefundDelay = 2
  MaxStake = 1
  MaxTime = 4
INVARIANTS
  StakeIsBacked
  TotalsAreSums
  DeferredIsNotEarly
PROPERTIES
  VaultIsImplemented
CHECK_DEADLOCK FALSE
