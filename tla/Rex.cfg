SPECIFICATION Spec
CONSTANTS
  N = 2
  Buyers = {1}
  Renters = {2}
  Receivers = {2}
  BuyerTokens = 1
  RenterTokens = 2
  Staked = 1
  Fees = 1
  RexRatio = 1
  ReserveShare = 2
  RunMax = 1
  MaturityDays = 2
  LoanDays = 1
  MaxLoans = 2
  MaxOverdue = 1
  B1 = 0
INVARIANTS
  TypeOK
  RexIsBacked
  PoolAddsUp
  SharesAreHeld
  LimitsAreRented
  RunRexCannotFail
PROPERTIES
  ShareValueNeverFalls
  NoLoanPassesAnOrder
  OrdersAreFilled
CHECK_DEADLOCK FALSE
