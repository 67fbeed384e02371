SPECIFICATION Spec
CONSTANTS
  N = 2
  M = 2
  Liquid = 4
  RaisePart = 4
  IdleTime = 1
  SingingSep = 1
  CloseSep = 2
  KeyLimit = 32
  MaxBid = 4
  MaxTime = 5
INVARIANTS
  NamesAreBacked
  OnlyWinnersPay
  RefundsAreScheduled
PROPERTIES
  SalesAreFinal
  AuctionsCloseInOrder
CHECK_DEADLOCK FALSE
