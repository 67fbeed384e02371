SPECIFICATION USpec
CONSTANTS
  N = 3
  Self = 1
  Existing = {2}
  Tokens = 5
  RamSize = 6
  Quote = 4
  GiftBytes = 1
  Rates = {1}
  Limits = {9}
  Manageable = {2}
  SupplyWrap = 4
  MaxRam = 7
  MaxBehind = 1
  MaxFees = 2
  MaxDecay = 1
  Unreg = 2
  Addresses = {"x", "y"}
  Amounts = {2, 3}
  MaxCeles = {2}
  Bytes = 6
  Least = 1
  Mid = 2
  MidFloat = 1
  High = 3
  HighFloat = 2
  MaxPromised = 4
INVARIANTS
  RamTypeOK
  RamAddsUp
  SalesAreCovered
  LimitsCoverQuota
  GrantsAddUp
PROPERTIES
  ProductNeverFalls
CHECK_DEADLOCK FALSE
