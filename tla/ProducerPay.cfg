SPECIFICATION Spec
CONSTANTS
  N = 2
  Producers = {1, 2}
  Dapps = {2}
  OriginReward = 2
  PoolFull = 4
  DappPoolFull = 4
  DappPayUnactive = 2
  RewardGetMin = 1
  RewardTimeSep = 1
  DbpActiveSep = 2
  FeeLimit = 4
  GenesisPools = 4
  Punished = {2}
  Deposited = {"bpay"}
  MaxHead = 4
  MaxWood = 2
  MaxPunish = 1
  MaxFund = 1
INVARIANTS
  BlockFeesAreFunded
  WoodSharesFit
PROPERTIES
  PayoutsAreSpaced
CHECK_DEADLOCK FALSE
