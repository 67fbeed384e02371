SPECIFICATION Spec
CONSTANTS
  N = 1
  Producers = {1}
  Dapps = {}
  OriginReward = 2
  PoolFull = 4
  DappPoolFull = 4
  DappPayUnactive = 2
  RewardGetMin = 1
  RewardTimeSep = 1
  DbpActiveSep = 2
  FeeLimit = 100
  GenesisPools = 4
  Punished = {}
  Deposited = {}
  MaxHead = 4
  MaxWood = 2
  MaxPunish = 1
  MaxFund = 1
INVARIANTS
  TotalIsUnpaidFees
CHECK_DEADLOCK FALSE
