SPECIFICATION PoolSpec
CONSTANTS
  Stakers = 2
  Tokens = 2
  AllReward = 4
  HalfLife = 3
  Delay = 1
  MaxAsset = 4
  MaxBlock = 6
INVARIANTS
  PoolAddsUp
  NoRewardIsPaid
  SettlementsGoThrough
CHECK_DEADLOCK FALSE
