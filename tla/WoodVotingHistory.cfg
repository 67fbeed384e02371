SPECIFICATION Spec
CONSTANTS
  N = 2
  Candidates = {1}
  Owners = {2}
  Proxies = {1}
  Woods = {w1}
  BP_COUNT = 1
  ActiveCycle = 2
  SingingSep = 3
  PreClean = 2
  CleanLimit = 1
  ForestPeriod = 2
  ForestSpace = 2
  MaxBlock = 9
INVARIANTS
  ValidWoodsAreBacked
  LiveWoodsAreKept
  NoWoodCountedTwice
  DifficultyHistoryIsExact
CHECK_DEADLOCK FALSE
