SPECIFICATION Spec
CONSTANTS
  N = 4
  Candidates = {1, 2, 3}
  Owners = {4}
  Proxies = {}
  Woods = {w1}
  BP_COUNT = 2
  ActiveCycle = 1
  SingingSep = 2
  PreClean = 2
  CleanLimit = 1
  ForestPeriod = 3
  ForestSpace = 2
  MaxBlock = 5
PROPERTIES
  ElectionTakesTheMostVoted
CHECK_DEADLOCK FALSE
