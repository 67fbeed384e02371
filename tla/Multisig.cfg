SPECIFICATION MsigSpec
CONSTANTS
  Proposals = {k1}
  Levels <- MCLevels
  Requests <- MCRequests
  Threshold = 1
  MaxTime = 3
  MaxVotes = 2
  MaxProposals = 3
INVARIANTS
  VotersAreNotSilent
PROPERTIES
  OnlyStandingApprovalsExecute
  PunishedWereSilentTwice
CHECK_DEADLOCK FALSE
