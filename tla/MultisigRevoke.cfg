SPECIFICATION MsigSpec
CONSTANTS
  Proposals = {k1}
  Levels <- MCLevels
  Requests <- MCRequests
  Threshold = 1
  MaxTime = 2
  MaxVotes = 3
  MaxProposals = 3
INVARIANTS
  RevokedApprovalsAreGone
CHECK_DEADLOCK FALSE
