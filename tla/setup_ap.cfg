SPECIFICATION FairSpec
CONSTANTS
  Networks = {home, cafe}
  None = None
  Idle = 2
  OkClose = 1
  JoinTime = 1
  MaxLag = 1
  Width = 16
  CwjapWhileJoining = FALSE
PROPERTIES
  OkIsTrue
  FormSaved
  JoinEnds
  IdleCloses
CHECK_DEADLOCK FALSE
