SPECIFICATION FairSpec
CONSTANTS
  None = None
  Calls = 4
  Tries = 2
  Agains = 1
  Stales = 16
  SeqMod = 4
  Sessions = 2
  Outgoing = 2
  Incoming = 1
  Lifetime = 1
  RetryMount = FALSE
PROPERTIES
  Implements
  ListClosed
  CallReturns
CHECK_DEADLOCK FALSE
