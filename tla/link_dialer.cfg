SPECIFICATION FairSpec
CONSTANTS
  c1 = c1
  c2 = c2
  Conns = {c1, c2}
  Udp = Udp
  None = None
  Commands <- HayesDialer
  Incoming = FALSE
  S0 = 0
  Segments = 2
  RxSize = 2
PROPERTIES
  NothingLost
  CloseReported
