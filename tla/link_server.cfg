SPECIFICATION FairSpec
CONSTANTS
  c1 = c1
  c2 = c2
  c3 = c3
  Conns = {c1, c2, c3}
  Udp = Udp
  None = None
  Commands <- HayesServer
  Incoming = TRUE
  S0 = 2
  Segments = 1
  RxSize = 2
INVARIANTS
  UnansweredSilent
  BusyRefusesCalls
