SPECIFICATION FairSpec
CONSTANTS
  c1 = c1
  c2 = c2
  Conns = {c1, c2}
  Udp = Udp
  None = None
  Commands <- HttpClient
  Incoming = FALSE
  S0 = 0
  Segments = 3
  RxSize = 2
INVARIANTS
  TypeOK
  BodyFromSession
