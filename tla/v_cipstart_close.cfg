SPECIFICATION FairSpec
CONSTANTS
  c1 = c1
  Conns = {c1}
  Udp = Udp
  None = None
  Commands = {"CIPSTART"}
  Incoming = FALSE
  S0 = 0
  Segments = 1
  RxSize = 1
PROPERTIES
  CloseReported
