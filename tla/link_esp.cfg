SPECIFICATION FairSpec
CONSTANTS
  c1 = c1
  c2 = c2
  Conns = {c1, c2}
  Udp = Udp
  None = None
  Commands <- EspClient
  Incoming = FALSE
  S0 = 0
  Segments = 2
  RxSize = 2
INVARIANTS
  SingleLink
  FramingMatches
PROPERTIES
  NoticeIsTrue
  DataDrains
