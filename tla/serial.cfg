SPECIFICATION Spec
CONSTANTS
  Size = 3
  Plus = "+"
  CR = "CR"
  LF = "LF"
  Bytes = {"+", "CR", "LF"}
  Guard = 2
  Wrap = 6
  Lag = 1
  BlockMax = 1
  SendMax = 2
VIEW Seen
INVARIANTS
  RingInOrder
  OnlineBytes
  PayloadExact
  EscapeHeard
PROPERTIES
  EscapeEarned
