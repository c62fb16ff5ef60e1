SPECIFICATION Spec
CONSTANTS
  Hosts = {allowed, banned}
  Allowed = {allowed}
  Redirects = 1
  HeaderMax = 2
  ReadMax = 2
  SizeMax = 0
  Digits = {0, 2}
  LinesMax = 3
  ChunkedMax = 12
  OddMax = 2
  PlainMax = 3
INVARIANTS
  HeaderMeant
  BodyDecoded
  EndOfBody
  AllowedHosts
  NothingLeft
PROPERTIES
  Returns
