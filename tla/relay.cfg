SPECIFICATION FairSpec
CONSTANTS
  x = x
  y = y
  z = z
  None = None
  Hosts = {x, y, z}
  Literals = {z}
  QueueSize = 2
  Frames = 3
INVARIANTS
  Addressed
  OneStray
  FromServer
PROPERTIES
  KeptLeaves
CHECK_DEADLOCK FALSE
