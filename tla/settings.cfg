SPECIFICATION Spec
CONSTANTS
  Networks = {"home"}
  None = None
  Pool <- MCPool
  Names <- MCNames
  Garbage <- MCGarbage
  Short = {"short"}
  Long = {"neo6502wifi"}
  Default = "neo6502wifi"
  Invalid = Invalid
  Patterns <- MCPatterns
  Free = Free
  Bad = Bad
  HostsMax = 3
  EndsIn <- MCEndsIn
  ChangedMax = 3
INVARIANTS
  IncomingRefused
  ClockFollows
PROPERTIES
  Survives
  TornStaysShut
  FilterHolds
