SPECIFICATION Spec
CONSTANTS
  a = a
  b = b
  c = c
  Clients = {a, b, c}
  None = None
  Elsewhere = Elsewhere
  Leases = 2
  LeaseTime = 3
  OfferTime = 1
  MaxTime = 5
SYMMETRY ClientSymmetry
INVARIANTS
  AddressUnique
  NoneWithheld
  PromiseKept
