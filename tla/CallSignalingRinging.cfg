CONSTANTS
  ann = ann
  bob = bob
  a1 = a1
  b1 = b1
  b2 = b2
  h1 = h1
  h2 = h2
  Users <- MCUsers
  Sockets <- MCSockets
  UserOf <- MCUserOf
  Handlers <- MCHandlers
  MaxCalls = 2
  MaxRequests = 4
  MaxDrops = 1
SYMMETRY MCSymmetry
SPECIFICATION Spec
INVARIANTS
  RingingIsPending
CHECK_DEADLOCK FALSE
