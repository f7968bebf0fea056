SPECIFICATION Spec
CONSTANTS
  r1 = r1
  p1 = p1
  RefreshTries = 2
  MaxRevoked = 1
  Requests <- MCRequests
  Probes = {}
  MaxPairs = 3
  MaxLogins = 1
PROPERTY ErrorIsAboutHeldPair
