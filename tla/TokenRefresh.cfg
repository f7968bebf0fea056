SPECIFICATION FairSpec
CONSTANTS
  r1 = r1
  p1 = p1
  RefreshTries = 2
  MaxRevoked = 1
  Requests <- MCRequests
  Probes <- MCProbes
  MaxPairs = 2
  MaxLogins = 1
INVARIANTS TypeOK OneRefreshAtATime NoReplay FileKeepsUp
PROPERTIES ProbeNeverDisables EveryCallerAnswered
