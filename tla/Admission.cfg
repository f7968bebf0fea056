SPECIFICATION FairSpec
CONSTANTS
  r1 = r1
  r2 = r2
  r3 = r3
  a1 = a1
  a2 = a2
  NoOne = NoOne
  Requests <- MCRequests
  Accounts = {a1}
  StartConc = 1
  StepConc = 1
  StepTicks = 2
  WindowTicks = 3
  MaxRamps = 2
  MaxReloads = 2
INVARIANTS TypeOK SlotsAccountedFor HerdIsPaced
PROPERTY EveryWaiterAdmitted
CHECK_DEADLOCK FALSE
