SPECIFICATION Spec
CONSTANTS
  r1 = r1
  r2 = r2
  r3 = r3
  a1 = a1
  a2 = a2
  NoOne = NoOne
  Requests = {r1, r2}
  Accounts <- MCAccounts
  StartConc = 1
  StepConc = 1
  StepTicks = 1
  WindowTicks = 2
  MaxRamps = 3
  MaxReloads = 0
PROPERTY RunningRampLeftAlone
CHECK_DEADLOCK FALSE
