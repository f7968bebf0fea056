SPECIFICATION Spec
CONSTANTS
  r1 = r1
  r2 = r2
  a1 = a1
  a2 = a2
  a3 = a3
  NoPin = NoPin
  Requests = {r1, r2}
  Accounts = {a1, a2, a3}
  Pin <- OnePinned
  HoldTicks <- NoHold
  MaxAttempts = 3
  MaxRetries = 1
  MaxHops = 2
  Answers <- Turns
  Readings = {FALSE}
  Sound = {a1}
INVARIANT HeadroomServes
