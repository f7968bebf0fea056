SPECIFICATION FairSpec
CONSTANTS
  r1 = r1
  r2 = r2
  a1 = a1
  a2 = a2
  a3 = a3
  NoPin = NoPin
  Requests = {r1}
  Accounts = {a1, a2}
  Pin <- Nobody
  HoldTicks <- Holds
  MaxAttempts = 2
  MaxRetries = 1
  MaxHops = 2
  Answers <- Mixed
  Readings = {TRUE, FALSE}
  Sound = {}
INVARIANT TypeOK
PROPERTIES Implements EveryRequestAnswered
