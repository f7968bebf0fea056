SPECIFICATION Spec
CONSTANTS
  r1 = r1
  r2 = r2
  a1 = a1
  a2 = a2
  a3 = a3
  NoPin = NoPin
  Requests = {r1}
  Accounts = {a1, a2}
  Pin <- Nobody
  HoldTicks <- NoHold
  MaxAttempts = 6
  MaxRetries = 4
  MaxHops = 2
  Answers <- Spent
  Readings = {TRUE, FALSE}
  Sound = {}
PROPERTY Revalidated
