SPECIFICATION Spec
CHECK_DEADLOCK FALSE
CONSTANTS
  u1 = u1
  u2 = u2
  Updates = {u1, u2}
  Plans <- MCPlans
  Last = 5
  Majors = {4}
  Sane = {1, 2, 3, 4}
  Healthy = {1, 2, 4}
  Latest = Latest
  MaxKills = 1
  MaxFaults = 1
  MaxServices = 1
INVARIANTS
  TargetRuns
  BringsBack
PROPERTIES
  ServiceComesBack
