SPECIFICATION Spec
CONSTANTS
  a1 = a1
  a2 = a2
  s1 = s1
  s2 = s2
  opus = opus
  fable = fable
  r1 = r1
  r2 = r2
  NoAccount = NoAccount
  NoModel = NoModel
  NoSession = NoSession
  Accounts = {a1, a2}
  Models = {opus, fable}
  Sessions = {s1, s2}
  Requests = {r1, r2}
  Families = {"fable"}
  FamilyOf <- MCFamilyOf
  ProviderOf <- MCProviderOf
  SameWindow = 0
  FamilyStale = 1
  ProbeFloor = 1
  WeekBand = 2
  FiveBand = 1
  FiveWindow = 2
  WeekWindow = 6
  Whole = 4
  Margin = 1
  Never = 99
  Unit = 60
  ActiveTtl = 1
  MaxSessions = 1
  KnownTtl = 1
  SweepInterval = 1
  Kinds <- MCKinds
  Configs <- MCConfigs
  PinCalls <- MCPinCalls
  Replies <- MCReplies
  Payloads <- MCPayloads
  HoldTicks = 1
  DeniedTicks = 1
  MaxTime = 3
  MaxBegun = 2
  MaxEdits = 1
  MaxPinned = 1
INVARIANTS TypeOK SessionsCounted
PROPERTIES PriorityFirst EarliestBand SessionStays
CHECK_DEADLOCK FALSE
SYMMETRY Symmetry
