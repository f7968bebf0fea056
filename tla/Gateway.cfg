SPECIFICATION Spec
CHECK_DEADLOCK FALSE
CONSTANTS
  c1 = c1
  c2 = c2
  a1 = a1
  a2 = a2
  x = x
  main = main
  side = side
  work = work
  Clients = {c1, c2}
  Daemon = Daemon
  CodexAccounts = {x}
  NoPool = NoPool
  NoAccount = NoAccount
  ByName <- MCByName
  Scenarios <- MCScenarios
INVARIANTS
  TypeOK
  LaunchIsHonoured
  PinsAreConfigured
  ChainWorks
