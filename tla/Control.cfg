SPECIFICATION Spec
CONSTANTS
  p1 = p1
  p2 = p2
  p3 = p3
  p4 = p4
  f1 = f1
  f2 = f2
  Procs = {p1, p2, p3, p4}
  Daemon = Daemon
  Nobody = Nobody
  Flows = {f1, f2}
  Scenarios <- MCScenarios
INVARIANTS
  TypeOK
  UpdatesKept
  WholeFile
  ServesFile
  OneHome
  LoginsKept
  FlowsAreOneShot
  ReadingsKept
