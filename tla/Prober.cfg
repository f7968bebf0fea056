SPECIFICATION Spec
CONSTANTS
  main = main
  side = side
  x = x
  y = y
  z = z
  Pools <- MCPools
  Listed <- MCListed
  Intervals = {0, 1, 3}
  Starts <- MCStarts
  MinInterval = 2
  MaxBackoff = 5
  ManualGap = 3
  MaxNow = 4
  MaxEdits = 1
INVARIANTS
  TypeOK
  NobodyForgotten
  TurnsAreSpread
  FreshLoginIsProbed
  BackOffIsKept
  OneRunAtATime
