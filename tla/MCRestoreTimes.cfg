SPECIFICATION Spec
CONSTANTS
  x = x
  y = y
  Values = {x, y}
  NoPath = NoPath
  Paths <- MCPaths
  Snapshots <- MCSnapshots
  Targets <- MCTargets
INVARIANT DirTimesKept
