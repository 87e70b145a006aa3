SPECIFICATION FairSpec
CONSTANTS
  x = x
  y = y
  Values = {x, y}
  NoPath = NoPath
  Paths <- MCPaths
  Snapshots <- MCSnapshots
  Targets <- MCTargets
INVARIANTS TypeOK SuccessMeansRestored NothingElse SummaryIsTrue EarlierAreWhole
PROPERTIES RestoreEnds
