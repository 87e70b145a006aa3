SPECIFICATION FairSpec
CONSTANTS
  Count = 2
  MaxSize = 2
  Gone = Gone
INVARIANTS TypeOK SuccessMeansWhole PointInTime LeavesNothing
PROPERTIES RunEnds
