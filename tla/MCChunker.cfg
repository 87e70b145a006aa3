SPECIFICATION FairSpec
CONSTANTS
  Width = 8
  windowSize = 8
  Avgs = {4, 64}
  MaxRead = 10
  Byte <- MCByte
  buzTable <- MCTable
  Streams <- MCStreams
INVARIANTS TypeOK HashIsOfWindow BoundariesAreContent NothingLost
PROPERTIES SplitEnds
