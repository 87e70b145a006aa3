SPECIFICATION FairSpec
CONSTANTS
  d1 = d1
  d2 = d2
  d3 = d3
  b1 = b1
  b2 = b2
  k1 = k1
  Backups = {b1, b2}
  Faulty = {b2}
  Keys = {k1}
  NoKey = NoKey
  Nothing = Nothing
  Batch = 2
  Times = {1, 2}
  Data <- MCData
  Size <- MCSize
  Sources <- MCSourcesSmall
PROPERTIES RunsEnd SoundRunsSucceed
