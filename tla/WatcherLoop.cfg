SPECIFICATION WFairSpec
CONSTANTS
  main = main
  util = util
  notes = notes
  File = {main, util, notes}
  Matches <- MatchesDef
  Cooldown = 2
  QueueMax = 3
  BufferMax = 2
  MaxSaves = 5
CHECK_DEADLOCK FALSE
INVARIANTS WTypeOK Accounted
PROPERTIES QuietChangeBuilt LoopEnds ListenBounded
