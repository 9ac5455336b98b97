SPECIFICATION RSpec
CONSTANTS
  b = b
  t = t
  g = g
  main = main
  util = util
  Obj = {b, t, g}
  Pid = {p1, p2, p3, p4}
  NULL = NULL
  Recycle = FALSE
  Interruptible = TRUE
  Build = b
  Program = g
  Tests <- OneTest
  MaxPending = 4
  File = {main, util}
  Matches <- MatchesDef
  Cooldown = 1
  QueueMax = 2
  BufferMax = 2
  MaxSaves = 2
SYMMETRY PidSymmetry
CHECK_DEADLOCK FALSE
INVARIANTS UpToDate NeverStuck OneLeftBehind
PROPERTIES SignalsOwnChild
