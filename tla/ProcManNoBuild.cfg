SPECIFICATION PMSpec
CONSTANTS
  b = b
  t = t
  u = u
  g = g
  Obj = {t, g}
  Pid = {p1, p2}
  NULL = NULL
  Recycle = TRUE
  Interruptible = FALSE
  Build = NULL
  Program = g
  Tests <- OneTest
  MaxPending = 1
SYMMETRY PidSymmetry
CHECK_DEADLOCK FALSE
INVARIANT BuildOptional
