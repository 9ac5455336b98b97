SPECIFICATION Spec
CONSTANTS
  Obj = {o1, o2}
  Pid = {p1, p2}
  NULL = NULL
  Recycle = TRUE
  Interruptible = FALSE
PROPERTY SignalsOwnChild
