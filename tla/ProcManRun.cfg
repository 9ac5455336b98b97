SPECIFICATION PMFairSpec
CONSTANTS
  b = b
  t = t
  u = u
  g = g
  Obj = {b, t, g}
  Pid = {p1, p2}
  NULL = NULL
  Recycle = TRUE
  Interruptible = TRUE
  Build = b
  Program = g
  Tests <- OneTest
  MaxPending = 1
CHECK_DEADLOCK FALSE
PROPERTIES ChangeServed QuitCompletes ProgramSpared ImplementsPipeline StepsCounted
INVARIANTS WaitVerdict KillReaps OneChildPerObject OnlyProgramSurvives BuildGate
