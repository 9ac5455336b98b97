SPECIFICATION PFairSpec
CONSTANTS
  Main = Main
  Pid = {p1, p2, p3}
  None = None
  MaxEvents = 1
CHECK_DEADLOCK FALSE
INVARIANTS ProgramKnown NoOrphan ReplacedWhenBuilt
PROPERTIES SignalsChild SigintEnds WorkBounded
