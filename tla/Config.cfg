SPECIFICATION CSpec
CONSTANT MaxSections = 4
CHECK_DEADLOCK FALSE
INVARIANTS RegistersSections RefusesExactly
