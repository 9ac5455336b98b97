SPECIFICATION LSpec
CONSTANTS
  Letter = {a, b}
  Space = Space
  Quote = Quote
  Star = Star
  MaxCommand = 7
  MaxFilter = 4
  MaxName = 5
  MaxLaunch = 4
SYMMETRY LetterSymmetry
CHECK_DEADLOCK FALSE
INVARIANTS LTypeOK ArgumentsJoin CutAtSpaces FilterMeaning
  ArgumentsFit TerminalOnce NothingLost FailureReported
