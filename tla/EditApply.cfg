SPECIFICATION Spec
CONSTANTS
  MaxRuns = 2
  MaxConns = 2
  MaxTouches = 2
INVARIANTS TypeOK ExitZeroIsTrue SettledRunWritesNoMore DuplicateHasAReason AccidentIsNotSaved
CHECK_DEADLOCK FALSE
