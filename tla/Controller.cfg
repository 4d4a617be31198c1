\* Two evaluations, two overlapping attempts, one call beside the page's own timers.
CONSTANTS
  MaxEvals = 2
  MaxTries = 2
  MaxCalls = 1
  MaxRetries = 2
SPECIFICATION FairSpec
INVARIANTS TypeOK OnlySlotOnWire WireIsWatched OneConnection
PROPERTIES LateEditorIsFound
CHECK_DEADLOCK FALSE
