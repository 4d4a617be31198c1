\* Three commands, two parts, two wires and a flag.
CONSTANTS
  MaxRuns = 3
  MaxParts = 2
  MaxLines = 3
  MaxWires = 2
SPECIFICATION MCSpec
INVARIANTS TypeOK LastWordIsTrue
PROPERTIES HalfIsNeverSaved OthersAreLeftAlone
CHECK_DEADLOCK FALSE
