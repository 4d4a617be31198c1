\* Three commands at once: one to be killed with the stamp, two to take it over.
CONSTANTS
  Clis = {c1, c2, c3}
  NoCli = NoCli
SPECIFICATION FairSpec
INVARIANTS StampMarksAStart StartsOverlapOnlyByTakeover
PROPERTIES AbandonedStartIsMadeAgain
CHECK_DEADLOCK FALSE
