\* Three calls on one window: the holder of the write lock, one parked, one newcomer.
\* The daemon lets writes into any project ("*"), so that what windows name plays no part.
CONSTANTS
  Pages = {p1}
  Calls = {c1, c2, c3}
  Projects = {}
  Unnamed = Unnamed
  Allowed = {Unnamed}
  MaxConns = 1
SPECIFICATION FairSpec
PROPERTIES ParkedWritesKeepTurn EveryRequestIsAnswered
CHECK_DEADLOCK FALSE
