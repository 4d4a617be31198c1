\* One window, two calls, a window that may change project meanwhile.
CONSTANTS
  Pages = {p1}
  Calls = {c1, c2}
  Projects = {test, other}
  Unnamed = Unnamed
  Allowed = {test}
  MaxConns = 1
SPECIFICATION Spec
PROPERTY DesignWritesLandInAllowed
CHECK_DEADLOCK FALSE
