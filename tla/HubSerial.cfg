\* One window, two writes: does the window ever run both at once?
CONSTANTS
  Pages = {p1}
  Calls = {c1, c2}
  Projects = {test, other}
  Unnamed = Unnamed
  Allowed = {test}
  MaxConns = 1
SPECIFICATION Spec
INVARIANT EditorRunsOneWrite
CHECK_DEADLOCK FALSE
