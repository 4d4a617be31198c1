\* Two editor pages, two sockets for them to share or to reconnect with, two calls.
CONSTANTS
  Pages = {p1, p2}
  Calls = {c1, c2}
  Projects = {test}
  Unnamed = Unnamed
  Allowed = {test}
  MaxConns = 2
SPECIFICATION Spec
SYMMETRY HubSymmetry
INVARIANTS TypeOK OneWritePerWindow NoStrandedCall LiveIsRegistered WriteNeverReportedSafe
PROPERTIES KeepsPromise
CHECK_DEADLOCK FALSE
