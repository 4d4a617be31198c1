\* Two windows of one editor, each loaded at most twice: one reload, by the update or by the user.
CONSTANTS
  Windows = {w1, w2}
  MaxLoads = 2
SPECIFICATION Spec
SYMMETRY UpdateSymmetry
INVARIANTS TypeOK LabelNeverAhead ReportedIsStored QuietVerdictIsTrue
CHECK_DEADLOCK FALSE
