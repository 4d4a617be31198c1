\* docs/bridge.md:1098, "the CLI always learns the outcome before the page and socket go
\* away", against the reload timer of self-update.ts.
CONSTANTS
  Windows = {w1, w2}
  MaxLoads = 2
SPECIFICATION Spec
PROPERTIES AnswerPrecedesReload
CHECK_DEADLOCK FALSE
