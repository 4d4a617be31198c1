\* Two windows that share a storage, a third that does not; three tokens.
CONSTANTS
  w1 = w1  w2 = w2  w3 = w3
  e1 = e1  e2 = e2
  t1 = t1  t2 = t2  t3 = t3
  Windows <- MCWindows
  Editors <- MCEditors
  EditorOf <- MCEditorOf
  Tokens <- MCTokens
  NoToken = NoToken
SPECIFICATION Spec
SYMMETRY PairingSymmetry
INVARIANTS TypeOK LiveTokensAreOnFile
PROPERTIES PairingAdmits RePairHasAReason PairedEditorIsNotLockedOut
CHECK_DEADLOCK FALSE
