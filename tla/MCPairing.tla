------------------------------ MODULE MCPairing ------------------------------
(* A small instance of the pairing for TLC. *)
EXTENDS Pairing, TLC

CONSTANTS w1, w2, w3, e1, e2, t1, t2, t3

MCWindows == {w1, w2, w3}
MCEditors == {e1, e2}

\* Two windows of one editor, one of another.
MCEditorOf == (w1 :> e1) @@ (w2 :> e1) @@ (w3 :> e2)

MCTokens == {t1, t2, t3}

\* The tokens are random, and the two windows of the one editor alike.
PairingSymmetry == Permutations(MCTokens) \cup Permutations({w1, w2})

==============================================================================
