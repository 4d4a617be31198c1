------------------------------- MODULE MCUpdate -------------------------------
(* A small instance of the connector update for TLC. *)
EXTENDS Update, TLC

\* The windows of one editor are alike.
UpdateSymmetry == Permutations(Windows)

==============================================================================
