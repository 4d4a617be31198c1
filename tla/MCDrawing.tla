----------------------------- MODULE MCDrawing -----------------------------
(***************************************************************************)
(* Three kinds of plan for TLC: one whose value rows are left unprinted    *)
(* and whose wires meet nothing, one whose wires meet each other, and one  *)
(* with a wire that meets somebody else's.  The proofs are about them all. *)
(***************************************************************************)
EXTENDS Drawing

Plans ==
  {[hides |-> TRUE, bound |-> TRUE, meets |-> {}, others |-> {}],
   [hides |-> FALSE, bound |-> FALSE, meets |-> {<<1, 2>>}, others |-> {}],
   [hides |-> FALSE, bound |-> TRUE, meets |-> {}, others |-> {<<0, 1>>}]}

MCInit ==
  Init /\ [hides |-> hides, bound |-> bound, meets |-> meets, others |-> others] \in Plans

MCSpec == MCInit /\ [][Next]_vars

=============================================================================
