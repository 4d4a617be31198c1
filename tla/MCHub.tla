-------------------------------- MODULE MCHub --------------------------------
(* Small instances of the hub for TLC. *)
EXTENDS Hub, TLC

\* Calls and pages are interchangeable: none is named by an action or a property.
HubSymmetry == {f @@ g : f \in Permutations(Pages), g \in Permutations(Calls)}

==============================================================================
