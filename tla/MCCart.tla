------------------------------- MODULE MCCart -------------------------------
(* Small instances of Cart for TLC. *)
EXTENDS Cart, TLC

Symmetry ==
    Permutations(Products) \cup Permutations(Sessions) \cup Permutations(Adds)

\* Nothing but adds, none of which fails.
OverlappingAdds ==
    CartStart /\ [][\E a \in Adds : AddStep(a)]_<<shopVars, cartVars>>
=============================================================================
