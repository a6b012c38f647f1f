---------------------------- MODULE MCOrderQueue ----------------------------
(* Small instances of OrderQueue for TLC. *)
EXTENDS OrderQueue

Symmetry == Permutations(Events) \cup Permutations(Workers)
=============================================================================
