----------------------------- MODULE MCCatalog -----------------------------
(* Small instances of Catalog for TLC. *)
EXTENDS Catalog, TLC

Symmetry == Permutations(Gets) \cup Permutations(Writers)
=============================================================================
