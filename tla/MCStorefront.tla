---------------------------- MODULE MCStorefront ----------------------------
(* Small instances of Storefront for TLC. *)
EXTENDS Storefront, TLC

Symmetry ==
    Permutations(Products) \cup Permutations(Requests) \cup Permutations(Adds)
=============================================================================
