------------------------------ MODULE MCItemTree ------------------------------
(* ItemTree for TLC: items, objects and batches are interchangeable. *)
EXTENDS ItemTree, TLC

Symmetric == Permutations(Items) \cup Permutations(Objects) \cup Permutations(Batches)
=============================================================================
