------------------------------ MODULE MCDownload ------------------------------
(* Download on a small cluster; nodes are interchangeable. *)
EXTENDS Download, TLC

Symmetric == Permutations(Nodes) \cup Permutations(Transfers)
=============================================================================
