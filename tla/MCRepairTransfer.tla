-------------------------- MODULE MCRepairTransfer --------------------------
(* RepairTransfer on a small cluster; nodes and transfers are interchangeable. *)
EXTENDS RepairTransfer, TLC

Symmetric == Permutations(Nodes) \cup Permutations(Transfers)
=============================================================================
