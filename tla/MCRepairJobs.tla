---------------------------- MODULE MCRepairJobs ----------------------------
(* RepairJobs on a small cluster.  Nodes, jobs and transfers are model values *)
(* that only equality distinguishes, so TLC may identify permutations.        *)
EXTENDS RepairJobs, TLC

Symmetric == Permutations(Nodes) \cup Permutations(Jobs) \cup Permutations(Transfers)
=============================================================================
