------------------------------- MODULE MCUpload -------------------------------
(* Two uploads on three nodes, two copies of each part *)
EXTENDS Upload, TLC

CONSTANTS n1, n2, n3, u1, u2

Room == n1 :> 2 @@ n2 :> 1 @@ n3 :> 1

Symmetric == Permutations({n2, n3}) \cup Permutations(Uploads)
=============================================================================
