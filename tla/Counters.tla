------------------------------- MODULE Counters -------------------------------
(***************************************************************************)
(* The total of a function of counters: the number of units it counts.     *)
(***************************************************************************)
EXTENDS Naturals, FiniteSets

Units(f) == UNION {{x} \X (1 .. f[x]) : x \in DOMAIN f}

TotalOf(f) == Cardinality(Units(f))
=============================================================================
