------------------------------- MODULE MCBot -------------------------------
(***************************************************************************)
(* Instances of Bot for TLC, with the statistics over its database.        *)
(* Players, games and slots are sets of model values nothing               *)
(* distinguishes, so they may be permuted.                                 *)
(***************************************************************************)
EXTENDS Bot, Stats, TLC

CONSTANTS p1, p2, p3, g1, g2, s1, s2

Symmetry2 == Permutations({p1, p2}) \cup Permutations({g1, g2})
               \cup Permutations({s1, s2})

Symmetry1 == Permutations({p1, p2}) \cup Permutations({g1, g2})

=============================================================================
