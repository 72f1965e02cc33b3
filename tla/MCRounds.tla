------------------------------ MODULE MCRounds ------------------------------
(***************************************************************************)
(* Rounds for TLC: a small committee, of which some members aggregate.     *)
(***************************************************************************)
EXTENDS Rounds, TLC

CONSTANTS m1, m2, m3, m4, i1

Symmetry == Permutations({m1, m2})
=============================================================================
