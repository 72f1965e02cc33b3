---------------------------- MODULE MCMlDsaRounds ----------------------------
(***************************************************************************)
(* MlDsaRounds for TLC: a 2-of-3 committee with one or two aggregators.    *)
(***************************************************************************)
EXTENDS MlDsaRounds, TLC

CONSTANTS m1, m2, m3, i1, f1, f2, f3, f4

Symmetry == Permutations({f1, f2, f3, f4})
=============================================================================
