---------------------------- MODULE MCFreshness ----------------------------
(***************************************************************************)
(* Freshness for TLC: two verifier processes share one state file and the  *)
(* committee publishes up to MaxVersion + 1 records.                       *)
(***************************************************************************)
EXTENDS Freshness, TLC

CONSTANTS p1, p2

Symmetry == Permutations({p1, p2})
=============================================================================
