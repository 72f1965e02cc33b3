--------------------------- MODULE MCSlotCounter ---------------------------
(***************************************************************************)
(* SlotCounter for TLC: two processes contend for one key with a window of *)
(* four slots.  The configurations differ in which faults they combine.    *)
(***************************************************************************)
EXTENDS SlotCounter, TLC

CONSTANTS p1, p2

Symmetry == Permutations({p1, p2})
=============================================================================
