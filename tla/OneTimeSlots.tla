---------------------------- MODULE OneTimeSlots ----------------------------
(***************************************************************************)
(* What a slot counter promises the signer that holds it, with no file,    *)
(* process or crash in sight: slots are handed out in strictly increasing  *)
(* order, so no slot of a stateful XMSS key is ever handed out twice.      *)
(* The promise is the one the header of src/state/slot_counter.rs makes:   *)
(* "A crash may waste slots but cannot reuse one".                         *)
(***************************************************************************)
EXTENDS Integers

CONSTANTS SlotStart, SlotEnd    \* the key's inclusive slot window

VARIABLE uses                   \* how often each slot has been handed out

Slot == SlotStart .. SlotEnd

\* No slot from n on has been handed out: n is a safe frontier.
Fresh(n) == \A s \in Slot : s >= n => uses[s] = 0

Init == uses \in [Slot -> 0 .. 1]

Grant(s) ==
  /\ Fresh(s)
  /\ uses' = [uses EXCEPT ![s] = 1]

Next == \E s \in Slot : Grant(s)

Spec == Init /\ [][Next]_uses
=============================================================================
