--------------------------- MODULE StatusRegistry ---------------------------
(***************************************************************************)
(* What the committee promises the verifiers, with no member, message or   *)
(* quorum in sight: one canonical status list whose versions follow one    *)
(* another without a gap, a fork or a lost update.  Each version issues    *)
(* one credential to, or revokes one credential from, the list before it.  *)
(***************************************************************************)
EXTENDS Integers

CONSTANT Credential

VARIABLE record     \* the canonical record: [version, list]

Nothing == -1       \* the version before the first record

OneChange(old, new) ==
  \E c \in Credential :
    \/ c \notin old /\ new = old \cup {c}
    \/ c \in old /\ new = old \ {c}

Init == record = [version |-> Nothing, list |-> {}]

Update ==
  /\ record'.version = record.version + 1
  /\ OneChange(record.list, record'.list)

Spec == Init /\ [][Update]_record
=============================================================================
