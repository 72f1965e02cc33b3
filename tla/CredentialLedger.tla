-------------------------- MODULE CredentialLedger --------------------------
(***************************************************************************)
(* What a holder promises whoever asks it about its credentials, with no   *)
(* round, record, mark or file in sight: a credential is unheard of, then  *)
(* valid, then revoked, and an answer never goes back.                     *)
(***************************************************************************)
CONSTANT Credential

VARIABLE told       \* the last answer given about each credential

Answers == {"unknown", "valid", "revoked"}

\* The answers that may follow an answer.
After(answer) ==
  CASE answer = "unknown" -> {"valid", "revoked"}
    [] answer = "valid"   -> {"revoked"}
    [] OTHER              -> {}

Init == told = [c \in Credential |-> "unknown"]

Answer ==
  \E c \in Credential : \E answer \in After(told[c]) :
    told' = [told EXCEPT ![c] = answer]

Spec == Init /\ [][Answer]_told
=============================================================================
