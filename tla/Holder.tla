------------------------------- MODULE Holder -------------------------------
(***************************************************************************)
(* Node A (demo/src/bin/holder.rs, demo/src/bin/mldsa_holder.rs): the      *)
(* relying party that has credentials issued and revoked and answers       *)
(* whether its saved credential is valid.  One trigger at a time, it asks  *)
(* an aggregator for an update, fetches whatever record is then published, *)
(* lets the record through its anti-rollback mark and looks its credential *)
(* up in it.                                                               *)
(*                                                                         *)
(* The committee is seen from outside: a round is a job that an aggregator *)
(* works on and that is published, or not, whether or not anybody still    *)
(* waits for it.  In XMSS mode the jobs obey StatusRegistry, which Rounds  *)
(* is shown to implement; in ML-DSA mode nothing orders them               *)
(* (MlDsaRounds).  The mark is a file and its copy in memory; Freshness    *)
(* has what happens between the two.                                       *)
(*                                                                         *)
(* Nobody authenticates the storage volume: under the fault "replay" a     *)
(* reader may be handed any record that was ever published, its signatures *)
(* good and its version old.                                               *)
(*                                                                         *)
(* Left out: subjects, sizes and reports; records that do not verify, and  *)
(* triggers that are malformed: they are refused and change nothing.       *)
(***************************************************************************)
EXTENDS Integers, FiniteSets

CONSTANTS
  Mode,            \* "xmss" (raw and SNARK form) or "mldsa"
  CredentialId,    \* the random identifiers of credentials
  MaxVersion,      \* largest u32, the type of a version
  MaxJobs,         \* members that may aggregate, one round each
  Faults           \* what can go wrong, a subset of FaultKinds

ASSUME ModeAssumption == Mode \in {"xmss", "mldsa"}
ASSUME VersionAssumption == MaxVersion \in Nat
ASSUME JobsAssumption == MaxJobs \in Nat
FaultKinds == {"restart", "error", "read", "replay"}
ASSUME FaultAssumption == Faults \subseteq FaultKinds

VARIABLES
  published,   \* the newest record that was renamed to status-current.ssz
  past,        \* every record that was ever published
  jobs,        \* rounds that aggregators work on
  issued,      \* credentials made so far
  phase,       \* where the holder is in run_round
  action,      \* the action of the trigger it serves
  updated,     \* the round it asked for and, once answered, its StatusUpdated
  fetched,     \* the record it read
  mark,        \* the mark in memory
  file,        \* the mark in the state file
  saved,       \* credential.bin
  told         \* history: the last verdict about each credential, of those that rest
               \* on a record not older than the mark

vars == <<published, past, jobs, issued, phase, action, updated, fetched,
          mark, file, saved, told>>

registryVars == <<published, past, jobs, issued>>

Version == 0 .. MaxVersion
Nothing == -1                 \* no version: a mark that has accepted nothing
Missing == -2                 \* no state file
Mark    == Nothing .. MaxVersion

\* A credential names the version it is registered in (vc::issue).
Credential == [version : Version, id : CredentialId]
NoCredential == [version |-> Nothing, id |-> Nothing]

Record   == [version : Version, list : SUBSET Credential]
NoRecord == [version |-> Nothing, list |-> {}]

\* A round under way: the record it will publish and the credential it is about.
Job   == [record : Record, credential : Credential]
NoJob == [record |-> NoRecord, credential |-> NoCredential]

Actions == {"issue", "revoke", "verify"}
Phases  == {"down", "idle", "request", "wait", "read", "accept", "save"}

TypeOK ==
  /\ published \in Record \cup {NoRecord}
  /\ past \in SUBSET Record
  /\ jobs \in SUBSET Job
  /\ issued \in SUBSET Credential
  /\ phase \in Phases
  /\ action \in Actions
  /\ updated \in Job \cup {NoJob}
  /\ fetched \in Record \cup {NoRecord}
  /\ mark \in Mark
  /\ file \in Mark \cup {Missing}
  /\ saved \in Credential \cup {NoCredential}
  /\ told \in [Credential -> {"unknown", "valid", "revoked"}]

\* The promise to whoever asks.
Ledger == INSTANCE CredentialLedger

Init ==
  /\ published = NoRecord
  /\ past = {}
  /\ jobs = {}
  /\ issued = {}
  /\ phase = "down"
  /\ action = "verify"
  /\ updated = NoJob
  /\ fetched = NoRecord
  /\ mark = Nothing
  /\ file = Missing
  /\ saved = NoCredential
  /\ told = [c \in Credential |-> "unknown"]

-----------------------------------------------------------------------------
(* The committee, as a holder meets it                                     *)

\* vc::issue: a credential never seen before, for the version of its round.
Issue(version) == {c \in Credential : c \notin issued /\ c.version = version}

\* The records that a read of the volume may return.
Readable == IF "replay" \in Faults THEN past ELSE {published} \ {NoRecord}

\* What a round may start from: the record that was read, or none before the first
\* one and where reading fails.
Bases ==
  Readable \cup (IF published = NoRecord \/ "read" \in Faults THEN {NoRecord} ELSE {})

\* The jobs that add a new credential to a record, and the one that removes c.
IssueJobs(base) ==
  {[record |-> [version |-> base.version + 1, list |-> base.list \cup {c}],
    credential |-> c] : c \in Issue(base.version + 1)}
RevokeJobs(base, c) ==
  {[record |-> [version |-> base.version + 1, list |-> base.list \ {c}],
    credential |-> c] : d \in base.list \cap {c}}

\* Mutant: the next version is computed without the overflow check.
CanBeginUnchecked(base) == Cardinality(jobs) < MaxJobs

\* The requests are served by members that are free, below the last version.
CanBegin(base) == Cardinality(jobs) < MaxJobs /\ base.version < MaxVersion

\* A round for somebody else, or for a request of this holder that arrived
\* after it had given up.  A revocation takes nothing but the credential's bytes.
OtherRound ==
  \E base \in Bases :
    /\ CanBegin(base)
    /\ \E job \in IssueJobs(base) \cup UNION {RevokeJobs(base, c) : c \in issued} :
         /\ jobs' = jobs \cup {job}
         /\ issued' = issued \cup {job.credential}
    /\ UNCHANGED <<published, past, phase, action, updated, fetched, mark, file,
                   saved, told>>

\* In XMSS mode a quorum exists only for the version that follows the newest one,
\* whatever the volume shows; a stateless member signs any version again.
InOrder(job) == Mode = "xmss" => job.record.version = published.version + 1

\* The aggregator replaces the record.  If the holder still waits for this round
\* the answer is on its way to it.
Publish(job) ==
  /\ job \in jobs /\ InOrder(job)
  /\ published' = job.record
  /\ past' = past \cup {job.record}
  /\ jobs' = jobs \ {job}
  /\ phase' = IF phase = "wait" /\ job = updated THEN "read" ELSE phase
  /\ UNCHANGED <<issued, action, updated, fetched, mark, file,
                 saved, told>>

\* Too few members signed, or the aggregator failed or died.
AbandonJob(job) ==
  /\ job \in jobs
  /\ jobs' = jobs \ {job}
  /\ UNCHANGED <<published, past, issued, phase, action, updated, fetched,
                 mark, file, saved, told>>

-----------------------------------------------------------------------------
(* The holder's process                                                    *)

\* Mutant: an opened mark counts as one that has accepted nothing.
BuildForgets(mode) ==
  /\ phase = "down"
  /\ \/ mode = "create" /\ file = Missing /\ file' = Nothing
     \/ mode = "open" /\ file # Missing /\ UNCHANGED file
  /\ mark' = Nothing
  /\ phase' = "idle"
  /\ UNCHANGED registryVars
  /\ UNCHANGED <<action, updated, fetched, saved, told>>

\* HOLDER_STATE_MODE: create refuses a file that is there, open one that is not.
Build(mode) ==
  /\ phase = "down"
  /\ \/ mode = "create" /\ file = Missing /\ file' = Nothing
     \/ mode = "open" /\ file # Missing /\ UNCHANGED file
  /\ mark' = file'
  /\ phase' = "idle"
  /\ UNCHANGED registryVars
  /\ UNCHANGED <<action, updated, fetched, saved, told>>

\* The round is over: its locals are dropped.
EndRound ==
  /\ phase' = "idle"
  /\ updated' = NoJob
  /\ fetched' = NoRecord
  /\ action' = "verify"

\* run_round returns an error, and the trigger is told why.
RoundFails == EndRound /\ UNCHANGED <<saved, told>>

\* run_round returns a verdict, whether the record was accepted or stale.
RoundEnds(c, status) ==
  /\ EndRound
  /\ told' = IF c = NoCredential \/ fetched.version < mark' THEN told
             ELSE [told EXCEPT ![c] = status]

\* The holder is killed, and started again by Build.
Restart ==
  /\ "restart" \in Faults
  /\ phase # "down"
  /\ phase' = "down"
  /\ mark' = Nothing
  /\ updated' = NoJob
  /\ fetched' = NoRecord
  /\ action' = "verify"
  /\ UNCHANGED registryVars
  /\ UNCHANGED <<file, saved, told>>

-----------------------------------------------------------------------------
(* run_round                                                               *)

\* serve takes the next trigger, and run_round decides what it asks for.  To
\* revoke, the holder must have a credential.
Handle(a) ==
  /\ phase = "idle"
  /\ action' = a
  /\ phase' = IF a = "verify" THEN "read" ELSE "request"
  /\ a = "revoke" => saved # NoCredential
  /\ UNCHANGED registryVars
  /\ UNCHANGED <<updated, fetched, mark, file, saved, told>>

\* request_status_update reaches an aggregator, which begins the round.
RequestStatusUpdate ==
  /\ phase = "request"
  /\ \E base \in Bases :
       /\ CanBegin(base)
       /\ \E job \in IF action = "issue" THEN IssueJobs(base) ELSE RevokeJobs(base, saved) :
            /\ jobs' = jobs \cup {job}
            /\ issued' = issued \cup {job.credential}
            /\ updated' = job
  /\ phase' = "wait"
  /\ UNCHANGED <<published, past, action, fetched, mark, file, saved, told>>

\* Mutant: the answer is awaited without a timeout.
RequestFailsAtOnce ==
  /\ phase = "request"
  /\ RoundFails
  /\ UNCHANGED registryVars
  /\ UNCHANGED <<mark, file>>

\* The aggregator cannot be reached, refuses or does not answer in time, or its
\* answer is lost after it has published: the round goes on without the holder.
RequestFails ==
  /\ \/ phase \in {"request", "wait"}
     \/ phase = "read" /\ action # "verify"
  /\ RoundFails
  /\ UNCHANGED registryVars
  /\ UNCHANGED <<mark, file>>

\* current_record: whatever the volume holds now.
Fetch ==
  /\ phase = "read"
  /\ \/ /\ fetched' \in Readable
        /\ phase' = "accept"
        /\ UNCHANGED <<action, updated, saved, told>>
     \/ published = NoRecord /\ RoundFails
     \/ "read" \in Faults /\ RoundFails
  /\ UNCHANGED registryVars
  /\ UNCHANGED <<mark, file>>

\* accept's two answers that let the round go on: Accepted, the mark advanced on
\* disk and then in memory, or Stale, nothing moved; run_round prints "refused"
\* for a stale record and goes on with it.
Advance(version) ==
  \/ version > mark /\ mark' = version /\ file' = version
  \/ version <= mark /\ UNCHANGED <<mark, file>>

\* Refused: persisting the new mark failed, before or after the file was replaced.
Refused(version) ==
  /\ "error" \in Faults
  /\ version > mark
  /\ file' \in {file, version}
  /\ UNCHANGED mark

\* The credential the round is about: the aggregator's, or the saved one if any.
Subject == IF updated # NoJob THEN updated.credential ELSE saved

\* report_credential: the fingerprint is looked up in the list that was signed.
ReportCredential(list, c) == c \in list

\* The version the aggregator reported must be the one that was read; then the
\* credential must be present after an issuance and absent after a revocation.
Conclude ==
  LET found == ReportCredential(fetched.list, Subject) IN
  \/ updated # NoJob /\ updated.record.version # fetched.version /\ RoundFails
  \/ /\ updated = NoJob \/ updated.record.version = fetched.version
     /\ \/ action = "issue" /\ ~found /\ RoundFails
        \/ action = "revoke" /\ found /\ RoundFails
        \/ /\ action = "issue" /\ found
           /\ phase' = "save"
           /\ UNCHANGED <<action, updated, fetched, saved, told>>
        \/ /\ action = "revoke" /\ ~found
           /\ RoundEnds(Subject, "revoked")
           /\ UNCHANGED saved
        \/ /\ action = "verify"
           /\ RoundEnds(Subject, IF found THEN "valid" ELSE "revoked")
           /\ UNCHANGED saved

\* accept and what follows from it.
Accept ==
  /\ phase = "accept"
  /\ \/ Advance(fetched.version) /\ Conclude
     \/ Refused(fetched.version) /\ RoundFails
  /\ UNCHANGED registryVars

\* Mutant: the credential is saved as soon as the aggregator has answered.
SaveEarly ==
  /\ phase \in {"read", "save"} /\ action = "issue"
  /\ \/ /\ saved' = updated.credential
        /\ IF phase = "save" THEN UNCHANGED mark /\ RoundEnds(saved', "valid")
           ELSE UNCHANGED <<phase, action, updated, fetched, mark, told>>
  /\ UNCHANGED registryVars
  /\ UNCHANGED file

\* The issued credential replaces credential.bin; a failure may come before or
\* after the file was replaced.
Save ==
  /\ phase = "save"
  /\ UNCHANGED mark
  /\ \/ saved' = updated.credential /\ RoundEnds(saved', "valid")
     \/ /\ "error" \in Faults
        /\ saved' \in {saved, updated.credential}
        /\ EndRound
        /\ UNCHANGED told
  /\ UNCHANGED registryVars
  /\ UNCHANGED file

-----------------------------------------------------------------------------
Step == RequestStatusUpdate \/ RequestFails \/ Fetch \/ Accept \/ Save

Next ==
  \/ OtherRound
  \/ \E job \in jobs : Publish(job) \/ AbandonJob(job)
  \/ \E mode \in {"create", "open"} : Build(mode)
  \/ Restart
  \/ \E a \in Actions : Handle(a)
  \/ Step

\* A round never waits for ever: every read and write has a timeout, so each
\* phase of run_round ends.
Fairness == WF_vars(Step)

Spec == Init /\ [][Next]_vars /\ Fairness

-----------------------------------------------------------------------------
(* Properties                                                              *)

\* A credential is kept only once a record of its version has been let through
\* the mark: whatever is lost, late or interrupted, the mark in the state file
\* covers the version that the saved credential names.
SavedIsAccepted == saved # NoCredential => saved.version <= file

\* The answers about a credential never go back, through failed, repeated and
\* interrupted rounds and whatever older records storage hands out: once a verdict
\* that rests on a record not older than the mark was "revoked", no such verdict is
\* "valid" again.
ImplementsLedger == Ledger!Spec

\* Every trigger is answered, or the holder is killed: no phase of a round waits
\* for the aggregator for ever.
EveryTriggerAnswered == phase \notin {"down", "idle"} ~> phase \in {"down", "idle"}
=============================================================================
