------------------------------- MODULE Rounds -------------------------------
(***************************************************************************)
(* The signing rounds of the committee (demo/src/bin/signer.rs over        *)
(* src/node/signer.rs): an aggregator turns a status request into a        *)
(* proposal for the version after the published one, collects signatures   *)
(* from t of the N members until its window closes, and publishes a record *)
(* that carries them.  A member signs a version at most once, because the  *)
(* version decides the one-time slot and the slot is burnt first           *)
(* (SlotCounter and OneTimeSlots say what its counter guarantees).         *)
(*                                                                         *)
(* Any number of aggregators run rounds at the same time: the round mutex  *)
(* is per node.  Requests and replies can be lost or late, a member can be *)
(* killed and restarted anywhere, and a window can close early.            *)
(*                                                                         *)
(* Left out: the bytes of lists, messages and signatures, and signatures   *)
(* that do not verify (every signer here is an honest member, so the check *)
(* in collect_signatures passes).                                          *)
(***************************************************************************)
EXTENDS Integers, FiniteSets

CONSTANTS
  Member,          \* the committee
  Aggregator,      \* the members that may aggregate
  NoAggregator,    \* the sender of a request whose round has ended
  Threshold,       \* t
  KeyLast,         \* the last version with a slot in the members' keys
  MaxVersion,      \* largest u32, the type of a version
  MaxInFlight,     \* bound: a round begins only with so few requests outstanding
  CredentialId,    \* the random identifiers of credentials
  Faults           \* what can go wrong, a subset of FaultKinds

ASSUME MemberAssumption ==
  IsFiniteSet(Member) /\ Aggregator \subseteq Member /\ NoAggregator \notin Member
ASSUME ThresholdAssumption ==
  Threshold \in Nat /\ Threshold > 0 /\ 2 * Threshold > Cardinality(Member)
ASSUME VersionAssumption == KeyLast \in Nat /\ MaxVersion \in Nat /\ KeyLast <= MaxVersion
ASSUME BoundAssumption == MaxInFlight \in Nat
FaultKinds == {"loss", "timeout", "error", "restart", "read"}
ASSUME FaultAssumption == Faults \subseteq FaultKinds

VARIABLES
  counter,     \* each member's durable counter, as the next version it can sign
  round,       \* each aggregator's round
  requests,    \* proposals on their way to, inside or back from a member
  record,      \* the published record
  signers      \* history: who signed each published version

vars == <<counter, round, requests, record, signers>>

Version == 0 .. MaxVersion
Nothing == -1                        \* the version before the first record

\* vc::issue: a credential names its issuer and the version that lists it.
Credential == [issuer : Aggregator, version : Version, id : CredentialId]
List == SUBSET Credential

\* A request belongs to its round, whose list the member signs; so it does not
\* carry the list again.
Request == [agg : Aggregator \cup {NoAggregator}, to : Member, version : Version,
            stage : {"sent", "checked", "signed"}]
Round == [phase : {"idle", "collect", "publish"}, version : Version,
          list : List, quorum : SUBSET Member]
IdleRound == [phase |-> "idle", version |-> 0, list |-> {}, quorum |-> {}]

NoRecord == [version |-> Nothing, list |-> {}]

TypeOK ==
  /\ counter \in [Member -> Nat]
  /\ round \in [Aggregator -> Round]
  /\ requests \in SUBSET Request
  /\ record \in [version : Nothing .. MaxVersion, list : List]
  /\ signers \in [Version -> SUBSET Member]

Registry == INSTANCE StatusRegistry

Init ==
  /\ counter = [m \in Member |-> 0]
  /\ round = [a \in Aggregator |-> IdleRound]
  /\ requests = {}
  /\ record = NoRecord
  /\ signers = [v \in Version |-> {}]

-----------------------------------------------------------------------------
(* The aggregator: on_status_request                                       *)

\* What current_record can return: the published record, which is replaced
\* atomically; or nothing, if it cannot be read.
Readable == {record} \cup (IF "read" \in Faults THEN {NoRecord} ELSE {})

\* The snapshots a status request can ask for: the list that was read with a
\* newly issued credential, or without one it holds.
NewLists(a, seen) ==
  {seen.list \cup {[issuer |-> a, version |-> seen.version + 1, id |-> i]} : i \in CredentialId}
    \cup {seen.list \ {c} : c \in seen.list}

\* Mutant: the next version is computed without the overflow check.
BeginRoundUnchecked(a, seen, list) ==
  LET version == seen.version + 1 IN
  /\ round[a].phase = "idle"
  /\ Cardinality(requests) <= MaxInFlight
  /\ round' = [round EXCEPT ![a] =
       [phase |-> "collect", version |-> version, list |-> list, quorum |-> {}]]
  /\ requests' = requests \cup
       {[agg |-> a, to |-> m, version |-> version, stage |-> "sent"] : m \in Member}
  /\ UNCHANGED <<counter, record, signers>>

\* The request takes the node's round mutex, reads the published record and
\* broadcasts the next version to the whole committee, itself included.
BeginRound(a, seen, list) ==
  LET version == seen.version + 1 IN
  /\ round[a].phase = "idle"
  /\ version <= MaxVersion
  /\ Cardinality(requests) <= MaxInFlight
  /\ round' = [round EXCEPT ![a] =
       [phase |-> "collect", version |-> version, list |-> list, quorum |-> {}]]
  /\ requests' = requests \cup
       {[agg |-> a, to |-> m, version |-> version, stage |-> "sent"] : m \in Member}
  /\ UNCHANGED <<counter, record, signers>>

\* A round ends: replies nobody waits for are dropped, and what is still on its
\* way to a member no longer has anyone to answer.
EndRound(a, rs) ==
  {r \in rs : r.agg # a} \cup
    {[r EXCEPT !.agg = NoAggregator] : r \in {q \in rs : q.agg = a /\ q.stage # "signed"}}

\* Mutant: the round ends one signature short.
CollectOneShort(a, r) ==
  LET quorum == round[a].quorum \cup {r.to} IN
  /\ round[a].phase = "collect"
  /\ r \in requests /\ r.agg = a /\ r.stage = "signed"
  /\ round' = [round EXCEPT ![a].quorum = quorum,
       ![a].phase = IF Cardinality(quorum) >= Threshold - 1 THEN "publish" ELSE "collect"]
  /\ requests' = requests \ {r}
  /\ UNCHANGED <<counter, record, signers>>

\* collect_signatures counts one reply; the t-th ends the collection.
Collect(a, r) ==
  LET quorum == round[a].quorum \cup {r.to} IN
  /\ round[a].phase = "collect"
  /\ r \in requests /\ r.agg = a /\ r.stage = "signed"
  /\ round' = [round EXCEPT ![a].quorum = quorum,
       ![a].phase = IF Cardinality(quorum) >= Threshold THEN "publish" ELSE "collect"]
  /\ requests' = requests \ {r}
  /\ UNCHANGED <<counter, record, signers>>

\* The window closes below the threshold: the round is abandoned.
Abandon(a) ==
  /\ round[a].phase = "collect"
  /\ "timeout" \in Faults \/ \A r \in requests : r.agg # a
  /\ round' = [round EXCEPT ![a] = IdleRound]
  /\ requests' = EndRound(a, requests)
  /\ UNCHANGED <<counter, record, signers>>

\* build_record and publish: the record replaces the published one.
Publish(a) ==
  /\ round[a].phase = "publish"
  /\ record' = [version |-> round[a].version, list |-> round[a].list]
  /\ signers' = [signers EXCEPT ![round[a].version] = round[a].quorum]
  /\ round' = [round EXCEPT ![a] = IdleRound]
  /\ requests' = EndRound(a, requests)
  /\ UNCHANGED counter

\* Building the record or writing it fails before the rename: the requester is
\* told so.  (A failure after the rename leaves what Publish leaves.)
PublishFails(a) ==
  /\ "error" \in Faults
  /\ round[a].phase = "publish"
  /\ round' = [round EXCEPT ![a] = IdleRound]
  /\ requests' = EndRound(a, requests)
  /\ UNCHANGED <<counter, record, signers>>

-----------------------------------------------------------------------------
(* The member: on_proposal                                                 *)

\* Mutant: the member expects the version that is already published.
RepeatsPublished(seen, version) == version = seen.version

\* Only the version after the published record is signed.
FollowsPublished(seen, version) == version = seen.version + 1

\* The policy check, before any slot is touched.  It reads the record without
\* any lock, so the record may have moved by the time the member signs.
CheckProposal(r) ==
  /\ r \in requests /\ r.stage = "sent"
  /\ \E seen \in Readable :
       requests' = (requests \ {r}) \cup
         (IF FollowsPublished(seen, r.version) THEN {[r EXCEPT !.stage = "checked"]} ELSE {})
  /\ UNCHANGED <<counter, round, record, signers>>

\* Mutant: the counter does not refuse a version it is already past.
CanSignAgain(m, version) == version <= KeyLast

\* reserve_at succeeds: the version's slot is in the window and not yet spent.
CanSign(m, version) == version <= KeyLast /\ version >= counter[m]

\* sign_at burns the slot and signs; the reply goes to the round that asked, if
\* it still runs.
Sign(r) ==
  /\ r \in requests /\ r.stage = "checked"
  /\ CanSign(r.to, r.version)
  /\ counter' = [counter EXCEPT ![r.to] = r.version + 1]
  /\ requests' = (requests \ {r}) \cup
       (IF r.agg = NoAggregator THEN {} ELSE {[r EXCEPT !.stage = "signed"]})
  /\ UNCHANGED <<round, record, signers>>

\* AlreadySpent, Exhausted, or the counter cannot be written: the member abstains.
Abstain(r) ==
  /\ r \in requests /\ r.stage = "checked"
  /\ ~CanSign(r.to, r.version) \/ "error" \in Faults
  /\ requests' = requests \ {r}
  /\ UNCHANGED <<counter, round, record, signers>>

\* The slot is burnt, but there is no signature: signing fails, or the member is
\* killed between the two.
SignFails(r) ==
  /\ "error" \in Faults
  /\ r \in requests /\ r.stage = "checked"
  /\ CanSign(r.to, r.version)
  /\ counter' = [counter EXCEPT ![r.to] = r.version + 1]
  /\ requests' = requests \ {r}
  /\ UNCHANGED <<round, record, signers>>

-----------------------------------------------------------------------------
(* The environment                                                         *)

\* A connection is refused or breaks, on the way there or back.
Drop(r) ==
  /\ "loss" \in Faults
  /\ r \in requests /\ r.stage # "checked"
  /\ requests' = requests \ {r}
  /\ UNCHANGED <<counter, round, record, signers>>

\* A member is killed and comes back: the counter is durable, the requests it
\* was working on and the round it was running are gone.
Restart(m) ==
  LET left == {r \in requests : r.to # m \/ r.stage = "signed"} IN
  /\ "restart" \in Faults
  /\ IF m \in Aggregator
     THEN /\ round' = [round EXCEPT ![m] = IdleRound]
          /\ requests' = EndRound(m, left)
     ELSE round' = round /\ requests' = left
  /\ UNCHANGED <<counter, record, signers>>

-----------------------------------------------------------------------------
Begin(a) == \E seen \in Readable : \E list \in NewLists(a, seen) : BeginRound(a, seen, list)

Next ==
  \/ \E a \in Aggregator :
       \/ Begin(a)
       \/ \E r \in requests : Collect(a, r)
       \/ Abandon(a) \/ Publish(a) \/ PublishFails(a)
  \/ \E r \in requests :
       CheckProposal(r) \/ Sign(r) \/ Abstain(r) \/ SignFails(r) \/ Drop(r)
  \/ \E m \in Member : Restart(m)

Spec == Init /\ [][Next]_vars

\* Every thread that can run is run: status requests keep coming, members
\* answer the proposals they were sent, aggregators take the replies and
\* publish, and a window closes at last.
Fairness ==
  /\ \A a \in Aggregator :
       /\ WF_vars(Begin(a))
       /\ WF_vars(\E r \in requests : Collect(a, r))
       /\ WF_vars(Abandon(a))
       /\ WF_vars(Publish(a))
  /\ \A m \in Member :
       WF_vars(\E r \in requests : r.to = m /\ (CheckProposal(r) \/ Sign(r) \/ Abstain(r)))

FairSpec == Spec /\ Fairness

-----------------------------------------------------------------------------
(* Properties                                                              *)

\* At most one aggregator at a time holds a quorum and is about to publish.
\* publish() relies on it: every node writes the same temporary file on the
\* shared volume before it renames it (demo/src/storage.rs, write_atomic).
OnePublisher ==
  \A a, b \in Aggregator :
    round[a].phase = "publish" /\ round[b].phase = "publish" => a = b

\* The committee implements the registry: through concurrent rounds, late
\* signatures, crashes and restarts, each published record is the next version
\* and one change away from the record before it.  No fork, no rollback, no
\* update lost to a round that started from the same record.
ImplementsRegistry == Registry!Spec

\* A member that is refused abstains and the quorum proceeds without it
\* (src/state/slot_counter.rs, reserve_at): with nothing lost and nobody down,
\* the versions of the key window are all published in the end.
QuorumProceeds == <>(record.version = KeyLast)
=============================================================================
