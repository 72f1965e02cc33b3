---------------------------- MODULE RoundsProofs ----------------------------
(***************************************************************************)
(* Machine-checked theorems about the signing rounds, for every committee  *)
(* whose threshold is more than half of it, every set of aggregators and   *)
(* every combination of faults.                                            *)
(*                                                                         *)
(* The argument: a member's signature for a version is a vote that exists  *)
(* once.  It is on its way to one round, counted by one round, or part of  *)
(* the published record, and never two of these.  A published version has  *)
(* used up t votes, so no other round for it can ever reach t; and two     *)
(* rounds for the next version cannot both reach t.                        *)
(***************************************************************************)
EXTENDS Rounds, FiniteSetTheorems, TLAPS

\* A request names the round that waits for the answer, until the round ends.
RequestInv == \A r \in requests :
  /\ r.agg # NoAggregator =>
       round[r.agg].phase # "idle" /\ round[r.agg].version = r.version
  /\ r.stage = "signed" => r.agg # NoAggregator

\* A vote is in one place only.
VoteInv ==
  /\ \A r, q \in requests :
       r.stage = "signed" /\ q.stage = "signed" /\ r.to = q.to /\ r.version = q.version => r = q
  /\ \A r \in requests : r.stage = "signed" =>
       /\ r.to \notin signers[r.version]
       /\ \A a \in Aggregator : round[a].version = r.version => r.to \notin round[a].quorum
  /\ \A a \in Aggregator : round[a].quorum \cap signers[round[a].version] = {}
  /\ \A a, b \in Aggregator :
       a # b /\ round[a].version = round[b].version => round[a].quorum \cap round[b].quorum = {}

\* A member that has voted is past that version.
BurntInv ==
  /\ \A r \in requests : r.stage = "signed" => counter[r.to] > r.version
  /\ \A a \in Aggregator : \A m \in round[a].quorum : counter[m] > round[a].version
  /\ \A v \in Version : \A m \in signers[v] : counter[m] > v

\* Exactly the versions up to the published one have signers, and a quorum each.
PublishedInv == \A v \in Version :
  /\ v <= record.version => Cardinality(signers[v]) >= Threshold
  /\ v > record.version => signers[v] = {}

\* A round works on a version that was next when it began.  While it still is
\* next, its list is one change away from the published one.
RoundInv == \A a \in Aggregator :
  /\ round[a].phase = "publish" => Cardinality(round[a].quorum) >= Threshold
  /\ round[a].phase # "idle" => round[a].version <= record.version + 1
  /\ round[a].phase # "idle" /\ round[a].version = record.version + 1 =>
       Registry!OneChange(record.list, round[a].list)

\* A list holds credentials issued at its version or before.
ListInv ==
  /\ \A c \in record.list : c.version <= record.version
  /\ \A a \in Aggregator : \A c \in round[a].list : c.version <= round[a].version

IInv == TypeOK /\ RequestInv /\ VoteInv /\ BurntInv /\ PublishedInv /\ RoundInv /\ ListInv

\* A round as it is right after it began or ended: nobody has voted in it.
RoundStart(a) ==
  /\ round[a].quorum = {}
  /\ round[a].phase # "publish"
  /\ round[a].phase # "idle" => round[a].version <= record.version + 1
  /\ round[a].phase # "idle" /\ round[a].version = record.version + 1 =>
       Registry!OneChange(record.list, round[a].list)
  /\ \A c \in round[a].list : c.version <= round[a].version

-----------------------------------------------------------------------------
(* Quorums                                                                 *)

\* Two sets of at least t members have a member in common, as 2t > N.
LEMMA QuorumsMeet ==
  ASSUME NEW S \in SUBSET Member, NEW T \in SUBSET Member,
         Cardinality(S) >= Threshold, Cardinality(T) >= Threshold
  PROVE  S \cap T # {}
  <1>1. IsFiniteSet(S) /\ IsFiniteSet(T) /\ IsFiniteSet(Member)
    BY MemberAssumption, FS_Subset
  <1>2. Cardinality(S) \in Nat /\ Cardinality(T) \in Nat /\ Cardinality(Member) \in Nat
    BY <1>1, FS_CardinalityType
  <1>3. Cardinality(S) + Cardinality(T) > Cardinality(Member)
    BY <1>2, ThresholdAssumption
  <1> QED BY <1>1, <1>3, FS_MajoritiesIntersect

\* A round that holds a quorum works on the version after the published one:
\* t members have already voted in the published round of any earlier version.
LEMMA PublisherIsNext ==
  ASSUME IInv, NEW a \in Aggregator, round[a].phase = "publish"
  PROVE  round[a].version = record.version + 1
  <1>1. round[a] \in Round /\ record.version \in Int
    BY DEF IInv, TypeOK, Nothing
  <1>2. round[a].version \in Version /\ round[a].quorum \in SUBSET Member
    BY <1>1 DEF Round
  <1>3. round[a].version <= record.version + 1 /\ Cardinality(round[a].quorum) >= Threshold
    BY DEF IInv, RoundInv
  <1>4. signers[round[a].version] \in SUBSET Member
    BY <1>2 DEF IInv, TypeOK
  <1>5. round[a].quorum \cap signers[round[a].version] = {}
    BY DEF IInv, VoteInv
  <1>6. ~(round[a].version <= record.version)
    BY <1>2, <1>3, <1>4, <1>5, QuorumsMeet DEF IInv, PublishedInv
  <1> QED BY <1>1, <1>2, <1>3, <1>6 DEF Version

\* Two rounds never hold a quorum at the same time.
LEMMA PublisherIsUnique ==
  ASSUME IInv
  PROVE  OnePublisher
  <1> SUFFICES ASSUME NEW a \in Aggregator, NEW b \in Aggregator, a # b,
                      round[a].phase = "publish", round[b].phase = "publish"
               PROVE  FALSE
    BY DEF OnePublisher
  <1>1. round[a].version = round[b].version
    BY PublisherIsNext
  <1>2. round[a].quorum \cap round[b].quorum = {}
    BY <1>1 DEF IInv, VoteInv
  <1>3. round[a].quorum \in SUBSET Member /\ round[b].quorum \in SUBSET Member
    BY DEF IInv, TypeOK, Round
  <1>4. Cardinality(round[a].quorum) >= Threshold /\ Cardinality(round[b].quorum) >= Threshold
    BY DEF IInv, RoundInv
  <1> QED BY <1>2, <1>3, <1>4, QuorumsMeet

-----------------------------------------------------------------------------
(* Steps that add no vote                                                  *)

\* What remains of the requests when a round ends.
LEMMA EndRoundFacts ==
  ASSUME NEW a \in Aggregator, NEW rs \in SUBSET Request
  PROVE  /\ EndRound(a, rs) \in SUBSET Request
         /\ \A r \in EndRound(a, rs) :
              r.stage = "signed" \/ r.agg # NoAggregator => r \in rs /\ r.agg # a
  <1>1. ASSUME NEW r \in EndRound(a, rs)
        PROVE  \/ r \in rs /\ r.agg # a
               \/ r \in Request /\ r.stage # "signed" /\ r.agg = NoAggregator
    <2>1. CASE r \in rs /\ r.agg # a
      BY <2>1
    <2>2. CASE \E q \in rs : q.stage # "signed" /\ r = [q EXCEPT !.agg = NoAggregator]
      <3>1. PICK q \in rs : q.stage # "signed" /\ r = [q EXCEPT !.agg = NoAggregator]
        BY <2>2
      <3>2. q \in Request
        OBVIOUS
      <3> QED BY <3>1, <3>2 DEF Request
    <2> QED BY <2>1, <2>2 DEF EndRound
  <1> QED BY <1>1

\* A step that adds no vote preserves the invariant: rounds go on or are as
\* good as new, counters do not move back and nothing is published.
LEMMA NoNewVote ==
  ASSUME IInv, TypeOK', RequestInv',
         UNCHANGED <<record, signers>>,
         \A m \in Member : counter'[m] >= counter[m],
         \A r \in requests' : r.stage = "signed" => r \in requests,
         \A a \in Aggregator : round'[a] = round[a] \/ RoundStart(a)'
  PROVE  IInv'
  <1>1. TypeOK /\ VoteInv /\ BurntInv /\ PublishedInv /\ RoundInv /\ ListInv
    BY DEF IInv
  <1>2. ASSUME NEW a \in Aggregator
        PROVE  round'[a] = round[a] \/ round'[a].quorum = {}
    BY DEF RoundStart
  <1>3. VoteInv'
    <2>1. \A r, q \in requests' :
            r.stage = "signed" /\ q.stage = "signed" /\ r.to = q.to /\ r.version = q.version => r = q
      BY <1>1 DEF VoteInv
    <2>2. \A r \in requests' : r.stage = "signed" =>
            /\ r.to \notin signers'[r.version]
            /\ \A a \in Aggregator : round'[a].version = r.version => r.to \notin round'[a].quorum
      BY <1>1, <1>2 DEF VoteInv
    <2>3. \A a \in Aggregator : round'[a].quorum \cap signers'[round'[a].version] = {}
      BY <1>1, <1>2 DEF VoteInv
    <2>4. \A a, b \in Aggregator : a # b /\ round'[a].version = round'[b].version =>
            round'[a].quorum \cap round'[b].quorum = {}
      BY <1>1, <1>2 DEF VoteInv
    <2> QED BY <2>1, <2>2, <2>3, <2>4 DEF VoteInv
  <1>4. BurntInv'
    <2>0. counter \in [Member -> Nat] /\ counter' \in [Member -> Nat]
      BY <1>1 DEF TypeOK
    <2>1. \A r \in requests' : r.stage = "signed" => counter'[r.to] > r.version
      <3> SUFFICES ASSUME NEW r \in requests', r.stage = "signed"
                   PROVE  counter'[r.to] > r.version
        OBVIOUS
      <3>1. r \in requests /\ counter[r.to] > r.version
        BY <1>1 DEF BurntInv
      <3>2. r.to \in Member /\ r.version \in Int
        BY <1>1, <3>1 DEF TypeOK, Request, Version
      <3> QED BY <2>0, <3>1, <3>2
    <2>2. \A a \in Aggregator : \A m \in round'[a].quorum : counter'[m] > round'[a].version
      <3> SUFFICES ASSUME NEW a \in Aggregator, NEW m \in round'[a].quorum
                   PROVE  counter'[m] > round'[a].version
        OBVIOUS
      <3>1. round'[a] = round[a] /\ counter[m] > round[a].version
        BY <1>1, <1>2 DEF BurntInv
      <3>2. round[a] \in Round /\ m \in round[a].quorum
        BY <1>1, <3>1 DEF TypeOK
      <3>3. m \in Member /\ round[a].version \in Int
        BY <3>2 DEF Round, Version
      <3> QED BY <2>0, <3>1, <3>3
    <2>3. \A v \in Version : \A m \in signers'[v] : counter'[m] > v
      <3> SUFFICES ASSUME NEW v \in Version, NEW m \in signers[v]
                   PROVE  counter'[m] > v
        OBVIOUS
      <3>1. counter[m] > v
        BY <1>1 DEF BurntInv
      <3>2. signers[v] \in SUBSET Member
        BY <1>1 DEF TypeOK
      <3>3. m \in Member /\ v \in Int
        BY <3>2 DEF Version
      <3> QED BY <2>0, <3>1, <3>3
    <2> QED BY <2>1, <2>2, <2>3 DEF BurntInv
  <1>5. PublishedInv'
    BY <1>1 DEF PublishedInv
  <1>6. RoundInv'
    <2> SUFFICES ASSUME NEW a \in Aggregator
                 PROVE  /\ round'[a].phase = "publish" => Cardinality(round'[a].quorum) >= Threshold
                        /\ round'[a].phase # "idle" => round'[a].version <= record'.version + 1
                        /\ round'[a].phase # "idle" /\ round'[a].version = record'.version + 1 =>
                             Registry!OneChange(record.list, round[a].list)'
      BY DEF RoundInv
    <2>1. CASE round'[a] = round[a]
      BY <1>1, <2>1 DEF RoundInv, Registry!OneChange
    <2>2. CASE RoundStart(a)'
      BY <2>2 DEF RoundStart
    <2> QED BY <2>1, <2>2
  <1>7. ListInv'
    BY <1>1 DEF ListInv, RoundStart
  <1> QED BY <1>3, <1>4, <1>5, <1>6, <1>7 DEF IInv

-----------------------------------------------------------------------------
(* One lemma per action                                                    *)

\* Every initial state satisfies the invariant: no request, no round, no record.
LEMMA Initial == Init => IInv
  <1> SUFFICES ASSUME Init PROVE IInv
    OBVIOUS
  <1>1. NoRecord \in [version : Nothing .. MaxVersion, list : List]
    BY VersionAssumption DEF NoRecord, Nothing, List
  <1>2. IdleRound \in Round
    BY VersionAssumption DEF IdleRound, Round, Version, List
  <1>3. TypeOK
    BY <1>1, <1>2 DEF Init, TypeOK
  <1>4. RequestInv /\ VoteInv /\ BurntInv
    BY DEF Init, RequestInv, VoteInv, BurntInv, IdleRound
  <1>5. PublishedInv
    BY DEF Init, PublishedInv, NoRecord, Nothing, Version
  <1>6. RoundInv /\ ListInv
    BY DEF Init, RoundInv, ListInv, IdleRound, NoRecord
  <1> QED BY <1>3, <1>4, <1>5, <1>6 DEF IInv

\* What a round can start from, and what it proposes.
LEMMA NewListFacts ==
  ASSUME IInv, NEW a \in Aggregator, NEW seen \in Readable, NEW list \in NewLists(a, seen),
         seen.version + 1 <= MaxVersion
  PROVE  /\ seen.version + 1 \in Version
         /\ list \in List
         /\ seen.version <= record.version
         /\ seen.version = record.version => Registry!OneChange(record.list, list)
         /\ \A c \in list : c.version <= seen.version + 1
  <1>1. record.version \in Nothing .. MaxVersion /\ record.list \in List
    BY DEF IInv, TypeOK
  <1>2. \/ seen = record
        \/ seen.version = Nothing /\ seen.list = {}
    BY DEF Readable, NoRecord
  <1>3. seen.version \in Int /\ seen.version >= Nothing /\ seen.version <= record.version
    BY <1>1, <1>2 DEF Nothing
  <1>4. seen.version + 1 \in Version
    BY <1>3, VersionAssumption DEF Version, Nothing
  <1>5. seen.list \in List /\ \A c \in seen.list : c.version <= seen.version
    BY <1>1, <1>2 DEF List, IInv, ListInv
  <1>6. seen.version = record.version => seen.list = record.list
    <2>1. CASE seen = record
      BY <2>1
    <2>2. CASE seen.version = Nothing /\ seen.list = {} /\ record.version = Nothing
      <3>1. ASSUME NEW c \in record.list PROVE FALSE
        <4>1. c.version <= Nothing /\ c \in Credential
          BY <1>1, <2>2 DEF IInv, ListInv, List
        <4> QED BY <4>1 DEF Credential, Version, Nothing
      <3> QED BY <2>2, <3>1
    <2> QED BY <1>2, <2>1, <2>2
  <1>7. CASE \E i \in CredentialId :
               list = seen.list \cup {[issuer |-> a, version |-> seen.version + 1, id |-> i]}
    <2>1. PICK i \in CredentialId :
            list = seen.list \cup {[issuer |-> a, version |-> seen.version + 1, id |-> i]}
      BY <1>7
    <2> DEFINE new == [issuer |-> a, version |-> seen.version + 1, id |-> i]
    <2>2. new \in Credential /\ new.version = seen.version + 1
      BY <1>4 DEF Credential
    <2>3. new \notin seen.list
      BY <1>3, <1>5, <2>2
    <2> HIDE DEF new
    <2>4. list = seen.list \cup {new}
      BY <2>1 DEF new
    <2>5. list \in List /\ \A c \in list : c.version <= seen.version + 1
      <3>1. \A c \in seen.list : c.version \in Int
        BY <1>5 DEF List, Credential, Version
      <3> QED BY <1>3, <1>5, <2>2, <2>4, <3>1 DEF List
    <2>6. seen.version = record.version => Registry!OneChange(record.list, list)
      BY <1>6, <2>2, <2>3, <2>4 DEF Registry!OneChange
    <2> QED BY <1>3, <1>4, <2>5, <2>6
  <1>8. CASE \E c \in seen.list : list = seen.list \ {c}
    <2>1. PICK c \in seen.list : list = seen.list \ {c}
      BY <1>8
    <2>2. list \in List /\ c \in Credential
      BY <1>5, <2>1 DEF List
    <2>3. \A d \in list : d.version <= seen.version + 1
      <3>1. \A d \in seen.list : d.version \in Int
        BY <1>5 DEF List, Credential, Version
      <3> QED BY <1>3, <1>5, <2>1, <3>1
    <2>4. seen.version = record.version => Registry!OneChange(record.list, list)
      BY <1>6, <2>1, <2>2 DEF Registry!OneChange
    <2> QED BY <1>3, <1>4, <2>2, <2>3, <2>4
  <1> QED BY <1>7, <1>8 DEF NewLists

\* A new round: its requests are unsigned and its list follows what was read.
LEMMA BeginPreserves ==
  ASSUME IInv, NEW a \in Aggregator, NEW seen \in Readable, NEW list \in NewLists(a, seen),
         BeginRound(a, seen, list)
  PROVE  IInv'
  <1>1. TypeOK /\ RequestInv
    BY DEF IInv
  <1>2. /\ seen.version + 1 \in Version /\ list \in List /\ seen.version <= record.version
        /\ seen.version = record.version => Registry!OneChange(record.list, list)
        /\ \A c \in list : c.version <= seen.version + 1
    BY NewListFacts DEF BeginRound
  <1> DEFINE v == seen.version + 1
             new == [phase |-> "collect", version |-> v, list |-> list, quorum |-> {}]
             sent == {[agg |-> a, to |-> m, version |-> v, stage |-> "sent"] : m \in Member}
  <1>3. new \in Round /\ new.quorum = {} /\ new.phase = "collect" /\ new.version = v
        /\ new.list = list
    BY <1>2 DEF Round
  <1>4. \A r \in sent : r \in Request /\ r.agg = a /\ r.version = v /\ r.stage = "sent"
    BY <1>2 DEF Request
  <1>5. round' = [round EXCEPT ![a] = new] /\ requests' = requests \cup sent
        /\ round[a].phase = "idle" /\ UNCHANGED <<counter, record, signers>>
    BY DEF BeginRound
  <1>6. v \in Version
    BY <1>2
  <1> HIDE DEF new, sent, v
  <1>7. TypeOK'
    BY <1>1, <1>3, <1>4, <1>5 DEF TypeOK
  <1>8. round'[a] = new /\ \A b \in Aggregator : b # a => round'[b] = round[b]
    BY <1>1, <1>5 DEF TypeOK
  <1>9. RequestInv'
    <2> SUFFICES ASSUME NEW r \in requests'
                 PROVE  /\ r.agg # NoAggregator =>
                             round'[r.agg].phase # "idle" /\ round'[r.agg].version = r.version
                        /\ r.stage = "signed" => r.agg # NoAggregator
      BY DEF RequestInv
    <2>1. CASE r \in sent
      BY <1>3, <1>4, <1>8, <2>1
    <2>2. CASE r \in requests
      <3>1. r.agg \in Aggregator \cup {NoAggregator}
        BY <1>1, <2>2 DEF TypeOK, Request
      <3> QED BY <1>1, <1>5, <1>8, <2>2, <3>1 DEF RequestInv
    <2> QED BY <1>5, <2>1, <2>2
  <1>10. RoundStart(a)'
    <2>1. record.version \in Int /\ seen.version \in Int
      BY <1>1 DEF TypeOK, Nothing, Readable, NoRecord
    <2>2. v <= record.version + 1 /\ (v = record.version + 1 => seen.version = record.version)
      BY <1>2, <2>1 DEF v
    <2>3. Registry!OneChange(record.list, list) =>
            Registry!OneChange(record'.list, round'[a].list)
      BY <1>3, <1>5, <1>8
    <2>4. \A c \in list : c.version <= v
      BY <1>2 DEF v
    <2> QED BY <1>2, <1>3, <1>5, <1>8, <2>2, <2>3, <2>4 DEF RoundStart
  <1>11. \A b \in Aggregator : round'[b] = round[b] \/ RoundStart(b)'
    BY <1>8, <1>10
  <1>12. \A r \in requests' : r.stage = "signed" => r \in requests
    BY <1>4, <1>5
  <1>13. \A m \in Member : counter'[m] >= counter[m]
    BY <1>1, <1>5 DEF TypeOK
  <1> QED BY <1>5, <1>7, <1>9, <1>11, <1>12, <1>13, NoNewVote

\* A round that ends leaves an idle one behind, whatever else happens to the
\* requests in the same step.
LEMMA EndPreserves ==
  ASSUME IInv, NEW a \in Aggregator, NEW rs \in SUBSET requests,
         round' = [round EXCEPT ![a] = IdleRound],
         requests' = EndRound(a, rs),
         UNCHANGED <<counter, record, signers>>
  PROVE  IInv'
  <1>1. TypeOK /\ RequestInv
    BY DEF IInv
  <1>2. rs \in SUBSET Request
    BY <1>1 DEF TypeOK
  <1>3. /\ requests' \in SUBSET Request
        /\ \A r \in requests' :
             r.stage = "signed" \/ r.agg # NoAggregator => r \in requests /\ r.agg # a
    BY <1>2, EndRoundFacts
  <1>4. IdleRound \in Round
    BY VersionAssumption DEF IdleRound, Round, Version, List
  <1>5. TypeOK'
    BY <1>1, <1>3, <1>4 DEF TypeOK
  <1>6. round'[a] = IdleRound /\ \A b \in Aggregator : b # a => round'[b] = round[b]
    BY <1>1 DEF TypeOK
  <1>7. RequestInv'
    <2> SUFFICES ASSUME NEW r \in requests'
                 PROVE  /\ r.agg # NoAggregator =>
                             round'[r.agg].phase # "idle" /\ round'[r.agg].version = r.version
                        /\ r.stage = "signed" => r.agg # NoAggregator
      BY DEF RequestInv
    <2>1. r.agg \in Aggregator \cup {NoAggregator}
      BY <1>3 DEF Request
    <2> QED BY <1>1, <1>3, <1>6, <2>1 DEF RequestInv
  <1>8. RoundStart(a)'
    BY <1>6 DEF RoundStart, IdleRound
  <1>9. \A b \in Aggregator : round'[b] = round[b] \/ RoundStart(b)'
    BY <1>6, <1>8
  <1>10. \A r \in requests' : r.stage = "signed" => r \in requests
    BY <1>3
  <1>11. \A m \in Member : counter'[m] >= counter[m]
    BY <1>1 DEF TypeOK
  <1> QED BY <1>5, <1>7, <1>9, <1>10, <1>11, NoNewVote

\* An abandoned round takes its replies with it; the slots stay burnt.
LEMMA AbandonPreserves ==
  ASSUME IInv, NEW a \in Aggregator, Abandon(a) \/ PublishFails(a)
  PROVE  IInv'
  BY EndPreserves DEF Abandon, PublishFails

\* Requests disappear or move on without being signed; counters may advance.
LEMMA RequestsPreserve ==
  ASSUME IInv, NEW r \in requests, TypeOK',
         requests' \subseteq (requests \ {r}) \cup {[r EXCEPT !.stage = "checked"]},
         \A m \in Member : counter'[m] >= counter[m],
         UNCHANGED <<round, record, signers>>
  PROVE  IInv'
  <1>1. TypeOK /\ RequestInv
    BY DEF IInv
  <1> DEFINE checked == [r EXCEPT !.stage = "checked"]
  <1>2. r \in Request
    BY <1>1 DEF TypeOK
  <1>3. checked.stage = "checked" /\ checked.agg = r.agg /\ checked.version = r.version
    BY <1>2 DEF Request
  <1>4. \A q \in requests' : q \in requests \/ q = checked
    OBVIOUS
  <1> HIDE DEF checked
  <1>5. RequestInv'
    BY <1>1, <1>3, <1>4 DEF RequestInv
  <1>6. \A q \in requests' : q.stage = "signed" => q \in requests
    BY <1>3, <1>4
  <1>7. \A a \in Aggregator : round'[a] = round[a] \/ RoundStart(a)'
    OBVIOUS
  <1> QED BY <1>5, <1>6, <1>7, NoNewVote

\* The policy check moves a request on or drops it; it casts no vote.
LEMMA CheckPreserves ==
  ASSUME IInv, NEW r \in requests, CheckProposal(r) \/ Abstain(r) \/ Drop(r)
  PROVE  IInv'
  <1>1. TypeOK
    BY DEF IInv
  <1>2. requests' \subseteq (requests \ {r}) \cup {[r EXCEPT !.stage = "checked"]}
    BY DEF CheckProposal, Abstain, Drop
  <1>3. UNCHANGED <<counter, round, record, signers>>
    BY DEF CheckProposal, Abstain, Drop
  <1>4. [r EXCEPT !.stage = "checked"] \in Request
    BY <1>1 DEF TypeOK, Request
  <1>5. TypeOK'
    BY <1>1, <1>2, <1>3, <1>4 DEF TypeOK
  <1>6. \A m \in Member : counter'[m] >= counter[m]
    BY <1>1, <1>3 DEF TypeOK
  <1> QED BY <1>2, <1>3, <1>5, <1>6, RequestsPreserve

\* A slot that is burnt: the counter moves up.
LEMMA BurnFacts ==
  ASSUME TypeOK, NEW r \in requests, CanSign(r.to, r.version),
         counter' = [counter EXCEPT ![r.to] = r.version + 1]
  PROVE  /\ r \in Request /\ r.to \in Member /\ r.version \in Version
         /\ counter' \in [Member -> Nat]
         /\ \A m \in Member : counter'[m] >= counter[m]
         /\ counter[r.to] <= r.version /\ counter'[r.to] = r.version + 1
  <1>1. r \in Request
    BY DEF TypeOK
  <1>2. r.to \in Member /\ r.version \in Version
    BY <1>1 DEF Request
  <1>3. counter \in [Member -> Nat] /\ r.version \in Nat
    BY <1>2 DEF TypeOK, Version
  <1> QED BY <1>1, <1>2, <1>3 DEF CanSign

\* A slot burnt without a signature: the counter moves up and no vote is cast.
LEMMA SignFailsPreserves ==
  ASSUME IInv, NEW r \in requests, SignFails(r)
  PROVE  IInv'
  <1>1. TypeOK
    BY DEF IInv
  <1>2. counter' \in [Member -> Nat] /\ \A m \in Member : counter'[m] >= counter[m]
    BY <1>1, BurnFacts DEF SignFails
  <1>3. requests' \subseteq requests \ {r} /\ UNCHANGED <<round, record, signers>>
    BY DEF SignFails
  <1>4. TypeOK'
    BY <1>1, <1>2, <1>3 DEF TypeOK
  <1> QED BY <1>2, <1>3, <1>4, RequestsPreserve

\* A restart keeps the counter and forgets the requests and the round.
LEMMA RestartPreserves ==
  ASSUME IInv, NEW m \in Member, Restart(m)
  PROVE  IInv'
  <1> DEFINE left == {r \in requests : r.to # m \/ r.stage = "signed"}
  <1>1. CASE m \in Aggregator
    <2>1. round' = [round EXCEPT ![m] = IdleRound] /\ requests' = EndRound(m, left)
          /\ UNCHANGED <<counter, record, signers>>
      BY <1>1 DEF Restart
    <2>2. left \in SUBSET requests
      OBVIOUS
    <2> HIDE DEF left
    <2> QED BY <1>1, <2>1, <2>2, EndPreserves
  <1>2. CASE m \notin Aggregator
    <2>1. requests' \subseteq requests /\ UNCHANGED <<counter, round, record, signers>>
      BY <1>2 DEF Restart
    <2>2. TypeOK /\ RequestInv
      BY DEF IInv
    <2>3. TypeOK'
      BY <2>1, <2>2 DEF TypeOK
    <2>4. RequestInv'
      BY <2>1, <2>2 DEF RequestInv
    <2>5. \A q \in Member : counter'[q] >= counter[q]
      BY <2>1, <2>2 DEF TypeOK
    <2> QED BY <2>1, <2>3, <2>4, <2>5, NoNewVote
  <1> QED BY <1>1, <1>2

\* Signing creates the member's vote for a version.  The counter was not past
\* that version, so no such vote existed.
LEMMA SignPreserves ==
  ASSUME IInv, NEW r \in requests, Sign(r)
  PROVE  IInv'
  <1>1. TypeOK /\ RequestInv /\ VoteInv /\ BurntInv /\ PublishedInv /\ RoundInv /\ ListInv
    BY DEF IInv
  <1>2. /\ r \in Request /\ r.to \in Member /\ r.version \in Version
        /\ counter' \in [Member -> Nat]
        /\ \A m \in Member : counter'[m] >= counter[m]
        /\ counter[r.to] <= r.version /\ counter'[r.to] = r.version + 1
    BY <1>1, BurnFacts DEF Sign
  <1>3. UNCHANGED <<round, record, signers>>
    BY DEF Sign
  <1>4. CASE r.agg = NoAggregator
    <2>1. requests' = requests \ {r}
      BY <1>4 DEF Sign
    <2>2. TypeOK'
      BY <1>1, <1>2, <1>3, <2>1 DEF TypeOK
    <2> QED BY <1>2, <1>3, <2>1, <2>2, RequestsPreserve
  <1> SUFFICES ASSUME r.agg # NoAggregator PROVE IInv'
    BY <1>4
  <1> DEFINE vote == [r EXCEPT !.stage = "signed"]
  <1>5. /\ vote \in Request /\ vote.stage = "signed" /\ vote.agg = r.agg
        /\ vote.to = r.to /\ vote.version = r.version
    BY <1>2 DEF Request
  <1>6. requests' = (requests \ {r}) \cup {vote}
    BY DEF Sign
  <1> HIDE DEF vote
  <1>7. TypeOK'
    BY <1>1, <1>2, <1>3, <1>5, <1>6 DEF TypeOK
  <1>8. RequestInv'
    BY <1>1, <1>3, <1>5, <1>6 DEF RequestInv
  <1>9. counter[r.to] \in Nat /\ r.version \in Nat /\ ~(counter[r.to] > r.version)
    BY <1>1, <1>2 DEF TypeOK, Version
  <1>10. \A q \in requests : q.stage = "signed" => ~(q.to = r.to /\ q.version = r.version)
    BY <1>1, <1>9 DEF BurntInv
  <1>11. \A a \in Aggregator : round[a].version = r.version => r.to \notin round[a].quorum
    BY <1>1, <1>9 DEF BurntInv
  <1>12. r.to \notin signers[r.version]
    BY <1>1, <1>2, <1>9 DEF BurntInv
  <1>13. VoteInv'
    <2>1. \A p, q \in requests' :
            p.stage = "signed" /\ q.stage = "signed" /\ p.to = q.to /\ p.version = q.version => p = q
      BY <1>1, <1>5, <1>6, <1>10 DEF VoteInv
    <2>2. \A q \in requests' : q.stage = "signed" =>
            /\ q.to \notin signers[q.version]
            /\ \A a \in Aggregator : round[a].version = q.version => q.to \notin round[a].quorum
      BY <1>1, <1>5, <1>6, <1>11, <1>12 DEF VoteInv
    <2> QED BY <1>1, <1>3, <2>1, <2>2 DEF VoteInv
  <1>14. BurntInv'
    <2>1. \A m \in Member : \A v \in Version : counter[m] > v => counter'[m] > v
      BY <1>1, <1>2 DEF TypeOK, Version
    <2>2. \A q \in requests' : q.stage = "signed" => counter'[q.to] > q.version
      <3> SUFFICES ASSUME NEW q \in requests', q.stage = "signed"
                   PROVE  counter'[q.to] > q.version
        OBVIOUS
      <3>1. CASE q = vote
        BY <1>2, <1>5, <1>9, <3>1
      <3>2. CASE q \in requests
        <4>1. q.to \in Member /\ q.version \in Version
          BY <1>1, <3>2 DEF TypeOK, Request
        <4> QED BY <1>1, <2>1, <3>2, <4>1 DEF BurntInv
      <3> QED BY <1>6, <3>1, <3>2
    <2>3. \A a \in Aggregator : \A m \in round[a].quorum : counter'[m] > round[a].version
      <3> SUFFICES ASSUME NEW a \in Aggregator, NEW m \in round[a].quorum
                   PROVE  counter'[m] > round[a].version
        OBVIOUS
      <3>1. round[a] \in Round
        BY <1>1 DEF TypeOK
      <3>2. m \in Member /\ round[a].version \in Version
        BY <3>1 DEF Round
      <3> QED BY <1>1, <2>1, <3>2 DEF BurntInv
    <2>4. \A v \in Version : \A m \in signers[v] : counter'[m] > v
      <3> SUFFICES ASSUME NEW v \in Version, NEW m \in signers[v]
                   PROVE  counter'[m] > v
        OBVIOUS
      <3>1. signers[v] \in SUBSET Member
        BY <1>1 DEF TypeOK
      <3> QED BY <1>1, <2>1, <3>1 DEF BurntInv
    <2> QED BY <1>3, <2>2, <2>3, <2>4 DEF BurntInv
  <1>15. PublishedInv' /\ ListInv'
    BY <1>1, <1>3 DEF PublishedInv, ListInv
  <1>16. RoundInv'
    BY <1>1, <1>3 DEF RoundInv, Registry!OneChange
  <1> QED BY <1>7, <1>8, <1>13, <1>14, <1>15, <1>16 DEF IInv

\* Collecting moves a vote from the reply into the round's quorum.
LEMMA CollectPreserves ==
  ASSUME IInv, NEW a \in Aggregator, NEW r \in requests, Collect(a, r)
  PROVE  IInv'
  <1>1. TypeOK /\ RequestInv /\ VoteInv /\ BurntInv /\ PublishedInv /\ RoundInv /\ ListInv
    BY DEF IInv
  <1> DEFINE Q == round[a].quorum \cup {r.to}
  <1>2. r.agg = a /\ r.stage = "signed" /\ round[a].phase = "collect"
        /\ UNCHANGED <<counter, record, signers>> /\ requests' = requests \ {r}
    BY DEF Collect
  <1>3. round[a] \in Round /\ r \in Request /\ a # NoAggregator
    BY <1>1, MemberAssumption DEF TypeOK
  <1>4. r.to \in Member /\ Q \in SUBSET Member
    BY <1>3 DEF Round, Request
  <1>5. round[a].version = r.version
    BY <1>1, <1>2, <1>3 DEF RequestInv
  <1>6. PICK ph \in {"collect", "publish"} :
          /\ round' = [round EXCEPT ![a].quorum = Q, ![a].phase = ph]
          /\ ph = "publish" => Cardinality(Q) >= Threshold
    BY DEF Collect
  <1>7. /\ round' \in [Aggregator -> Round]
        /\ round'[a].quorum = Q /\ round'[a].phase = ph
        /\ round'[a].version = round[a].version /\ round'[a].list = round[a].list
        /\ \A b \in Aggregator : b # a => round'[b] = round[b]
    <2>1. round \in [Aggregator -> Round]
      BY <1>1 DEF TypeOK
    <2> HIDE DEF Q
    <2> DEFINE new == [round[a] EXCEPT !.quorum = Q, !.phase = ph]
    <2>2. /\ new \in Round /\ new.quorum = Q /\ new.phase = ph
          /\ new.version = round[a].version /\ new.list = round[a].list
      BY <1>3, <1>4 DEF Round
    <2>3. round' = [round EXCEPT ![a] = new]
      BY <1>6, <2>1
    <2> HIDE DEF new
    <2> QED BY <2>1, <2>2, <2>3
  <1>8. TypeOK'
    BY <1>1, <1>2, <1>7 DEF TypeOK
  <1>9. RequestInv'
    <2> SUFFICES ASSUME NEW q \in requests'
                 PROVE  /\ q.agg # NoAggregator =>
                             round'[q.agg].phase # "idle" /\ round'[q.agg].version = q.version
                        /\ q.stage = "signed" => q.agg # NoAggregator
      BY DEF RequestInv
    <2>1. q \in requests
      BY <1>2
    <2>2. q.agg \in Aggregator \cup {NoAggregator}
      BY <1>1, <2>1 DEF TypeOK, Request
    <2> QED BY <1>1, <1>6, <1>7, <2>1, <2>2 DEF RequestInv
  <1>10. VoteInv'
    <2>1. \A p, q \in requests' :
            p.stage = "signed" /\ q.stage = "signed" /\ p.to = q.to /\ p.version = q.version => p = q
      BY <1>1, <1>2 DEF VoteInv
    <2>2. \A q \in requests' : q.stage = "signed" /\ q.version = r.version => q.to # r.to
      BY <1>1, <1>2 DEF VoteInv
    <2>3. \A q \in requests' : q.stage = "signed" =>
            /\ q.to \notin signers[q.version]
            /\ \A b \in Aggregator : round'[b].version = q.version => q.to \notin round'[b].quorum
      BY <1>1, <1>2, <1>5, <1>7, <2>2 DEF VoteInv
    <2>4. \A b \in Aggregator : round'[b].quorum \cap signers[round'[b].version] = {}
      BY <1>1, <1>2, <1>5, <1>7 DEF VoteInv
    <2>5. \A b \in Aggregator : b # a /\ round[b].version = round[a].version =>
            r.to \notin round[b].quorum /\ round[a].quorum \cap round[b].quorum = {}
      BY <1>1, <1>2, <1>5 DEF VoteInv
    <2>6. \A b, c \in Aggregator : b # c /\ round'[b].version = round'[c].version =>
            round'[b].quorum \cap round'[c].quorum = {}
      <3> SUFFICES ASSUME NEW b \in Aggregator, NEW c \in Aggregator,
                          b # c, round'[b].version = round'[c].version
                   PROVE  round'[b].quorum \cap round'[c].quorum = {}
        OBVIOUS
      <3>1. CASE b = a
        BY <1>7, <2>5, <3>1
      <3>2. CASE c = a
        BY <1>7, <2>5, <3>2
      <3>3. CASE b # a /\ c # a
        BY <1>1, <1>7, <3>3 DEF VoteInv
      <3> QED BY <3>1, <3>2, <3>3
    <2> QED BY <1>2, <2>1, <2>3, <2>4, <2>6 DEF VoteInv
  <1>11. BurntInv'
    <2>1. counter[r.to] > round[a].version
      BY <1>1, <1>2, <1>5 DEF BurntInv
    <2>2. \A b \in Aggregator : \A m \in round'[b].quorum : counter[m] > round'[b].version
      BY <1>1, <1>7, <2>1 DEF BurntInv
    <2> QED BY <1>1, <1>2, <2>2 DEF BurntInv
  <1>12. PublishedInv'
    BY <1>1, <1>2 DEF PublishedInv
  <1>13. RoundInv'
    <2> SUFFICES ASSUME NEW b \in Aggregator
                 PROVE  /\ round'[b].phase = "publish" => Cardinality(round'[b].quorum) >= Threshold
                        /\ round'[b].phase # "idle" => round'[b].version <= record'.version + 1
                        /\ round'[b].phase # "idle" /\ round'[b].version = record'.version + 1 =>
                             Registry!OneChange(record.list, round[b].list)'
      BY DEF RoundInv
    <2>1. round'[b].version = round[b].version /\ round'[b].list = round[b].list
          /\ record' = record
      BY <1>2, <1>7
    <2>2. round'[b].phase # "idle" => round[b].phase # "idle"
      BY <1>2, <1>7
    <2>3. round'[b].phase = "publish" => Cardinality(round'[b].quorum) >= Threshold
      BY <1>1, <1>6, <1>7 DEF RoundInv
    <2>4. Registry!OneChange(record.list, round[b].list) =>
            Registry!OneChange(record'.list, round'[b].list)
      BY <2>1
    <2> QED BY <1>1, <2>1, <2>2, <2>3, <2>4 DEF RoundInv
  <1>14. ListInv'
    BY <1>1, <1>2, <1>7 DEF ListInv
  <1> QED BY <1>8, <1>9, <1>10, <1>11, <1>12, <1>13, <1>14 DEF IInv

\* Publishing moves the votes of one quorum into the record.
LEMMA PublishPreserves ==
  ASSUME IInv, NEW a \in Aggregator, Publish(a)
  PROVE  IInv'
  <1>1. TypeOK /\ RequestInv /\ VoteInv /\ BurntInv /\ PublishedInv /\ RoundInv /\ ListInv
    BY DEF IInv
  <1> DEFINE v == round[a].version
             Q == round[a].quorum
             L == round[a].list
  <1>2. v = record.version + 1 /\ Cardinality(Q) >= Threshold
    BY <1>1, PublisherIsNext DEF Publish, RoundInv
  <1>3. round[a] \in Round
    BY <1>1 DEF TypeOK
  <1>4. v \in Version /\ Q \in SUBSET Member /\ L \in List
    BY <1>3 DEF Round
  <1>5. record' = [version |-> v, list |-> L] /\ signers' = [signers EXCEPT ![v] = Q]
        /\ round' = [round EXCEPT ![a] = IdleRound] /\ requests' = EndRound(a, requests)
        /\ counter' = counter
    BY DEF Publish
  <1>6. record.version \in Int
    BY <1>1 DEF TypeOK, Nothing
  <1>7. Q \cap signers[v] = {} /\ \A m \in Q : counter[m] > v
    BY <1>1 DEF VoteInv, BurntInv
  <1>8. \A b \in Aggregator : b # a /\ round[b].version = v => round[b].quorum \cap Q = {}
    BY <1>1 DEF VoteInv
  <1>9. \A r \in requests : r.stage = "signed" /\ r.version = v => r.to \notin Q
    BY <1>1 DEF VoteInv
  <1>10. \A c \in L : c.version <= v
    BY <1>1 DEF ListInv
  <1>11. /\ requests' \in SUBSET Request
         /\ \A r \in requests' :
              r.stage = "signed" \/ r.agg # NoAggregator => r \in requests /\ r.agg # a
    BY <1>1, <1>5, EndRoundFacts DEF TypeOK
  <1> HIDE DEF v, Q, L
  <1>12. record'.version = v /\ record'.list = L
    BY <1>5
  <1>13. signers'[v] = Q /\ \A w \in Version : w # v => signers'[w] = signers[w]
    BY <1>1, <1>4, <1>5 DEF TypeOK
  <1>14. round'[a] = IdleRound /\ \A b \in Aggregator : b # a => round'[b] = round[b]
    BY <1>1, <1>5 DEF TypeOK
  <1>15. IdleRound \in Round /\ IdleRound.quorum = {} /\ IdleRound.phase = "idle"
         /\ IdleRound.list = {}
    BY VersionAssumption DEF IdleRound, Round, Version, List
  <1>16. TypeOK'
    <2>1. record' \in [version : Nothing .. MaxVersion, list : List]
      BY <1>4, <1>5 DEF Version, Nothing
    <2> QED BY <1>1, <1>4, <1>5, <1>11, <1>15, <2>1 DEF TypeOK
  <1>17. RequestInv'
    <2> SUFFICES ASSUME NEW r \in requests'
                 PROVE  /\ r.agg # NoAggregator =>
                             round'[r.agg].phase # "idle" /\ round'[r.agg].version = r.version
                        /\ r.stage = "signed" => r.agg # NoAggregator
      BY DEF RequestInv
    <2>1. r.agg \in Aggregator \cup {NoAggregator}
      BY <1>11 DEF Request
    <2> QED BY <1>1, <1>11, <1>14, <2>1 DEF RequestInv
  <1>18. VoteInv'
    <2>1. \A r, q \in requests' :
            r.stage = "signed" /\ q.stage = "signed" /\ r.to = q.to /\ r.version = q.version => r = q
      BY <1>1, <1>11 DEF VoteInv
    <2>2. \A r \in requests' : r.stage = "signed" => r.to \notin signers'[r.version]
      <3> SUFFICES ASSUME NEW r \in requests', r.stage = "signed"
                   PROVE  r.to \notin signers'[r.version]
        OBVIOUS
      <3>1. r \in requests /\ r.version \in Version
        BY <1>11 DEF Request
      <3>2. CASE r.version = v
        BY <1>9, <1>13, <3>1, <3>2
      <3>3. CASE r.version # v
        BY <1>1, <1>13, <3>1, <3>3 DEF VoteInv
      <3> QED BY <3>2, <3>3
    <2>3. \A r \in requests' : r.stage = "signed" =>
            \A b \in Aggregator : round'[b].version = r.version => r.to \notin round'[b].quorum
      BY <1>1, <1>11, <1>14, <1>15 DEF VoteInv
    <2>4. \A b \in Aggregator : round'[b].quorum \cap signers'[round'[b].version] = {}
      <3> SUFFICES ASSUME NEW b \in Aggregator, b # a
                   PROVE  round[b].quorum \cap signers'[round[b].version] = {}
        BY <1>14, <1>15
      <3>1. round[b] \in Round
        BY <1>1 DEF TypeOK
      <3>2. round[b].version \in Version
        BY <3>1 DEF Round
      <3> QED BY <1>1, <1>8, <1>13, <3>2 DEF VoteInv
    <2>5. \A b, c \in Aggregator : b # c /\ round'[b].version = round'[c].version =>
            round'[b].quorum \cap round'[c].quorum = {}
      BY <1>1, <1>14, <1>15 DEF VoteInv
    <2> QED BY <2>1, <2>2, <2>3, <2>4, <2>5 DEF VoteInv
  <1>19. BurntInv'
    <2>1. \A r \in requests' : r.stage = "signed" => counter'[r.to] > r.version
      BY <1>1, <1>5, <1>11 DEF BurntInv
    <2>2. \A b \in Aggregator : \A m \in round'[b].quorum : counter'[m] > round'[b].version
      BY <1>1, <1>5, <1>14, <1>15 DEF BurntInv
    <2>3. \A w \in Version : \A m \in signers'[w] : counter'[m] > w
      BY <1>1, <1>5, <1>7, <1>13 DEF BurntInv
    <2> QED BY <2>1, <2>2, <2>3 DEF BurntInv
  <1>20. PublishedInv'
    <2> SUFFICES ASSUME NEW w \in Version
                 PROVE  /\ w <= v => Cardinality(signers'[w]) >= Threshold
                        /\ w > v => signers'[w] = {}
      BY <1>12 DEF PublishedInv
    <2>1. CASE w = v
      BY <1>2, <1>4, <1>13, <2>1 DEF Version
    <2>2. CASE w # v
      <3>1. (w <= v => w <= record.version) /\ (w > v => w > record.version)
        BY <1>2, <1>6, <2>2 DEF Version
      <3> QED BY <1>1, <1>13, <2>2, <3>1 DEF PublishedInv
    <2> QED BY <2>1, <2>2
  <1>21. RoundInv'
    <2> SUFFICES ASSUME NEW b \in Aggregator
                 PROVE  /\ round'[b].phase = "publish" => Cardinality(round'[b].quorum) >= Threshold
                        /\ round'[b].phase # "idle" =>
                             round'[b].version <= v + 1 /\ round'[b].version # v + 1
      BY <1>12 DEF RoundInv
    <2>1. CASE b = a
      BY <1>14, <1>15, <2>1
    <2>2. CASE b # a
      <3>1. round'[b] = round[b] /\ round[b] \in Round
        BY <1>1, <1>14, <2>2 DEF TypeOK
      <3>2. round[b].version \in Int
        BY <3>1 DEF Round, Version
      <3>3. round[b].phase # "idle" => round[b].version <= record.version + 1
        BY <1>1 DEF RoundInv
      <3>4. round[b].phase = "publish" => Cardinality(round[b].quorum) >= Threshold
        BY <1>1 DEF RoundInv
      <3> QED BY <1>2, <1>6, <3>1, <3>2, <3>3, <3>4
    <2> QED BY <2>1, <2>2
  <1>22. ListInv'
    BY <1>1, <1>10, <1>12, <1>14, <1>15 DEF ListInv
  <1> QED BY <1>16, <1>17, <1>18, <1>19, <1>20, <1>21, <1>22 DEF IInv

-----------------------------------------------------------------------------
\* Every step keeps the invariant, one case per action.
LEMMA Inductive == IInv /\ [Next]_vars => IInv'
  <1> SUFFICES ASSUME IInv, [Next]_vars PROVE IInv'
    OBVIOUS
  <1>1. CASE UNCHANGED vars
    <2>1. UNCHANGED <<counter, round, requests, record, signers>>
      BY <1>1 DEF vars
    <2>2. TypeOK' /\ RequestInv'
      BY <2>1 DEF IInv, TypeOK, RequestInv
    <2>3. \A m \in Member : counter'[m] >= counter[m]
      BY <2>1 DEF IInv, TypeOK
    <2> QED BY <2>1, <2>2, <2>3, NoNewVote
  <1>2. CASE \E a \in Aggregator : Begin(a)
    BY <1>2, BeginPreserves DEF Begin
  <1>3. CASE \E a \in Aggregator : \E r \in requests : Collect(a, r)
    BY <1>3, CollectPreserves
  <1>4. CASE \E a \in Aggregator : Abandon(a) \/ Publish(a) \/ PublishFails(a)
    BY <1>4, AbandonPreserves, PublishPreserves
  <1>5. CASE \E r \in requests :
               CheckProposal(r) \/ Sign(r) \/ Abstain(r) \/ SignFails(r) \/ Drop(r)
    BY <1>5, CheckPreserves, SignPreserves, SignFailsPreserves
  <1>6. CASE \E m \in Member : Restart(m)
    BY <1>6, RestartPreserves
  <1> QED BY <1>1, <1>2, <1>3, <1>4, <1>5, <1>6 DEF Next

\* The inductive invariant, from which the theorems below follow.
THEOREM InvariantHolds == Spec => []IInv
  BY Initial, Inductive, PTL DEF Spec

\* Every variable keeps its type; in particular no version overflows a u32 and
\* every counted signature comes from a member.
THEOREM TypeCorrect == Spec => []TypeOK
  <1>1. IInv => TypeOK
    BY DEF IInv
  <1> QED BY <1>1, InvariantHolds, PTL

\* At most one aggregator holds a quorum at a time, so publish() never has a
\* competitor for its temporary file.
THEOREM OnlyOnePublisher == Spec => []OnePublisher
  <1>1. IInv => OnePublisher
    BY PublisherIsUnique
  <1> QED BY <1>1, InvariantHolds, PTL

\* The committee implements the registry: each published record is the next
\* version and one change away from the one before it, in every committee with
\* 2t > N, under every fault of the model.
THEOREM RoundsImplementRegistry == Spec => ImplementsRegistry
  <1>1. Init => Registry!Init
    BY DEF Init, Registry!Init, NoRecord, Nothing, Registry!Nothing
  <1>2. IInv /\ [Next]_vars => [Registry!Update]_record
    <2> SUFFICES ASSUME IInv, [Next]_vars, record' # record PROVE Registry!Update
      OBVIOUS
    <2>1. PICK a \in Aggregator : Publish(a)
      BY DEF Next, vars, Begin, BeginRound, Collect, Abandon, PublishFails, CheckProposal,
         Sign, Abstain, SignFails, Drop, Restart
    <2>2. round[a].phase = "publish" /\ round[a].version = record.version + 1
      BY <2>1, PublisherIsNext DEF Publish
    <2>3. Registry!OneChange(record.list, round[a].list)
      BY <2>2 DEF IInv, RoundInv
    <2>4. record'.version = record.version + 1 /\ record'.list = round[a].list
      BY <2>1, <2>2 DEF Publish
    <2> QED BY <2>3, <2>4 DEF Registry!Update
  <1> QED BY <1>1, <1>2, InvariantHolds, PTL DEF Spec, ImplementsRegistry, Registry!Spec
=============================================================================
