---------------------------- MODULE Verification ----------------------------
(***************************************************************************)
(* What a published record proves (src/protocol, src/node, mldsa/src): the *)
(* trust anchor, the statement its members sign, the three forms in which  *)
(* their signatures are published (raw XMSS, SNARK aggregate, ML-DSA), and *)
(* the predicates that decide whether a record is authentic.               *)
(*                                                                         *)
(* Members sign the bytes they are handed, at a slot that their counter    *)
(* has not passed; anybody may put any of the signatures that exist, in    *)
(* any arrangement, into a record and offer it to a verifier.  Freshness   *)
(* is another decision (Freshness).                                        *)
(*                                                                         *)
(* The cryptography is symbolic: a hash is the value it is taken of, a     *)
(* signature verifies only for the key, message and slot it was made with, *)
(* and an aggregate proof that verifies was computed from signatures that  *)
(* exist.  SSZ is seen through its checks.  Left out: sizes.               *)
(***************************************************************************)
EXTENDS Integers, Sequences, FiniteSets

CONSTANTS
  Key,             \* XMSS key pairs, of members and of others
  MlDsaKey,        \* ML-DSA key pairs
  List,            \* status lists
  Wire,            \* anchors as they may be encoded, well formed or not
  MaxCommittee,    \* MAX_COMMITTEE_SIZE
  MaxU32,          \* largest version and slot
  MaxSignatures    \* bound: signatures that are made

ASSUME BoundAssumption == MaxU32 \in Nat /\ MaxCommittee \in Nat /\ MaxSignatures \in Nat
ASSUME KeyAssumption == Key \cap MlDsaKey = {}

U32 == 0 .. MaxU32
NoSlot == -1                    \* checked_add overflowed
Stateless == -2                 \* an ML-DSA signature has no slot

\* The tags of a record: 1 is WOTS/XMSS, 2 is ML-DSA, 0 is retired.
Tag == 0 .. 2
WotsXmss == 1
MlDsa65 == 2

\* The CommitteeWire of one scheme or the other; only XMSS has a genesis slot.
AnchorWire == [tag : {WotsXmss, MlDsa65}, members : Seq(Key \cup MlDsaKey), t : Nat, genesis : U32]
ASSUME WireAssumption == Wire \subseteq AnchorWire

VARIABLES
  next,            \* the slot counter of every XMSS key
  signed,          \* signatures that exist
  accepted         \* records that a verifier took for authentic

vars == <<next, signed, accepted>>

\* The bytes members sign: algorithm, anchor, version and list, domain separated.
Message == [tag : {WotsXmss, MlDsa65}, anchor : Wire, list : List, version : U32]
Signature == [key : Key \cup MlDsaKey, message : Message, slot : U32 \cup {Stateless}]

Form == {"raw", "snark", "mldsa"}
Accepted == [form : Form, anchor : Wire, list : List, version : U32]

TypeOK ==
  /\ next \in [Key -> 0 .. MaxU32 + 1]
  /\ signed \in SUBSET Signature
  /\ accepted \in SUBSET Accepted

Init ==
  /\ next = [k \in Key |-> 0]
  /\ signed = {}
  /\ accepted = {}

-----------------------------------------------------------------------------
(* The anchor                                                              *)

N(a) == Len(a.members)
MembersOf(a) == {a.members[i] : i \in 1 .. N(a)}

\* Mutant: a key may stand for several members.
HasDuplicateMembersIgnored(a) == FALSE

HasDuplicateMembers(a) ==
  \E i, j \in 1 .. N(a) : i # j /\ a.members[i] = a.members[j]

\* Committee::new and from_bytes of XMSS.
CommitteeDecodes(a) ==
  /\ a.tag = WotsXmss /\ MembersOf(a) \subseteq Key
  /\ N(a) <= MaxCommittee
  /\ a.t \in 1 .. N(a)
  /\ ~HasDuplicateMembers(a)

\* Committee::new and from_bytes of ML-DSA.
MlDsaCommitteeDecodes(a) ==
  /\ a.tag = MlDsa65 /\ MembersOf(a) \subseteq MlDsaKey
  /\ N(a) \in 1 .. MaxCommittee
  /\ ~HasDuplicateMembers(a)
  /\ a.t \in 1 .. N(a)

\* The anchors that members and verifiers can hold.
Trusted == {a \in Wire : CommitteeDecodes(a) \/ MlDsaCommitteeDecodes(a)}

SlotFor(a, version) ==
  IF a.genesis + version <= MaxU32 THEN a.genesis + version ELSE NoSlot

\* message_for: the fingerprint is a hash of the whole anchor.
MessageFor(a, tag, list, version) ==
  [tag |-> tag, anchor |-> a, list |-> list, version |-> version]

\* ML-DSA's statement_for, whose tag is fixed.
StatementFor(a, list, version) == MessageFor(a, MlDsa65, list, version)

-----------------------------------------------------------------------------
(* Signatures                                                              *)

\* The schemes' verification functions.
XmssVerify(k, message, sig, slot) == sig = [key |-> k, message |-> message, slot |-> slot]
MlDsaVerify(k, message, sig) == XmssVerify(k, message, sig, Stateless)

\* VerifierNode::verify: one signature of one claimed member.
VerifyOne(a, k, message, sig, slot) ==
  k \in MembersOf(a) /\ XmssVerify(k, message, sig, slot)

-----------------------------------------------------------------------------
(* The raw forms                                                           *)

\* The published container; its bitmap is a width and the indices that are set.
RawRecord(tag, list, version, width, bits, sigs) ==
  [tag |-> tag, list |-> list, version |-> version,
   width |-> width, bits |-> bits, sigs |-> sigs]

\* The position of a set bit's signature: signer_indices ascend.
Rank(bits, i) == Cardinality({j \in bits : j <= i})

\* new refuses an index that occurs twice or lies outside the committee.
NewAllowed(n, pairs) ==
  /\ \A p, q \in pairs : p[1] = q[1] => p = q
  /\ \A p \in pairs : p[1] < n
  /\ n <= MaxCommittee

\* MlDsaStatusList::new.
MlDsaNewAllowed(n, pairs) ==
  /\ n \in 1 .. MaxCommittee
  /\ Cardinality(pairs) <= n
  /\ \A p, q \in pairs : p[1] = q[1] => p = q
  /\ \A p \in pairs : p[1] < n

\* Mutant: the signatures are not brought into the order of the bitmap.
StatusListNewUnsorted(tag, list, version, n, pairs) ==
  LET bits == {p[1] : p \in pairs} IN
  RawRecord(tag, list, version, n, bits,
            [r \in 1 .. Cardinality(bits) |->
               (CHOOSE p \in pairs : Rank(bits, p[1]) = Cardinality(bits) + 1 - r)[2]])

\* new: pairs of an index and a signature, sorted by index.
StatusListNew(tag, list, version, n, pairs) ==
  LET bits == {p[1] : p \in pairs} IN
  RawRecord(tag, list, version, n, bits,
            [r \in 1 .. Cardinality(bits) |->
               (CHOOSE p \in pairs : Rank(bits, p[1]) = r)[2]])

\* StatusList::from_bytes.
RawDecodes(r) ==
  /\ r.tag = WotsXmss
  /\ r.width <= MaxCommittee /\ r.bits \subseteq 0 .. r.width - 1
  /\ Cardinality(r.bits) = Len(r.sigs)

\* MlDsaStatusList::from_bytes.
MlDsaDecodes(r) ==
  /\ r.tag = MlDsa65
  /\ r.width \in 1 .. MaxCommittee /\ r.bits \subseteq 0 .. r.width - 1
  /\ Len(r.sigs) = Cardinality(r.bits)

\* VerifierNode::verify_status_list.
VerifyStatusList(a, r) ==
  /\ a.t # 0
  /\ r.width = N(a)
  /\ Cardinality(r.bits) >= a.t /\ Cardinality(r.bits) = Len(r.sigs)
  /\ SlotFor(a, r.version) # NoSlot
  /\ \A i \in r.bits :
       XmssVerify(a.members[i + 1], MessageFor(a, r.tag, r.list, r.version),
                  r.sigs[Rank(r.bits, i)], SlotFor(a, r.version))

\* mldsa RawVerifier::verify_status_list.
MlDsaVerifyStatusList(a, r) ==
  /\ r.width = N(a)
  /\ Cardinality(r.bits) >= a.t /\ Cardinality(r.bits) = Len(r.sigs)
  /\ \A i \in r.bits :
       MlDsaVerify(a.members[i + 1], StatementFor(a, r.list, r.version),
                   r.sigs[Rank(r.bits, i)])

-----------------------------------------------------------------------------
(* The SNARK form                                                          *)

\* A leanVM aggregate: the signatures it claims (a key, message and slot each),
\* whether it also claims SPHINCS signatures, whether the bytes are its canonical
\* encoding, and whether its body is what the prover computed.
Aggregate(claims, sphincs, canonical, body) ==
  [claims |-> claims, sphincs |-> sphincs, canonical |-> canonical, body |-> body]

SnarkRecord(tag, list, version, proof) ==
  [tag |-> tag, list |-> list, version |-> version, proof |-> proof]

\* agg.verify: a proof computed from signatures that exist.
AggregateVerifies(agg) == agg.body /\ agg.claims \subseteq signed

\* aggregate: one proof over the given keys, message and slot.
MakeAggregate(keys, message, slot) ==
  Aggregate({[key |-> k, message |-> message, slot |-> slot] : k \in keys}, FALSE, TRUE, TRUE)

\* make_proof: message and slot come from the anchor.
MakeProof(a, tag, keys, list, version) ==
  MakeAggregate(keys, MessageFor(a, tag, list, version), SlotFor(a, version))

\* xmss_signers has one entry for every slot and message, with its sorted keys.
XmssSigners(agg) == {[slot |-> c.slot, message |-> c.message] : c \in agg.claims}
PubKeys(agg) == {c.key : c \in agg.claims}

\* from_bytes and proof.
SnarkDecodes(r) == r.tag = WotsXmss /\ r.proof.canonical

\* Mutant: the quorum chooses its slot.
CheckAnySlot(a, r) ==
  LET agg == r.proof IN
  /\ ~agg.sphincs
  /\ \E group \in XmssSigners(agg) :
       /\ XmssSigners(agg) = {group}
       /\ PubKeys(agg) \subseteq MembersOf(a)
       /\ group.message = MessageFor(a, r.tag, r.list, r.version)
  /\ Cardinality(PubKeys(agg)) >= a.t
  /\ AggregateVerifies(agg)

\* PQSNARKVerifierModule::check.
Check(a, r) ==
  LET agg == r.proof IN
  /\ ~agg.sphincs
  /\ \E group \in XmssSigners(agg) :
       /\ XmssSigners(agg) = {group}
       /\ PubKeys(agg) \subseteq MembersOf(a)
       /\ group.message = MessageFor(a, r.tag, r.list, r.version)
       /\ SlotFor(a, r.version) = group.slot
  /\ Cardinality(PubKeys(agg)) >= a.t
  /\ AggregateVerifies(agg)

-----------------------------------------------------------------------------
(* Actions                                                                 *)

\* Mutant: the counter moves two slots.
SignAtTwice(k, message, slot) ==
  /\ Cardinality(signed) < MaxSignatures
  /\ slot >= next[k]
  /\ next' = [next EXCEPT ![k] = slot + 2]
  /\ signed' = signed \cup {[key |-> k, message |-> message, slot |-> slot]}
  /\ UNCHANGED accepted

\* SignerNode::sign_at, or sign where the slot is the next one: the slot is burned
\* and the key signs the bytes it is handed.  Signing that fails burns the slot too;
\* that is a signature nobody uses.
SignAt(k, message, slot) ==
  /\ Cardinality(signed) < MaxSignatures
  /\ slot >= next[k]
  /\ next' = [next EXCEPT ![k] = slot + 1]
  /\ signed' = signed \cup {[key |-> k, message |-> message, slot |-> slot]}
  /\ UNCHANGED accepted

\* MlDsa65Signer::sign: nothing is spent.
MlDsaSign(k, message) ==
  /\ Cardinality(signed) < MaxSignatures
  /\ signed' = signed \cup {[key |-> k, message |-> message, slot |-> Stateless]}
  /\ UNCHANGED <<next, accepted>>

Take(form, a, r) ==
  /\ accepted' = accepted \cup
       {[form |-> form, anchor |-> a, list |-> r.list, version |-> r.version]}
  /\ UNCHANGED <<next, signed>>

\* A raw record that decodes and verifies.
AcceptRaw(a, r) == RawDecodes(r) /\ VerifyStatusList(a, r) /\ Take("raw", a, r)

\* An ML-DSA record that decodes and verifies.
AcceptMlDsa(a, r) == MlDsaDecodes(r) /\ MlDsaVerifyStatusList(a, r) /\ Take("mldsa", a, r)

\* A SNARK record that decodes and verifies.
AcceptSnark(a, r) == SnarkDecodes(r) /\ Check(a, r) /\ Take("snark", a, r)

\* What may be offered: any arrangement of signatures that exist, and aggregates
\* that claim some of them and possibly one more.
Bitmaps == UNION {{[width |-> w, bits |-> b] : b \in SUBSET (0 .. w - 1)} : w \in 0 .. MaxCommittee}
Arrangements == UNION {[1 .. m -> signed] : m \in 0 .. MaxCommittee}
Claims(message) ==
  {c \cup d : c \in SUBSET signed,
     d \in {{}} \cup {{[key |-> k, message |-> message, slot |-> n]} : k \in Key, n \in U32}}

OfferRaw(a, tag, list, version) ==
  \E m \in Bitmaps, s \in Arrangements :
    LET r == RawRecord(tag, list, version, m.width, m.bits, s)
    IN \/ CommitteeDecodes(a) /\ AcceptRaw(a, r)
       \/ MlDsaCommitteeDecodes(a) /\ AcceptMlDsa(a, r)

OfferSnark(a, tag, list, version) ==
  \E c \in Claims(MessageFor(a, WotsXmss, list, version)), x, y, z \in BOOLEAN :
    /\ CommitteeDecodes(a)
    /\ AcceptSnark(a, SnarkRecord(tag, list, version, Aggregate(c, x, y, z)))

Next ==
  \E a \in Trusted, l \in List, v \in U32 :
    \/ /\ CommitteeDecodes(a)
       /\ \E k \in Key, slot \in U32 : SignAt(k, MessageFor(a, WotsXmss, l, v), slot)
    \/ MlDsaCommitteeDecodes(a) /\ \E k \in MlDsaKey : MlDsaSign(k, StatementFor(a, l, v))
    \/ \E tag \in Tag : OfferRaw(a, tag, l, v) \/ OfferSnark(a, tag, l, v)

Spec == Init /\ [][Next]_vars

-----------------------------------------------------------------------------
(* Properties                                                              *)

\* The members whose signature over exactly this statement exists, at the slot
\* that the anchor derives for the version.
SignersOf(a, list, version) ==
  {k \in MembersOf(a) :
     [key |-> k, message |-> MessageFor(a, a.tag, list, version),
      slot |-> IF a.tag = MlDsa65 THEN Stateless ELSE SlotFor(a, version)] \in signed}

\* A record that a verifier takes for authentic, in any form, was signed by at least
\* t distinct members of that very anchor, for that list and that version.
QuorumSigned ==
  \A r \in accepted : Cardinality(SignersOf(r.anchor, r.list, r.version)) >= r.anchor.t

\* XMSS, with a threshold above half of the committee: whatever the members were
\* handed to sign, no two accepted records give a version two lists, in any form.
OneListPerVersion ==
  \A r, s \in accepted :
    /\ r.anchor = s.anchor /\ r.version = s.version
    /\ r.anchor.tag = WotsXmss /\ 2 * r.anchor.t > N(r.anchor)
    => r.list = s.list

\* What an aggregator counts for a member's index: a signature that verifies
\* against the key the anchor holds there.
Counted(a, list, version) ==
  {p \in (0 .. N(a) - 1) \X signed :
     IF a.tag = MlDsa65
     THEN MlDsaVerify(a.members[p[1] + 1], StatementFor(a, list, version), p[2])
     ELSE VerifyOne(a, a.members[p[1] + 1], MessageFor(a, WotsXmss, list, version), p[2],
                    SlotFor(a, version))}

\* Any t counted signatures are enough, in every form: what the constructors make
\* of them decodes and verifies, whoever the members are and in whatever order
\* their answers came.
QuorumSuffices ==
  \A a \in Trusted, l \in List, v \in U32 :
    \A pairs \in SUBSET Counted(a, l, v) :
      LET record == StatusListNew(a.tag, l, v, N(a), pairs)
          keys == {a.members[p[1] + 1] : p \in pairs}
      IN Cardinality(pairs) >= a.t =>
           IF a.tag = MlDsa65
           THEN /\ MlDsaNewAllowed(N(a), pairs)
                /\ MlDsaDecodes(record) /\ MlDsaVerifyStatusList(a, record)
           ELSE /\ NewAllowed(N(a), pairs)
                /\ RawDecodes(record) /\ VerifyStatusList(a, record)
                /\ Check(a, SnarkRecord(WotsXmss, l, v, MakeProof(a, WotsXmss, keys, l, v)))
=============================================================================
