------------------------ MODULE VerificationProofs ------------------------
(***************************************************************************)
(* Machine-checked theorems about what an accepted record proves, for      *)
(* every set of anchors, keys and lists.                                   *)
(*                                                                         *)
(* The argument: the bits of an accepted raw record, or the keys of an     *)
(* accepted aggregate, name distinct members because the anchor has no     *)
(* duplicates, and each of them owns a signature over the one statement    *)
(* that the anchor derives.  Two quorums of more than half of a committee  *)
(* share a member, and a member's counter gives each slot one message.     *)
(***************************************************************************)
EXTENDS Verification, FiniteSetTheorems, TLAPS

\* A slot is behind its key's counter, and belongs to one message.
OneTimeInv ==
  /\ \A s \in signed : s.slot # Stateless => s.key \in Key /\ s.slot < next[s.key]
  /\ \A s, q \in signed : s.key = q.key /\ s.slot = q.slot /\ s.slot # Stateless => s = q

\* Records are accepted against anchors that decode.
AnchorInv == \A r \in accepted : r.anchor \in Trusted

IInv == TypeOK /\ OneTimeInv /\ AnchorInv /\ QuorumSigned

-----------------------------------------------------------------------------
\* The anchor: finitely many members, no more than its length.
LEMMA MembersFinite ==
  ASSUME NEW a \in Wire
  PROVE  /\ N(a) \in Nat
         /\ IsFiniteSet(MembersOf(a))
         /\ Cardinality(MembersOf(a)) <= N(a)
  <1>1. N(a) \in Nat
    BY WireAssumption DEF AnchorWire, N
  <1>2. IsFiniteSet(1 .. N(a)) /\ Cardinality(1 .. N(a)) = N(a)
    BY <1>1, FS_Interval
  <1> DEFINE f == [i \in 1 .. N(a) |-> a.members[i]]
  <1>3. f \in Surjection(1 .. N(a), MembersOf(a))
    BY DEF Surjection, MembersOf
  <1>4. IsFiniteSet(MembersOf(a)) /\ Cardinality(MembersOf(a)) <= Cardinality(1 .. N(a))
    BY <1>2, <1>3, FS_Surjection
  <1> QED BY <1>1, <1>2, <1>4

\* Without duplicates, as many members as bits are named.
LEMMA BitsNameMembers ==
  ASSUME NEW a \in Wire, ~HasDuplicateMembers(a), NEW bits \in SUBSET (0 .. N(a) - 1)
  PROVE  /\ {a.members[i + 1] : i \in bits} \subseteq MembersOf(a)
         /\ IsFiniteSet(bits)
         /\ Cardinality({a.members[i + 1] : i \in bits}) = Cardinality(bits)
  <1>1. N(a) \in Nat
    BY MembersFinite
  <1>2. IsFiniteSet(bits)
    <2>1. 0 \in Int /\ N(a) - 1 \in Int
      BY <1>1
    <2>2. IsFiniteSet(0 .. N(a) - 1)
      BY <2>1, FS_Interval
    <2> QED BY <2>2, FS_Subset
  <1> DEFINE T == {a.members[i + 1] : i \in bits}
  <1> DEFINE f == [i \in bits |-> a.members[i + 1]]
  <1>3. f \in Bijection(bits, T)
    <2>1. f \in Surjection(bits, T)
      BY DEF Surjection
    <2>2. \A i, j \in bits : f[i] = f[j] => i = j
      <3> SUFFICES ASSUME NEW i \in bits, NEW j \in bits, f[i] = f[j]
                   PROVE  i = j
        OBVIOUS
      <3>1. i + 1 \in 1 .. N(a) /\ j + 1 \in 1 .. N(a)
        BY <1>1
      <3>2. a.members[i + 1] = a.members[j + 1]
        OBVIOUS
      <3>3. i + 1 = j + 1
        BY <3>1, <3>2 DEF HasDuplicateMembers
      <3> QED BY <1>1, <3>3
    <2> QED BY <2>1, <2>2 DEF Bijection, Injection, IsInjective, Surjection
  <1>4. Cardinality(T) = Cardinality(bits)
    BY <1>2, <1>3, FS_Bijection DEF ExistsBijection
  <1>5. T \subseteq MembersOf(a)
    <2> SUFFICES ASSUME NEW i \in bits
                 PROVE  a.members[i + 1] \in MembersOf(a)
      OBVIOUS
    <2>1. i + 1 \in 1 .. N(a)
      BY <1>1
    <2> QED BY <2>1 DEF MembersOf
  <1> QED BY <1>2, <1>4, <1>5

\* A set bit's signature is one of as many signatures as there are bits.
LEMMA RankInRange ==
  ASSUME NEW bits \in SUBSET Int, IsFiniteSet(bits), NEW i \in bits
  PROVE  Rank(bits, i) \in 1 .. Cardinality(bits)
  <1> DEFINE B == {j \in bits : j <= i}
  <1>1. IsFiniteSet(B) /\ Cardinality(B) <= Cardinality(bits)
    BY FS_Subset
  <1>2. i \in B
    OBVIOUS
  <1>3. Cardinality(B) # 0
    BY <1>1, <1>2, FS_EmptySet
  <1>4. Cardinality(B) \in Nat /\ Cardinality(bits) \in Nat
    BY <1>1, FS_CardinalityType
  <1> QED BY <1>1, <1>3, <1>4 DEF Rank

\* A quorum stays one when more signatures are made.
LEMMA MoreSigners ==
  ASSUME NEW a \in Wire, NEW l, NEW v, NEW t \in Nat, signed \subseteq signed',
         Cardinality(SignersOf(a, l, v)) >= t
  PROVE  Cardinality(SignersOf(a, l, v)') >= t
  <1>1. SignersOf(a, l, v) \subseteq SignersOf(a, l, v)'
    BY DEF SignersOf
  <1>2. SignersOf(a, l, v)' \subseteq MembersOf(a)
    BY DEF SignersOf
  <1>3. IsFiniteSet(SignersOf(a, l, v)')
    BY <1>2, MembersFinite, FS_Subset
  <1>4. IsFiniteSet(SignersOf(a, l, v))
        /\ Cardinality(SignersOf(a, l, v)) <= Cardinality(SignersOf(a, l, v)')
    BY <1>1, <1>3, FS_Subset
  <1>5. Cardinality(SignersOf(a, l, v)') \in Nat /\ Cardinality(SignersOf(a, l, v)) \in Nat
    BY <1>3, <1>4, FS_CardinalityType
  <1> QED BY <1>4, <1>5

-----------------------------------------------------------------------------
(* What is accepted                                                        *)

\* t members that all signed are a quorum among the signers.
LEMMA QuorumAmongSigners ==
  ASSUME NEW a \in Wire, NEW l, NEW v, NEW t \in Nat, NEW Q,
         Q \subseteq SignersOf(a, l, v), Cardinality(Q) >= t
  PROVE  Cardinality(SignersOf(a, l, v)) >= t
  <1>1. SignersOf(a, l, v) \subseteq MembersOf(a)
    BY DEF SignersOf
  <1>2. IsFiniteSet(SignersOf(a, l, v))
    BY <1>1, MembersFinite, FS_Subset
  <1>3. IsFiniteSet(Q) /\ Cardinality(Q) <= Cardinality(SignersOf(a, l, v))
    BY <1>2, FS_Subset
  <1>4. Cardinality(Q) \in Nat /\ Cardinality(SignersOf(a, l, v)) \in Nat
    BY <1>2, <1>3, FS_CardinalityType
  <1> QED BY <1>3, <1>4

\* The tags of an anchor, and its threshold.
LEMMA TrustedAnchor ==
  ASSUME NEW a \in Trusted
  PROVE  /\ a \in Wire /\ a.t \in Nat /\ a.genesis \in Nat
         /\ ~HasDuplicateMembers(a)
         /\ CommitteeDecodes(a) => a.tag = WotsXmss
         /\ MlDsaCommitteeDecodes(a) => a.tag = MlDsa65
         /\ WotsXmss # MlDsa65
  BY WireAssumption DEF Trusted, CommitteeDecodes, MlDsaCommitteeDecodes, AnchorWire, U32,
       WotsXmss, MlDsa65

\* A bitmap whose every bit has its member's signature is a quorum's, whatever
\* tag and slot the scheme asks for.
LEMMA RawQuorum ==
  ASSUME NEW a \in Trusted, NEW l, NEW v, NEW m \in Nat, NEW sigs \in [1 .. m -> signed],
         NEW bits \in SUBSET (0 .. N(a) - 1),
         Cardinality(bits) >= a.t, Cardinality(bits) = Len(sigs),
         NEW slot, slot = IF a.tag = MlDsa65 THEN Stateless ELSE SlotFor(a, v),
         \A i \in bits : XmssVerify(a.members[i + 1], MessageFor(a, a.tag, l, v),
                                    sigs[Rank(bits, i)], slot)
  PROVE  Cardinality(SignersOf(a, l, v)) >= a.t
  <1> DEFINE Q == {a.members[i + 1] : i \in bits}
  <1>1. a \in Wire /\ a.t \in Nat /\ ~HasDuplicateMembers(a)
    BY TrustedAnchor
  <1>2. Q \subseteq MembersOf(a) /\ IsFiniteSet(bits) /\ Cardinality(Q) = Cardinality(bits)
    BY <1>1, BitsNameMembers
  <1>3. Len(sigs) = m
    OBVIOUS
  <1>4. bits \in SUBSET Int
    BY <1>1, MembersFinite
  <1>5. \A i \in bits : Rank(bits, i) \in 1 .. m
    BY <1>2, <1>3, <1>4, RankInRange
  <1>6. \A i \in bits : sigs[Rank(bits, i)] \in signed
    BY <1>5
  <1>7. \A i \in bits : a.members[i + 1] \in SignersOf(a, l, v)
    BY <1>2, <1>6 DEF SignersOf, XmssVerify
  <1>8. Q \subseteq SignersOf(a, l, v)
    BY <1>7
  <1> HIDE DEF Q
  <1> QED BY <1>1, <1>2, <1>8, QuorumAmongSigners

\* What check lets through was signed by a quorum.
LEMMA SnarkQuorum ==
  ASSUME TypeOK, NEW a \in Trusted, CommitteeDecodes(a), NEW r, SnarkDecodes(r), Check(a, r)
  PROVE  Cardinality(SignersOf(a, r.list, r.version)) >= a.t
  <1>1. a \in Wire /\ a.t \in Nat /\ a.tag = WotsXmss /\ a.tag # MlDsa65 /\ r.tag = WotsXmss
    BY TrustedAnchor DEF SnarkDecodes
  <1>2. PICK group \in XmssSigners(r.proof) :
          /\ XmssSigners(r.proof) = {group}
          /\ PubKeys(r.proof) \subseteq MembersOf(a)
          /\ group.message = MessageFor(a, r.tag, r.list, r.version)
          /\ SlotFor(a, r.version) = group.slot
    BY DEF Check
  <1>3. Cardinality(PubKeys(r.proof)) >= a.t /\ r.proof.claims \subseteq signed
    BY DEF Check, AggregateVerifies
  <1>4. PubKeys(r.proof) \subseteq SignersOf(a, r.list, r.version)
    <2> SUFFICES ASSUME NEW c \in r.proof.claims
                 PROVE  c.key \in SignersOf(a, r.list, r.version)
      BY DEF PubKeys
    <2>1. c.slot = group.slot /\ c.message = group.message
      <3>1. [slot |-> c.slot, message |-> c.message] \in XmssSigners(r.proof)
        BY DEF XmssSigners
      <3>2. [slot |-> c.slot, message |-> c.message] = group
        BY <1>2, <3>1
      <3> QED BY <3>2
    <2>2. c.key \in MembersOf(a)
      BY <1>2 DEF PubKeys
    <2>3. c = [key |-> c.key, message |-> c.message, slot |-> c.slot]
      BY <1>3 DEF Signature, TypeOK
    <2> QED BY <1>1, <1>2, <1>3, <2>1, <2>2, <2>3 DEF SignersOf
  <1> QED BY <1>1, <1>3, <1>4, QuorumAmongSigners
-----------------------------------------------------------------------------
(* The actions                                                             *)

\* The inductive invariant holds initially.
LEMMA InitIInv == Init => IInv
  BY BoundAssumption DEF Init, IInv, TypeOK, OneTimeInv, AnchorInv, QuorumSigned

\* The statement of a trusted anchor.
LEMMA MessageType ==
  ASSUME NEW a \in Trusted, NEW l \in List, NEW v \in U32
  PROVE  /\ CommitteeDecodes(a) => MessageFor(a, WotsXmss, l, v) \in Message
         /\ MlDsaCommitteeDecodes(a) => StatementFor(a, l, v) \in Message
  BY TrustedAnchor DEF MessageFor, StatementFor, Message

\* Earlier verdicts survive new signatures.
LEMMA SignedGrows ==
  ASSUME IInv, signed \subseteq signed', UNCHANGED accepted
  PROVE  AnchorInv' /\ QuorumSigned'
  <1>1. AnchorInv'
    BY DEF IInv, AnchorInv
  <1>2. QuorumSigned'
    <2> SUFFICES ASSUME NEW r \in accepted
                 PROVE  Cardinality(SignersOf(r.anchor, r.list, r.version)') >= r.anchor.t
      BY DEF QuorumSigned
    <2>1. r.anchor \in Wire /\ r.anchor.t \in Nat
      BY TrustedAnchor DEF IInv, AnchorInv
    <2>2. Cardinality(SignersOf(r.anchor, r.list, r.version)) >= r.anchor.t
      BY DEF IInv, QuorumSigned
    <2> QED BY <2>1, <2>2, MoreSigners
  <1> QED BY <1>1, <1>2

\* The inductive invariant is preserved by an XMSS signature at a slot.
LEMMA SignAtStep ==
  ASSUME IInv, NEW k \in Key, NEW m \in Message, NEW slot \in U32, SignAt(k, m, slot)
  PROVE  IInv'
  <1> DEFINE new == [key |-> k, message |-> m, slot |-> slot]
  <1>1. /\ slot >= next[k]
        /\ next' = [next EXCEPT ![k] = slot + 1]
        /\ signed' = signed \cup {new}
        /\ UNCHANGED accepted
    BY DEF SignAt
  <1>2. TypeOK'
    BY <1>1, BoundAssumption DEF IInv, TypeOK, Signature, U32
  <1>3. OneTimeInv'
    <2>1. \A s \in signed : s.slot # Stateless =>
            s.key \in Key /\ s.slot < next[s.key] /\ s.slot \in U32
      BY DEF IInv, OneTimeInv, TypeOK, Signature
    <2>2. new.slot # Stateless /\ next[k] \in Nat /\ slot \in Nat
      BY BoundAssumption DEF U32, Stateless, IInv, TypeOK
    <2>3. \A s \in signed' : s.slot # Stateless => s.key \in Key /\ s.slot < next'[s.key]
      <3> SUFFICES ASSUME NEW s \in signed', s.slot # Stateless
                   PROVE  s.key \in Key /\ s.slot < next'[s.key]
        OBVIOUS
      <3>1. CASE s = new
        BY <1>1, <2>2, <3>1 DEF IInv, TypeOK
      <3>2. CASE s \in signed /\ s.key # k
        BY <1>1, <2>1, <3>2 DEF IInv, TypeOK
      <3>3. CASE s \in signed /\ s.key = k
        <4>1. s.slot < next[k] /\ s.slot \in U32
          BY <2>1, <3>3
        <4>2. next'[k] = slot + 1
          BY <1>1 DEF IInv, TypeOK
        <4> QED BY <1>1, <2>2, <3>3, <4>1, <4>2, BoundAssumption DEF U32
      <3> QED BY <1>1, <3>1, <3>2, <3>3
    <2>4. \A s \in signed : ~(s.key = k /\ s.slot = slot)
      <3> SUFFICES ASSUME NEW s \in signed, s.key = k, s.slot = slot
                   PROVE  FALSE
        OBVIOUS
      <3>1. slot < next[k]
        BY <2>1, <2>2
      <3> QED BY <1>1, <2>2, <3>1
    <2>5. \A s, q \in signed' :
            s.key = q.key /\ s.slot = q.slot /\ s.slot # Stateless => s = q
      BY <1>1, <2>4 DEF IInv, OneTimeInv
    <2> QED BY <2>3, <2>5 DEF OneTimeInv
  <1> QED BY <1>1, <1>2, <1>3, SignedGrows DEF IInv

\* The inductive invariant is preserved by an ML-DSA signature.
LEMMA MlDsaSignStep ==
  ASSUME IInv, NEW k \in MlDsaKey, NEW m \in Message, MlDsaSign(k, m)
  PROVE  IInv'
  <1> DEFINE new == [key |-> k, message |-> m, slot |-> Stateless]
  <1>1. UNCHANGED <<next, accepted>> /\ signed' = signed \cup {new}
    BY DEF MlDsaSign
  <1>2. TypeOK'
    BY <1>1 DEF IInv, TypeOK, Signature
  <1>3. OneTimeInv'
    BY <1>1 DEF IInv, OneTimeInv
  <1> QED BY <1>1, <1>2, <1>3, SignedGrows DEF IInv

\* A verdict that a quorum stands behind.
LEMMA TakeStep ==
  ASSUME IInv, NEW a \in Trusted, NEW l \in List, NEW v \in U32, NEW form \in Form, NEW r,
         r.list = l, r.version = v, Take(form, a, r),
         Cardinality(SignersOf(a, l, v)) >= a.t
  PROVE  IInv'
  <1> DEFINE new == [form |-> form, anchor |-> a, list |-> l, version |-> v]
  <1>1. UNCHANGED <<next, signed>> /\ accepted' = accepted \cup {new}
    BY DEF Take
  <1>2. a \in Wire
    BY TrustedAnchor
  <1>3. TypeOK'
    BY <1>1, <1>2 DEF IInv, TypeOK, Accepted
  <1>4. OneTimeInv'
    BY <1>1 DEF IInv, OneTimeInv
  <1>5. AnchorInv'
    BY <1>1 DEF IInv, AnchorInv
  <1>6. QuorumSigned'
    <2>1. \A b, l2, v2 : SignersOf(b, l2, v2)' = SignersOf(b, l2, v2)
      BY <1>1 DEF SignersOf
    <2> QED BY <1>1, <2>1 DEF IInv, QuorumSigned
  <1> QED BY <1>3, <1>4, <1>5, <1>6 DEF IInv

\* The inductive invariant is preserved when a raw record is offered.
LEMMA OfferRawStep ==
  ASSUME IInv, NEW a \in Trusted, NEW l \in List, NEW v \in U32, NEW tag \in Tag,
         OfferRaw(a, tag, l, v)
  PROVE  IInv'
  <1>1. PICK mp \in Bitmaps, s \in Arrangements :
          \/ /\ CommitteeDecodes(a)
             /\ AcceptRaw(a, RawRecord(tag, l, v, mp.width, mp.bits, s))
          \/ /\ MlDsaCommitteeDecodes(a)
             /\ AcceptMlDsa(a, RawRecord(tag, l, v, mp.width, mp.bits, s))
    BY DEF OfferRaw
  <1>2. PICK m \in 0 .. MaxCommittee : s \in [1 .. m -> signed]
    BY DEF Arrangements
  <1>3. m \in Nat
    BY <1>2, BoundAssumption
  <1> DEFINE r == RawRecord(tag, l, v, mp.width, mp.bits, s)
  <1>4. /\ r.tag = tag /\ r.list = l /\ r.version = v
        /\ r.width = mp.width /\ r.bits = mp.bits /\ r.sigs = s
    BY DEF RawRecord
  <1>5. CASE CommitteeDecodes(a) /\ AcceptRaw(a, r)
    <2>1. RawDecodes(r) /\ VerifyStatusList(a, r) /\ Take("raw", a, r)
      BY <1>5 DEF AcceptRaw
    <2>2. tag = WotsXmss /\ a.tag = WotsXmss /\ a.tag # MlDsa65
      BY <1>4, <1>5, <2>1, TrustedAnchor DEF RawDecodes
    <2>3. /\ mp.bits \in SUBSET (0 .. N(a) - 1)
          /\ Cardinality(mp.bits) >= a.t /\ Cardinality(mp.bits) = Len(s)
      BY <1>4, <2>1 DEF RawDecodes, VerifyStatusList
    <2>4. \A i \in mp.bits : XmssVerify(a.members[i + 1], MessageFor(a, a.tag, l, v),
                                        s[Rank(mp.bits, i)], SlotFor(a, v))
      BY <1>4, <2>1, <2>2 DEF VerifyStatusList
    <2>5. Cardinality(SignersOf(a, l, v)) >= a.t
      BY <1>2, <1>3, <2>2, <2>3, <2>4, RawQuorum
    <2>6. "raw" \in Form
      BY DEF Form
    <2> HIDE DEF r
    <2> QED BY <1>4, <2>1, <2>5, <2>6, TakeStep
  <1>6. CASE MlDsaCommitteeDecodes(a) /\ AcceptMlDsa(a, r)
    <2>1. MlDsaDecodes(r) /\ MlDsaVerifyStatusList(a, r) /\ Take("mldsa", a, r)
      BY <1>6 DEF AcceptMlDsa
    <2>2. a.tag = MlDsa65
      BY <1>6, TrustedAnchor
    <2>3. /\ mp.bits \in SUBSET (0 .. N(a) - 1)
          /\ Cardinality(mp.bits) >= a.t /\ Cardinality(mp.bits) = Len(s)
      BY <1>4, <2>1 DEF MlDsaDecodes, MlDsaVerifyStatusList
    <2>4. \A i \in mp.bits : XmssVerify(a.members[i + 1], MessageFor(a, a.tag, l, v),
                                        s[Rank(mp.bits, i)], Stateless)
      BY <1>4, <2>1, <2>2 DEF MlDsaVerifyStatusList, MlDsaVerify, StatementFor
    <2>5. Cardinality(SignersOf(a, l, v)) >= a.t
      BY <1>2, <1>3, <2>2, <2>3, <2>4, RawQuorum
    <2>6. "mldsa" \in Form
      BY DEF Form
    <2> HIDE DEF r
    <2> QED BY <1>4, <2>1, <2>5, <2>6, TakeStep
  <1> QED BY <1>1, <1>5, <1>6

\* The inductive invariant is preserved when a SNARK record is offered.
LEMMA OfferSnarkStep ==
  ASSUME IInv, NEW a \in Trusted, NEW l \in List, NEW v \in U32, NEW tag \in Tag,
         OfferSnark(a, tag, l, v)
  PROVE  IInv'
  <1>1. CommitteeDecodes(a)
    BY DEF OfferSnark
  <1>2. PICK c, x, y, z : AcceptSnark(a, SnarkRecord(tag, l, v, Aggregate(c, x, y, z)))
    BY DEF OfferSnark
  <1> DEFINE r == SnarkRecord(tag, l, v, Aggregate(c, x, y, z))
  <1>3. r.list = l /\ r.version = v
    BY DEF SnarkRecord
  <1>4. SnarkDecodes(r) /\ Check(a, r) /\ Take("snark", a, r)
    BY <1>2 DEF AcceptSnark
  <1>5. TypeOK /\ "snark" \in Form
    BY DEF IInv, Form
  <1> HIDE DEF r
  <1>6. Cardinality(SignersOf(a, l, v)) >= a.t
    BY <1>1, <1>3, <1>4, <1>5, SnarkQuorum
  <1> QED BY <1>3, <1>4, <1>5, <1>6, TakeStep

\* The inductive invariant is preserved by every step.
LEMMA NextIInv == IInv /\ [Next]_vars => IInv'
  <1> SUFFICES ASSUME IInv, [Next]_vars
               PROVE  IInv'
    OBVIOUS
  <1>1. CASE UNCHANGED vars
    <2>1. signed' = signed /\ next' = next /\ accepted' = accepted
      BY <1>1 DEF vars
    <2>2. TypeOK' /\ OneTimeInv'
      BY <2>1 DEF IInv, TypeOK, OneTimeInv
    <2> QED BY <2>1, <2>2, SignedGrows DEF IInv
  <1>2. ASSUME NEW a \in Trusted, NEW l \in List, NEW v \in U32,
               NEW k \in Key, NEW slot \in U32,
               CommitteeDecodes(a), SignAt(k, MessageFor(a, WotsXmss, l, v), slot)
        PROVE  IInv'
    BY <1>2, MessageType, SignAtStep
  <1>3. ASSUME NEW a \in Trusted, NEW l \in List, NEW v \in U32, NEW k \in MlDsaKey,
               MlDsaCommitteeDecodes(a), MlDsaSign(k, StatementFor(a, l, v))
        PROVE  IInv'
    BY <1>3, MessageType, MlDsaSignStep
  <1>4. ASSUME NEW a \in Trusted, NEW l \in List, NEW v \in U32, NEW tag \in Tag,
               OfferRaw(a, tag, l, v) \/ OfferSnark(a, tag, l, v)
        PROVE  IInv'
    BY <1>4, OfferRawStep, OfferSnarkStep
  <1> QED BY <1>1, <1>2, <1>3, <1>4 DEF Next

\* One list for every version, from the one-time slots.
LEMMA Agreement == IInv => OneListPerVersion
  <1> SUFFICES ASSUME IInv, NEW r \in accepted, NEW s \in accepted,
                      r.anchor = s.anchor, r.version = s.version,
                      r.anchor.tag = WotsXmss, 2 * r.anchor.t > N(r.anchor)
               PROVE  r.list = s.list
    BY DEF OneListPerVersion
  <1> DEFINE a == r.anchor
  <1> DEFINE R == SignersOf(a, r.list, r.version)
  <1> DEFINE S == SignersOf(a, s.list, r.version)
  <1>1. a \in Trusted /\ a \in Wire /\ a.t \in Nat /\ a.tag # MlDsa65 /\ r.version \in U32
        /\ a.genesis \in Nat
    BY TrustedAnchor DEF IInv, AnchorInv, TypeOK, Accepted
  <1>2. Cardinality(R) >= a.t /\ Cardinality(S) >= a.t
    BY DEF IInv, QuorumSigned
  <1>3. IsFiniteSet(MembersOf(a)) /\ Cardinality(MembersOf(a)) <= N(a) /\ N(a) \in Nat
    BY <1>1, MembersFinite
  <1>4. R \subseteq MembersOf(a) /\ S \subseteq MembersOf(a)
    BY DEF SignersOf
  <1>5. /\ Cardinality(R) \in Nat /\ Cardinality(S) \in Nat
        /\ Cardinality(MembersOf(a)) \in Nat
    BY <1>3, <1>4, FS_Subset, FS_CardinalityType
  <1>6. Cardinality(R) + Cardinality(S) > Cardinality(MembersOf(a))
    BY <1>1, <1>2, <1>3, <1>5
  <1>7. R \cap S # {}
    BY <1>3, <1>4, <1>6, FS_MajoritiesIntersect
  <1>8. PICK k : k \in R /\ k \in S
    BY <1>7
  <1> DEFINE slot == SlotFor(a, r.version)
  <1> DEFINE x == [key |-> k, message |-> MessageFor(a, a.tag, r.list, r.version), slot |-> slot]
  <1> DEFINE y == [key |-> k, message |-> MessageFor(a, a.tag, s.list, r.version), slot |-> slot]
  <1>9. x \in signed /\ y \in signed
    BY <1>1, <1>8 DEF SignersOf
  <1>10. slot # Stateless
    BY <1>1, BoundAssumption DEF SlotFor, NoSlot, Stateless, U32
  <1>11. x = y
    <2>1. x.key = y.key /\ x.slot = y.slot /\ x.slot # Stateless
      BY <1>10
    <2> HIDE DEF x, y
    <2> QED BY <1>9, <2>1 DEF IInv, OneTimeInv
  <1>12. MessageFor(a, a.tag, r.list, r.version) = MessageFor(a, a.tag, s.list, r.version)
    BY <1>11
  <1> QED BY <1>12 DEF MessageFor

-----------------------------------------------------------------------------
(* Theorems                                                                *)

\* The inductive invariant holds always.
LEMMA Invariant == Spec => []IInv
  BY InitIInv, NextIInv, PTL DEF Spec

\* Counters, signatures and verdicts keep their types.
THEOREM TypeCorrect == Spec => []TypeOK
  <1>1. IInv => TypeOK
    BY DEF IInv
  <1> QED BY <1>1, Invariant, PTL

\* For every anchor and in all three forms, what verify_status_list and check let
\* through was signed by t distinct members, for that anchor, list and version.
THEOREM Authenticity == Spec => []QuorumSigned
  <1>1. IInv => QuorumSigned
    BY DEF IInv
  <1> QED BY <1>1, Invariant, PTL

\* With a threshold above half, slot_for and the slot counters leave a version one
\* list, across the raw and the SNARK form.
THEOREM UniqueList == Spec => []OneListPerVersion
  BY Invariant, Agreement, PTL

-----------------------------------------------------------------------------
(* Every quorum is enough                                                  *)

\* Ranks tell set bits apart.
LEMMA RankInjective ==
  ASSUME NEW bits \in SUBSET Int, IsFiniteSet(bits), NEW i \in bits, NEW j \in bits,
         Rank(bits, i) = Rank(bits, j)
  PROVE  i = j
  <1>1. ASSUME NEW x \in bits, NEW y \in bits, x < y
        PROVE  Rank(bits, x) # Rank(bits, y)
    <2> DEFINE X == {b \in bits : b <= x}
    <2> DEFINE Y == {b \in bits : b <= y}
    <2>1. X \subseteq Y /\ y \in Y /\ y \notin X
      <3>1. x \in Int /\ y \in Int /\ \A b \in bits : b \in Int
        OBVIOUS
      <3>2. \A b \in bits : b <= x => b <= y
        BY <1>1, <3>1
      <3>3. y <= y /\ ~(y <= x)
        BY <1>1, <3>1
      <3> QED BY <3>2, <3>3
    <2>2. IsFiniteSet(Y)
      <3>1. Y \in SUBSET bits
        OBVIOUS
      <3> HIDE DEF Y
      <3> QED BY <3>1, FS_Subset
    <2>3. Cardinality(X) # Cardinality(Y)
      <3>1. X \in SUBSET Y /\ X # Y
        BY <2>1
      <3> HIDE DEF X, Y
      <3>2. Cardinality(Y) = Cardinality(X) => Y = X
        BY <2>2, <3>1, FS_Subset
      <3> QED BY <3>1, <3>2
    <2> QED BY <2>3 DEF Rank
  <1>2. i \in Int /\ j \in Int
    OBVIOUS
  <1>3. i < j \/ j < i \/ i = j
    BY <1>2
  <1> QED BY <1>1, <1>3

\* The slot that a signature must carry.
SlotOf(a, v) == IF a.tag = MlDsa65 THEN Stateless ELSE SlotFor(a, v)

\* The pairs of a quorum: one for every index, with the member's signature.
LEMMA CountedPairs ==
  ASSUME NEW a \in Trusted, NEW l, NEW v, NEW pairs \in SUBSET Counted(a, l, v)
  PROVE  /\ \A p \in pairs :
              /\ p[1] \in 0 .. N(a) - 1
              /\ p[2] \in signed
              /\ p = <<p[1], p[2]>>
              /\ p[2] = [key |-> a.members[p[1] + 1],
                         message |-> MessageFor(a, a.tag, l, v), slot |-> SlotOf(a, v)]
         /\ \A p, q \in pairs : p[1] = q[1] => p = q
  <1>1. a.tag = WotsXmss \/ a.tag = MlDsa65
    BY WireAssumption DEF Trusted, AnchorWire
  <1>2. \A p \in pairs :
              /\ p[1] \in 0 .. N(a) - 1
              /\ p[2] \in signed
              /\ p = <<p[1], p[2]>>
              /\ p[2] = [key |-> a.members[p[1] + 1],
                         message |-> MessageFor(a, a.tag, l, v), slot |-> SlotOf(a, v)]
    <2> SUFFICES ASSUME NEW p \in pairs
                 PROVE  /\ p[1] \in 0 .. N(a) - 1
                        /\ p[2] \in signed
                        /\ p = <<p[1], p[2]>>
                        /\ p[2] = [key |-> a.members[p[1] + 1],
                                   message |-> MessageFor(a, a.tag, l, v), slot |-> SlotOf(a, v)]
      OBVIOUS
    <2>1. p \in (0 .. N(a) - 1) \X signed
      BY DEF Counted
    <2>2. p[1] \in 0 .. N(a) - 1 /\ p[2] \in signed /\ p = <<p[1], p[2]>>
      BY <2>1
    <2>3. CASE a.tag = MlDsa65
      <3>1. MlDsaVerify(a.members[p[1] + 1], StatementFor(a, l, v), p[2])
        BY <2>3 DEF Counted
      <3> QED BY <2>2, <2>3, <3>1 DEF MlDsaVerify, XmssVerify, StatementFor, SlotOf
    <2>4. CASE a.tag = WotsXmss
      <3>1. a.tag # MlDsa65
        BY <2>4, TrustedAnchor
      <3>2. VerifyOne(a, a.members[p[1] + 1], MessageFor(a, WotsXmss, l, v), p[2], SlotFor(a, v))
        BY <3>1 DEF Counted
      <3> QED BY <2>2, <2>4, <3>1, <3>2 DEF VerifyOne, XmssVerify, SlotOf
    <2> QED BY <1>1, <2>3, <2>4
  <1>3. \A p, q \in pairs : p[1] = q[1] => p = q
    <2> SUFFICES ASSUME NEW p \in pairs, NEW q \in pairs, p[1] = q[1]
                 PROVE  p = q
      OBVIOUS
    <2>1. p[2] = q[2]
      BY <1>2
    <2>2. p = <<p[1], p[2]>> /\ q = <<q[1], q[2]>>
      BY <1>2
    <2> QED BY <2>1, <2>2
  <1> QED BY <1>2, <1>3

\* The indices that are set.
BitsOf(pairs) == {p[1] : p \in pairs}

\* The members at some indices.
NamedBy(a, bits) == {a.members[i + 1] : i \in bits}

\* What new makes of them: a bitmap of the indices, and each signature at its rank.
LEMMA NewAligned ==
  ASSUME NEW a \in Trusted, NEW l, NEW v, NEW pairs \in SUBSET Counted(a, l, v)
  PROVE  /\ BitsOf(pairs) \in SUBSET (0 .. N(a) - 1)
         /\ IsFiniteSet(BitsOf(pairs))
         /\ Cardinality(BitsOf(pairs)) \in Nat
         /\ Cardinality(pairs) = Cardinality(BitsOf(pairs))
         /\ Cardinality(NamedBy(a, BitsOf(pairs))) = Cardinality(BitsOf(pairs))
         /\ NamedBy(a, BitsOf(pairs)) \subseteq MembersOf(a)
         /\ \A p \in pairs :
              /\ Rank(BitsOf(pairs), p[1]) \in 1 .. Cardinality(BitsOf(pairs))
              /\ \A q \in pairs : Rank(BitsOf(pairs), q[1]) = Rank(BitsOf(pairs), p[1]) => q = p
  <1> DEFINE bits == BitsOf(pairs)
  <1>bits. bits = {p[1] : p \in pairs}
    BY DEF BitsOf
  <1> HIDE DEF bits
  <1>1. /\ \A p \in pairs : p[1] \in 0 .. N(a) - 1
        /\ \A p, q \in pairs : p[1] = q[1] => p = q
    BY CountedPairs
  <1>2. bits \in SUBSET (0 .. N(a) - 1)
    BY <1>1, <1>bits
  <1>3. a \in Wire /\ ~HasDuplicateMembers(a)
    BY TrustedAnchor
  <1>4. /\ IsFiniteSet(bits)
        /\ Cardinality(NamedBy(a, bits)) = Cardinality(bits)
        /\ NamedBy(a, bits) \subseteq MembersOf(a)
    BY <1>2, <1>3, BitsNameMembers DEF NamedBy
  <1>5. Cardinality(bits) \in Nat
    BY <1>4, FS_CardinalityType
  <1>6. bits \in SUBSET Int
    BY <1>2, <1>3, MembersFinite
  <1>7. Cardinality(pairs) = Cardinality(bits)
    <2> DEFINE f == [p \in pairs |-> p[1]]
    <2>1. f \in [pairs -> bits]
      BY <1>bits
    <2>2. \A p, q \in pairs : f[p] = f[q] => p = q
      BY <1>1
    <2>3. f \in Injection(pairs, bits)
      BY <2>1, <2>2 DEF Injection, IsInjective
    <2>4. f \in Surjection(pairs, bits)
      BY <1>bits, <2>1 DEF Surjection
    <2> HIDE DEF f
    <2> QED BY <1>4, <2>3, <2>4, FS_Injection
  <1>8. ASSUME NEW p \in pairs
        PROVE  /\ Rank(bits, p[1]) \in 1 .. Cardinality(bits)
               /\ \A q \in pairs : Rank(bits, q[1]) = Rank(bits, p[1]) => q = p
    <2>1. p[1] \in bits
      BY <1>bits
    <2>2. \A q \in pairs : Rank(bits, q[1]) = Rank(bits, p[1]) => q = p
      <3> SUFFICES ASSUME NEW q \in pairs, Rank(bits, q[1]) = Rank(bits, p[1])
                   PROVE  q = p
        OBVIOUS
      <3>1. q[1] \in bits
        BY <1>bits
      <3>2. q[1] = p[1]
        <4> DEFINE i == q[1]
        <4> DEFINE j == p[1]
        <4>1. i \in bits /\ j \in bits /\ Rank(bits, i) = Rank(bits, j)
          BY <2>1, <3>1
        <4> HIDE DEF i, j
        <4>2. i = j
          BY <1>4, <1>6, <4>1, RankInjective
        <4> QED BY <4>2 DEF i, j
      <3> QED BY <1>1, <3>2
    <2> QED BY <1>4, <1>6, <2>1, <2>2, RankInRange
  <1>9. \A p \in pairs :
          /\ Rank(bits, p[1]) \in 1 .. Cardinality(bits)
          /\ \A q \in pairs : Rank(bits, q[1]) = Rank(bits, p[1]) => q = p
    BY <1>8
  <1> QED BY <1>2, <1>4, <1>5, <1>7, <1>9 DEF bits

\* A record of enough counted signatures is accepted.
LEMMA Completeness == TypeOK => QuorumSuffices
  <1> SUFFICES ASSUME TypeOK, NEW a \in Trusted, NEW l \in List, NEW v \in U32,
                      NEW pairs \in SUBSET Counted(a, l, v), Cardinality(pairs) >= a.t
               PROVE  LET record == StatusListNew(a.tag, l, v, N(a), pairs)
                          keys == {a.members[p[1] + 1] : p \in pairs}
                      IN IF a.tag = MlDsa65
                         THEN /\ MlDsaNewAllowed(N(a), pairs)
                              /\ MlDsaDecodes(record) /\ MlDsaVerifyStatusList(a, record)
                         ELSE /\ NewAllowed(N(a), pairs)
                              /\ RawDecodes(record) /\ VerifyStatusList(a, record)
                              /\ Check(a, SnarkRecord(WotsXmss, l, v,
                                             MakeProof(a, WotsXmss, keys, l, v)))
    BY DEF QuorumSuffices
  <1> DEFINE bits == BitsOf(pairs)
  <1> DEFINE sigs == [r \in 1 .. Cardinality(bits) |->
                        (CHOOSE p \in pairs : Rank(bits, p[1]) = r)[2]]
  <1> DEFINE record == StatusListNew(a.tag, l, v, N(a), pairs)
  <1> DEFINE keys == {a.members[p[1] + 1] : p \in pairs}
  <1>1. /\ record.tag = a.tag /\ record.list = l /\ record.version = v
        /\ record.width = N(a) /\ record.bits = bits /\ record.sigs = sigs
    BY DEF StatusListNew, RawRecord, BitsOf
  <1>2. /\ \A p \in pairs :
             /\ p[1] \in 0 .. N(a) - 1
             /\ p[2] \in signed
             /\ p[2] = [key |-> a.members[p[1] + 1],
                        message |-> MessageFor(a, a.tag, l, v), slot |-> SlotOf(a, v)]
        /\ \A p, q \in pairs : p[1] = q[1] => p = q
    BY CountedPairs
  <1>bits. bits = {p[1] : p \in pairs}
    BY DEF BitsOf
  <1> HIDE DEF bits
  <1>3. /\ bits \in SUBSET (0 .. N(a) - 1)
        /\ Cardinality(bits) \in Nat
        /\ Cardinality(pairs) = Cardinality(bits)
        /\ Cardinality(NamedBy(a, bits)) = Cardinality(bits)
        /\ NamedBy(a, bits) \subseteq MembersOf(a)
    BY NewAligned DEF bits
  <1>4. \A p \in pairs :
          /\ Rank(bits, p[1]) \in 1 .. Cardinality(bits)
          /\ \A q \in pairs : Rank(bits, q[1]) = Rank(bits, p[1]) => q = p
    BY NewAligned DEF bits
  <1>5. a.t \in Nat /\ N(a) \in Nat /\ a.t >= 1
    <2>1. a \in Wire /\ N(a) \in Nat
      BY TrustedAnchor, MembersFinite
    <2> QED BY <2>1, TrustedAnchor DEF Trusted, CommitteeDecodes, MlDsaCommitteeDecodes
  <1>6. Len(sigs) = Cardinality(bits)
    BY <1>3
  <1>7. \A p \in pairs : sigs[Rank(bits, p[1])] = p[2]
    <2> SUFFICES ASSUME NEW p \in pairs
                 PROVE  sigs[Rank(bits, p[1])] = p[2]
      OBVIOUS
    <2>1. (CHOOSE q \in pairs : Rank(bits, q[1]) = Rank(bits, p[1])) = p
      BY <1>4
    <2> QED BY <1>4, <2>1
  <1>8. \A i \in bits : sigs[Rank(bits, i)] =
          [key |-> a.members[i + 1], message |-> MessageFor(a, a.tag, l, v), slot |-> SlotOf(a, v)]
    <2> SUFFICES ASSUME NEW i \in bits
                 PROVE  sigs[Rank(bits, i)] = [key |-> a.members[i + 1],
                          message |-> MessageFor(a, a.tag, l, v), slot |-> SlotOf(a, v)]
      OBVIOUS
    <2>1. PICK p \in pairs : i = p[1]
      BY <1>bits
    <2> HIDE DEF sigs
    <2> QED BY <1>2, <1>7, <2>1
  <1>9. Cardinality(bits) >= a.t /\ Cardinality(bits) # 0
    BY <1>3, <1>5
  <1>10. \A p, q \in pairs : p[1] = q[1] => p = q
    BY <1>2
  <1>11. \A p \in pairs : p[1] < N(a)
    <2> SUFFICES ASSUME NEW p \in pairs
                 PROVE  p[1] < N(a)
      OBVIOUS
    <2>1. p[1] \in 0 .. N(a) - 1
      BY <1>2
    <2> QED BY <1>5, <2>1
  <1>12. keys = NamedBy(a, bits)
    BY <1>bits DEF NamedBy
  <1>13. CASE a.tag = MlDsa65
    <2>1. N(a) \in 1 .. MaxCommittee
      BY <1>13, TrustedAnchor DEF Trusted, CommitteeDecodes, MlDsaCommitteeDecodes
    <2>2. Cardinality(pairs) <= N(a)
      <3>1. IsFiniteSet(0 .. N(a) - 1) /\ Cardinality(0 .. N(a) - 1) = N(a)
        <4>1. 0 \in Int /\ N(a) - 1 \in Int /\ ~(0 > N(a) - 1) /\ N(a) - 1 - 0 + 1 = N(a)
          BY <1>5, <2>1
        <4> QED BY <4>1, FS_Interval
      <3>2. Cardinality(bits) <= Cardinality(0 .. N(a) - 1)
        BY <1>3, <3>1, FS_Subset
      <3> QED BY <1>3, <3>1, <3>2
    <2>3. MlDsaNewAllowed(N(a), pairs)
      BY <1>10, <1>11, <2>1, <2>2 DEF MlDsaNewAllowed
    <2> HIDE DEF record, bits, sigs
    <2>4. MlDsaDecodes(record)
      BY <1>1, <1>3, <1>6, <1>13, <2>1 DEF MlDsaDecodes
    <2>5. MlDsaVerifyStatusList(a, record)
      BY <1>1, <1>6, <1>8, <1>9, <1>13
         DEF MlDsaVerifyStatusList, MlDsaVerify, XmssVerify, StatementFor, SlotOf
    <2> QED BY <1>13, <2>3, <2>4, <2>5 DEF record
  <1>14. CASE a.tag = WotsXmss
    <2>1. N(a) <= MaxCommittee /\ a.tag # MlDsa65
      BY <1>14, TrustedAnchor DEF Trusted, CommitteeDecodes, MlDsaCommitteeDecodes
    <2>2. NewAllowed(N(a), pairs)
      BY <1>10, <1>11, <2>1 DEF NewAllowed
    <2>3. bits # {}
      BY <1>9, FS_EmptySet
    <2>4. pairs # {}
      BY <1>bits, <2>3
    <2>5. SlotFor(a, v) # NoSlot
      <3>1. PICK p \in pairs : TRUE
        BY <2>4
      <3>2. p[2] \in Signature /\ p[2].slot = SlotFor(a, v)
        <4>1. p[2] \in signed
          BY <1>2
        <4>2. p[2] = [key |-> a.members[p[1] + 1],
                      message |-> MessageFor(a, a.tag, l, v), slot |-> SlotOf(a, v)]
          BY <1>2
        <4>3. p[2].slot = SlotOf(a, v)
          BY <4>2
        <4> QED BY <2>1, <4>1, <4>3 DEF TypeOK, SlotOf
      <3> QED BY <3>2, BoundAssumption DEF Signature, U32, Stateless, NoSlot
    <2>6. \A k \in keys :
            [key |-> k, message |-> MessageFor(a, WotsXmss, l, v), slot |-> SlotFor(a, v)] \in signed
      BY <1>2, <1>14, <2>1 DEF SlotOf
    <2>7. keys # {} /\ keys \subseteq MembersOf(a) /\ Cardinality(keys) >= a.t
      BY <1>3, <1>9, <1>12, <2>4
    <2> HIDE DEF record, bits, sigs, keys
    <2>8. RawDecodes(record)
      BY <1>1, <1>3, <1>6, <1>14, <2>1 DEF RawDecodes
    <2>9. VerifyStatusList(a, record)
      BY <1>1, <1>5, <1>6, <1>8, <1>9, <2>1, <2>5
         DEF VerifyStatusList, XmssVerify, SlotOf
    <2>10. Check(a, SnarkRecord(WotsXmss, l, v, MakeProof(a, WotsXmss, keys, l, v)))
      <3> DEFINE agg == MakeProof(a, WotsXmss, keys, l, v)
      <3> DEFINE msg == MessageFor(a, WotsXmss, l, v)
      <3> DEFINE r == SnarkRecord(WotsXmss, l, v, agg)
      <3> DEFINE group == [slot |-> SlotFor(a, v), message |-> msg]
      <3>1. r.tag = WotsXmss /\ r.list = l /\ r.version = v /\ r.proof = agg
        BY DEF SnarkRecord
      <3>2. /\ agg.claims = {[key |-> k, message |-> msg, slot |-> SlotFor(a, v)] : k \in keys}
            /\ agg.sphincs = FALSE /\ agg.body = TRUE
        BY DEF MakeProof, MakeAggregate, Aggregate
      <3> HIDE DEF agg, r, msg
      <3>3. XmssSigners(agg) = {group}
        <4>1. \A c \in agg.claims : [slot |-> c.slot, message |-> c.message] = group
          BY <3>2
        <4>2. agg.claims # {}
          BY <2>7, <3>2
        <4> QED BY <4>1, <4>2 DEF XmssSigners
      <3>4. PubKeys(agg) = keys
        <4>1. \A c \in agg.claims : c.key \in keys
          BY <3>2
        <4>2. \A k \in keys : \E c \in agg.claims : c.key = k
          <5> SUFFICES ASSUME NEW k \in keys
                       PROVE  \E c \in agg.claims : c.key = k
            OBVIOUS
          <5>1. [key |-> k, message |-> msg, slot |-> SlotFor(a, v)] \in agg.claims
            BY <3>2
          <5> QED BY <5>1
        <4> QED BY <4>1, <4>2 DEF PubKeys
      <3>5. AggregateVerifies(agg)
        BY <2>6, <3>2 DEF AggregateVerifies, msg
      <3>6. group.message = MessageFor(a, r.tag, r.list, r.version) /\ SlotFor(a, r.version) = group.slot
        BY <3>1 DEF msg
      <3>7. Check(a, r)
        BY <2>7, <3>1, <3>2, <3>3, <3>4, <3>5, <3>6 DEF Check
      <3> QED BY <3>7 DEF r, agg
    <2> QED BY <2>1, <2>2, <2>8, <2>9, <2>10 DEF record, keys
  <1>15. a.tag = MlDsa65 \/ a.tag = WotsXmss
    BY WireAssumption DEF Trusted, AnchorWire
  <1> QED BY <1>13, <1>14, <1>15

\* For every anchor and every order of answers, t counted signatures make a record
\* that decodes and verifies, raw, aggregated and in ML-DSA.
THEOREM QuorumAccepted == Spec => []QuorumSuffices
  BY TypeCorrect, Completeness, PTL
===========================================================================
