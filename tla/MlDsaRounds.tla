----------------------------- MODULE MlDsaRounds -----------------------------
(***************************************************************************)
(* The rounds of the ML-DSA committee (demo/src/bin/mldsa_signer.rs) over  *)
(* the shared storage volume (demo/src/storage.rs).  ML-DSA is stateless:  *)
(* a member signs whatever it is asked to sign, so nothing but the         *)
(* aggregators themselves orders the rounds, and the steps of publish come *)
(* into view: every aggregator writes the same temporary file and renames  *)
(* it over the record.                                                     *)
(*                                                                         *)
(* A file is an inode: rename moves a name, and a process that has the     *)
(* file open keeps writing to the inode, wherever its name went.           *)
(*                                                                         *)
(* Left out: the bytes of lists and signatures, signatures that do not     *)
(* verify (members are honest), and durability (see SlotCounter for what a *)
(* rename and a sync do to a file).                                        *)
(***************************************************************************)
EXTENDS Integers, FiniteSets

CONSTANTS
  Member,          \* the committee
  Aggregator,      \* the members that are asked to aggregate
  Threshold,       \* t
  MaxVersion,      \* largest u32, the type of a version
  CredentialId,    \* the random identifiers of credentials
  Inode, NoFile,   \* files on the storage volume
  Faults           \* what can go wrong, a subset of FaultKinds

ASSUME MemberAssumption == IsFiniteSet(Member) /\ Aggregator \subseteq Member
ASSUME ThresholdAssumption == Threshold \in Nat /\ Threshold > 0
ASSUME VersionAssumption == MaxVersion \in Nat
ASSUME InodeAssumption == NoFile \notin Inode
FaultKinds == {"restart", "error", "read"}
ASSUME FaultAssumption == Faults \subseteq FaultKinds

VARIABLES
  round,      \* each aggregator's round
  path,       \* the inode that status-current.ssz names
  tmp,        \* the inode that status-current.ssz.tmp names
  content     \* what each inode holds

vars == <<round, path, tmp, content>>

Version == 0 .. MaxVersion
Nothing == -1                        \* the version before the first record
Credential == [issuer : Aggregator, version : Version, id : CredentialId]
List == SUBSET Credential

Record  == [version : Version, list : List]
Partial == [version |-> Nothing, list |-> {}]    \* empty, half-written or mixed
NoRecord == [version |-> Nothing, list |-> {}]   \* nothing is published

Phases == {"idle", "collect", "create", "write", "rename"}
Round == [phase : Phases, record : Record, quorum : SUBSET Member,
          file : Inode \cup {NoFile}]
IdleRound == [phase |-> "idle", record |-> [version |-> 0, list |-> {}],
              quorum |-> {}, file |-> NoFile]

TypeOK ==
  /\ round \in [Aggregator -> Round]
  /\ path \in Inode \cup {NoFile}
  /\ tmp \in Inode \cup {NoFile}
  /\ content \in [Inode -> Record \cup {Partial}]

\* The record a reader finds, as the registry sees it.
Published == IF path = NoFile THEN NoRecord ELSE content[path]
Registry == INSTANCE StatusRegistry WITH record <- Published

Init ==
  /\ round = [a \in Aggregator |-> IdleRound]
  /\ path = NoFile
  /\ tmp = NoFile
  /\ content = [i \in Inode |-> Partial]

-----------------------------------------------------------------------------
(* on_status_request                                                       *)

\* What current_record lets the aggregator start from.  A record that does not
\* decode ends the request; a missing or unreadable one looks like no record.
Readable ==
  (IF path = NoFile THEN {NoRecord}
   ELSE IF content[path] = Partial THEN {} ELSE {content[path]})
    \cup (IF "read" \in Faults THEN {NoRecord} ELSE {})

\* Mutant: an issuance starts from an empty list.
NewListsFromEmpty(a, seen) ==
  {{[issuer |-> a, version |-> seen.version + 1, id |-> i]} : i \in CredentialId}
    \cup {seen.list \ {c} : c \in seen.list}

\* The list that was read with a newly issued credential, or without one of its own.
NewLists(a, seen) ==
  {seen.list \cup {[issuer |-> a, version |-> seen.version + 1, id |-> i]} : i \in CredentialId}
    \cup {seen.list \ {c} : c \in seen.list}

\* Mutant: the next version is computed without the overflow check.
BeginRoundUnchecked(a, seen, list) ==
  /\ round[a].phase = "idle"
  /\ round' = [round EXCEPT ![a] =
       [phase |-> "collect", record |-> [version |-> seen.version + 1, list |-> list],
        quorum |-> {}, file |-> NoFile]]
  /\ UNCHANGED <<path, tmp, content>>

\* The request takes the node's round mutex and proposes the next version.
BeginRound(a, seen, list) ==
  /\ round[a].phase = "idle"
  /\ seen.version < MaxVersion
  /\ round' = [round EXCEPT ![a] =
       [phase |-> "collect", record |-> [version |-> seen.version + 1, list |-> list],
        quorum |-> {}, file |-> NoFile]]
  /\ UNCHANGED <<path, tmp, content>>

\* on_proposal has no state and no policy: whoever is asked signs.  So a reply
\* that arrives is one step, and one that is lost or late is none.
Collect(a, m) ==
  LET quorum == round[a].quorum \cup {m} IN
  /\ round[a].phase = "collect"
  /\ m \notin round[a].quorum
  /\ round' = [round EXCEPT ![a].quorum = quorum,
       ![a].phase = IF Cardinality(quorum) >= Threshold THEN "create" ELSE "collect"]
  /\ UNCHANGED <<path, tmp, content>>

\* The window closes below the threshold.
Abandon(a) ==
  /\ round[a].phase = "collect"
  /\ round' = [round EXCEPT ![a] = IdleRound]
  /\ UNCHANGED <<path, tmp, content>>

-----------------------------------------------------------------------------
(* publish: write_atomic                                                   *)

InUse(i) == i = path \/ i = tmp \/ \E a \in Aggregator : round[a].file = i

\* File::create opens the temporary file if there is one, and empties it.
CreateTmp(a) ==
  /\ round[a].phase = "create"
  /\ \E i \in Inode :
       /\ IF tmp = NoFile THEN ~InUse(i) ELSE i = tmp
       /\ tmp' = i
       /\ content' = [content EXCEPT ![i] = Partial]
       /\ round' = [round EXCEPT ![a].phase = "write", ![a].file = i]
  /\ UNCHANGED path

\* Mutant: the temporary file is renamed before it is written.
WriteTmpLate(a) ==
  /\ round[a].phase = "write"
  /\ content' = content
  /\ round' = [round EXCEPT ![a].phase = "rename"]
  /\ UNCHANGED <<path, tmp>>

\* write_all and sync_all.  Over what another aggregator has written meanwhile,
\* a shorter record leaves a tail of the longer one.
WriteTmp(a) ==
  LET file == round[a].file IN
  /\ round[a].phase = "write"
  /\ \E new \in {round[a].record} \cup (IF content[file] = Partial THEN {} ELSE {Partial}) :
       content' = [content EXCEPT ![file] = new]
  /\ round' = [round EXCEPT ![a].phase = "rename"]
  /\ UNCHANGED <<path, tmp>>

\* rename takes whatever the temporary name names; it fails if the name is gone.
\* The directory sync after it changes nothing a reader sees.
RenameTmp(a) ==
  /\ round[a].phase = "rename"
  /\ path' = IF tmp = NoFile THEN path ELSE tmp
  /\ tmp' = NoFile
  /\ round' = [round EXCEPT ![a] = IdleRound]
  /\ UNCHANGED content

\* Any step of build and publish fails, and the requester is told so.
PublishFails(a) ==
  /\ "error" \in Faults
  /\ round[a].phase \in {"create", "write", "rename"}
  /\ round' = [round EXCEPT ![a] = IdleRound]
  /\ UNCHANGED <<path, tmp, content>>

\* The aggregator is killed and comes back; what it wrote stays.
Restart(a) ==
  /\ "restart" \in Faults
  /\ round[a].phase # "idle"
  /\ round' = [round EXCEPT ![a] = IdleRound]
  /\ UNCHANGED <<path, tmp, content>>

-----------------------------------------------------------------------------
Begin(a) == \E seen \in Readable : \E list \in NewLists(a, seen) : BeginRound(a, seen, list)

Next ==
  \E a \in Aggregator :
    \/ Begin(a)
    \/ \E m \in Member : Collect(a, m)
    \/ Abandon(a)
    \/ CreateTmp(a) \/ WriteTmp(a) \/ RenameTmp(a)
    \/ PublishFails(a) \/ Restart(a)

Spec == Init /\ [][Next]_vars

-----------------------------------------------------------------------------
(* Properties                                                              *)

\* A reader finds a whole record or none (demo/src/storage.rs: "Publication is
\* atomic"), whatever was interrupted while it was being published.
PublicationIsAtomic == path # NoFile => content[path] # Partial

\* The rounds implement the registry: each published record is the next version
\* and one change away from the record before it, through failed and interrupted
\* rounds.
ImplementsRegistry == Registry!Spec
=============================================================================
