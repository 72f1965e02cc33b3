-------------------------- MODULE MlDsaRoundsProofs --------------------------
(***************************************************************************)
(* What the ML-DSA rounds guarantee for every committee, threshold and     *)
(* volume.  With a single aggregator the publication is atomic and the     *)
(* record follows the registry; the run MlDsaShared shows that neither a   *)
(* second aggregator nor its round mutex preserves that.                   *)
(***************************************************************************)
EXTENDS MlDsaRounds, TLAPS

\* Only one member is asked to aggregate.
OneAggregator == \A a, b \in Aggregator : a = b

-----------------------------------------------------------------------------
(* Types                                                                   *)

\* What current_record yields has the type of a record, or is no record at all.
LEMMA ReadableType ==
  ASSUME TypeOK, NEW seen \in Readable
  PROVE  seen \in Record \cup {NoRecord}
BY DEF TypeOK, Readable, Record, NoRecord, Partial

\* A changed list of the next version is a list.
LEMMA NewListsType ==
  ASSUME NEW a \in Aggregator, NEW seen \in Record \cup {NoRecord},
         seen.version < MaxVersion, NEW list \in NewLists(a, seen)
  PROVE  /\ seen.version + 1 \in Version
         /\ list \in List
<1>1. seen.version \in Version \cup {-1} /\ seen.list \in List
  BY DEF Record, NoRecord, Nothing, List
<1>2. seen.version + 1 \in Version
  BY <1>1, VersionAssumption DEF Version
<1>3. \A i \in CredentialId : [issuer |-> a, version |-> seen.version + 1, id |-> i] \in Credential
  BY <1>2 DEF Credential
<1>4. list \in List
  BY <1>1, <1>3 DEF NewLists, List
<1> QED BY <1>2, <1>4

\* Every step keeps the types: no version leaves its width, and no round writes
\* to a file that does not exist.
LEMMA TypeStep ==
  ASSUME TypeOK, [Next]_vars
  PROVE  TypeOK'
<1> USE DEF TypeOK
<1> IdleRound \in Round
  BY VersionAssumption DEF IdleRound, Round, Phases, Record, Version, List
<1>1. CASE UNCHANGED vars
  BY <1>1 DEF vars
<1>2. ASSUME NEW a \in Aggregator, Begin(a)
      PROVE  TypeOK'
  <2>0. PICK seen \in Readable : \E list \in NewLists(a, seen) : BeginRound(a, seen, list)
    BY <1>2 DEF Begin
  <2>1. PICK list \in NewLists(a, seen) : BeginRound(a, seen, list)
    BY <2>0
  <2>2. seen \in Record \cup {NoRecord}
    BY ReadableType
  <2>3. seen.version + 1 \in Version /\ list \in List
    BY <2>1, <2>2, NewListsType DEF BeginRound
  <2>4. [phase |-> "collect", record |-> [version |-> seen.version + 1, list |-> list],
         quorum |-> {}, file |-> NoFile] \in Round
    BY <2>3 DEF Round, Phases, Record
  <2> QED BY <2>1, <2>4 DEF BeginRound
<1>3. ASSUME NEW a \in Aggregator, NEW m \in Member, Collect(a, m)
      PROVE  TypeOK'
  BY <1>3 DEF Collect, Round, Phases
<1>4. ASSUME NEW a \in Aggregator, Abandon(a) \/ PublishFails(a) \/ Restart(a)
      PROVE  TypeOK'
  BY <1>4 DEF Abandon, PublishFails, Restart
<1>5. ASSUME NEW a \in Aggregator, CreateTmp(a)
      PROVE  TypeOK'
  <2>1. PICK i \in Inode :
          /\ tmp' = i
          /\ content' = [content EXCEPT ![i] = Partial]
          /\ round' = [round EXCEPT ![a].phase = "write", ![a].file = i]
    BY <1>5 DEF CreateTmp
  <2>2. [round[a] EXCEPT !.phase = "write", !.file = i] \in Round
    BY DEF Round, Phases
  <2>3. round' = [round EXCEPT ![a] = [round[a] EXCEPT !.phase = "write", !.file = i]]
    BY <2>1
  <2>4. round' \in [Aggregator -> Round]
    BY <2>2, <2>3
  <2> QED BY <1>5, <2>1, <2>4 DEF CreateTmp
<1>6. ASSUME NEW a \in Aggregator, WriteTmp(a)
      PROVE  TypeOK'
  <2>1. round[a].record \in Record
    BY DEF Round
  <2>2. content' \in [Inode -> Record \cup {Partial}]
    BY <1>6, <2>1 DEF WriteTmp
  <2>3. round' \in [Aggregator -> Round]
    BY <1>6 DEF WriteTmp, Round, Phases
  <2> QED BY <1>6, <2>2, <2>3 DEF WriteTmp
<1>7. ASSUME NEW a \in Aggregator, RenameTmp(a)
      PROVE  TypeOK'
  BY <1>7 DEF RenameTmp
<1> QED BY <1>1, <1>2, <1>3, <1>4, <1>5, <1>6, <1>7 DEF Next

\* The rounds of any number of aggregators keep their types: the version that is
\* proposed never overflows (checked_add in on_status_request).
THEOREM TypeCorrect == Spec => []TypeOK
<1>1. Init => TypeOK
  BY VersionAssumption
  DEF Init, TypeOK, IdleRound, Round, Phases, Record, Version, List
<1>2. TypeOK /\ [Next]_vars => TypeOK'
  BY TypeStep
<1> QED BY <1>1, <1>2, PTL DEF Spec

-----------------------------------------------------------------------------
(* Publication                                                             *)

\* The temporary file is never the published one, an aggregator that writes it
\* is alone, and it is complete when it is renamed.
Files ==
  /\ tmp = NoFile \/ tmp # path
  /\ \A a \in Aggregator : round[a].phase \in {"write", "rename"} =>
       /\ tmp # NoFile /\ round[a].file = tmp
       /\ round[a].phase = "write" => content[tmp] = Partial
       /\ round[a].phase = "rename" => content[tmp] = round[a].record
  /\ PublicationIsAtomic

\* A whole record is never mistaken for a partial one.
LEMMA RecordIsWhole == ASSUME NEW r \in Record PROVE r # Partial
BY VersionAssumption DEF Record, Partial, Nothing, Version

\* With one aggregator every step, failed publications and restarts in the middle
\* of one included, keeps the files apart.
LEMMA FilesStep ==
  ASSUME OneAggregator, TypeOK, Files, [Next]_vars
  PROVE  Files'
<1> USE DEF Files, PublicationIsAtomic
<1>1. CASE UNCHANGED vars
  BY <1>1 DEF vars
<1>2. ASSUME NEW a \in Aggregator, Begin(a)
      PROVE  Files'
  BY <1>2 DEF Begin, BeginRound, TypeOK
<1>3. ASSUME NEW a \in Aggregator, NEW m \in Member, Collect(a, m)
      PROVE  Files'
  BY <1>3 DEF Collect, TypeOK, Round
<1>4. ASSUME NEW a \in Aggregator, Abandon(a) \/ PublishFails(a) \/ Restart(a)
      PROVE  Files'
  BY <1>4 DEF Abandon, PublishFails, Restart, IdleRound, TypeOK
<1>5. ASSUME NEW a \in Aggregator, CreateTmp(a)
      PROVE  Files'
  <2>1. PICK i \in Inode :
          /\ IF tmp = NoFile THEN ~InUse(i) ELSE i = tmp
          /\ tmp' = i
          /\ content' = [content EXCEPT ![i] = Partial]
          /\ round' = [round EXCEPT ![a].phase = "write", ![a].file = i]
    BY <1>5 DEF CreateTmp
  <2>2. i # path /\ i # NoFile
    BY <2>1, InodeAssumption DEF InUse
  <2>3. path' = path
    BY <1>5 DEF CreateTmp
  <2>4. PublicationIsAtomic'
    BY <2>1, <2>2, <2>3 DEF TypeOK
  <2>5. \A b \in Aggregator : b = a
    BY DEF OneAggregator
  <2>6. round'[a].phase = "write" /\ round'[a].file = i /\ content'[i] = Partial
    BY <2>1 DEF TypeOK, Round
  <2> QED BY <2>1, <2>2, <2>3, <2>4, <2>5, <2>6
<1>6. ASSUME NEW a \in Aggregator, WriteTmp(a)
      PROVE  Files'
  <2>1. /\ round[a].file = tmp /\ tmp # NoFile /\ tmp \in Inode
        /\ content[tmp] = Partial
    BY <1>6 DEF WriteTmp, TypeOK
  <2>2. content' = [content EXCEPT ![tmp] = round[a].record]
    BY <1>6, <2>1 DEF WriteTmp
  <2>3. \A b \in Aggregator : b = a
    BY DEF OneAggregator
  <2>4. /\ round'[a].phase = "rename" /\ round'[a].file = tmp
        /\ round'[a].record = round[a].record
    BY <1>6, <2>1 DEF WriteTmp, TypeOK, Round
  <2>5. path' = path /\ tmp' = tmp
    BY <1>6 DEF WriteTmp
  <2>6. content'[tmp] = round[a].record
    BY <2>1, <2>2 DEF TypeOK
  <2>7. PublicationIsAtomic'
    BY <2>1, <2>2, <2>5 DEF TypeOK
  <2> QED BY <2>1, <2>3, <2>4, <2>5, <2>6, <2>7
<1>7. ASSUME NEW a \in Aggregator, RenameTmp(a)
      PROVE  Files'
  <2>1. tmp # NoFile /\ content[tmp] = round[a].record
    BY <1>7 DEF RenameTmp
  <2>2. round[a].record # Partial
    BY RecordIsWhole DEF TypeOK, Round
  <2>3. \A b \in Aggregator : b = a
    BY DEF OneAggregator
  <2>4. round'[a].phase = "idle"
    BY <1>7 DEF RenameTmp, IdleRound, TypeOK
  <2> QED BY <1>7, <2>1, <2>2, <2>3, <2>4 DEF RenameTmp
<1> QED BY <1>1, <1>2, <1>3, <1>4, <1>5, <1>6, <1>7 DEF Next

\* The initial state has no file.
LEMMA FilesInit == Init => Files
BY DEF Init, Files, PublicationIsAtomic, IdleRound

\* With one aggregator a reader finds a whole record or none, for every volume and
\* every place where write_atomic fails or is interrupted.
THEOREM PublicationAtomic == OneAggregator /\ Spec => []PublicationIsAtomic
<1>1. Init => TypeOK
  BY VersionAssumption
  DEF Init, TypeOK, IdleRound, Round, Phases, Record, Version, List
<1>2. OneAggregator /\ TypeOK /\ Files /\ [Next]_vars => TypeOK' /\ Files'
  BY TypeStep, FilesStep
<1>3. Files => PublicationIsAtomic
  BY DEF Files
<1>4. OneAggregator => OneAggregator'
  BY DEF OneAggregator
<1> QED BY <1>1, <1>2, <1>3, <1>4, FilesInit, PTL DEF Spec

-----------------------------------------------------------------------------
(* The registry                                                            *)

\* The round under way changes what is published by one credential.
Follows ==
  /\ \A c \in Published.list : c.version <= Published.version
  /\ \A a \in Aggregator : round[a].phase # "idle" =>
       /\ round[a].record.version = Published.version + 1
       /\ Registry!OneChange(Published.list, round[a].record.list)
       /\ \A c \in round[a].record.list : c.version <= round[a].record.version

\* The published record has the type of a record, or is none.
LEMMA PublishedType == ASSUME TypeOK PROVE Published \in Record \cup {NoRecord}
BY DEF TypeOK, Published, Partial, NoRecord

\* A credential of the next version is new to the list, so that either kind of
\* request changes exactly one credential.
LEMMA NewListsFollow ==
  ASSUME NEW a \in Aggregator, NEW seen \in Record \cup {NoRecord},
         seen.version < MaxVersion, NEW list \in NewLists(a, seen),
         \A c \in seen.list : c.version <= seen.version
  PROVE  /\ Registry!OneChange(seen.list, list)
         /\ \A c \in list : c.version <= seen.version + 1
<1>1. seen.version \in Int /\ seen.list \subseteq Credential
  BY VersionAssumption DEF Record, NoRecord, Nothing, List, Version
<1>2. seen.version + 1 \in Version
  BY NewListsType
<1>3. \A c \in seen.list : c.version \in Int
  BY <1>1, VersionAssumption DEF Credential, Version
<1>4. ASSUME NEW i \in CredentialId,
             list = seen.list \cup {[issuer |-> a, version |-> seen.version + 1, id |-> i]}
      PROVE  /\ Registry!OneChange(seen.list, list)
             /\ \A c \in list : c.version <= seen.version + 1
  <2> DEFINE new == [issuer |-> a, version |-> seen.version + 1, id |-> i]
  <2>1. new \in Credential /\ new.version = seen.version + 1
    BY <1>2 DEF Credential
  <2> HIDE DEF new
  <2>2. new \notin seen.list
    BY <1>1, <1>3, <2>1
  <2>3. list = seen.list \cup {new}
    BY <1>4 DEF new
  <2>4. Registry!OneChange(seen.list, list)
    BY <2>1, <2>2, <2>3 DEF Registry!OneChange
  <2>5. \A c \in list : c.version <= seen.version + 1
    BY <1>1, <1>3, <2>1, <2>3
  <2> QED BY <2>4, <2>5
<1>5. ASSUME NEW c \in seen.list, list = seen.list \ {c}
      PROVE  /\ Registry!OneChange(seen.list, list)
             /\ \A d \in list : d.version <= seen.version + 1
  <2>1. Registry!OneChange(seen.list, list)
    BY <1>1, <1>5 DEF Registry!OneChange
  <2>2. \A d \in list : d.version <= seen.version + 1
    BY <1>1, <1>3, <1>5
  <2> QED BY <2>1, <2>2
<1> QED BY <1>4, <1>5 DEF NewLists

\* What every step does to the registry: it publishes the next version, or nothing.
LEMMA FollowsStep ==
  ASSUME OneAggregator, "read" \notin Faults, TypeOK, Files, Follows, [Next]_vars
  PROVE  Follows' /\ [Registry!Update]_Published
<1>1. CASE UNCHANGED vars
  BY <1>1 DEF vars, Follows, Published
<1>2. ASSUME NEW a \in Aggregator, Begin(a)
      PROVE  Follows' /\ Published' = Published
  <2>0. PICK seen \in Readable : \E list \in NewLists(a, seen) : BeginRound(a, seen, list)
    BY <1>2 DEF Begin
  <2>1. PICK list \in NewLists(a, seen) : BeginRound(a, seen, list)
    BY <2>0
  <2>2. seen = Published
    BY DEF Readable, Published
  <2>3. seen \in Record \cup {NoRecord} /\ seen.version < MaxVersion
    BY <2>1, ReadableType DEF BeginRound
  <2>4. \A c \in seen.list : c.version <= seen.version
    BY <2>2 DEF Follows
  <2>5. /\ Registry!OneChange(seen.list, list)
        /\ \A c \in list : c.version <= seen.version + 1
    BY <2>3, <2>4, NewListsFollow
  <2>6. Published' = Published
    BY <2>1 DEF BeginRound, Published
  <2>7. /\ round'[a].record.version = seen.version + 1
        /\ round'[a].record.list = list
    BY <2>1 DEF BeginRound, TypeOK
  <2>8. \A b \in Aggregator : b = a
    BY DEF OneAggregator
  <2> QED BY <2>2, <2>4, <2>5, <2>6, <2>7, <2>8 DEF Follows
<1>3. ASSUME NEW a \in Aggregator, UNCHANGED <<path, content>>,
             round'[a].phase = "idle" \/
               (round[a].phase # "idle" /\ round'[a].record = round[a].record)
      PROVE  Follows' /\ Published' = Published
  <2>1. Published' = Published
    BY <1>3 DEF Published
  <2>2. \A b \in Aggregator : b = a
    BY DEF OneAggregator
  <2> QED BY <1>3, <2>1, <2>2 DEF Follows
<1>4. ASSUME NEW a \in Aggregator, NEW m \in Member, Collect(a, m)
      PROVE  Follows' /\ Published' = Published
  <2>1. round[a].phase # "idle" /\ round'[a].record = round[a].record
    BY <1>4 DEF Collect, TypeOK, Round
  <2> QED BY <1>3, <1>4, <2>1 DEF Collect
<1>5. ASSUME NEW a \in Aggregator, Abandon(a) \/ PublishFails(a) \/ Restart(a)
      PROVE  Follows' /\ Published' = Published
  <2>1. round'[a].phase = "idle"
    BY <1>5 DEF Abandon, PublishFails, Restart, IdleRound, TypeOK
  <2> QED BY <1>3, <1>5, <2>1 DEF Abandon, PublishFails, Restart
<1>6. ASSUME NEW a \in Aggregator, CreateTmp(a) \/ WriteTmp(a)
      PROVE  Follows' /\ Published' = Published
  <2>1. PICK i \in Inode : i # path /\ \E new : content' = [content EXCEPT ![i] = new]
    <3>1. CASE CreateTmp(a)
      BY <3>1 DEF CreateTmp, InUse, Files
    <3>2. CASE WriteTmp(a)
      <4>1. round[a].file = tmp /\ tmp \in Inode /\ tmp # path
        BY <3>2 DEF WriteTmp, Files, TypeOK
      <4> QED BY <3>2, <4>1 DEF WriteTmp
    <3> QED BY <1>6, <3>1, <3>2
  <2>2. Published' = Published
    BY <1>6, <2>1 DEF Published, CreateTmp, WriteTmp, TypeOK
  <2>3. round[a].phase # "idle"
    BY <1>6 DEF CreateTmp, WriteTmp
  <2>4. round'[a].record = round[a].record
    <3>1. CASE CreateTmp(a)
      <4>1. PICK j \in Inode : round' = [round EXCEPT ![a].phase = "write", ![a].file = j]
        BY <3>1 DEF CreateTmp
      <4> QED BY <4>1 DEF TypeOK, Round
    <3>2. CASE WriteTmp(a)
      BY <3>2 DEF WriteTmp, TypeOK, Round
    <3> QED BY <1>6, <3>1, <3>2
  <2>5. \A b \in Aggregator : b = a
    BY DEF OneAggregator
  <2> QED BY <2>2, <2>3, <2>4, <2>5 DEF Follows
<1>7. ASSUME NEW a \in Aggregator, RenameTmp(a)
      PROVE  Follows' /\ Registry!Update
  <2>1. tmp # NoFile /\ content[tmp] = round[a].record
    BY <1>7 DEF RenameTmp, Files
  <2>2. Published' = round[a].record
    BY <1>7, <2>1 DEF RenameTmp, Published
  <2>3. /\ round[a].record.version = Published.version + 1
        /\ Registry!OneChange(Published.list, round[a].record.list)
        /\ \A c \in round[a].record.list : c.version <= round[a].record.version
    BY <1>7 DEF RenameTmp, Follows
  <2>4. \A b \in Aggregator : b = a
    BY DEF OneAggregator
  <2>5. round'[a].phase = "idle"
    BY <1>7 DEF RenameTmp, IdleRound, TypeOK
  <2>6. Follows'
    BY <2>2, <2>3, <2>4, <2>5 DEF Follows
  <2>7. Registry!Update
    BY <2>2, <2>3 DEF Registry!Update
  <2> QED BY <2>6, <2>7
<1> QED BY <1>1, <1>2, <1>4, <1>5, <1>6, <1>7 DEF Next

\* With one aggregator, and a volume whose read errors are not mistaken for an
\* absent record, the rounds implement the registry: nothing else is needed to keep
\* the versions in order, although the members sign whatever they are asked to.
THEOREM RoundsImplementRegistry ==
  OneAggregator /\ "read" \notin Faults /\ Spec => ImplementsRegistry
<1>1. Init => TypeOK
  BY VersionAssumption
  DEF Init, TypeOK, IdleRound, Round, Phases, Record, Version, List
<1>2. Init => Follows /\ Registry!Init
  BY DEF Init, Follows, Registry!Init, Published, NoRecord, IdleRound, Nothing, Registry!Nothing
<1>3. OneAggregator /\ "read" \notin Faults /\ TypeOK /\ Files /\ Follows /\ [Next]_vars
        => TypeOK' /\ Files' /\ Follows' /\ [Registry!Update]_Published
  BY TypeStep, FilesStep, FollowsStep
<1>4. OneAggregator => OneAggregator'
  BY DEF OneAggregator
<1>5. "read" \notin Faults => ("read" \notin Faults)'
  OBVIOUS
<1> QED BY <1>1, <1>2, <1>3, <1>4, <1>5, FilesInit, PTL
        DEF Spec, ImplementsRegistry, Registry!Spec
=============================================================================
