---------------------------- MODULE HolderProofs ----------------------------
(***************************************************************************)
(* The holder's invariants for every number of aggregators, versions and   *)
(* identifiers and every combination of faults.  SavedIsAccepted holds in  *)
(* both modes, also where storage hands out older records; that verdicts   *)
(* never go back needs the ordered registry of XMSS mode, and the mark.    *)
(***************************************************************************)
EXTENDS Holder, TLAPS

-----------------------------------------------------------------------------
(* Types                                                                   *)

\* The jobs that may begin are jobs.
LEMMA JobTypes ==
  ASSUME NEW base \in Record \cup {NoRecord}, base.version < MaxVersion
  PROVE  /\ base.version \in Nothing .. MaxVersion /\ base.version + 1 \in Version
         /\ base.list \subseteq Credential
         /\ IssueJobs(base) \subseteq Job
         /\ \A c : RevokeJobs(base, c) \subseteq Job
<1>1. /\ base.version \in Nothing .. MaxVersion /\ base.version + 1 \in Version
      /\ base.list \subseteq Credential
  BY VersionAssumption DEF Record, NoRecord, Version, Nothing
<1>2. IssueJobs(base) \subseteq Job
  BY <1>1 DEF IssueJobs, Issue, Job, Record
<1>3. ASSUME NEW c PROVE RevokeJobs(base, c) \subseteq Job
  <2>1. \A d \in base.list \cap {c} : d = c /\ c \in Credential
    BY <1>1
  <2> QED BY <1>1, <2>1 DEF RevokeJobs, Job, Record
<1> QED BY <1>1, <1>2, <1>3

\* What the volume hands out is a record, never the absence of one.
LEMMA ReadableTypes == TypeOK => Readable \subseteq Record /\ NoRecord \notin Readable
<1>1. NoRecord \notin Record
  BY DEF Record, NoRecord, Version, Nothing
<1> QED BY <1>1 DEF TypeOK, Readable

\* The records that a round may start from are records.
LEMMA BasesTypes == TypeOK => Bases \subseteq Record \cup {NoRecord}
BY ReadableTypes DEF Bases

\* What the round is about is a credential.
LEMMA SubjectType == TypeOK => Subject \in Credential \cup {NoCredential}
BY DEF TypeOK, Subject, Job, NoJob

\* Every reachable state is of the declared types.
LEMMA TypeInit == Init => TypeOK
BY VersionAssumption DEF Init, TypeOK, Phases, Actions, Mark, Nothing, Missing

\* A round that fails leaves well-typed state.
LEMMA TypeFails == TypeOK /\ RoundFails =>
  /\ phase' \in Phases /\ action' \in Actions /\ updated' \in Job \cup {NoJob}
  /\ fetched' \in Record \cup {NoRecord} /\ saved' \in Credential \cup {NoCredential}
  /\ told' \in [Credential -> {"unknown", "valid", "revoked"}]
BY DEF TypeOK, RoundFails, EndRound, Phases, Actions

\* A round that ends with a verdict leaves well-typed state.
LEMMA TypeEnds ==
  ASSUME TypeOK, fetched # NoRecord, mark' \in Mark,
         NEW c \in Credential \cup {NoCredential},
         NEW status \in {"valid", "revoked"}, RoundEnds(c, status)
  PROVE  /\ phase' \in Phases /\ action' \in Actions /\ updated' \in Job \cup {NoJob}
         /\ fetched' \in Record \cup {NoRecord}
         /\ told' \in [Credential -> {"unknown", "valid", "revoked"}]
<1>1. told' \in [Credential -> {"unknown", "valid", "revoked"}]
  BY DEF TypeOK, RoundEnds
<1> QED BY <1>1 DEF TypeOK, RoundEnds, EndRound, Phases, Actions

\* So does a round that concludes, either way.
LEMMA TypeConclude ==
  ASSUME TypeOK, fetched # NoRecord, mark' \in Mark, Conclude
  PROVE  /\ phase' \in Phases /\ action' \in Actions /\ updated' \in Job \cup {NoJob}
         /\ fetched' \in Record \cup {NoRecord} /\ saved' \in Credential \cup {NoCredential}
         /\ told' \in [Credential -> {"unknown", "valid", "revoked"}]
<1>1. CASE RoundFails
  BY <1>1, TypeFails
<1>2. CASE phase' = "save" /\ UNCHANGED <<action, updated, fetched, saved, told>>
  BY <1>2 DEF TypeOK, Phases
<1>3. ASSUME NEW status \in {"valid", "revoked"}, RoundEnds(Subject, status), UNCHANGED saved
      PROVE  /\ phase' \in Phases /\ action' \in Actions /\ updated' \in Job \cup {NoJob}
             /\ fetched' \in Record \cup {NoRecord} /\ saved' \in Credential \cup {NoCredential}
             /\ told' \in [Credential -> {"unknown", "valid", "revoked"}]
  BY <1>3, SubjectType, TypeEnds DEF TypeOK
<1> QED BY <1>1, <1>2, <1>3 DEF Conclude

\* A record in hand is a record, not the absence of one.
FetchInv == phase \in {"accept", "save"} => fetched # NoRecord

\* What the holder keeps of a round that it asked for.
AskedInv ==
  /\ action = "verify" => updated = NoJob
  /\ action # "verify" /\ phase \notin {"request", "idle", "down"} => updated # NoJob
  /\ phase \in {"request", "wait"} => action # "verify"
  /\ phase = "save" => action = "issue"
  /\ action = "issue" /\ updated # NoJob =>
       updated.credential.version = updated.record.version
  /\ action = "revoke" /\ updated # NoJob => updated.credential = saved
  /\ phase \in {"idle", "down"} => updated = NoJob

\* The mark in memory is never ahead of the file, and covers what is saved or
\* about to be saved.
Covered(m) == saved # NoCredential => saved.version <= m
MarkInv ==
  /\ phase = "down" => Covered(file)
  /\ phase # "down" => file # Missing /\ mark <= file /\ Covered(mark)
  /\ phase = "save" => updated.credential.version <= mark

LocalInv == TypeOK /\ FetchInv /\ AskedInv /\ MarkInv

-----------------------------------------------------------------------------
(* The invariant that holds in both modes                                  *)

\* The local invariant holds initially.
LEMMA LocalInit == Init => LocalInv
BY TypeInit DEF Init, LocalInv, FetchInv, AskedInv, MarkInv, Covered

\* Every step keeps the types.
LEMMA StepTypes == TypeOK /\ FetchInv /\ [Next]_vars => TypeOK'
<1> SUFFICES ASSUME TypeOK, FetchInv, [Next]_vars PROVE TypeOK'
  OBVIOUS
<1>1. CASE OtherRound
  <2>1. PICK base \in Bases : base.version < MaxVersion /\
           \E job \in IssueJobs(base) \cup UNION {RevokeJobs(base, c) : c \in issued} :
             jobs' = jobs \cup {job} /\ issued' = issued \cup {job.credential}
    BY <1>1 DEF OtherRound, CanBegin
  <2>2. PICK job \in Job : jobs' = jobs \cup {job} /\ issued' = issued \cup {job.credential}
    BY <2>1, BasesTypes, JobTypes
  <2>3. jobs' \in SUBSET Job /\ issued' \in SUBSET Credential
    BY <2>2 DEF TypeOK, Job
  <2> QED BY <1>1, <2>3 DEF TypeOK, OtherRound
<1>2. ASSUME NEW job \in jobs, Publish(job) PROVE TypeOK'
  <2>1. job.record \in Record
    BY DEF TypeOK, Job
  <2> QED BY <1>2, <2>1 DEF TypeOK, Publish, Phases
<1>3. ASSUME NEW job \in jobs, AbandonJob(job) PROVE TypeOK'
  BY <1>3 DEF TypeOK, AbandonJob
<1>4. ASSUME NEW mode, Build(mode) PROVE TypeOK'
  BY <1>4, VersionAssumption DEF TypeOK, Build, registryVars, Phases, Mark, Nothing, Missing
<1>5. CASE Restart
  BY <1>5, VersionAssumption DEF TypeOK, Restart, registryVars, Phases, Actions, Mark, Nothing
<1>6. ASSUME NEW a \in Actions, Handle(a) PROVE TypeOK'
  BY <1>6 DEF TypeOK, Handle, registryVars, Phases
<1>7. CASE RequestStatusUpdate
  <2>1. PICK base \in Bases : base.version < MaxVersion /\
           \E job \in IF action = "issue" THEN IssueJobs(base) ELSE RevokeJobs(base, saved) :
             jobs' = jobs \cup {job} /\ issued' = issued \cup {job.credential}
               /\ updated' = job
    BY <1>7 DEF RequestStatusUpdate, CanBegin
  <2>2. PICK job \in Job : jobs' = jobs \cup {job} /\ issued' = issued \cup {job.credential}
                             /\ updated' = job
    BY <2>1, BasesTypes, JobTypes
  <2>3. jobs' \in SUBSET Job /\ issued' \in SUBSET Credential /\ updated' \in Job
    BY <2>2 DEF TypeOK, Job
  <2> QED BY <1>7, <2>3 DEF TypeOK, RequestStatusUpdate, Phases
<1>8. CASE RequestFails
  BY <1>8, TypeFails DEF TypeOK, RequestFails, registryVars
<1>9. CASE Fetch
  <2>1. CASE RoundFails
    BY <1>9, <2>1, TypeFails DEF TypeOK, Fetch, registryVars
  <2>2. CASE ~RoundFails
    BY <1>9, <2>2, ReadableTypes DEF TypeOK, Fetch, registryVars, Phases
  <2> QED BY <2>1, <2>2
<1>10. CASE Accept
  <2>1. fetched # NoRecord /\ fetched.version \in Version
    BY <1>10 DEF Accept, FetchInv, TypeOK, Record
  <2>2. Version \subseteq Mark
    BY VersionAssumption DEF Version, Mark, Nothing
  <2>3. CASE Advance(fetched.version) /\ Conclude
    <3>1. mark' \in Mark /\ file' \in Mark \cup {Missing}
      BY <2>1, <2>2, <2>3 DEF Advance, TypeOK
    <3> QED BY <1>10, <2>1, <2>3, <3>1, TypeConclude DEF TypeOK, Accept, registryVars
  <2>4. CASE Refused(fetched.version) /\ RoundFails
    <3>1. mark' \in Mark /\ file' \in Mark \cup {Missing}
      BY <2>1, <2>2, <2>4 DEF Refused, TypeOK
    <3> QED BY <1>10, <2>4, <3>1, TypeFails DEF TypeOK, Accept, registryVars
  <2> QED BY <1>10, <2>3, <2>4 DEF Accept
<1>11. CASE Save
  <2>1. fetched # NoRecord /\ updated.credential \in Credential \cup {NoCredential}
    BY <1>11 DEF Save, FetchInv, TypeOK, Job, NoJob
  <2>2. CASE RoundEnds(saved', "valid") /\ saved' = updated.credential
    BY <1>11, <2>1, <2>2, TypeEnds DEF TypeOK, Save, registryVars
  <2>3. CASE EndRound /\ saved' \in {saved, updated.credential} /\ UNCHANGED told
    BY <1>11, <2>1, <2>3 DEF TypeOK, Save, registryVars, EndRound, Phases, Actions
  <2> QED BY <1>11, <2>2, <2>3 DEF Save
<1>12. CASE UNCHANGED vars
  BY <1>12 DEF TypeOK, vars
<1> QED BY <1>1, <1>2, <1>3, <1>4, <1>5, <1>6, <1>7, <1>8, <1>9, <1>10, <1>11, <1>12
        DEF Next, Step

\* A failed round leaves the mark's side alone.
LEMMA FailsLocal ==
  ASSUME LocalInv, RoundFails, phase # "down", UNCHANGED mark, mark <= file', file' # Missing
  PROVE  FetchInv' /\ AskedInv' /\ MarkInv'
BY DEF LocalInv, RoundFails, EndRound, FetchInv, AskedInv, MarkInv, Covered

\* So does a round that ends with a verdict, for what is saved by then.
LEMMA EndsLocal ==
  ASSUME EndRound, mark' <= file', file' # Missing, Covered(mark)'
  PROVE  FetchInv' /\ AskedInv' /\ MarkInv'
BY DEF EndRound, FetchInv, AskedInv, MarkInv, Covered

\* The version that the subject of an issuance names is the one that was read.
LEMMA SubjectOfIssue ==
  ASSUME LocalInv, phase = "accept", action = "issue",
         updated = NoJob \/ updated.record.version = fetched.version
  PROVE  updated # NoJob /\ updated.credential.version = fetched.version
BY DEF LocalInv, AskedInv

\* The local invariant is inductive: what is fetched, asked for and marked stay in step.
LEMMA LocalStep == LocalInv /\ [Next]_vars => LocalInv'
<1> SUFFICES ASSUME LocalInv, [Next]_vars PROVE FetchInv' /\ AskedInv' /\ MarkInv'
  BY StepTypes DEF LocalInv
<1>1. CASE OtherRound
  BY <1>1 DEF OtherRound, LocalInv, FetchInv, AskedInv, MarkInv, Covered
<1>2. ASSUME NEW job \in jobs, Publish(job) PROVE FetchInv' /\ AskedInv' /\ MarkInv'
  BY <1>2 DEF Publish, LocalInv, FetchInv, AskedInv, MarkInv, Covered
<1>3. ASSUME NEW job \in jobs, AbandonJob(job) PROVE FetchInv' /\ AskedInv' /\ MarkInv'
  BY <1>3 DEF AbandonJob, LocalInv, FetchInv, AskedInv, MarkInv, Covered
<1>4. ASSUME NEW mode, Build(mode) PROVE FetchInv' /\ AskedInv' /\ MarkInv'
  <2>0. file = Missing => saved = NoCredential
    <3>1. saved # NoCredential => saved.version \in Version
      BY DEF LocalInv, TypeOK, Credential
    <3> QED BY <1>4, <3>1 DEF Build, LocalInv, MarkInv, Covered, Missing, Version
  <2>1. file' # Missing /\ Covered(file)'
    BY <1>4, <2>0 DEF Build, LocalInv, MarkInv, Covered, Missing, Nothing
  <2>2. file' \in Mark
    BY <1>4, <2>1, StepTypes DEF LocalInv, TypeOK, Next
  <2>3. mark' = file' /\ mark' <= file'
    BY <1>4, <2>2, VersionAssumption DEF Build, Mark, Nothing
  <2> QED BY <1>4, <2>1, <2>3 DEF Build, LocalInv, FetchInv, AskedInv, MarkInv, Covered
<1>5. CASE Restart
  <2>1. Covered(file)
    BY <1>5 DEF Restart, LocalInv, MarkInv, Covered, TypeOK, Mark, Nothing, Missing, Credential,
       Version
  <2> QED BY <1>5, <2>1 DEF Restart, LocalInv, FetchInv, AskedInv, MarkInv, Covered
<1>6. ASSUME NEW a \in Actions, Handle(a) PROVE FetchInv' /\ AskedInv' /\ MarkInv'
  BY <1>6 DEF Handle, LocalInv, FetchInv, AskedInv, MarkInv, Covered
<1>7. CASE RequestStatusUpdate
  <2>1. PICK base \in Bases : base.version < MaxVersion /\
           \E job \in IF action = "issue" THEN IssueJobs(base) ELSE RevokeJobs(base, saved) :
             updated' = job
    BY <1>7 DEF RequestStatusUpdate, CanBegin
  <2>2. updated' \in Job
    BY <2>1, BasesTypes, JobTypes DEF LocalInv
  <2>3. updated' # NoJob
    BY <2>2 DEF Job, NoJob, Credential, NoCredential, Version, Nothing
  <2>4. action = "issue" => updated'.credential.version = updated'.record.version
    BY <2>1 DEF IssueJobs, Issue
  <2>5. action # "issue" => updated'.credential = saved
    BY <2>1 DEF RevokeJobs
  <2>6. action # "verify"
    BY <1>7 DEF RequestStatusUpdate, LocalInv, AskedInv
  <2> QED BY <1>7, <2>3, <2>4, <2>5, <2>6
          DEF RequestStatusUpdate, LocalInv, FetchInv, AskedInv, MarkInv, Covered
<1>8. CASE RequestFails
  <2>1. mark <= file' /\ file' # Missing
    BY <1>8 DEF RequestFails, LocalInv, MarkInv
  <2> QED BY <1>8, <2>1, FailsLocal DEF RequestFails
<1>9. CASE Fetch
  <2>1. mark <= file' /\ file' # Missing
    BY <1>9 DEF Fetch, LocalInv, MarkInv
  <2>2. CASE RoundFails
    BY <1>9, <2>1, <2>2, FailsLocal DEF Fetch
  <2>3. CASE ~RoundFails
    BY <1>9, <2>3, ReadableTypes DEF Fetch, LocalInv, FetchInv, AskedInv, MarkInv, Covered
  <2> QED BY <2>2, <2>3
<1>10. CASE Accept
  <2>1. fetched # NoRecord /\ fetched.version \in Version /\ phase = "accept"
    BY <1>10 DEF Accept, LocalInv, FetchInv, TypeOK, Record
  <2>2. /\ mark \in Mark /\ file \in Mark /\ mark <= file /\ Covered(mark)
    BY <2>1 DEF LocalInv, TypeOK, MarkInv
  <2>3. CASE Advance(fetched.version) /\ Conclude
    <3>1. mark' <= file' /\ file' # Missing /\ mark <= mark' /\ fetched.version <= mark'
      BY <2>1, <2>2, <2>3, VersionAssumption DEF Advance, Mark, Version, Nothing, Missing
    <3>2. mark' \in Mark
      BY <2>1, <2>2, <2>3, VersionAssumption DEF Advance, Mark, Version, Nothing
    <3>3. UNCHANGED saved => Covered(mark)'
      BY <2>2, <3>1, <3>2, VersionAssumption DEF LocalInv, TypeOK, Covered, Mark, Nothing,
         Credential, Version
    <3>4. CASE RoundFails
      BY <2>1, <3>1, <3>3, <3>4, EndsLocal DEF RoundFails
    <3>5. CASE /\ action = "issue" /\ (updated = NoJob \/ updated.record.version = fetched.version)
               /\ phase' = "save" /\ UNCHANGED <<action, updated, fetched, saved, told>>
      <4>1. updated # NoJob /\ updated.credential.version <= mark'
        BY <2>1, <3>1, <3>5, SubjectOfIssue
      <4> QED BY <2>1, <3>1, <3>3, <3>5, <4>1 DEF LocalInv, FetchInv, AskedInv, MarkInv, Covered
    <3>6. CASE EndRound /\ UNCHANGED saved
      BY <3>1, <3>3, <3>6, EndsLocal
    <3> QED BY <2>3, <3>4, <3>5, <3>6 DEF Conclude, RoundEnds
  <2>4. CASE Refused(fetched.version) /\ RoundFails
    <3>1. mark <= file' /\ file' # Missing /\ UNCHANGED mark
      BY <2>1, <2>2, <2>4, VersionAssumption DEF Refused, Mark, Version, Nothing, Missing
    <3> QED BY <2>1, <2>4, <3>1, FailsLocal
  <2> QED BY <1>10, <2>3, <2>4 DEF Accept
<1>11. CASE Save
  <2>1. /\ mark' <= file' /\ file' # Missing
        /\ saved' \in {saved, updated.credential}
        /\ EndRound
    BY <1>11 DEF Save, LocalInv, MarkInv, RoundEnds
  <2>2. Covered(mark)'
    BY <1>11, <2>1 DEF Save, LocalInv, MarkInv, Covered
  <2> QED BY <2>1, <2>2, EndsLocal
<1>12. CASE UNCHANGED vars
  BY <1>12 DEF vars, LocalInv, FetchInv, AskedInv, MarkInv, Covered
<1> QED BY <1>1, <1>2, <1>3, <1>4, <1>5, <1>6, <1>7, <1>8, <1>9, <1>10, <1>11, <1>12
        DEF Next, Step

-----------------------------------------------------------------------------
(* The invariant of XMSS mode                                              *)

\* The versions of the published records follow one another, the newest is the one
\* on file, and a later record has only lost credentials of the versions before it.
PastInv ==
  /\ published # NoRecord => published \in past
  /\ \A r \in past : r.version <= published.version /\ \A c \in r.list : c.version <= r.version
  /\ \A r, s \in past : r.version <= s.version =>
       \A c \in s.list : c.version <= r.version => c \in r.list

\* A job that may still be published adds nothing but a credential of its own
\* version to the published record.
JobInv == \A job \in jobs :
  /\ job.record.version <= published.version + 1
  /\ job.record.version = published.version + 1 =>
       \A c \in job.record.list : c \in published.list \/ c.version = job.record.version

\* The mark is behind the published record.
BehindInv == file <= published.version

\* What was read was published; what is about to be saved is in it, and the mark
\* has passed it.
FetchedInv == phase \in {"accept", "save"} =>
  /\ fetched \in past
  /\ phase = "save" => updated.credential \in fetched.list /\ fetched.version <= mark

\* What was told to be revoked is gone from every record that the mark, or the mark
\* that will be opened, lets pass as not older.
Gate == IF phase = "down" THEN file ELSE mark
ToldInv == \A c \in Credential : told[c] = "revoked" =>
  /\ c.version <= published.version
  /\ \A r \in past : r.version >= Gate => c \notin r.list

XmssInv == LocalInv /\ PastInv /\ JobInv /\ BehindInv /\ FetchedInv /\ ToldInv

\* The invariant of the XMSS mode holds initially.
LEMMA XmssInit == Init => XmssInv
BY LocalInit DEF Init, XmssInv, PastInv, JobInv, BehindInv, FetchedInv, ToldInv, NoRecord, Missing,
   Nothing

\* Versions and marks are numbers.
LEMMA Numbers ==
  ASSUME TypeOK
  PROVE  /\ published.version \in Nothing .. MaxVersion /\ published.version \in Int
         /\ mark \in Int /\ file \in Int /\ Nothing \in Int /\ Missing \in Int
         /\ \A r \in past : r.version \in Int /\ r.version >= 0 /\ r.list \subseteq Credential
         /\ \A c \in Credential : c.version \in Int /\ c.version >= 0
BY VersionAssumption DEF TypeOK, Record, NoRecord, Version, Nothing, Missing, Mark, Credential

\* A job that begins now can only add a credential of its own version.
LEMMA NewJob ==
  ASSUME XmssInv, NEW base \in Bases, base.version < MaxVersion,
         NEW c, NEW job \in IssueJobs(base) \cup RevokeJobs(base, c)
  PROVE  /\ job.record.version <= published.version + 1
         /\ job.record.version = published.version + 1 =>
              \A d \in job.record.list : d \in published.list \/ d.version = job.record.version
<1>0. TypeOK
  BY DEF XmssInv, LocalInv
<1>1. base \in past \/ base = NoRecord
  BY DEF Bases, Readable, XmssInv, PastInv
<1>2. job.record.version = base.version + 1
  BY DEF IssueJobs, RevokeJobs
<1>3. \A d \in job.record.list : d \in base.list \/ d.version = job.record.version
  BY DEF IssueJobs, RevokeJobs, Issue
<1>4. /\ base.version \in Int /\ published.version \in Int /\ base.version <= published.version
  BY <1>0, <1>1, Numbers, VersionAssumption DEF NoRecord, Nothing, XmssInv, PastInv
<1>5. base.version = published.version => base.list \subseteq published.list
  <2> SUFFICES ASSUME base.version = published.version, NEW d \in base.list
               PROVE  d \in published.list
    OBVIOUS
  <2>1. base \in past
    BY <1>1 DEF NoRecord
  <2>2. published # NoRecord
    BY <1>0, <2>1, Numbers DEF NoRecord, Nothing
  <2>3. d.version <= base.version /\ d.version \in Int
    BY <1>0, <2>1, Numbers DEF XmssInv, PastInv
  <2> QED BY <1>4, <2>1, <2>2, <2>3 DEF XmssInv, PastInv
<1> QED BY <1>2, <1>3, <1>4, <1>5

\* What was told stays true when the gate does not go back and nothing is published.
LEMMA ToldFrame ==
  ASSUME XmssInv, UNCHANGED <<published, past, told>>, Gate <= Gate', Gate' \in Int
  PROVE  ToldInv'
<1>1. TypeOK /\ Gate \in Int
  BY Numbers DEF XmssInv, LocalInv, Gate
<1> QED BY <1>1, Numbers DEF XmssInv, ToldInv

\* A round that is over forgets what it read.
LEMMA EndsXmss ==
  ASSUME XmssInv, EndRound, UNCHANGED registryVars, file' <= published.version, ToldInv'
  PROVE  PastInv' /\ JobInv' /\ BehindInv' /\ FetchedInv' /\ ToldInv'
BY DEF XmssInv, EndRound, registryVars, PastInv, JobInv, BehindInv, FetchedInv

\* What is told keeps the promise: a verdict counts if it rests on a record that the
\* mark does not call older, and no later record has what that one lacks.
LEMMA ToldKeeps ==
  ASSUME XmssInv, fetched \in past, phase # "down", mark' \in Int, mark <= mark',
         fetched.version <= mark', UNCHANGED registryVars,
         NEW c \in Credential \cup {NoCredential}, NEW status \in {"valid", "revoked"},
         RoundEnds(c, status),
         c # NoCredential /\ status = "revoked" /\ fetched.version >= mark' =>
            c.version <= fetched.version /\ c \notin fetched.list
  PROVE  ToldInv'
<1> SUFFICES ASSUME NEW d \in Credential, told'[d] = "revoked"
             PROVE  d.version <= published.version /\
                    \A r \in past : r.version >= mark' => d \notin r.list
  BY DEF ToldInv, Gate, RoundEnds, EndRound, registryVars
<1>0. TypeOK /\ told \in [Credential -> {"unknown", "valid", "revoked"}]
  BY DEF XmssInv, LocalInv, TypeOK
<1>1. CASE told[d] = "revoked"
  BY <1>0, <1>1, Numbers DEF XmssInv, ToldInv, Gate
<1>2. CASE told[d] # "revoked"
  <2>1. d = c /\ status = "revoked" /\ ~(fetched.version < mark')
    BY <1>0, <1>2 DEF RoundEnds
  <2>2. c \in Credential /\ c # NoCredential
    BY <2>1 DEF Credential, NoCredential, Version, Nothing
  <2>3. fetched.version = mark' /\ fetched.version \in Int
    BY <1>0, <2>1, Numbers
  <2>4. c.version <= fetched.version /\ c \notin fetched.list /\ c.version \in Int
    BY <1>0, <2>1, <2>2, <2>3, Numbers
  <2>5. d.version <= published.version
    BY <1>0, <2>1, <2>3, <2>4, Numbers DEF XmssInv, PastInv
  <2>6. ASSUME NEW r \in past, r.version >= mark' PROVE d \notin r.list
    BY <1>0, <2>1, <2>3, <2>4, <2>6, Numbers DEF XmssInv, PastInv
  <2> QED BY <2>5, <2>6
<1> QED BY <1>1, <1>2

\* The invariant of the XMSS mode is inductive.
LEMMA XmssStep ==
  ASSUME Mode = "xmss", XmssInv, [Next]_vars
  PROVE  XmssInv'
<1> USE DEF XmssInv
<1>0. /\ LocalInv' /\ TypeOK /\ TypeOK' /\ published.version \in Int
      /\ mark \in Int /\ mark' \in Int /\ file \in Int /\ file' \in Int
      /\ told \in [Credential -> {"unknown", "valid", "revoked"}]
  BY LocalStep, Numbers, VersionAssumption DEF LocalInv, TypeOK, Mark, Nothing, Missing
<1> DEFINE Rest == PastInv' /\ JobInv' /\ BehindInv' /\ FetchedInv' /\ ToldInv'
<1> SUFFICES Rest
  BY <1>0
<1>1. CASE OtherRound
  <2>1. PICK base \in Bases : base.version < MaxVersion /\
           \E job \in IssueJobs(base) \cup UNION {RevokeJobs(base, c) : c \in issued} :
             jobs' = jobs \cup {job}
    BY <1>1 DEF OtherRound, CanBegin
  <2>2. PICK job \in IssueJobs(base) \cup UNION {RevokeJobs(base, c) : c \in issued} :
             jobs' = jobs \cup {job}
    BY <2>1
  <2>3. PICK c : job \in IssueJobs(base) \cup RevokeJobs(base, c)
    BY <2>2
  <2>4. JobInv'
    BY <1>1, <2>1, <2>2, <2>3, NewJob DEF OtherRound, JobInv
  <2> QED BY <1>0, <1>1, <2>4
          DEF OtherRound, PastInv, BehindInv, FetchedInv, ToldInv, Gate
<1>2. ASSUME NEW job \in jobs, Publish(job) PROVE Rest
  <2>1. /\ job.record.version = published.version + 1 /\ published' = job.record
        /\ \A c \in job.record.list : c \in published.list \/ c.version = published.version + 1
        /\ past' = past \cup {job.record} /\ job.record \in Record
    BY <1>0, <1>2 DEF Publish, InOrder, JobInv, TypeOK, Job
  <2>2. \A other \in jobs : other.record.version \in Int /\ other.record.list \subseteq Credential
    BY <1>0, VersionAssumption DEF TypeOK, Job, Record, Version
  <2>3. /\ phase' \in {"accept", "save"} => phase' = phase
        /\ (phase' = "down") = (phase = "down")
        /\ UNCHANGED <<mark, file, told, fetched, updated>> /\ jobs' = jobs \ {job}
    BY <1>2 DEF Publish
  <2>4. JobInv'
    BY <1>0, <2>1, <2>2, <2>3 DEF JobInv
  <2>5. BehindInv'
    BY <1>0, <2>1, <2>3 DEF BehindInv
  <2>6. FetchedInv'
    BY <2>1, <2>3 DEF FetchedInv
  <2>7. \A c \in published.list : published \in past /\ c.version <= published.version /\ c.version \in Int
    <3>1. published.list # {} => published \in past
      BY DEF PastInv, NoRecord
    <3> QED BY <1>0, <3>1, Numbers DEF PastInv
  <2>8. PastInv'
    <3>1. \A c \in job.record.list : c.version \in Int /\ c.version <= job.record.version
      BY <1>0, <2>1, <2>2, <2>7
    <3>2. \A r \in past' : r.version <= published'.version /\ \A c \in r.list : c.version <= r.version
      BY <1>0, <2>1, <3>1, Numbers DEF PastInv
    <3>3. ASSUME NEW r \in past', NEW s \in past', r.version <= s.version,
                 NEW c \in s.list, c.version <= r.version
          PROVE  c \in r.list
      <4>1. CASE r = job.record /\ s \in past
        BY <1>0, <2>1, <3>3, <4>1, Numbers DEF PastInv
      <4>2. CASE r \in past /\ s = job.record
        <5>1. r.version \in Int /\ r.version <= published.version
          BY <1>0, <4>2, Numbers DEF PastInv
        <5>2. c \in published.list
          BY <1>0, <2>1, <3>1, <3>3, <4>2, <5>1
        <5> QED BY <2>7, <3>3, <4>2, <5>1, <5>2 DEF PastInv
      <4>3. CASE r \in past /\ s \in past
        BY <3>3, <4>3 DEF PastInv
      <4> QED BY <2>1, <3>3, <4>1, <4>2, <4>3
    <3> QED BY <2>1, <3>2, <3>3 DEF PastInv
  <2>9. ToldInv'
    <3> SUFFICES ASSUME NEW c \in Credential, told[c] = "revoked"
                 PROVE  c.version <= published'.version /\
                        \A r \in past' : r.version >= Gate' => c \notin r.list
      BY <2>3 DEF ToldInv
    <3>1. Gate' = Gate /\ Gate \in Int /\ Gate <= published.version
      <4>1. phase # "down" => mark <= file
        BY DEF LocalInv, MarkInv
      <4> QED BY <1>0, <2>3, <4>1 DEF Gate, BehindInv
    <3>2. c.version \in Int /\ c.version <= published.version
      BY <1>0, Numbers DEF ToldInv
    <3>3. c \notin published.list
      BY <1>0, <2>7, <3>1 DEF ToldInv
    <3>4. c \notin job.record.list
      BY <1>0, <2>1, <3>2, <3>3
    <3> QED BY <1>0, <2>1, <3>1, <3>2, <3>4 DEF ToldInv
  <2> QED BY <2>4, <2>5, <2>6, <2>8, <2>9
<1>3. ASSUME NEW job \in jobs, AbandonJob(job) PROVE Rest
  BY <1>3 DEF AbandonJob, PastInv, JobInv, BehindInv, FetchedInv, ToldInv, Gate
<1>4. ASSUME NEW mode, Build(mode) PROVE Rest
  <2>1. Nothing <= published.version
    BY <1>0, Numbers, VersionAssumption DEF Nothing
  <2>2. Gate <= Gate' /\ Gate' \in Int /\ UNCHANGED <<published, past, told>>
    BY <1>0, <1>4 DEF Build, Gate, registryVars, Missing, Nothing
  <2>3. ToldInv'
    BY <2>2, ToldFrame
  <2> QED BY <1>4, <2>1, <2>3 DEF Build, registryVars, PastInv, JobInv, BehindInv, FetchedInv
<1>5. CASE Restart
  <2>1. Gate <= Gate' /\ Gate' \in Int /\ UNCHANGED <<published, past, told>>
    BY <1>0, <1>5 DEF Restart, Gate, registryVars, LocalInv, MarkInv
  <2>2. ToldInv'
    BY <2>1, ToldFrame
  <2> QED BY <1>5, <2>2 DEF Restart, registryVars, PastInv, JobInv, BehindInv, FetchedInv
<1>6. ASSUME NEW a \in Actions, Handle(a) PROVE Rest
  BY <1>6 DEF Handle, registryVars, PastInv, JobInv, BehindInv, FetchedInv, ToldInv, Gate
<1>7. CASE RequestStatusUpdate
  <2>1. PICK base \in Bases : base.version < MaxVersion /\
           \E job \in IssueJobs(base) \cup RevokeJobs(base, saved) : jobs' = jobs \cup {job}
    BY <1>7 DEF RequestStatusUpdate, CanBegin
  <2>2. PICK job \in IssueJobs(base) \cup RevokeJobs(base, saved) : jobs' = jobs \cup {job}
    BY <2>1
  <2>3. JobInv'
    BY <1>7, <2>1, <2>2, NewJob DEF RequestStatusUpdate, JobInv
  <2> QED BY <1>7, <2>3
          DEF RequestStatusUpdate, PastInv, BehindInv, FetchedInv, ToldInv, Gate
<1>8. ASSUME RoundFails, UNCHANGED registryVars, UNCHANGED mark, phase # "down",
             file' <= published.version
      PROVE  Rest
  <2>1. Gate <= Gate' /\ Gate' \in Int /\ UNCHANGED <<published, past, told>>
    BY <1>0, <1>8 DEF Gate, RoundFails, EndRound, registryVars
  <2>2. ToldInv'
    BY <2>1, ToldFrame
  <2> QED BY <1>8, <2>2, EndsXmss DEF RoundFails
<1>9. CASE RequestFails
  BY <1>8, <1>9 DEF RequestFails, BehindInv
<1>10. CASE Fetch
  <2>1. CASE RoundFails
    BY <1>8, <1>10, <2>1 DEF Fetch, BehindInv
  <2>2. CASE ~RoundFails
    <3>1. /\ phase' = "accept" /\ fetched' \in Readable /\ UNCHANGED registryVars
          /\ UNCHANGED <<mark, file, told>> /\ phase # "down"
      BY <1>10, <2>2 DEF Fetch
    <3>2. fetched' \in past'
      BY <3>1 DEF Readable, PastInv, registryVars
    <3> QED BY <3>1, <3>2
            DEF registryVars, PastInv, JobInv, BehindInv, FetchedInv, ToldInv, Gate
  <2> QED BY <2>1, <2>2
<1>11. CASE Accept
  <2>1. /\ fetched \in past /\ fetched # NoRecord /\ phase = "accept" /\ UNCHANGED registryVars
    BY <1>11 DEF Accept, LocalInv, FetchInv, FetchedInv
  <2>2. /\ fetched.version \in Int /\ fetched.version <= published.version
        /\ mark <= file /\ file <= published.version
    BY <1>0, <2>1, Numbers DEF LocalInv, MarkInv, PastInv, BehindInv
  <2>3. CASE Advance(fetched.version) /\ Conclude
    <3>1. /\ mark <= mark' /\ fetched.version <= mark' /\ file' <= published.version
      BY <1>0, <2>2, <2>3 DEF Advance
    <3>2. CASE RoundFails
      <4>1. Gate <= Gate' /\ Gate' \in Int /\ UNCHANGED <<published, past, told>>
        BY <1>0, <2>1, <3>1, <3>2 DEF Gate, RoundFails, EndRound, registryVars
      <4>2. ToldInv'
        BY <4>1, ToldFrame
      <4> QED BY <2>1, <3>1, <3>2, <4>2, EndsXmss DEF RoundFails
    <3>3. CASE /\ action = "issue" /\ ReportCredential(fetched.list, Subject)
               /\ (updated = NoJob \/ updated.record.version = fetched.version)
               /\ phase' = "save" /\ UNCHANGED <<action, updated, fetched, saved, told>>
      <4>1. updated.credential \in fetched.list
        BY <2>1, <3>3, SubjectOfIssue DEF Subject, ReportCredential
      <4>2. Gate <= Gate' /\ Gate' \in Int /\ UNCHANGED <<published, past, told>>
        BY <1>0, <2>1, <3>1, <3>3 DEF Gate, registryVars
      <4>3. ToldInv'
        BY <4>2, ToldFrame
      <4> QED BY <2>1, <2>2, <3>1, <3>3, <4>1, <4>3
              DEF registryVars, PastInv, JobInv, BehindInv, FetchedInv
    <3>4. ASSUME NEW status \in {"valid", "revoked"}, RoundEnds(Subject, status),
                 action # "issue",
                 status = "revoked" => ~ReportCredential(fetched.list, Subject)
          PROVE  Rest
      <4>1. Subject = saved /\ Subject \in Credential \cup {NoCredential}
        BY <1>0, <3>4, <2>1, SubjectType DEF Subject, LocalInv, AskedInv, TypeOK, Actions
      <4>2. Subject # NoCredential /\ fetched.version >= mark' => Subject.version <= fetched.version
        <5>1. saved # NoCredential => saved.version <= mark /\ saved.version \in Int
          BY <1>0, <2>1, Numbers DEF LocalInv, MarkInv, Covered, TypeOK
        <5> QED BY <1>0, <2>2, <3>1, <4>1, <5>1
      <4>3. ToldInv'
        BY <1>0, <2>1, <3>1, <3>4, <4>1, <4>2, ToldKeeps DEF ReportCredential
      <4> QED BY <2>1, <3>1, <3>4, <4>3, EndsXmss DEF RoundEnds
    <3>5. CASE action # "issue" /\ ~RoundFails
      BY <2>3, <3>4, <3>5 DEF Conclude
    <3>6. CASE action = "issue" /\ ~RoundFails
      BY <2>3, <3>3, <3>6 DEF Conclude
    <3> QED BY <3>2, <3>5, <3>6
  <2>4. CASE Refused(fetched.version) /\ RoundFails
    BY <1>0, <1>8, <2>1, <2>2, <2>4 DEF Refused
  <2> QED BY <1>11, <2>3, <2>4 DEF Accept
<1>12. CASE Save
  <2>1. /\ phase = "save" /\ fetched \in past /\ EndRound /\ UNCHANGED registryVars
        /\ UNCHANGED <<mark, file>> /\ file' <= published.version
    BY <1>12 DEF Save, FetchedInv, BehindInv, RoundEnds
  <2>2. CASE saved' = updated.credential /\ RoundEnds(saved', "valid")
    <3>1. saved' \in Credential \cup {NoCredential}
      BY <1>0 DEF TypeOK
    <3>2. mark' = mark /\ fetched.version <= mark' /\ mark <= mark'
      BY <1>0, <2>1 DEF FetchedInv
    <3>3. ToldInv'
      BY <1>0, <2>1, <2>2, <3>1, <3>2, ToldKeeps
    <3> QED BY <2>1, <3>3, EndsXmss
  <2>3. CASE UNCHANGED told
    <3>1. Gate <= Gate' /\ Gate' \in Int /\ UNCHANGED <<published, past, told>>
      BY <1>0, <2>1, <2>3 DEF Gate, EndRound, registryVars
    <3>2. ToldInv'
      BY <3>1, ToldFrame
    <3> QED BY <2>1, <3>2, EndsXmss
  <2> QED BY <1>12, <2>2, <2>3 DEF Save
<1>13. CASE UNCHANGED vars
  BY <1>13 DEF vars, PastInv, JobInv, BehindInv, FetchedInv, ToldInv, Gate
<1> QED BY <1>0, <1>1, <1>2, <1>3, <1>4, <1>5, <1>6, <1>7, <1>9, <1>10, <1>11, <1>12, <1>13
        DEF Next, Step

-----------------------------------------------------------------------------
(* Theorems                                                                *)

\* The local invariant holds in both modes.
LEMMA LocalInvariant == Spec => []LocalInv
<1>1. Init => LocalInv
  BY LocalInit
<1>2. LocalInv /\ [Next]_vars => LocalInv'
  BY LocalStep
<1> QED BY <1>1, <1>2, PTL DEF Spec

\* Every variable keeps its type, whatever is lost, late, refused or interrupted.
THEOREM TypeCorrect == Spec => []TypeOK
<1>1. LocalInv => TypeOK
  BY DEF LocalInv
<1> QED BY <1>1, LocalInvariant, PTL

\* In both modes the mark in the state file covers the version of the saved
\* credential: run_round writes credential.bin after accept, never before.
THEOREM Safekeeping == Spec => []SavedIsAccepted
<1>1. LocalInv => SavedIsAccepted
  <2> SUFFICES ASSUME LocalInv, saved # NoCredential PROVE saved.version <= file
    BY DEF SavedIsAccepted
  <2>1. saved.version \in Int /\ mark \in Int
    BY VersionAssumption DEF LocalInv, TypeOK, Credential, Version, Mark, Nothing
  <2>2. file \in Int
    BY VersionAssumption DEF LocalInv, TypeOK, Mark, Nothing, Missing
  <2> QED BY <2>1, <2>2 DEF LocalInv, MarkInv, Covered
<1> QED BY <1>1, LocalInvariant, PTL

\* The XMSS invariant holds where one registry orders the rounds.
LEMMA XmssInvariant == Mode = "xmss" => (Spec => []XmssInv)
<1> SUFFICES ASSUME Mode = "xmss" PROVE Spec => []XmssInv
  OBVIOUS
<1>1. Init => XmssInv
  BY XmssInit
<1>2. XmssInv /\ [Next]_vars => XmssInv'
  BY XmssStep
<1> QED BY <1>1, <1>2, PTL DEF Spec

\* One answer about one credential is a step of the ledger, or none.
LEMMA TellingIsAStep ==
  ASSUME TypeOK, NEW c \in Credential \cup {NoCredential}, NEW status \in {"valid", "revoked"},
         RoundEnds(c, status),
         c # NoCredential /\ status = "valid" /\ ~(fetched.version < mark') =>
            told[c] # "revoked"
  PROVE  [Ledger!Answer]_told
<1>1. CASE c = NoCredential \/ fetched.version < mark'
  BY <1>1 DEF RoundEnds
<1>2. CASE c # NoCredential /\ ~(fetched.version < mark')
  <2>1. c \in Credential /\ told' = [told EXCEPT ![c] = status]
    BY <1>2 DEF RoundEnds
  <2>2. told \in [Credential -> {"unknown", "valid", "revoked"}]
    BY DEF TypeOK
  <2>3. CASE told[c] = status
    BY <2>1, <2>2, <2>3
  <2>4. CASE told[c] # status
    <3>1. status \in Ledger!After(told[c])
      BY <1>2, <2>1, <2>2, <2>4 DEF Ledger!After
    <3> QED BY <2>1, <3>1 DEF Ledger!Answer
  <2> QED BY <2>3, <2>4
<1> QED BY <1>1, <1>2

\* What a record that is not older than the mark lists was not told to be revoked.
LEMMA ListedNotRevoked ==
  ASSUME XmssInv, phase \in {"accept", "save"}, mark' \in Int, mark <= mark',
         ~(fetched.version < mark'), NEW c \in Credential, c \in fetched.list
  PROVE  told[c] # "revoked"
<1>1. TypeOK /\ fetched \in past /\ Gate = mark
  BY DEF XmssInv, LocalInv, FetchedInv, Gate
<1>2. fetched.version >= Gate
  BY <1>1, Numbers
<1> QED BY <1>1, <1>2 DEF XmssInv, ToldInv

\* A step that changes a verdict is an answer of the abstract ledger.
LEMMA LedgerStep ==
  ASSUME XmssInv, [Next]_vars
  PROVE  [Ledger!Answer]_told
<1>0. TypeOK /\ mark \in Int /\ mark' \in Int
  BY LocalStep, Numbers, VersionAssumption DEF XmssInv, LocalInv, TypeOK, Mark, Nothing
<1>1. CASE UNCHANGED told
  BY <1>1
<1>2. CASE Accept
  <2>1. CASE UNCHANGED told
    BY <2>1
  <2>0. phase = "accept" /\ fetched.version \in Int
    BY <1>0, <1>2, Numbers DEF Accept, XmssInv, FetchedInv
  <2>2. ASSUME NEW status \in {"valid", "revoked"}, RoundEnds(Subject, status),
               Advance(fetched.version),
               status = "valid" => ReportCredential(fetched.list, Subject)
        PROVE  [Ledger!Answer]_told
    <3>0. mark <= mark'
      BY <1>0, <2>0, <2>2 DEF Advance
    <3>1. Subject # NoCredential /\ status = "valid" /\ ~(fetched.version < mark') =>
            told[Subject] # "revoked"
      BY <1>0, <2>0, <2>2, <3>0, SubjectType, ListedNotRevoked DEF ReportCredential
    <3> QED BY <1>0, <2>2, <3>1, SubjectType, TellingIsAStep
  <2>3. (Advance(fetched.version) /\ Conclude) \/ UNCHANGED told
    BY <1>2 DEF Accept, RoundFails
  <2>4. ASSUME Advance(fetched.version) /\ Conclude PROVE [Ledger!Answer]_told
    <3>1. CASE UNCHANGED told
      BY <3>1
    <3>2. CASE ~UNCHANGED told
      <4>1. \E status \in {"valid", "revoked"} :
              RoundEnds(Subject, status) /\
                (status = "valid" => ReportCredential(fetched.list, Subject))
        BY <2>4, <3>2 DEF Conclude, RoundFails
      <4> QED BY <4>1, <2>2, <2>4
    <3> QED BY <3>1, <3>2
  <2> QED BY <2>3, <2>4
<1>3. CASE Save
  <2>1. CASE UNCHANGED told
    BY <2>1
  <2>2. CASE saved' = updated.credential /\ RoundEnds(saved', "valid")
    <3>1. updated.credential \in Credential \cup {NoCredential}
      BY <1>0 DEF TypeOK, Job, NoJob
    <3>2. updated.credential # NoCredential /\ ~(fetched.version < mark') =>
            told[updated.credential] # "revoked"
      <4>1. /\ phase = "save" /\ mark <= mark' /\ updated.credential \in fetched.list
        BY <1>0, <1>3 DEF Save, XmssInv, FetchedInv
      <4> QED BY <1>0, <3>1, <4>1, ListedNotRevoked
    <3> QED BY <1>0, <2>2, <3>1, <3>2, TellingIsAStep
  <2> QED BY <1>3, <2>1, <2>2 DEF Save
<1>4. UNCHANGED told \/ Accept \/ Save
  BY DEF Next, Step, OtherRound, Publish, AbandonJob, Build, Restart, Handle,
     RequestStatusUpdate, RequestFails, Fetch, RoundFails, vars
<1> QED BY <1>1, <1>2, <1>3, <1>4

\* In XMSS mode the answers about a credential never go back, whatever older records
\* storage hands out: once a verdict of run_round that rests on a record not older than
\* the mark was "revoked", no such verdict is "valid" again.
THEOREM AnswersNeverGoBack == Mode = "xmss" => (Spec => ImplementsLedger)
<1> SUFFICES ASSUME Mode = "xmss" PROVE Spec => Ledger!Spec
  BY DEF ImplementsLedger
<1>1. Init => Ledger!Init
  BY DEF Init, Ledger!Init
<1>2. XmssInv /\ [Next]_vars => [Ledger!Answer]_told
  BY LedgerStep
<1> QED BY <1>1, <1>2, XmssInvariant, PTL DEF Spec, Ledger!Spec
=============================================================================
