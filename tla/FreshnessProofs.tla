--------------------------- MODULE FreshnessProofs ---------------------------
(***************************************************************************)
(* Machine-checked theorems about the freshness gate, for every number of  *)
(* processes and versions and every combination of faults.                 *)
(***************************************************************************)
EXTENDS Freshness, TLAPS

\* The marks that cover everything accepted so far.  A set-valued state
\* function: the invariant places the marks in memory and on disk in it.
UpperMarks == {m \in Mark : \A v \in Version : accepted[v] # 0 => v <= m}

\* A process inside a call holds the lock.
LockInv == \A p \in Proc : pc[p] # "down" => lock = p

\* Which call a process can be in at each point.
CallInv == \A p \in Proc :
  /\ pc[p] \in {"down", "ready"} => call[p] = "none"
  /\ pc[p] = "check" => call[p] \in {"create", "open", "recover"}
  /\ pc[p] \in {"rename", "dirsync"} => call[p] \in {"create", "recover", "advance"}

\* What a process is about to persist covers everything accepted, and an
\* advance goes strictly above it.
WantAt(p) ==
  /\ want[p] <= latest
  /\ pc[p] = "check" /\ call[p] = "create" =>
       want[p] = Nothing /\ (path = Missing => Nothing \in UpperMarks)
  /\ pc[p] = "check" /\ call[p] = "recover" => want[p] \in UpperMarks
  /\ pc[p] \in {"rename", "dirsync"} => want[p] \in UpperMarks
  /\ call[p] = "advance" => mem[p] \in UpperMarks /\ mem[p] < want[p]
  /\ pc[p] = "ready" => mem[p] \in UpperMarks
  /\ pc[p] = "dirsync" => path = want[p] \/ ~Parses(path)
WantInv == \A p \in Proc : WantAt(p)

\* What can be opened, now or after a power loss, covers everything accepted.
FileInv ==
  /\ Parses(path) => path \in UpperMarks
  /\ Parses(durable) => durable \in UpperMarks
  /\ latest \in UpperMarks

IInv == TypeOK /\ LockInv /\ CallInv /\ WantInv /\ FileInv /\ MarkIsAuthentic

-----------------------------------------------------------------------------
\* The marks that cover everything accepted change only when a version is accepted.
LEMMA UpperUnchanged ==
  ASSUME UNCHANGED accepted
  PROVE  UpperMarks' = UpperMarks
  BY DEF UpperMarks

\* What covers everything accepted is itself a mark.
LEMMA UpperInt == UpperMarks \in SUBSET Mark
  BY DEF UpperMarks

\* Every initial state satisfies the invariant: nothing is accepted and no mark exists.
LEMMA Initial == Init => IInv
  <1> SUFFICES ASSUME Init PROVE IInv
    OBVIOUS
  <1>1. TypeOK
    BY VersionAssumption DEF Init, TypeOK, PCs, Calls, Mark, Content, Nothing, Missing,
       Invalid
  <1>2. LockInv /\ CallInv
    BY DEF Init, LockInv, CallInv
  <1>3. Nothing \in UpperMarks
    BY VersionAssumption DEF Init, UpperMarks, Mark, Nothing
  <1>4. WantInv /\ MarkIsAuthentic
    BY VersionAssumption DEF Init, WantInv, WantAt, MarkIsAuthentic, Nothing, Missing,
       Invalid
  <1>5. FileInv
    BY <1>3, VersionAssumption DEF Init, FileInv, Parses, Nothing, Missing, Invalid
  <1> QED BY <1>1, <1>2, <1>4, <1>5 DEF IInv

\* All processes but the one that holds, or can take, the lock are outside any call.
LEMMA Quiet ==
  ASSUME IInv, NEW p \in Proc, lock \in {p, NoProc}
  PROVE  \A q \in Proc : q # p => pc[q] = "down" /\ call[q] = "none" /\ q # lock
  BY ProcAssumption DEF IInv, LockInv, CallInv

\* Dropping a mark and its lock forgets memory only.
LEMMA DropPreserves ==
  ASSUME IInv, NEW p \in Proc,
         pc[p] # "down", Drop(p)
  PROVE  IInv'
  <1>1. TypeOK /\ LockInv /\ CallInv /\ WantAt(p) /\ FileInv /\ MarkIsAuthentic
    BY DEF IInv, WantInv
  <1>2. \A q \in Proc : q # p => pc[q] = "down" /\ call[q] = "none" /\ want[q] <= latest
    BY Quiet DEF IInv, LockInv, WantInv, WantAt, Drop
  <1>3. TypeOK'
    BY <1>1, VersionAssumption DEF TypeOK, PCs, Calls, Mark, Nothing, Drop
  <1>4. LockInv' /\ CallInv'
    BY <1>1, <1>2, ProcAssumption DEF TypeOK, LockInv, CallInv, Drop
  <1>5. UpperMarks' = UpperMarks /\ latest' = latest
    BY UpperUnchanged DEF Drop
  <1>6. WantAt(p)'
    BY <1>3 DEF TypeOK, WantAt, Mark, Drop
  <1>7. ASSUME NEW q \in Proc, q # p PROVE WantAt(q)'
    BY <1>1, <1>2, <1>5, <1>7 DEF TypeOK, WantAt, Drop
  <1>8. FileInv'
    BY <1>1, <1>5, UpperInt DEF TypeOK, FileInv, WantAt, CallInv, Drop
  <1>9. MarkIsAuthentic'
    BY <1>1 DEF TypeOK, MarkIsAuthentic, Mark, Drop
  <1> QED BY <1>3, <1>4, <1>6, <1>7, <1>8, <1>9 DEF IInv, WantInv

\* A constructor that starts to persist holds the lock and has touched no file yet.
LEMMA StartPersistPreserves ==
  ASSUME IInv, NEW p \in Proc, NEW mark \in UpperMarks,
         pc[p] = "check", call[p] \in {"create", "recover"}, want[p] = mark,
         StartPersist(p, mark)
  PROVE  IInv'
  <1>1. TypeOK /\ LockInv /\ CallInv /\ WantAt(p) /\ FileInv /\ MarkIsAuthentic
    BY DEF IInv, WantInv
  <1>2. \A q \in Proc : q # p => pc[q] = "down" /\ call[q] = "none" /\ want[q] <= latest
    BY Quiet DEF IInv, LockInv, WantInv, WantAt, StartPersist
  <1>3. TypeOK'
    BY <1>1, UpperInt DEF TypeOK, PCs, StartPersist
  <1>4. LockInv' /\ CallInv'
    BY <1>1, <1>2 DEF TypeOK, LockInv, CallInv, StartPersist
  <1>5. UpperMarks' = UpperMarks /\ latest' = latest
    BY UpperUnchanged DEF StartPersist
  <1>6. WantAt(p)'
    BY <1>1, <1>5 DEF TypeOK, WantAt, StartPersist
  <1>7. ASSUME NEW q \in Proc, q # p PROVE WantAt(q)'
    BY <1>1, <1>2, <1>5, <1>7 DEF TypeOK, WantAt, StartPersist
  <1>8. FileInv'
    BY <1>1, <1>5 DEF FileInv, StartPersist
  <1>9. MarkIsAuthentic'
    BY <1>1, <1>5 DEF TypeOK, MarkIsAuthentic, WantAt, StartPersist
  <1> QED BY <1>3, <1>4, <1>6, <1>7, <1>8, <1>9 DEF IInv, WantInv

\* Taking the lock: only one process is inside a call, and a recovery brings latest.
LEMMA AcquireLockPreserves ==
  ASSUME IInv, NEW p \in Proc, NEW c \in {"create", "open", "recover"},
         AcquireLock(p, c)
  PROVE  IInv'
  <1>1. TypeOK /\ LockInv /\ CallInv /\ WantAt(p) /\ FileInv /\ MarkIsAuthentic
    BY DEF IInv, WantInv
  <1>2. \A q \in Proc : q # p => pc[q] = "down" /\ call[q] = "none" /\ want[q] <= latest
    BY Quiet DEF IInv, LockInv, WantInv, WantAt, AcquireLock, CallerMay
  <1>3. TypeOK'
    BY <1>1, VersionAssumption DEF TypeOK, PCs, Calls, Mark, Nothing, AcquireLock
  <1>4. LockInv' /\ CallInv'
    BY <1>1, <1>2, ProcAssumption DEF TypeOK, LockInv, CallInv, AcquireLock, CallerMay
  <1>5. UpperMarks' = UpperMarks /\ latest' = latest
    BY UpperUnchanged DEF AcquireLock, CallerMay
  <1>6. WantAt(p)'
    <2>1. c = "create" /\ path = Missing => Nothing \in UpperMarks
      BY VersionAssumption DEF AcquireLock, CallerMay, UpperMarks, Mark, Nothing
    <2>2. want'[p] = (IF c = "recover" THEN latest ELSE Nothing) /\ pc'[p] = "check" /\ call'[p] = c
      BY <1>1 DEF TypeOK, AcquireLock
    <2>3. latest \in UpperMarks /\ Nothing <= latest /\ path' = path
      BY <1>1 DEF FileInv, TypeOK, Mark, Nothing, AcquireLock
    <2>4. want'[p] <= latest
      BY <2>2, <2>3, <1>1 DEF TypeOK, Mark, Nothing
    <2> QED BY <1>5, <2>1, <2>2, <2>3, <2>4 DEF WantAt
  <1>7. ASSUME NEW q \in Proc, q # p PROVE WantAt(q)'
    BY <1>1, <1>2, <1>5, <1>7 DEF TypeOK, WantAt, AcquireLock, CallerMay
  <1>8. FileInv'
    BY <1>1, <1>5, UpperInt DEF TypeOK, FileInv, WantAt, CallInv, AcquireLock, CallerMay
  <1>9. MarkIsAuthentic'
    BY <1>1 DEF MarkIsAuthentic, AcquireLock
  <1> QED BY <1>3, <1>4, <1>6, <1>7, <1>8, <1>9 DEF IInv, WantInv

\* create: either the file is missing and nothing was accepted, or it is refused.
LEMMA CreatePreserves ==
  ASSUME IInv, NEW p \in Proc, Create(p)
  PROVE  IInv'
  <1>1. CASE path = Missing
    <2>1. want[p] = Nothing /\ Nothing \in UpperMarks
      BY <1>1 DEF IInv, WantInv, WantAt, Create
    <2> QED BY <1>1, <2>1, StartPersistPreserves DEF Create
  <1>2. CASE path # Missing
    BY <1>2, DropPreserves DEF Create
  <1> QED BY <1>1, <1>2

\* open: memory takes over what the file says, which covers what was accepted.
LEMMA OpenPreserves ==
  ASSUME IInv, NEW p \in Proc, Open(p)
  PROVE  IInv'
  <1>0. CASE ~Parses(path)
    BY <1>0, DropPreserves DEF Open
  <1> SUFFICES ASSUME Parses(path) PROVE IInv'
    BY <1>0
  <1>1. TypeOK /\ LockInv /\ CallInv /\ WantAt(p) /\ FileInv /\ MarkIsAuthentic
    BY DEF IInv, WantInv
  <1>2. \A q \in Proc : q # p => pc[q] = "down" /\ call[q] = "none" /\ want[q] <= latest
    BY Quiet DEF IInv, LockInv, WantInv, WantAt, Open
  <1>3. TypeOK'
    <2>1. path \in Mark
      BY <1>1 DEF TypeOK, Parses, Mark, Content, Nothing, Missing
    <2> QED BY <1>1, <2>1 DEF TypeOK, PCs, Calls, Open
  <1>4. LockInv' /\ CallInv'
    BY <1>1, <1>2 DEF TypeOK, LockInv, CallInv, Open
  <1>5. UpperMarks' = UpperMarks /\ latest' = latest
    BY UpperUnchanged DEF Open
  <1>6. WantAt(p)'
    BY <1>1, <1>5 DEF TypeOK, WantAt, FileInv, Open
  <1>7. ASSUME NEW q \in Proc, q # p PROVE WantAt(q)'
    BY <1>1, <1>2, <1>5, <1>7 DEF TypeOK, WantAt, Open
  <1>8. FileInv'
    BY <1>1, <1>5 DEF FileInv, Open
  <1>9. MarkIsAuthentic'
    BY <1>1, <1>5 DEF TypeOK, MarkIsAuthentic, Open
  <1> QED BY <1>3, <1>4, <1>6, <1>7, <1>8, <1>9 DEF IInv, WantInv

\* load_from_trusted_source: persists the canonical latest, or is refused.
LEMMA LoadPreserves ==
  ASSUME IInv, NEW p \in Proc, LoadFromTrustedSource(p)
  PROVE  IInv'
  <1>1. want[p] \in UpperMarks
    BY DEF IInv, WantInv, WantAt, LoadFromTrustedSource
  <1>2. CASE ~Parses(path)
    BY <1>1, <1>2, StartPersistPreserves DEF LoadFromTrustedSource
  <1>3. CASE Parses(path)
    BY <1>3, DropPreserves DEF LoadFromTrustedSource
  <1> QED BY <1>2, <1>3

\* accept: the version to persist is authentic and newer than the mark in memory.
LEMMA AcceptPreserves ==
  ASSUME IInv, NEW p \in Proc, NEW version \in Version,
         Accept(p, version)
  PROVE  IInv'
  <1>1. TypeOK /\ LockInv /\ CallInv /\ WantAt(p) /\ FileInv /\ MarkIsAuthentic
    BY DEF IInv, WantInv
  <1>2. \A q \in Proc : q # p => pc[q] = "down" /\ call[q] = "none" /\ want[q] <= latest
    BY Quiet DEF IInv, LockInv, WantInv, WantAt, Accept, Authentic, Newer
  <1>3. TypeOK'
    BY <1>1 DEF TypeOK, PCs, Calls, Mark, Version, Nothing, Accept
  <1>4. LockInv' /\ CallInv'
    BY <1>1, <1>2, ProcAssumption DEF TypeOK, LockInv, CallInv, Accept, Authentic, Newer
  <1>5. UpperMarks' = UpperMarks /\ latest' = latest
    BY UpperUnchanged DEF Accept, Authentic, Newer
  <1>6. WantAt(p)'
    <2>1. mem[p] \in UpperMarks /\ mem[p] \in Mark /\ mem[p] < version /\ version <= latest
      BY <1>1 DEF TypeOK, WantAt, Accept, Authentic, Newer
    <2>2. version \in UpperMarks
      BY <2>1, VersionAssumption DEF UpperMarks, Mark, Version, Nothing
    <2> QED BY <1>1, <1>5, <2>1, <2>2 DEF TypeOK, WantAt, Accept
  <1>7. ASSUME NEW q \in Proc, q # p PROVE WantAt(q)'
    BY <1>1, <1>2, <1>5, <1>7 DEF TypeOK, WantAt, Accept, Authentic, Newer
  <1>8. FileInv'
    BY <1>1, <1>5, UpperInt DEF TypeOK, FileInv, WantAt, CallInv, Accept, Authentic, Newer
  <1>9. MarkIsAuthentic'
    BY <1>1 DEF MarkIsAuthentic, Accept
  <1> QED BY <1>3, <1>4, <1>6, <1>7, <1>8, <1>9 DEF IInv, WantInv

\* The rename: the path moves up to the mark that is being persisted.
LEMMA RenamePreserves ==
  ASSUME IInv, NEW p \in Proc,
         Rename(p)
  PROVE  IInv'
  <1>1. TypeOK /\ LockInv /\ CallInv /\ WantAt(p) /\ FileInv /\ MarkIsAuthentic
    BY DEF IInv, WantInv
  <1>2. \A q \in Proc : q # p => pc[q] = "down" /\ call[q] = "none" /\ want[q] <= latest
    BY Quiet DEF IInv, LockInv, WantInv, WantAt, Rename
  <1>3. TypeOK'
    BY <1>1 DEF TypeOK, PCs, Mark, Content, Nothing, Missing, Rename
  <1>4. LockInv' /\ CallInv'
    BY <1>1, <1>2, ProcAssumption DEF TypeOK, LockInv, CallInv, Rename
  <1>5. UpperMarks' = UpperMarks /\ latest' = latest
    BY UpperUnchanged DEF Rename
  <1>6. WantAt(p)'
    BY <1>1, <1>5 DEF WantAt, Rename
  <1>7. ASSUME NEW q \in Proc, q # p PROVE WantAt(q)'
    BY <1>1, <1>2, <1>5, <1>7 DEF TypeOK, WantAt, Rename
  <1>8. FileInv'
    BY <1>1, <1>5, UpperInt DEF TypeOK, FileInv, WantAt, CallInv, Rename
  <1>9. MarkIsAuthentic'
    BY <1>1 DEF MarkIsAuthentic, WantAt, Rename
  <1> QED BY <1>3, <1>4, <1>6, <1>7, <1>8, <1>9 DEF IInv, WantInv

\* The directory sync: the version becomes accepted once the mark is durable.
LEMMA DirSyncPreserves ==
  ASSUME IInv, NEW p \in Proc,
         DirSync(p)
  PROVE  IInv'
  <1>1. TypeOK /\ LockInv /\ CallInv /\ WantAt(p) /\ FileInv /\ MarkIsAuthentic
    BY DEF IInv, WantInv
  <1>2. \A q \in Proc : q # p => pc[q] = "down" /\ call[q] = "none" /\ want[q] <= latest
    BY Quiet DEF IInv, LockInv, WantInv, WantAt, DirSync
  <1>0. call[p] = "advance" => want[p] \in Version
    BY <1>1 DEF TypeOK, WantAt, DirSync, Mark, Version, Nothing
  <1>3. TypeOK'
    BY <1>0, <1>1 DEF TypeOK, PCs, Calls, DirSync
  <1>4. LockInv' /\ CallInv'
    BY <1>1, <1>2, ProcAssumption DEF TypeOK, LockInv, CallInv, DirSync
  <1>5. \A m \in UpperMarks : m >= want[p] => m \in UpperMarks'
    BY <1>0, <1>1 DEF TypeOK, UpperMarks, DirSync
  <1>a. want[p] \in UpperMarks /\ want[p] <= latest /\ latest \in UpperMarks
    BY <1>1 DEF WantAt, FileInv, DirSync
  <1>b. want[p] \in UpperMarks' /\ latest \in UpperMarks'
    BY <1>1, <1>5, <1>a, VersionAssumption DEF TypeOK, Mark, Nothing
  <1>6. WantAt(p)'
    BY <1>1, <1>a, <1>b DEF TypeOK, WantAt, DirSync
  <1>7. ASSUME NEW q \in Proc, q # p PROVE WantAt(q)'
    BY <1>1, <1>2, <1>7 DEF TypeOK, WantAt, DirSync
  <1>8. FileInv'
    BY <1>1, <1>b DEF FileInv, WantAt, DirSync
  <1>9. MarkIsAuthentic'
    BY <1>1, <1>a DEF TypeOK, MarkIsAuthentic, DirSync
  <1> QED BY <1>3, <1>4, <1>6, <1>7, <1>8, <1>9 DEF IInv, WantInv

\* A failed persist: memory stays behind the file, never ahead of it.
LEMMA PersistFailsPreserves ==
  ASSUME IInv, NEW p \in Proc, PersistFails(p)
  PROVE  IInv'
  <1>0. CASE call[p] # "advance"
    BY <1>0, DropPreserves DEF PersistFails
  <1> SUFFICES ASSUME call[p] = "advance" PROVE IInv'
    BY <1>0
  <1>1. TypeOK /\ LockInv /\ CallInv /\ WantAt(p) /\ FileInv /\ MarkIsAuthentic
    BY DEF IInv, WantInv
  <1>2. \A q \in Proc : q # p => pc[q] = "down" /\ call[q] = "none" /\ want[q] <= latest
    BY Quiet DEF IInv, LockInv, WantInv, WantAt, PersistFails
  <1>3. TypeOK'
    BY <1>1 DEF TypeOK, PCs, Calls, PersistFails
  <1>4. LockInv' /\ CallInv'
    BY <1>1, <1>2 DEF TypeOK, LockInv, CallInv, PersistFails
  <1>5. UpperMarks' = UpperMarks /\ latest' = latest
    BY UpperUnchanged DEF PersistFails
  <1>6. WantAt(p)'
    BY <1>1, <1>5 DEF TypeOK, WantAt, PersistFails
  <1>7. ASSUME NEW q \in Proc, q # p PROVE WantAt(q)'
    BY <1>1, <1>2, <1>5, <1>7 DEF TypeOK, WantAt, PersistFails
  <1>8. FileInv'
    BY <1>1, <1>5 DEF FileInv, PersistFails
  <1>9. MarkIsAuthentic'
    BY <1>1, <1>5 DEF TypeOK, MarkIsAuthentic, PersistFails
  <1> QED BY <1>3, <1>4, <1>6, <1>7, <1>8, <1>9 DEF IInv, WantInv

\* A verifier that exits or is killed drops its mark.
LEMMA LeavePreserves ==
  ASSUME IInv, NEW p \in Proc, Leave(p)
  PROVE  IInv'
  BY DropPreserves DEF Leave

\* A new authentic version only raises the bound on the marks.
LEMMA PublishPreserves ==
  ASSUME IInv, Publish
  PROVE  IInv'
  <1>1. TypeOK /\ LockInv /\ CallInv /\ WantInv /\ FileInv /\ MarkIsAuthentic
    BY DEF IInv
  <1>3. TypeOK'
    BY <1>1, VersionAssumption DEF TypeOK, Mark, Nothing, Publish
  <1>4. LockInv' /\ CallInv'
    BY <1>1 DEF LockInv, CallInv, Publish
  <1>5. UpperMarks' = UpperMarks
    BY UpperUnchanged DEF Publish
  <1>6. ASSUME NEW q \in Proc PROVE WantAt(q)'
    BY <1>1, <1>5 DEF TypeOK, WantInv, WantAt, Mark, Publish
  <1>8. FileInv'
    BY <1>1, VersionAssumption DEF FileInv, UpperMarks, Mark, Version, Nothing, Publish
  <1>9. MarkIsAuthentic'
    BY <1>1 DEF TypeOK, MarkIsAuthentic, Mark, Content, Publish
  <1> QED BY <1>3, <1>4, <1>6, <1>8, <1>9 DEF IInv, WantInv

\* Writing the directory back makes durable what the path already names.
LEMMA WritebackPreserves ==
  ASSUME IInv, Writeback
  PROVE  IInv'
  <1>1. TypeOK /\ LockInv /\ CallInv /\ WantInv /\ FileInv /\ MarkIsAuthentic
    BY DEF IInv
  <1>3. TypeOK'
    BY <1>1 DEF TypeOK, Writeback
  <1>4. LockInv' /\ CallInv'
    BY <1>1 DEF LockInv, CallInv, Writeback
  <1>5. UpperMarks' = UpperMarks
    BY UpperUnchanged DEF Writeback
  <1>6. ASSUME NEW q \in Proc PROVE WantAt(q)'
    BY <1>1, <1>5 DEF WantInv, WantAt, Writeback
  <1>8. FileInv'
    BY <1>1, <1>5 DEF FileInv, Writeback
  <1>9. MarkIsAuthentic'
    BY <1>1 DEF MarkIsAuthentic, Writeback
  <1> QED BY <1>3, <1>4, <1>6, <1>8, <1>9 DEF IInv, WantInv

\* A power loss: the path falls back to the durable mark, which covers what was accepted.
LEMMA PowerLossPreserves ==
  ASSUME IInv, PowerLoss
  PROVE  IInv'
  <1>1. TypeOK /\ LockInv /\ CallInv /\ WantInv /\ FileInv /\ MarkIsAuthentic
    BY DEF IInv
  <1>3. TypeOK'
    BY <1>1, VersionAssumption DEF TypeOK, PCs, Calls, Mark, Nothing, PowerLoss
  <1>4. LockInv' /\ CallInv'
    BY <1>1 DEF LockInv, CallInv, PowerLoss
  <1>5. UpperMarks' = UpperMarks
    BY UpperUnchanged DEF PowerLoss
  <1>6. ASSUME NEW q \in Proc PROVE WantAt(q)'
    BY <1>1 DEF TypeOK, WantAt, Mark, PowerLoss
  <1>8. FileInv'
    BY <1>1, <1>5 DEF FileInv, PowerLoss
  <1>9. MarkIsAuthentic'
    BY <1>1 DEF TypeOK, MarkIsAuthentic, Mark, PowerLoss
  <1> QED BY <1>3, <1>4, <1>6, <1>8, <1>9 DEF IInv, WantInv

\* A lost or damaged file does not parse, so no mark can be opened from it.
LEMMA LoseFilePreserves ==
  ASSUME IInv, LoseFile
  PROVE  IInv'
  <1>1. TypeOK /\ LockInv /\ CallInv /\ WantInv /\ FileInv /\ MarkIsAuthentic
    BY DEF IInv
  <1>3. TypeOK'
    BY <1>1, VersionAssumption DEF TypeOK, Content, Missing, Invalid, LoseFile
  <1>4. LockInv' /\ CallInv'
    BY <1>1 DEF LockInv, CallInv, LoseFile
  <1>5. UpperMarks' = UpperMarks
    BY UpperUnchanged DEF LoseFile
  <1>6. ASSUME NEW q \in Proc PROVE WantAt(q)'
    BY <1>1, <1>5 DEF WantInv, WantAt, Parses, Nothing, Missing, Invalid, LoseFile
  <1>8. FileInv'
    BY <1>1, <1>5 DEF FileInv, Parses, Nothing, Missing, Invalid, LoseFile
  <1>9. MarkIsAuthentic'
    BY <1>1 DEF TypeOK, MarkIsAuthentic, Mark, Nothing, Missing, Invalid, LoseFile
  <1> QED BY <1>3, <1>4, <1>6, <1>8, <1>9 DEF IInv, WantInv

\* Every step keeps the invariant, one case per action.
LEMMA Inductive == IInv /\ [Next]_vars => IInv'
  <1> SUFFICES ASSUME IInv, [Next]_vars PROVE IInv'
    OBVIOUS
  <1>1. CASE UNCHANGED vars
    <2>1. UpperMarks' = UpperMarks
      BY <1>1, UpperUnchanged DEF vars
    <2> QED
      BY <1>1, <2>1 DEF vars, IInv, TypeOK, LockInv, CallInv, WantInv, WantAt, FileInv,
         MarkIsAuthentic
  <1>2. CASE \E p \in Proc, c \in {"create", "open", "recover"} : AcquireLock(p, c)
    BY <1>2, AcquireLockPreserves
  <1>3. CASE \E p \in Proc : Create(p) \/ Open(p) \/ LoadFromTrustedSource(p)
    BY <1>3, CreatePreserves, OpenPreserves, LoadPreserves
  <1>4. CASE \E p \in Proc, version \in Version : Accept(p, version)
    BY <1>4, AcceptPreserves
  <1>5. CASE \E p \in Proc : Rename(p) \/ DirSync(p) \/ PersistFails(p) \/ Leave(p)
    BY <1>5, RenamePreserves, DirSyncPreserves, PersistFailsPreserves, LeavePreserves
  <1>6. CASE Publish \/ Writeback \/ PowerLoss \/ LoseFile
    BY <1>6, PublishPreserves, WritebackPreserves, PowerLossPreserves, LoseFilePreserves
  <1> QED BY <1>1, <1>2, <1>3, <1>4, <1>5, <1>6 DEF Next

\* The inductive invariant, from which the theorems below follow.
THEOREM InvariantHolds == Spec => []IInv
  BY Initial, Inductive, PTL DEF Spec

\* Every variable keeps its type: in particular the mark in memory is always
\* "none" or a u32 version, never what a missing or damaged file reads as.
THEOREM TypeCorrect == Spec => []TypeOK
  <1>1. IInv => TypeOK
    BY DEF IInv
  <1> QED BY <1>1, InvariantHolds, PTL

\* Whatever a verifier reopens covers each version it reported as Accepted.
THEOREM AcceptedMarksAreDurable == Spec => []AcceptedIsDurable
  <1>1. IInv => AcceptedIsDurable
    BY DEF IInv, FileInv, UpperMarks, AcceptedIsDurable, Covers
  <1> QED BY <1>1, InvariantHolds, PTL

\* No mark, in memory or on disk, runs ahead of what the committee signed.
THEOREM MarksAreAuthentic == Spec => []MarkIsAuthentic
  <1>1. IInv => MarkIsAuthentic
    BY DEF IInv
  <1> QED BY <1>1, InvariantHolds, PTL

\* The gate implements the abstract promise: versions are accepted in strictly
\* increasing order, under every fault of the model.
THEOREM GateAcceptsInOrder == Spec => AcceptsInOrder
  <1>1. Init => Gate!Init
    BY DEF Init, Gate!Init, Gate!Slot, Version
  <1>2. IInv /\ [Next]_vars => [Gate!Next]_accepted
    <2> SUFFICES ASSUME IInv, [Next]_vars, accepted' # accepted PROVE Gate!Next
      OBVIOUS
    <2>1. PICK p \in Proc : DirSync(p)
      BY DEF Next, vars, AcquireLock, Create, Open, LoadFromTrustedSource, StartPersist,
         Drop,
         Accept, Rename, PersistFails, Leave, Publish, Writeback, PowerLoss, LoseFile
    <2>2. call[p] = "advance"
      BY <2>1 DEF DirSync
    <2>3. want[p] \in Version /\ mem[p] \in UpperMarks /\ mem[p] < want[p] /\ mem[p] \in Int
      BY <2>2 DEF IInv, TypeOK, WantInv, WantAt, Mark, Version, Nothing
    <2>4. accepted \in [Version -> Nat]
      BY DEF IInv, TypeOK
    <2>5. \A v \in Version : v >= want[p] => accepted[v] = 0
      BY <2>3, <2>4 DEF UpperMarks, Version
    <2>e. accepted[want[p]] = 0
      BY <2>3, <2>5 DEF Version
    <2>6. accepted' = [accepted EXCEPT ![want[p]] = 1]
      BY <2>1, <2>2, <2>3, <2>4, <2>e DEF DirSync
    <2>7. Gate!Grant(want[p])
      BY <2>5, <2>6 DEF Gate!Grant, Gate!Fresh, Gate!Slot, Version
    <2> QED BY <2>3, <2>7 DEF Gate!Next, Gate!Slot, Version
  <1> QED BY <1>1, <1>2, InvariantHolds, PTL DEF Spec, AcceptsInOrder, Gate!Spec
=============================================================================
