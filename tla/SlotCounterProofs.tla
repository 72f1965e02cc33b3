-------------------------- MODULE SlotCounterProofs --------------------------
(***************************************************************************)
(* Proofs about SlotCounter, for every window, every number of processes   *)
(* and every number of crashes: the counter never hands a slot out twice   *)
(* as long as unsynced writes cannot outlive the process that made them    *)
(* and then be lost halfway (FaultsTolerated).                             *)
(***************************************************************************)
EXTENDS SlotCounter, TLAPS

\* The faults the journal tolerates together.  Power losses may tear records
\* and undo renames when every process syncs before it ends; and a process may
\* die anywhere when records are written whole and renames are ordered.
FaultsTolerated == ProcessDeath => ~TornRecords /\ ~LostRenames

(***************************************************************************)
(* The inductive invariant.                                                *)
(***************************************************************************)

\* The frontiers that nobody has gone past, and the half a record is not in.
FreshFrom == {n \in Nat : Fresh(n)}
Other(h) == 1 - h

\* Whoever is inside create, open or a live counter holds the lock.
LockInv == \A p \in Proc : pc[p] # "down" <=> lock = p

\* The path can only be ahead of the directory by one installed journal, and
\* whatever a power loss brings back names a frontier nobody has gone past.
EntryInv ==
  /\ durableEntry = entry \/ (LostRenames /\ entry = "journal")
  /\ entry = "absent" \/ durableEntry = "absent" => SlotStart \in FreshFrom
  /\ (entry = "legacy" \/ durableEntry = "legacy") /\ LegacyUsable
       => legacy.next \in FreshFrom /\ legacy.next >= SlotStart

\* A journal being installed starts at a fresh frontier and is synced before
\* it gets its name.
InstallInv ==
  \A p \in Proc :
    /\ pc[p] \in {"image", "rename", "dirsync"} =>
         mem[p].gen = 0 /\ mem[p].next \in FreshFrom /\ mem[p].next >= SlotStart
    /\ pc[p] \in {"rename", "dirsync"} => cache = JournalImage(mem[p].next) /\ disk = cache
    /\ pc[p] \in {"image", "rename"} => entry \in {"absent", "legacy"}
    /\ pc[p] \in {"dirsync", "ready", "sync"} => entry = "journal"

\* Records are in the half of their generation and inside the window, and the
\* disk is never ahead of the cache.
RecordInv ==
  \A h \in Half :
    /\ cache[h].kind = "valid" => HalfOf(cache[h].gen) = h /\ cache[h].next >= SlotStart
    /\ disk[h].kind = "valid" =>
         /\ HalfOf(disk[h].gen) = h /\ disk[h].next >= SlotStart
         /\ cache[h].kind = "valid"
         /\ disk[h].gen <= cache[h].gen

\* Half h anchors the journal: on disk and in the cache it holds a fresh
\* frontier, and no record that would be preferred to it holds a spent one.
Anchor(h) ==
  /\ disk[h].kind = "valid" /\ disk[h].next \in FreshFrom
  /\ cache[h].kind = "valid" /\ cache[h].next \in FreshFrom
  /\ \A a \in {disk[h], cache[h]}, b \in {disk[Other(h)], cache[Other(h)]} :
       b.kind = "valid" /\ b.gen > a.gen => b.next \in FreshFrom

JournalInv == entry = "journal" => \E h \in Half : Anchor(h)

\* A live counter: what it has in memory is in the cache, nothing from its
\* frontier on has been handed out, the other half is at most one generation
\* ahead, and without process deaths the counter is durable.
CounterInv ==
  \A p \in Proc :
    LET gen == mem[p].gen
        h   == HalfOf(gen)
    IN
    /\ pc[p] \in {"ready", "sync"} =>
         /\ cache[h] = ValidRecord(gen, mem[p].next)
         /\ mem[p].next \in FreshFrom
         /\ cache[Other(h)].kind = "valid" => cache[Other(h)].gen <= gen + 1
         /\ ~ProcessDeath => disk[h] = cache[h] /\ durableEntry = "journal"
    /\ pc[p] = "sync" =>
         /\ req[p] \in Slot /\ req[p] >= mem[p].next
         /\ cache[Other(h)] = ValidRecord(gen + 1, req[p] + 1)

\* Without process deaths nothing unsynced is left when no counter is live.
QuiescentInv ==
  ~ProcessDeath /\ (\A p \in Proc : pc[p] \notin {"dirsync", "ready", "sync"}) => Synced

IInv ==
  /\ TypeOK /\ LockInv /\ EntryInv /\ InstallInv /\ RecordInv
  /\ JournalInv /\ CounterInv /\ QuiescentInv /\ NoSlotReuse

(***************************************************************************)
(* Facts about the definitions.                                            *)
(***************************************************************************)

\* The journal has two halves, and consecutive generations alternate.
LEMMA Halves ==
  /\ \A h \in Half : /\ Other(h) \in Half /\ Other(h) # h /\ Other(Other(h)) = h
                      /\ \A k \in Half : k = h \/ k = Other(h)
  /\ \A g \in Nat : HalfOf(g) \in Half /\ HalfOf(g + 1) = Other(HalfOf(g))
BY DEF Half, Other, HalfOf

\* The image install_journal writes, record by record.
LEMMA ImageRecords ==
  \A n \in Nat :
    /\ 0 \in Half /\ HalfOf(0) = 0 /\ Other(0) = 1
    /\ JournalImage(n)[0] = ValidRecord(0, n)
    /\ JournalImage(n)[1] = EmptyRecord
BY DEF JournalImage, Half, HalfOf, Other

\* The fields of a valid record.
LEMMA ValidFields ==
  \A g, n \in Nat : /\ ValidRecord(g, n) \in Record
                    /\ ValidRecord(g, n).kind = "valid"
                    /\ ValidRecord(g, n).gen = g /\ ValidRecord(g, n).next = n
BY DEF ValidRecord, Record

\* The types of the records on both sides of the page cache.
LEMMA RecordTypes ==
  ASSUME TypeOK
  PROVE  \A h \in Half :
           /\ cache[h] \in Record /\ cache[h].gen \in Nat /\ cache[h].next \in Nat
           /\ disk[h] \in Record /\ disk[h].gen \in Nat /\ disk[h].next \in Nat
BY DEF TypeOK, Record

\* Frontiers above a fresh one are fresh, and only a grant can spend one.
LEMMA FreshFacts ==
  /\ FreshFrom \subseteq Nat
  /\ \A m \in FreshFrom, n \in Nat : m <= n => n \in FreshFrom
  /\ \A m \in FreshFrom, s \in Slot : m <= s => uses[s] = 0
  /\ UNCHANGED uses => FreshFrom' = FreshFrom
BY SlotAssumption DEF FreshFrom, Fresh, Slots!Fresh, Slots!Slot, Slot

\* A power loss leaves two records, each one of those CrashRecords allows.
LEMMA CrashImageTypes ==
  ASSUME TypeOK
  PROVE  \A image \in CrashImages :
           image \in [Half -> Record] /\ \A h \in Half : image[h] \in CrashRecords(h)
<1>1. ASSUME NEW h \in Half PROVE CrashRecords(h) \subseteq Record
  <2>1. TornRecord \in Record
    BY DEF TornRecord, Record
  <2> QED BY <2>1 DEF CrashRecords, TypeOK
<1>2. UNION {CrashRecords(h) : h \in Half} \subseteq Record
  BY <1>1
<1> QED BY <1>2 DEF CrashImages

\* TypeOK is an invariant: no operation of the counter, and no crash, takes
\* its state outside its types.
THEOREM TypeCorrect == Spec => []TypeOK
<1> USE SlotAssumption, ProcAssumption, FaultAssumption
<1>1. Init => TypeOK
  <2> SUFFICES ASSUME Init PROVE TypeOK
    OBVIOUS
  <2>1. EmptyRecord \in Record /\ NoCounter \in [gen : Nat, next : Nat]
    BY DEF EmptyRecord, Record, NoCounter
  <2>2. legacy \in [next : Nat, unversioned : BOOLEAN]
    <3>1. CASE entry = "legacy"
      <4>1. PICK frontier \in SlotStart .. SlotEnd + 2, u \in BOOLEAN :
              legacy = [next |-> IF u /\ frontier > MaxU32 THEN MaxU32 ELSE frontier,
                        unversioned |-> u]
        BY <3>1 DEF Init
      <4>2. frontier \in Nat /\ MaxU32 \in Nat
        OBVIOUS
      <4> QED BY <4>1, <4>2
    <3>2. CASE entry # "legacy"
      <4>1. legacy = [next |-> 0, unversioned |-> FALSE]
        BY <3>2 DEF Init
      <4> QED BY <4>1
    <3> QED BY <3>1, <3>2
  <2>3. uses \in [Slot -> Nat]
    BY DEF Init
  <2>4. entry \in {"absent", "legacy", "foreign", "journal"}
    BY DEF Init
  <2> QED BY <2>1, <2>2, <2>3, <2>4 DEF Init, TypeOK, PCs
<1>2. TypeOK /\ [Next]_vars => TypeOK'
  <2> SUFFICES ASSUME TypeOK, [Next]_vars PROVE TypeOK'
    OBVIOUS
  <2> USE DEF TypeOK, PCs
  <2>1. ASSUME NEW p \in Proc, NEW op \in {"create", "open"}, AcquireLock(p, op)
        PROVE  TypeOK'
    BY <2>1 DEF AcquireLock, fileVars
  <2>2. ASSUME NEW p \in Proc, Refuse(p) PROVE TypeOK'
    BY <2>2 DEF Refuse, NoCounter, fileVars
  <2>3. ASSUME NEW p \in Proc, CreateChecks(p) PROVE TypeOK'
    BY <2>2, <2>3 DEF CreateChecks, fileVars
  <2>4. ASSUME NEW p \in Proc, OpenReads(p) PROVE TypeOK'
    <3>1. ASSUME NEW h \in Half PROVE cache[h].gen \in Nat /\ cache[h].next \in Nat
      BY DEF Record
    <3>2. CASE Refuse(p)
      BY <2>2, <3>2
    <3>3. CASE ~Refuse(p) /\ UNCHANGED <<lock, req, uses, fileVars>>
      <4>1. PICK m \in [gen : Nat, next : Nat] : mem' = [mem EXCEPT ![p] = m]
        <5>1. CASE entry = "journal"
          <6>1. PICK h \in Half :
                  mem' = [mem EXCEPT ![p] = [gen |-> cache[h].gen, next |-> cache[h].next]]
            BY <2>4, <3>3, <5>1 DEF OpenReads
          <6>2. [gen |-> cache[h].gen, next |-> cache[h].next] \in [gen : Nat, next : Nat]
            BY <3>1
          <6> QED BY <6>1, <6>2
        <5>2. CASE entry # "journal"
          <6>1. mem' = [mem EXCEPT ![p] = [gen |-> 0, next |-> legacy.next]]
            BY <2>4, <3>3, <5>2 DEF OpenReads
          <6>2. [gen |-> 0, next |-> legacy.next] \in [gen : Nat, next : Nat]
            OBVIOUS
          <6> QED BY <6>1, <6>2
        <5> QED BY <5>1, <5>2
      <4>2. pc' \in [Proc -> PCs]
        BY <2>4, <3>3 DEF OpenReads
      <4> QED BY <3>3, <4>1, <4>2 DEF fileVars
    <3> QED BY <2>4, <3>2, <3>3 DEF OpenReads
  <2>5. ASSUME NEW p \in Proc, InstallImage(p) PROVE TypeOK'
    <3>1. JournalImage(mem[p].next) \in [Half -> Record]
      BY DEF JournalImage, Record, ValidRecord, EmptyRecord, Half
    <3> QED BY <2>5, <3>1 DEF InstallImage
  <2>6. ASSUME NEW p \in Proc, InstallRename(p) \/ InstallDirSync(p) PROVE TypeOK'
    BY <2>6 DEF InstallRename, InstallDirSync
  <2>7. ASSUME NEW p \in Proc, NEW s \in Nat, PersistWrites(p, s) PROVE TypeOK'
    <3>1. ValidRecord(mem[p].gen + 1, s + 1) \in Record
      BY DEF ValidRecord, Record
    <3> QED BY <2>7, <3>1 DEF PersistWrites
  <2>8. ASSUME NEW p \in Proc, Reserve(p) PROVE TypeOK'
    BY <2>7, <2>8 DEF Reserve
  <2>9. ASSUME NEW p \in Proc, NEW s \in 0 .. MaxU32, ReserveAt(p, s) PROVE TypeOK'
    BY <2>7, <2>9 DEF ReserveAt
  <2>10. ASSUME NEW p \in Proc, SyncData(p) PROVE TypeOK'
    <3>1. uses' \in [Slot -> Nat]
      <4>1. uses' = [s \in Slot |-> IF s = req[p] THEN uses[s] + 1 ELSE uses[s]]
        BY <2>10 DEF SyncData
      <4> QED BY <4>1
    <3>2. mem' \in [Proc -> [gen : Nat, next : Nat]]
      <4>1. mem[p].gen \in Nat /\ req[p] \in Nat
        OBVIOUS
      <4>2. [gen |-> mem[p].gen + 1, next |-> req[p] + 1] \in [gen : Nat, next : Nat]
        BY <4>1
      <4> QED BY <2>10, <4>2 DEF SyncData
    <3> QED BY <2>10, <3>1, <3>2 DEF SyncData
  <2>11. ASSUME NEW p \in Proc, SyncFails(p) PROVE TypeOK'
    BY <2>11 DEF SyncFails, fileVars
  <2>12. ASSUME NEW p \in Proc, Leave(p) PROVE TypeOK'
    BY <2>2, <2>12 DEF Leave
  <2>13. ASSUME NEW h \in Half, Writeback(h) PROVE TypeOK'
    BY <2>13 DEF Writeback
  <2>14. CASE WritebackEntry
    BY <2>14 DEF WritebackEntry
  <2>15. CASE PowerLoss
    <3>1. disk' \in [Half -> Record]
      BY <2>15, CrashImageTypes DEF PowerLoss
    <3> QED BY <2>15, <3>1 DEF PowerLoss, NoCounter
  <2>16. CASE UNCHANGED vars
    BY <2>16 DEF vars
  <2> QED
    BY <2>1, <2>3, <2>4, <2>5, <2>6, <2>8, <2>9, <2>10, <2>11, <2>12, <2>13,
       <2>14, <2>15, <2>16 DEF Next
<1>3. QED
  BY <1>1, <1>2, PTL DEF Spec

\* Every step of the counter and of its environment preserves IInv.
LEMMA Inductive ==
  ASSUME FaultsTolerated, IInv, [Next]_vars, TypeOK'
  PROVE  IInv'
<1> USE SlotAssumption, ProcAssumption, FaultAssumption DEF IInv
<1>1. ASSUME NEW p \in Proc, NEW op \in {"create", "open"}, AcquireLock(p, op)
      PROVE  IInv'
  <2>1. LockInv' /\ InstallInv' /\ QuiescentInv'
    BY <1>1, FreshFacts
    DEF LockInv, TypeOK, PCs, InstallInv, QuiescentInv, Synced, AcquireLock, fileVars
  <2>2. EntryInv' /\ RecordInv' /\ NoSlotReuse'
    BY <1>1, FreshFacts
    DEF EntryInv, LegacyUsable, InstallInv, CounterInv, RecordInv, NoSlotReuse,
         AcquireLock, fileVars
  <2>3. JournalInv' /\ CounterInv'
    BY <1>1, FreshFacts
    DEF JournalInv, Anchor, CounterInv, LockInv, TypeOK, PCs, AcquireLock, fileVars
  <2> QED BY <2>1, <2>2, <2>3
<1>2. ASSUME NEW p \in Proc, pc[p] # "down", ProcessDeath \/ Synced, Refuse(p)
      PROVE  IInv'
  <2>1. LockInv' /\ InstallInv' /\ QuiescentInv'
    BY <1>2, FreshFacts
    DEF LockInv, TypeOK, PCs, InstallInv, QuiescentInv, Synced, Refuse, NoCounter, fileVars
  <2>2. EntryInv' /\ RecordInv' /\ NoSlotReuse'
    BY <1>2, FreshFacts
    DEF EntryInv, LegacyUsable, InstallInv, CounterInv, RecordInv, NoSlotReuse,
         Refuse, Synced, NoCounter, fileVars
  <2>3. JournalInv' /\ CounterInv'
    BY <1>2, FreshFacts
    DEF JournalInv, Anchor, CounterInv, LockInv, TypeOK, PCs, Refuse, Synced, NoCounter, fileVars
  <2> QED BY <2>1, <2>2, <2>3
<1>3. ASSUME NEW p \in Proc, CreateChecks(p), ~Refuse(p)
      PROVE  IInv'
  <2>1. LockInv' /\ QuiescentInv'
    BY <1>3, FreshFacts
    DEF LockInv, TypeOK, PCs, QuiescentInv, Synced, CreateChecks, fileVars
  <2>2. EntryInv' /\ RecordInv' /\ NoSlotReuse'
    BY <1>3, FreshFacts
    DEF EntryInv, LegacyUsable, InstallInv, CounterInv, RecordInv, NoSlotReuse,
         CreateChecks, fileVars
  <2>3. JournalInv' /\ CounterInv'
    BY <1>3, FreshFacts
    DEF JournalInv, Anchor, CounterInv, LockInv, TypeOK, PCs, CreateChecks, fileVars
  <2>4. InstallInv'
    BY <1>3, FreshFacts, SlotAssumption
    DEF InstallInv, LockInv, TypeOK, PCs, CreateChecks, fileVars, EntryInv
  <2> QED BY <2>1, <2>2, <2>3, <2>4
<1>4. ASSUME NEW p \in Proc, OpenReads(p), ~Refuse(p)
      PROVE  IInv'
  <2>p. /\ pc[p] = "open" /\ lock = p
        /\ UNCHANGED <<lock, uses, entry, durableEntry, legacy, cache, disk>>
        /\ pc' = [pc EXCEPT ![p] = IF entry = "journal" THEN "ready" ELSE "image"]
    BY <1>4 DEF OpenReads, LockInv, fileVars
  <2>q. \A q \in Proc : q # p => pc[q] = "down" /\ pc'[q] = "down"
    BY <2>p DEF LockInv, TypeOK
  <2>1. LockInv' /\ InstallInv' /\ QuiescentInv'
    BY <1>4, FreshFacts
    DEF LockInv, TypeOK, PCs, InstallInv, QuiescentInv, Synced, OpenReads, fileVars, EntryInv
  <2>2. EntryInv' /\ RecordInv' /\ NoSlotReuse'
    BY <1>4, FreshFacts
    DEF EntryInv, LegacyUsable, InstallInv, CounterInv, RecordInv, NoSlotReuse, OpenReads, fileVars
  <2>3. JournalInv'
    BY <1>4, FreshFacts
    DEF JournalInv, Anchor, OpenReads, fileVars
  <2>4. CounterInv'
    <3>1. CASE entry = "journal"
      <4>1. PICK h \in Half :
              /\ Recovers(cache, cache[h])
              /\ mem' = [mem EXCEPT ![p] = [gen |-> cache[h].gen, next |-> cache[h].next]]
        BY <1>4, <3>1 DEF OpenReads
      <4>2. mem'[p].gen = cache[h].gen /\ mem'[p].next = cache[h].next
        BY <4>1 DEF TypeOK
      <4>3. cache[h] \in Record /\ cache[h].gen \in Nat /\ cache[h].next \in Nat
        BY RecordTypes
      <4>4. cache[h].kind = "valid" /\ HalfOf(cache[h].gen) = h
        BY <4>1 DEF Recovers, Decodes, RecordInv
      <4>5. cache[h] = ValidRecord(cache[h].gen, cache[h].next)
        BY <4>3, <4>4 DEF ValidRecord, Record
      <4>6. /\ cache[Other(h)].kind = "valid" => cache[h].gen = cache[Other(h)].gen + 1
            /\ cache[Other(h)].gen \in Nat
        BY <4>1, <4>4, Halves, RecordTypes DEF Recovers, Decodes, RecordInv
      <4>7. cache[h].next \in FreshFrom
        <5>1. PICK a \in Half : Anchor(a)
          BY <3>1 DEF JournalInv
        <5>2. CASE a = h
          BY <5>1, <5>2 DEF Anchor
        <5>3. CASE a = Other(h)
          <6>1. Other(a) = h
            BY <5>3, Halves
          <6>2. cache[a].kind = "valid" /\ cache[h].gen > cache[a].gen
            BY <4>3, <4>6, <5>1, <5>3 DEF Anchor
          <6> QED BY <4>4, <5>1, <6>1, <6>2 DEF Anchor
        <5> QED BY <5>2, <5>3, Halves
      <4>8. ~ProcessDeath => disk[h] = cache[h] /\ durableEntry = "journal"
        BY <2>p, <2>q, <3>1 DEF QuiescentInv, Synced
      <4>9. cache[Other(h)].kind = "valid" => cache[Other(h)].gen <= cache[h].gen + 1
        BY <4>6
      <4>10. ASSUME NEW q \in Proc, q # p PROVE pc'[q] = "down"
        BY <2>q, <4>10
      <4>11. pc'[p] = "ready"
        BY <2>p, <3>1 DEF TypeOK
      <4>12. FreshFrom' = FreshFrom
        BY <2>p, FreshFacts
      <4> QED
        BY <2>p, <4>2, <4>4, <4>5, <4>7, <4>8, <4>9, <4>10, <4>11, <4>12 DEF CounterInv
    <3>2. CASE entry # "journal"
      <4>1. \A q \in Proc : pc'[q] \notin {"ready", "sync"}
        BY <2>p, <2>q, <3>2 DEF TypeOK
      <4> QED BY <4>1 DEF CounterInv
    <3> QED BY <3>1, <3>2
  <2> QED BY <2>1, <2>2, <2>3, <2>4
<1>5. ASSUME NEW p \in Proc, InstallImage(p)
      PROVE  IInv'
  <2>1. LockInv' /\ InstallInv' /\ QuiescentInv'
    BY <1>5, FreshFacts
    DEF LockInv, TypeOK, PCs, InstallInv, QuiescentInv, Synced, InstallImage
  <2>2. EntryInv' /\ NoSlotReuse'
    BY <1>5, FreshFacts
    DEF EntryInv, LegacyUsable, InstallInv, CounterInv, NoSlotReuse, InstallImage
  <2>3. CounterInv'
    BY <1>5, FreshFacts
    DEF CounterInv, LockInv, TypeOK, PCs, InstallImage
  <2>4. RecordInv'
    <3>1. mem[p].next \in Nat /\ mem[p].next >= SlotStart
      BY <1>5 DEF TypeOK, InstallImage, InstallInv
    <3>2. cache'[0] = ValidRecord(0, mem[p].next) /\ cache'[1] = EmptyRecord /\ disk' = cache'
      BY <1>5, <3>1, ImageRecords DEF InstallImage
    <3>3. ASSUME NEW h \in Half PROVE h = 0 \/ h = 1
      BY <3>3 DEF Half
    <3>4. EmptyRecord.kind # "valid"
      BY DEF EmptyRecord
    <3> QED BY <3>1, <3>2, <3>3, <3>4, ImageRecords, ValidFields DEF RecordInv
  <2>5. JournalInv'
    BY <1>5 DEF JournalInv, InstallImage, InstallInv
  <2> QED BY <2>1, <2>2, <2>3, <2>4, <2>5
<1>6. ASSUME NEW p \in Proc, InstallRename(p)
      PROVE  IInv'
  <2>1. LockInv' /\ InstallInv' /\ QuiescentInv'
    BY <1>6, FreshFacts
    DEF LockInv, TypeOK, PCs, InstallInv, QuiescentInv, Synced, InstallRename
  <2>2. EntryInv' /\ RecordInv' /\ NoSlotReuse'
    BY <1>6, FreshFacts
    DEF EntryInv, LegacyUsable, InstallInv, CounterInv, RecordInv, NoSlotReuse, InstallRename
  <2>3. CounterInv'
    BY <1>6, FreshFacts
    DEF CounterInv, LockInv, TypeOK, PCs, InstallRename
  <2>4. JournalInv'
    <3>1. mem[p].next \in Nat /\ mem[p].next \in FreshFrom /\ UNCHANGED <<cache, disk, uses>>
      BY <1>6 DEF TypeOK, InstallRename, InstallInv
    <3>2. cache[0] = ValidRecord(0, mem[p].next) /\ cache[1] = EmptyRecord /\ disk = cache
      BY <1>6, <3>1, ImageRecords DEF InstallRename, InstallInv
    <3>3. EmptyRecord.kind # "valid"
      BY DEF EmptyRecord
    <3>4. Anchor(0)'
      BY <3>1, <3>2, <3>3, FreshFacts, ImageRecords, ValidFields DEF Anchor
    <3> QED BY <3>1, <3>4, ImageRecords DEF JournalInv
  <2> QED BY <2>1, <2>2, <2>3, <2>4
<1>7. ASSUME NEW p \in Proc, InstallDirSync(p)
      PROVE  IInv'
  <2>1. LockInv' /\ InstallInv' /\ QuiescentInv'
    BY <1>7, FreshFacts
    DEF LockInv, TypeOK, PCs, InstallInv, QuiescentInv, Synced, InstallDirSync
  <2>2. EntryInv' /\ RecordInv' /\ NoSlotReuse'
    BY <1>7, FreshFacts
    DEF EntryInv, LegacyUsable, InstallInv, CounterInv, RecordInv, NoSlotReuse, InstallDirSync
  <2>3. JournalInv'
    BY <1>7, FreshFacts
    DEF JournalInv, Anchor, InstallDirSync
  <2>4. CounterInv'
    <3>1. /\ mem[p].next \in Nat /\ mem[p].gen = 0 /\ mem[p].next \in FreshFrom
          /\ entry = "journal" /\ lock = p
          /\ UNCHANGED <<mem, cache, disk, uses>> /\ durableEntry' = "journal"
          /\ pc' = [pc EXCEPT ![p] = "ready"]
      BY <1>7 DEF TypeOK, InstallDirSync, InstallInv, LockInv
    <3>2. cache[0] = ValidRecord(0, mem[p].next) /\ cache[1] = EmptyRecord /\ disk = cache
      BY <1>7, <3>1, ImageRecords DEF InstallDirSync, InstallInv
    <3>3. EmptyRecord.kind # "valid"
      BY DEF EmptyRecord
    <3>4. \A q \in Proc : pc'[q] # "sync" /\ (pc'[q] = "ready" => q = p)
      BY <3>1 DEF LockInv, TypeOK
    <3> QED BY <3>1, <3>2, <3>3, <3>4, FreshFacts, ImageRecords DEF CounterInv
  <2> QED BY <2>1, <2>2, <2>3, <2>4
<1>8. ASSUME NEW p \in Proc, NEW s \in Slot, pc[p] = "ready", s >= mem[p].next,
             PersistWrites(p, s)
      PROVE  IInv'
  <2>x. PICK g \in Nat : g = mem[p].gen
    BY DEF TypeOK
  <2>y. PICK h \in Half, k \in Half : h = HalfOf(g) /\ k = Other(h)
    BY Halves
  <2>a. /\ g \in Nat /\ h \in Half /\ k \in Half /\ HalfOf(g + 1) = k /\ Other(k) = h /\ k # h
        /\ s \in Nat /\ s + 1 \in Nat /\ mem[p].next \in Nat
        /\ \A q \in Half : q = h \/ q = k
    <3>1. mem[p].next \in Nat /\ s \in Nat
      BY DEF TypeOK, Slot
    <3> QED BY <2>x, <2>y, <3>1, Halves
  <2>b. /\ cache' = [cache EXCEPT ![k] = ValidRecord(g + 1, s + 1)]
        /\ UNCHANGED <<lock, mem, entry, durableEntry, disk, uses>>
        /\ req' = [req EXCEPT ![p] = s] /\ pc' = [pc EXCEPT ![p] = "sync"]
    BY <1>8, <2>a, <2>x DEF PersistWrites
  <2>c. cache'[k] = ValidRecord(g + 1, s + 1) /\ cache'[h] = cache[h]
    BY <2>a, <2>b DEF TypeOK
  <2>e. /\ cache[h] = ValidRecord(g, mem[p].next) /\ mem[p].next \in FreshFrom
        /\ cache[k].kind = "valid" => cache[k].gen <= g + 1
        /\ ~ProcessDeath => disk[h] = cache[h] /\ durableEntry = "journal"
        /\ entry = "journal"
    BY <1>8, <2>x, <2>y DEF CounterInv, InstallInv
  <2>f. s + 1 \in FreshFrom /\ FreshFrom' = FreshFrom
    BY <1>8, <2>a, <2>b, <2>e, FreshFacts
  <2>g. /\ disk[h].gen \in Nat /\ disk[k].gen \in Nat /\ cache[h].gen \in Nat /\ cache[k].gen \in Nat
        /\ cache[h].kind = "valid" /\ cache[h].gen = g /\ cache[h].next = mem[p].next
        /\ cache'[k].kind = "valid" /\ cache'[k].gen = g + 1 /\ cache'[k].next = s + 1
    <3>1. g + 1 \in Nat
      BY <2>a
    <3>2. disk[h].gen \in Nat /\ disk[k].gen \in Nat /\ cache[h].gen \in Nat /\ cache[k].gen \in Nat
      BY <2>a, RecordTypes
    <3> QED BY <2>a, <2>c, <2>e, <3>1, <3>2, ValidFields
  <2>i. s >= SlotStart /\ s >= mem[p].next
    BY <1>8 DEF Slot
  <2>1. LockInv' /\ InstallInv' /\ QuiescentInv'
    BY <1>8, FreshFacts
    DEF LockInv, TypeOK, PCs, InstallInv, QuiescentInv, Synced, PersistWrites
  <2>2. EntryInv' /\ NoSlotReuse'
    BY <1>8, FreshFacts
    DEF EntryInv, LegacyUsable, InstallInv, CounterInv, NoSlotReuse, PersistWrites
  <2>3. RecordInv'
    <3>1. disk[k].kind = "valid" =>
            HalfOf(disk[k].gen) = k /\ disk[k].next >= SlotStart /\ disk[k].gen <= g + 1
      BY <2>a, <2>e, <2>g DEF RecordInv
    <3>2. disk[h].kind = "valid" =>
            HalfOf(disk[h].gen) = h /\ disk[h].next >= SlotStart /\ disk[h].gen <= cache[h].gen
      BY <2>a DEF RecordInv
    <3>3. cache[h].kind = "valid" => HalfOf(cache[h].gen) = h /\ cache[h].next >= SlotStart
      BY <2>a DEF RecordInv
    <3>4. s + 1 >= SlotStart
      BY <2>a, <2>i
    <3>5. ASSUME NEW q \in Half, q = h
          PROVE  /\ cache'[q].kind = "valid" => HalfOf(cache'[q].gen) = q /\ cache'[q].next >= SlotStart
                 /\ disk'[q].kind = "valid" =>
                      /\ HalfOf(disk'[q].gen) = q /\ disk'[q].next >= SlotStart
                      /\ cache'[q].kind = "valid" /\ disk'[q].gen <= cache'[q].gen
      BY <2>b, <2>c, <2>g, <3>2, <3>3, <3>5
    <3>6. ASSUME NEW q \in Half, q = k
          PROVE  /\ cache'[q].kind = "valid" => HalfOf(cache'[q].gen) = q /\ cache'[q].next >= SlotStart
                 /\ disk'[q].kind = "valid" =>
                      /\ HalfOf(disk'[q].gen) = q /\ disk'[q].next >= SlotStart
                      /\ cache'[q].kind = "valid" /\ disk'[q].gen <= cache'[q].gen
      BY <2>a, <2>b, <2>g, <3>1, <3>4, <3>6
    <3> QED BY <2>a, <3>5, <3>6 DEF RecordInv
  <2>4. JournalInv'
    <3>1. PICK a \in Half : Anchor(a)
      BY <2>e DEF JournalInv
    <3>2. disk[h].kind = "valid" => disk[h].gen <= g
      BY <2>a, <2>g DEF RecordInv
    <3>3. CASE a = h
      <4>1. Anchor(h)'
        BY <2>b, <2>c, <2>f, <2>g, <3>1, <3>3, <2>y DEF Anchor
      <4> QED BY <2>a, <4>1 DEF JournalInv
    <3>4. CASE a = k /\ ProcessDeath
      <4>1. Anchor(k)'
        BY <2>a, <2>b, <2>c, <2>f, <2>g, <3>1, <3>2, <3>4 DEF Anchor
      <4> QED BY <2>a, <4>1 DEF JournalInv
    <3>5. CASE a = k /\ ~ProcessDeath
      <4>1. disk[h] = cache[h] /\ cache[h].next \in FreshFrom /\ disk[k].next \in FreshFrom
        BY <2>e, <2>g, <3>1, <3>5 DEF Anchor
      <4>2. Anchor(h)'
        BY <2>b, <2>c, <2>f, <2>g, <4>1, <2>y DEF Anchor
      <4> QED BY <2>a, <4>2 DEF JournalInv
    <3> QED BY <2>a, <3>3, <3>4, <3>5
  <2>5. CounterInv'
    <3>1. ASSUME NEW q \in Proc, q # p PROVE pc'[q] = "down"
      BY <1>8, <2>b, <3>1 DEF LockInv, TypeOK
    <3>2. req'[p] = s /\ mem'[p] = mem[p] /\ pc'[p] = "sync"
      BY <2>b DEF TypeOK
    <3>3. cache'[k].gen <= g + 1
      BY <2>a, <2>g
    <3> QED BY <1>8, <2>b, <2>c, <2>e, <2>f, <2>i, <2>x, <2>y, <3>1, <3>2, <3>3 DEF CounterInv
  <2> QED BY <2>1, <2>2, <2>3, <2>4, <2>5
<1>9. ASSUME NEW p \in Proc, SyncData(p)
      PROVE  IInv'
  <2>x. PICK g \in Nat : g = mem[p].gen
    BY DEF TypeOK
  <2>y. PICK h \in Half, k \in Half : h = HalfOf(g) /\ k = Other(h)
    BY Halves
  <2>a. /\ g \in Nat /\ g + 1 \in Nat /\ h \in Half /\ k \in Half /\ HalfOf(g + 1) = k /\ Other(k) = h
        /\ req[p] \in Nat /\ req[p] + 1 \in Nat /\ mem[p].next \in Nat
    <3>1. mem[p].next \in Nat /\ req[p] \in Nat
      BY DEF TypeOK
    <3> QED BY <2>x, <2>y, <3>1, Halves
  <2>b. /\ disk' = cache /\ UNCHANGED <<lock, req, entry, durableEntry, legacy, cache>>
        /\ uses' = [uses EXCEPT ![req[p]] = @ + 1] /\ pc[p] = "sync"
    BY <1>9 DEF SyncData
  <2>c. /\ mem'[p].gen = g + 1 /\ mem'[p].next = req[p] + 1 /\ pc'[p] = "ready"
        /\ \A q \in Proc : q # p => pc'[q] = "down"
    BY <1>9, <2>a, <2>x DEF SyncData, TypeOK, LockInv
  <2>e. /\ cache[h] = ValidRecord(g, mem[p].next) /\ mem[p].next \in FreshFrom
        /\ cache[k] = ValidRecord(g + 1, req[p] + 1)
        /\ req[p] \in Slot /\ req[p] >= mem[p].next
        /\ ~ProcessDeath => durableEntry = "journal"
        /\ entry = "journal"
    BY <2>b, <2>x, <2>y DEF CounterInv, InstallInv
  <2>f. req[p] + 1 \in FreshFrom'
    <3>1. \A t \in Slot : t >= req[p] + 1 => uses[t] = 0
      BY <2>a, <2>e, FreshFacts DEF Slot
    <3>2. \A t \in Slot : t >= req[p] + 1 => uses'[t] = 0
      BY <2>a, <2>b, <3>1 DEF TypeOK, Slot
    <3> QED BY <2>a, <3>2 DEF FreshFrom, Fresh, Slots!Fresh, Slots!Slot, Slot
  <2>g. /\ cache[h].kind = "valid" /\ cache[h].gen = g
        /\ cache[k].kind = "valid" /\ cache[k].gen = g + 1 /\ cache[k].next = req[p] + 1
    BY <2>a, <2>e, ValidFields
  <2>1. LockInv' /\ InstallInv' /\ QuiescentInv'
    BY <1>9, FreshFacts
    DEF LockInv, TypeOK, PCs, InstallInv, QuiescentInv, Synced, SyncData
  <2>2. EntryInv'
    <3>1. durableEntry = "journal"
      BY <2>e DEF EntryInv, FaultsTolerated
    <3> QED BY <2>b, <2>e, <3>1 DEF EntryInv
  <2>3. RecordInv'
    <3>1. \A q \in Half : cache[q].gen \in Nat
      BY RecordTypes
    <3> QED BY <2>b, <3>1 DEF RecordInv
  <2>4. JournalInv'
    <3>1. Anchor(k)'
      BY <2>a, <2>b, <2>f, <2>g DEF Anchor
    <3> QED BY <2>a, <3>1 DEF JournalInv
  <2>5. CounterInv'
    <3>1. cache[h].gen <= (g + 1) + 1
      BY <2>a, <2>g
    <3>2. cache'[HalfOf(mem'[p].gen)] = ValidRecord(mem'[p].gen, mem'[p].next)
      BY <2>a, <2>b, <2>c, <2>e
    <3>3. cache'[Other(HalfOf(mem'[p].gen))].gen <= mem'[p].gen + 1
      BY <2>a, <2>b, <2>c, <3>1
    <3> QED BY <2>b, <2>c, <2>e, <2>f, <3>2, <3>3 DEF CounterInv
  <2>6. NoSlotReuse'
    <3>1. uses[req[p]] = 0
      BY <2>e, FreshFacts
    <3> QED BY <2>b, <2>e, <3>1 DEF NoSlotReuse, TypeOK
  <2> QED BY <2>1, <2>2, <2>3, <2>4, <2>5, <2>6
<1>10. ASSUME NEW p \in Proc, SyncFails(p)
      PROVE  IInv'
  <2>1. LockInv' /\ InstallInv' /\ QuiescentInv'
    BY <1>10, FreshFacts
    DEF LockInv, TypeOK, PCs, InstallInv, QuiescentInv, Synced, SyncFails, fileVars
  <2>2. EntryInv' /\ RecordInv' /\ NoSlotReuse'
    BY <1>10, FreshFacts
    DEF EntryInv, LegacyUsable, InstallInv, CounterInv, RecordInv, NoSlotReuse, SyncFails, fileVars
  <2>3. JournalInv' /\ CounterInv'
    BY <1>10, FreshFacts
    DEF JournalInv, Anchor, CounterInv, LockInv, TypeOK, PCs, SyncFails, fileVars
  <2> QED BY <2>1, <2>2, <2>3
<1>11. ASSUME NEW h \in Half, Writeback(h)
      PROVE  IInv'
  <2>1. LockInv' /\ InstallInv' /\ QuiescentInv'
    BY <1>11, FreshFacts
    DEF LockInv, TypeOK, PCs, InstallInv, QuiescentInv, Synced, Writeback
  <2>2. EntryInv' /\ NoSlotReuse'
    BY <1>11, FreshFacts
    DEF EntryInv, LegacyUsable, InstallInv, CounterInv, NoSlotReuse, Writeback
  <2>3. JournalInv' /\ CounterInv'
    BY <1>11, FreshFacts
    DEF JournalInv, Anchor, CounterInv, LockInv, TypeOK, PCs, Writeback
  <2>4. RecordInv'
    <3>1. \A q \in Half : disk'[q] \in {disk[q], cache[q]} /\ cache[q].gen \in Nat
      BY <1>11, RecordTypes DEF Writeback, TypeOK
    <3>2. cache' = cache
      BY <1>11 DEF Writeback
    <3> QED BY <3>1, <3>2 DEF RecordInv
  <2> QED BY <2>1, <2>2, <2>3, <2>4
<1>12. ASSUME WritebackEntry
      PROVE  IInv'
  <2>1. LockInv' /\ InstallInv' /\ QuiescentInv'
    BY <1>12, FreshFacts
    DEF LockInv, TypeOK, PCs, InstallInv, QuiescentInv, Synced, WritebackEntry
  <2>2. EntryInv' /\ RecordInv' /\ NoSlotReuse'
    BY <1>12, FreshFacts
    DEF EntryInv, LegacyUsable, InstallInv, CounterInv, RecordInv, NoSlotReuse, WritebackEntry
  <2>3. JournalInv'
    BY <1>12, FreshFacts
    DEF JournalInv, Anchor, WritebackEntry
  <2>4. CounterInv'
    <3>1. UNCHANGED <<pc, mem, req, cache, disk, uses>> /\ durableEntry' = entry
      BY <1>12 DEF WritebackEntry
    <3>2. \A p \in Proc : pc[p] \in {"ready", "sync"} => entry = "journal"
      BY DEF InstallInv
    <3> QED BY <3>1, <3>2, FreshFacts DEF CounterInv
  <2> QED BY <2>1, <2>2, <2>3, <2>4
<1>13. ASSUME PowerLoss
      PROVE  IInv'
  <2>a. /\ disk' \in [Half -> Record] /\ cache' = disk'
        /\ \A h \in Half : disk'[h] \in CrashRecords(h)
    BY <1>13, CrashImageTypes DEF PowerLoss
  <2>b. ~TornRecords => \A h \in Half : disk'[h] \in {disk[h], cache[h]}
    BY <2>a DEF CrashRecords
  <2>c. \A h \in Half : disk'[h].kind = "valid" => disk'[h] \in {disk[h], cache[h]}
    BY <2>a DEF CrashRecords, TornRecord
  <2>d. \A h \in Half : disk[h] = cache[h] => disk'[h] = disk[h]
    BY <2>a DEF CrashRecords
  <2>1. LockInv' /\ InstallInv' /\ QuiescentInv'
    BY <1>13, FreshFacts
    DEF LockInv, TypeOK, PCs, InstallInv, QuiescentInv, Synced, PowerLoss
  <2>2. EntryInv' /\ NoSlotReuse'
    BY <1>13, FreshFacts
    DEF EntryInv, LegacyUsable, InstallInv, CounterInv, NoSlotReuse, PowerLoss
  <2>3. CounterInv'
    BY <1>13, FreshFacts
    DEF CounterInv, LockInv, TypeOK, PCs, PowerLoss
  <2>4. RecordInv'
    <3>1. \A q \in Half : disk'[q].gen \in Nat
      BY <2>a DEF Record
    <3>2. ASSUME NEW q \in Half, disk'[q].kind = "valid"
          PROVE  HalfOf(disk'[q].gen) = q /\ disk'[q].next >= SlotStart
      BY <2>c, <3>2 DEF RecordInv
    <3> QED BY <2>a, <3>1, <3>2 DEF RecordInv
  <2>5. JournalInv'
    <3> SUFFICES ASSUME entry' = "journal" PROVE \E h \in Half : Anchor(h)'
      BY DEF JournalInv
    <3>0. durableEntry = "journal" /\ entry = "journal" /\ FreshFrom' = FreshFrom
      BY <1>13, FreshFacts DEF PowerLoss, EntryInv
    <3>1. PICK a \in Half : Anchor(a)
      BY <3>0 DEF JournalInv
    <3>2. CASE ~TornRecords
      <4>1. Other(a) \in Half
        BY Halves
      <4>2. Anchor(a)'
        BY <2>a, <2>b, <3>0, <3>1, <3>2, <4>1 DEF Anchor
      <4> QED BY <4>2
    <3>3. CASE TornRecords /\ \E p \in Proc : pc[p] \in {"ready", "sync"}
      <4>1. PICK p \in Proc : pc[p] \in {"ready", "sync"}
        BY <3>3
      <4>0. PICK h \in Half : mem[p].gen \in Nat /\ h = HalfOf(mem[p].gen)
        BY Halves DEF TypeOK
      <4>2. /\ mem[p].gen \in Nat /\ mem[p].next \in Nat
            /\ h \in Half /\ Other(h) \in Half /\ (a = h \/ a = Other(h))
        BY <4>0, Halves DEF TypeOK
      <4>3. /\ disk[h] = cache[h] /\ cache[h] = ValidRecord(mem[p].gen, mem[p].next)
            /\ mem[p].next \in FreshFrom
        BY <3>3, <4>0, <4>1 DEF CounterInv, FaultsTolerated
      <4>4. cache[h].kind = "valid" /\ cache[h].next \in FreshFrom
        BY <4>2, <4>3, ValidFields
      <4>5. disk'[h] = cache[h] /\ cache' = disk'
        BY <2>a, <2>d, <4>2, <4>3
      <4>6. disk'[Other(h)].kind = "valid" /\ disk'[Other(h)].gen > cache[h].gen
              => disk'[Other(h)].next \in FreshFrom
        <5>1. CASE a = h
          BY <2>c, <3>1, <4>2, <5>1 DEF Anchor
        <5>2. CASE a = Other(h)
          BY <2>c, <3>1, <4>2, <5>2 DEF Anchor
        <5> QED BY <4>2, <5>1, <5>2
      <4>7. Anchor(h)'
        BY <3>0, <4>4, <4>5, <4>6 DEF Anchor
      <4> QED BY <4>2, <4>7
    <3>4. CASE TornRecords /\ \A p \in Proc : pc[p] \notin {"ready", "sync"}
      <4>1. disk = cache
        BY <3>4 DEF FaultsTolerated, QuiescentInv, Synced, InstallInv
      <4>2. disk'[a] = disk[a] /\ disk'[Other(a)] = disk[Other(a)]
        BY <2>d, <4>1, Halves
      <4>3. Anchor(a)'
        BY <2>a, <3>0, <3>1, <4>1, <4>2 DEF Anchor
      <4> QED BY <4>3
    <3> QED BY <3>2, <3>3, <3>4
  <2> QED BY <2>1, <2>2, <2>3, <2>4, <2>5
<1>14. ASSUME UNCHANGED vars
      PROVE  IInv'
  <2>1. LockInv' /\ InstallInv' /\ QuiescentInv'
    BY <1>14, FreshFacts
    DEF LockInv, TypeOK, PCs, InstallInv, QuiescentInv, Synced, vars
  <2>2. EntryInv' /\ RecordInv' /\ NoSlotReuse'
    BY <1>14, FreshFacts
    DEF EntryInv, LegacyUsable, InstallInv, CounterInv, RecordInv, NoSlotReuse, vars
  <2>3. JournalInv' /\ CounterInv'
    BY <1>14, FreshFacts
    DEF JournalInv, Anchor, CounterInv, LockInv, TypeOK, PCs, vars
  <2> QED BY <2>1, <2>2, <2>3
<1>15. ASSUME NEW p \in Proc, CreateChecks(p) \/ OpenReads(p) \/ Leave(p), Refuse(p)
      PROVE  IInv'
  <2>1. pc[p] # "down"
    BY <1>15 DEF CreateChecks, OpenReads, Leave
  <2>2. CASE Leave(p)
    BY <1>2, <1>15, <2>1, <2>2 DEF Leave
  <2>3. CASE CreateChecks(p) \/ OpenReads(p)
    <3>1. ProcessDeath \/ Synced
      BY <2>3 DEF CreateChecks, OpenReads, QuiescentInv, LockInv
    <3> QED BY <1>2, <1>15, <2>1, <3>1
  <2> QED BY <1>15, <2>2, <2>3
<1>16. ASSUME NEW p \in Proc, Reserve(p) \/ \E r \in 0 .. MaxU32 : ReserveAt(p, r)
      PROVE  IInv'
  <2>1. mem[p].gen \in Nat /\ mem[p].next \in Nat
    BY DEF TypeOK
  <2>2. pc[p] = "ready" => mem[p].next >= SlotStart
    <3>1. HalfOf(mem[p].gen) \in Half
      BY <2>1, Halves
    <3>2. pc[p] = "ready" => cache[HalfOf(mem[p].gen)] = ValidRecord(mem[p].gen, mem[p].next)
      BY DEF CounterInv
    <3> QED BY <2>1, <3>1, <3>2, ValidFields DEF RecordInv
  <2>3. PICK s \in Slot : pc[p] = "ready" /\ s >= mem[p].next /\ PersistWrites(p, s)
    BY <1>16, <2>1, <2>2 DEF Reserve, ReserveAt, Slot
  <2> QED BY <1>8, <2>3
<1>17. ASSUME NEW p \in Proc, Leave(p) PROVE Refuse(p)
  BY <1>17 DEF Leave
<1> QED
  BY <1>1, <1>3, <1>4, <1>5, <1>6, <1>7, <1>9, <1>10, <1>11, <1>12, <1>13, <1>14,
     <1>15, <1>16, <1>17 DEF Next

\* Every initial state satisfies IInv: a text of an earlier release names a
\* frontier past everything that release handed out, unless open refuses it.
LEMMA Initial ==
  ASSUME Init, TypeOK
  PROVE  IInv
<1>1. \A h \in Half : cache[h].kind # "valid" /\ disk[h].kind # "valid"
  BY DEF Init, EmptyRecord
<1>2. SlotStart \in Nat /\ SlotEnd \in Nat /\ MaxU32 \in Nat /\ SlotEnd <= MaxU32
  BY SlotAssumption
<1>3. entry = "absent" => SlotStart \in FreshFrom
  BY <1>2 DEF Init, FreshFrom, Fresh, Slots!Fresh, Slots!Slot, Slot
<1>4. ASSUME entry = "legacy", LegacyUsable
      PROVE  legacy.next \in FreshFrom /\ legacy.next >= SlotStart
  <2>1. PICK frontier \in SlotStart .. SlotEnd + 2, u \in BOOLEAN :
          /\ legacy = [next |-> IF u /\ frontier > MaxU32 THEN MaxU32 ELSE frontier,
                       unversioned |-> u]
          /\ uses = [s \in Slot |-> IF s < frontier THEN 1 ELSE 0]
    BY <1>4 DEF Init
  <2>2. frontier \in Nat /\ legacy.next \in Nat
    BY <1>2, <2>1 DEF TypeOK
  <2>3. CASE u /\ frontier > MaxU32
    <3>1. legacy.next = MaxU32 /\ legacy.unversioned
      BY <2>1, <2>3
    <3>2. SlotEnd < MaxU32
      BY <1>2, <1>4, <3>1 DEF LegacyUsable
    <3>3. \A s \in Slot : ~(s >= legacy.next)
      BY <1>2, <3>1, <3>2 DEF Slot
    <3> QED BY <1>2, <2>2, <3>1, <3>3, SlotAssumption
            DEF FreshFrom, Fresh, Slots!Fresh, Slots!Slot, Slot
  <2>4. CASE ~(u /\ frontier > MaxU32)
    <3>1. legacy.next = frontier
      BY <2>1, <2>4
    <3>2. \A s \in Slot : s >= legacy.next => uses[s] = 0
      BY <2>1, <2>2, <3>1 DEF Slot
    <3> QED BY <1>2, <2>2, <3>1, <3>2 DEF FreshFrom, Fresh, Slots!Fresh, Slots!Slot, Slot
  <2> QED BY <2>3, <2>4
<1>5. LockInv /\ InstallInv /\ CounterInv
  BY ProcAssumption DEF Init, LockInv, InstallInv, CounterInv
<1>6. EntryInv /\ JournalInv
  BY <1>3, <1>4 DEF Init, EntryInv, JournalInv
<1>7. RecordInv
  BY <1>1 DEF RecordInv
<1>8. QuiescentInv
  BY DEF Init, QuiescentInv, Synced
<1>9. NoSlotReuse
  BY DEF Init, NoSlotReuse
<1> QED BY <1>5, <1>6, <1>7, <1>8, <1>9 DEF IInv

\* The inductive invariant holds throughout, for the faults tolerated.
THEOREM InvariantHolds ==
  ASSUME FaultsTolerated
  PROVE  Spec => []IInv
<1>1. Init /\ TypeOK => IInv
  BY Initial
<1>2. IInv /\ TypeOK' /\ [Next]_vars => IInv'
  BY Inductive
<1> QED BY <1>1, <1>2, TypeCorrect, PTL DEF Spec

\* reserve and reserve_at never hand a slot out twice, for every window, any
\* number of competing processes and any number of crashes of the kinds
\* FaultsTolerated allows together.
THEOREM SlotsAreOneTime ==
  ASSUME FaultsTolerated
  PROVE  Spec => []NoSlotReuse
<1>1. IInv => NoSlotReuse
  BY DEF IInv
<1> QED BY <1>1, InvariantHolds, PTL

\* The journal implements the abstract allocator: only a completed sync_data
\* grants a slot, and it is above every slot granted before.
THEOREM CounterImplementsOneTimeSlots ==
  ASSUME FaultsTolerated
  PROVE  Spec => ImplementsOneTimeSlots
<1>1. Init => Slots!Init
  BY DEF Init, Slots!Init, Slots!Slot, Slot
<1>2. IInv /\ [Next]_vars => [Slots!Next]_uses
  <2> SUFFICES ASSUME IInv, Next, uses' # uses PROVE Slots!Next
    BY DEF vars
  <2>1. PICK p \in Proc : SyncData(p)
    BY DEF Next, AcquireLock, CreateChecks, OpenReads, Refuse, InstallImage, InstallRename,
           InstallDirSync, Reserve, ReserveAt, PersistWrites, SyncFails, Leave, Writeback,
           WritebackEntry, PowerLoss
  <2>2. req[p] \in Slot /\ req[p] >= mem[p].next /\ mem[p].next \in FreshFrom
    BY <2>1 DEF IInv, CounterInv, SyncData
  <2>3. req[p] \in FreshFrom /\ uses[req[p]] = 0
    <3>1. req[p] \in Nat /\ mem[p].next \in Nat
      BY <2>2, FreshFacts DEF IInv, TypeOK
    <3>2. mem[p].next <= req[p]
      BY <2>2, <3>1
    <3> QED BY <2>2, <3>1, <3>2, FreshFacts
  <2>4. uses' = [uses EXCEPT ![req[p]] = 1]
    BY <2>1, <2>2, <2>3 DEF SyncData, IInv, TypeOK
  <2>5. Slots!Fresh(req[p])
    BY <2>3 DEF FreshFrom, Fresh
  <2>6. Slots!Grant(req[p])
    BY <2>4, <2>5 DEF Slots!Grant
  <2> QED BY <2>2, <2>6 DEF Slots!Next, Slots!Slot, Slot
<1> QED BY <1>1, <1>2, InvariantHolds, PTL DEF Spec, ImplementsOneTimeSlots, Slots!Spec

-----------------------------------------------------------------------------
(* Foreign state is never replaced, whatever the faults                    *)

\* create and open vouch for what is there: nothing, or a usable text.
Vouched == entry = "absent" \/ (entry = "legacy" /\ LegacyUsable)

\* Whoever is about to rename a journal over the path has vouched for what it
\* replaces, and keeps everybody else out until then.
VouchedInv ==
  /\ durableEntry = entry \/ entry = "journal"
  /\ \A p \in Proc : pc[p] \in {"image", "rename"} => Vouched

\* VouchedInv is inductive, given the lock.
LEMMA VouchedInductive ==
  ASSUME TypeOK, LockInv, VouchedInv, [Next]_vars
  PROVE  LockInv' /\ VouchedInv'
<1> USE ProcAssumption DEF TypeOK, PCs
<1>0. UNCHANGED legacy /\ (UNCHANGED entry => LegacyUsable' = LegacyUsable /\ Vouched' = Vouched)
  <2>1. UNCHANGED legacy
    BY DEF Next, vars, fileVars, AcquireLock, CreateChecks, OpenReads, Refuse, InstallImage,
           InstallRename, InstallDirSync, Reserve, ReserveAt, PersistWrites, SyncData,
           SyncFails, Leave, Writeback, WritebackEntry, PowerLoss
  <2> QED BY <2>1 DEF LegacyUsable, Vouched
<1>1. ASSUME NEW p \in Proc, NEW op \in {"create", "open"}, AcquireLock(p, op)
      PROVE  LockInv' /\ VouchedInv'
  BY <1>0, <1>1 DEF AcquireLock, LockInv, VouchedInv, fileVars
<1>2. ASSUME NEW p \in Proc, pc[p] # "down", Refuse(p) PROVE LockInv' /\ VouchedInv'
  BY <1>0, <1>2 DEF Refuse, LockInv, VouchedInv, fileVars
<1>3. ASSUME NEW p \in Proc, CreateChecks(p) PROVE LockInv' /\ VouchedInv'
  <2>1. CASE Refuse(p)
    BY <1>2, <1>3, <2>1 DEF CreateChecks
  <2>2. CASE ~Refuse(p)
    <3>1. Vouched
      BY <1>3, <2>2 DEF CreateChecks, Vouched
    <3> QED BY <1>0, <1>3, <2>2, <3>1 DEF CreateChecks, LockInv, VouchedInv, fileVars
  <2> QED BY <2>1, <2>2
<1>4. ASSUME NEW p \in Proc, OpenReads(p) PROVE LockInv' /\ VouchedInv'
  <2>1. CASE Refuse(p)
    BY <1>2, <1>4, <2>1 DEF OpenReads
  <2>2. CASE ~Refuse(p)
    <3>1. /\ pc[p] = "open" /\ UNCHANGED <<lock, entry, durableEntry>>
          /\ \/ pc' = [pc EXCEPT ![p] = "ready"]
             \/ pc' = [pc EXCEPT ![p] = "image"] /\ Vouched
      BY <1>4, <2>2 DEF OpenReads, Vouched, fileVars
    <3> QED BY <1>0, <3>1 DEF LockInv, VouchedInv
  <2> QED BY <2>1, <2>2
<1>5. ASSUME NEW p \in Proc, InstallImage(p) PROVE LockInv' /\ VouchedInv'
  BY <1>0, <1>5 DEF InstallImage, LockInv, VouchedInv
<1>6. ASSUME NEW p \in Proc, InstallRename(p) PROVE LockInv' /\ VouchedInv'
  BY <1>6 DEF InstallRename, LockInv, VouchedInv
<1>7. ASSUME NEW p \in Proc, InstallDirSync(p) PROVE LockInv' /\ VouchedInv'
  BY <1>0, <1>7 DEF InstallDirSync, LockInv, VouchedInv
<1>8. ASSUME NEW p \in Proc, Reserve(p) \/ \E r \in 0 .. MaxU32 : ReserveAt(p, r)
      PROVE  LockInv' /\ VouchedInv'
  BY <1>0, <1>8 DEF Reserve, ReserveAt, PersistWrites, LockInv, VouchedInv
<1>9. ASSUME NEW p \in Proc, SyncData(p) \/ SyncFails(p) PROVE LockInv' /\ VouchedInv'
  BY <1>0, <1>9 DEF SyncData, SyncFails, LockInv, VouchedInv, fileVars
<1>10. ASSUME NEW p \in Proc, Leave(p) PROVE LockInv' /\ VouchedInv'
  BY <1>2, <1>10 DEF Leave
<1>11. ASSUME (\E h \in Half : Writeback(h)) \/ WritebackEntry PROVE LockInv' /\ VouchedInv'
  BY <1>0, <1>11 DEF Writeback, WritebackEntry, LockInv, VouchedInv
<1>12. ASSUME PowerLoss PROVE LockInv' /\ VouchedInv'
  BY <1>12 DEF PowerLoss, LockInv, VouchedInv
<1>13. ASSUME UNCHANGED vars PROVE LockInv' /\ VouchedInv'
  BY <1>0, <1>13 DEF vars, LockInv, VouchedInv
<1> QED
  BY <1>1, <1>3, <1>4, <1>5, <1>6, <1>7, <1>8, <1>9, <1>10, <1>11, <1>12, <1>13 DEF Next

\* create and open never replace another key's state, or a text whose frontier is
\* out of the window or ambiguous: under every combination of faults.
THEOREM ForeignStateIsKept == Spec => RefusedStateUntouched
<1>1. Init => LockInv /\ VouchedInv
  BY ProcAssumption DEF Init, LockInv, VouchedInv
<1>2. TypeOK /\ LockInv /\ VouchedInv /\ [Next]_vars => LockInv' /\ VouchedInv'
  BY VouchedInductive
<1>3. TypeOK /\ VouchedInv /\ [Next]_vars =>
        [entry = "foreign" \/ (entry = "legacy" /\ ~LegacyUsable)
           => UNCHANGED <<entry, durableEntry>>]_vars
  <2> SUFFICES ASSUME TypeOK, VouchedInv, Next,
                      entry = "foreign" \/ (entry = "legacy" /\ ~LegacyUsable)
               PROVE  UNCHANGED <<entry, durableEntry>>
    BY DEF vars
  <2>1. durableEntry = entry /\ \A p \in Proc : pc[p] \notin {"image", "rename"}
    BY DEF VouchedInv, Vouched
  <2> QED
    BY <2>1 DEF Next, vars, fileVars, AcquireLock, CreateChecks, OpenReads, Refuse, InstallImage,
           InstallRename, InstallDirSync, Reserve, ReserveAt, PersistWrites, SyncData,
           SyncFails, Leave, Writeback, WritebackEntry, PowerLoss
<1> QED BY <1>1, <1>2, <1>3, TypeCorrect, PTL DEF Spec, RefusedStateUntouched

-----------------------------------------------------------------------------
(* A crash never locks the signer out, as long as processes sync before    *)
(* they end                                                                *)

\* Record b may stand in the half beside a: it is one generation before or after
\* it, its frontier moves the same way, and both are inside the window.
Beside(a, b) ==
  b.kind = "valid" =>
    \/ b.gen = a.gen + 1 /\ a.next < b.next /\ b.next <= SlotEnd + 1
    \/ a.gen = b.gen + 1 /\ b.next < a.next

\* Half h is steady: it is durable, and whatever a power loss makes of the other
\* half, the two are a journal.
Steady(h) ==
  /\ disk[h] = cache[h] /\ cache[h].kind = "valid"
  /\ cache[h].next <= SlotEnd + 1
  /\ Beside(cache[h], disk[Other(h)]) /\ Beside(cache[h], cache[Other(h)])

\* An installed journal has a steady half, a live counter's own is one, and a
\* journal that is being installed starts inside the window.
SteadyInv ==
  /\ entry = "journal" => \E h \in Half : Steady(h)
  /\ \A p \in Proc :
       /\ pc[p] \in {"ready", "sync"} => Steady(HalfOf(mem[p].gen))
       /\ pc[p] \in {"image", "rename", "dirsync"} => mem[p].next <= SlotEnd + 1

\* A steady half survives whatever changes neither it nor the other half, but for a
\* write that reaches the device or is lost.
LEMMA SteadyFrame ==
  ASSUME TypeOK, NEW h \in Half, Steady(h), cache'[h] = cache[h], disk'[h] = disk[h],
         \A f \in {cache'[Other(h)], disk'[Other(h)]} :
           f \in {cache[Other(h)], disk[Other(h)], TornRecord}
  PROVE  Steady(h)'
<1>1. Beside(cache[h], TornRecord)
  BY DEF Beside, TornRecord
<1>2. \A f \in {cache'[Other(h)], disk'[Other(h)]} : Beside(cache[h], f)
  BY <1>1 DEF Steady
<1>3. Beside(cache'[h], cache'[Other(h)]) /\ Beside(cache'[h], disk'[Other(h)])
  BY <1>2
<1>4. Beside(cache[h], cache[Other(h)])' /\ Beside(cache[h], disk[Other(h)])'
  BY <1>3 DEF Beside
<1> QED BY <1>4 DEF Steady

\* A journal that was just installed is steady in its first half.
LEMMA SteadyImage ==
  ASSUME NEW n \in Nat, n <= SlotEnd + 1, cache = JournalImage(n), disk = cache
  PROVE  Steady(0)
<1>1. cache[0] = ValidRecord(0, n) /\ cache[1] = EmptyRecord /\ Other(0) = 1
  BY ImageRecords
<1>2. EmptyRecord.kind # "valid" /\ cache[0].kind = "valid" /\ cache[0].next = n
  BY <1>1, ValidFields DEF EmptyRecord
<1> QED BY <1>1, <1>2 DEF Steady, Beside

\* SteadyInv is inductive when every process syncs before it ends.
LEMMA SteadyInductive ==
  ASSUME ~ProcessDeath, IInv, IInv', SteadyInv, [Next]_vars
  PROVE  SteadyInv'
<1> USE SlotAssumption, ProcAssumption DEF IInv
<1>0. ASSUME UNCHANGED <<cache, disk>> PROVE \A h \in Half : Steady(h) => Steady(h)'
  <2> SUFFICES ASSUME NEW h \in Half, Steady(h) PROVE Steady(h)'
    OBVIOUS
  <2> QED BY <1>0, SteadyFrame
<1>a. \A p \in Proc : mem[p].gen \in Nat /\ mem[p].next \in Nat /\ HalfOf(mem[p].gen) \in Half
  BY Halves DEF TypeOK
<1>1. ASSUME NEW p \in Proc, NEW op \in {"create", "open"}, AcquireLock(p, op)
      PROVE  SteadyInv'
  BY <1>0, <1>1, <1>a DEF AcquireLock, SteadyInv, TypeOK, fileVars
<1>2. ASSUME NEW p \in Proc, Refuse(p) PROVE SteadyInv'
  BY <1>0, <1>2, <1>a DEF Refuse, SteadyInv, TypeOK, fileVars
<1>3. ASSUME NEW p \in Proc, CreateChecks(p), ~Refuse(p) PROVE SteadyInv'
  BY <1>0, <1>3, <1>a DEF CreateChecks, SteadyInv, TypeOK, fileVars
<1>4. ASSUME NEW p \in Proc, OpenReads(p), ~Refuse(p) PROVE SteadyInv'
  <2>1. /\ pc[p] = "open" /\ UNCHANGED <<entry, cache, disk>>
        /\ \A q \in Proc : q # p => pc[q] = "down" /\ pc'[q] = "down"
    BY <1>4 DEF OpenReads, LockInv, TypeOK, fileVars
  <2>2. CASE entry = "journal"
    <3>1. PICK h \in Half :
            /\ Recovers(cache, cache[h])
            /\ mem' = [mem EXCEPT ![p] = [gen |-> cache[h].gen, next |-> cache[h].next]]
            /\ pc' = [pc EXCEPT ![p] = "ready"]
      BY <1>4, <2>2 DEF OpenReads
    <3>2. disk = cache
      BY <2>1 DEF QuiescentInv, Synced
    <3>3. cache[h].kind = "valid" /\ HalfOf(cache[h].gen) = h /\ cache[h].next <= SlotEnd + 1
      BY <3>1 DEF Recovers, Decodes, RecordInv
    <3>4. cache[Other(h)].kind = "valid" =>
            cache[h].gen = cache[Other(h)].gen + 1 /\ cache[Other(h)].next < cache[h].next
      BY <3>1, <3>3, Halves DEF Recovers, Decodes, RecordInv
    <3>5. Steady(h)
      BY <3>2, <3>3, <3>4 DEF Steady, Beside
    <3>6. Steady(h)'
      BY <1>0, <2>1, <3>5
    <3>7. pc'[p] = "ready" /\ mem'[p].gen = cache[h].gen
      BY <3>1 DEF TypeOK
    <3> QED BY <2>1, <3>3, <3>6, <3>7 DEF SteadyInv
  <2>3. CASE entry # "journal"
    <3>1. /\ mem' = [mem EXCEPT ![p] = [gen |-> 0, next |-> legacy.next]]
          /\ pc' = [pc EXCEPT ![p] = "image"]
          /\ legacy.next <= SlotEnd + 1
      BY <1>4, <2>3 DEF OpenReads, LegacyUsable
    <3>2. pc'[p] = "image" /\ mem'[p].next = legacy.next
      BY <3>1 DEF TypeOK
    <3> QED BY <2>1, <2>3, <3>1, <3>2 DEF SteadyInv
  <2> QED BY <2>2, <2>3
<1>5. ASSUME NEW p \in Proc, InstallImage(p) PROVE SteadyInv'
  <2>1. entry' # "journal" /\ \A q \in Proc : q # p => pc'[q] = "down"
    BY <1>5 DEF InstallImage, InstallInv, LockInv, TypeOK
  <2>2. pc'[p] = "rename" /\ mem'[p].next <= SlotEnd + 1
    BY <1>5 DEF InstallImage, SteadyInv, TypeOK
  <2> QED BY <2>1, <2>2 DEF SteadyInv
<1>6. ASSUME NEW p \in Proc, InstallRename(p) \/ InstallDirSync(p) PROVE SteadyInv'
  <2>1. /\ pc[p] \in {"rename", "dirsync"} /\ pc'[p] \in {"dirsync", "ready"}
        /\ UNCHANGED <<cache, disk, mem>>
        /\ \A q \in Proc : q # p => pc'[q] = "down"
    BY <1>6 DEF InstallRename, InstallDirSync, LockInv, TypeOK
  <2>2. mem[p].gen = 0 /\ cache = JournalImage(mem[p].next) /\ disk = cache
    BY <2>1 DEF InstallInv
  <2>3. mem[p].next <= SlotEnd + 1
    BY <2>1 DEF SteadyInv
  <2>4. Steady(0)
    BY <1>a, <2>2, <2>3, SteadyImage
  <2>5. Steady(0)' /\ 0 \in Half /\ HalfOf(0) = 0
    BY <1>0, <2>1, <2>4, ImageRecords DEF Half, HalfOf
  <2> QED BY <2>1, <2>2, <2>3, <2>5 DEF SteadyInv
<1>7. ASSUME NEW p \in Proc, NEW slot \in Nat, pc[p] = "ready", slot >= mem[p].next,
             slot <= SlotEnd, PersistWrites(p, slot)
      PROVE  SteadyInv'
  <2>1. PICK g \in Nat, h \in Half, k \in Half :
          g = mem[p].gen /\ h = HalfOf(g) /\ k = Other(h) /\ HalfOf(g + 1) = k /\ k # h
    BY <1>a, Halves
  <2>2. /\ Steady(h) /\ cache[h] = ValidRecord(g, mem[p].next)
    BY <1>7, <2>1 DEF SteadyInv, CounterInv
  <2>3. /\ cache' = [cache EXCEPT ![k] = ValidRecord(g + 1, slot + 1)]
        /\ UNCHANGED <<mem, disk>>
    BY <1>7, <2>1 DEF PersistWrites
  <2>4. cache'[h] = cache[h] /\ cache'[k] = ValidRecord(g + 1, slot + 1)
    BY <2>1, <2>3 DEF TypeOK
  <2>5. /\ cache'[h].gen = g /\ cache'[h].next = mem[p].next
        /\ cache'[k].gen = g + 1 /\ cache'[k].next = slot + 1
    BY <1>a, <2>1, <2>2, <2>4, ValidFields
  <2>6. Beside(cache[h], cache[k])'
    BY <1>7, <1>a, <2>5 DEF Beside
  <2>7. Beside(cache[h], disk[k])'
    BY <2>1, <2>2, <2>3, <2>4 DEF Steady, Beside
  <2>8. Steady(h)'
    BY <2>1, <2>2, <2>3, <2>4, <2>6, <2>7 DEF Steady
  <2>9. pc'[p] = "sync" /\ \A q \in Proc : q # p => pc'[q] = "down"
    BY <1>7 DEF PersistWrites, LockInv, TypeOK
  <2> QED BY <2>1, <2>3, <2>8, <2>9 DEF SteadyInv
<1>8. ASSUME NEW p \in Proc, SyncData(p) PROVE SteadyInv'
  <2>1. PICK g \in Nat, h \in Half, k \in Half :
          /\ g = mem[p].gen /\ h = HalfOf(g) /\ k = Other(h) /\ HalfOf(g + 1) = k
          /\ Other(k) = h /\ k # h
    BY <1>a, Halves
  <2>2. /\ cache[h] = ValidRecord(g, mem[p].next) /\ cache[k] = ValidRecord(g + 1, req[p] + 1)
        /\ req[p] \in Slot /\ req[p] >= mem[p].next
    BY <1>8, <2>1 DEF CounterInv, SyncData
  <2>3. /\ req[p] \in Nat /\ req[p] <= SlotEnd
        /\ cache[h].gen = g /\ cache[h].next = mem[p].next
        /\ cache[k].kind = "valid" /\ cache[k].gen = g + 1 /\ cache[k].next = req[p] + 1
    <3>1. req[p] \in Nat /\ req[p] <= SlotEnd
      BY <2>2 DEF Slot
    <3>2. g + 1 \in Nat /\ req[p] + 1 \in Nat
      BY <3>1
    <3> QED BY <1>a, <2>2, <3>1, <3>2, ValidFields
  <2>4. UNCHANGED cache /\ disk' = cache
    BY <1>8 DEF SyncData
  <2>5. Beside(cache[k], cache[h])
    BY <1>a, <2>2, <2>3 DEF Beside
  <2>6. Steady(k)'
    BY <2>1, <2>3, <2>4, <2>5 DEF Steady, Beside
  <2>7. /\ pc'[p] = "ready" /\ mem'[p].gen = g + 1
        /\ \A q \in Proc : q # p => pc'[q] = "down"
    BY <1>8, <2>1 DEF SyncData, LockInv, TypeOK
  <2> QED BY <2>1, <2>6, <2>7 DEF SteadyInv
<1>9. ASSUME NEW p \in Proc, SyncFails(p) PROVE SteadyInv'
  BY <1>0, <1>9, <1>a DEF SyncFails, SteadyInv, TypeOK, fileVars
<1>10. ASSUME NEW w \in Half, Writeback(w) PROVE SteadyInv'
  <2>1. ASSUME NEW h \in Half, Steady(h) PROVE Steady(h)'
    <3>1. cache' = cache /\ disk' = [disk EXCEPT ![w] = cache[w]] /\ disk[w] # cache[w]
      BY <1>10 DEF Writeback
    <3>2. w = Other(h) /\ w # h /\ Other(h) \in Half
      BY <2>1, <3>1, Halves DEF Steady
    <3>3. disk'[h] = disk[h] /\ disk'[w] = cache[w]
      BY <3>1, <3>2 DEF TypeOK
    <3> QED BY <2>1, <3>1, <3>2, <3>3, SteadyFrame
  <2> QED BY <1>10, <1>a, <2>1 DEF Writeback, SteadyInv
<1>11. ASSUME WritebackEntry PROVE SteadyInv'
  BY <1>0, <1>11, <1>a DEF WritebackEntry, SteadyInv
<1>12. ASSUME PowerLoss PROVE SteadyInv'
  <2>1. ASSUME NEW h \in Half, Steady(h) PROVE Steady(h)'
    <3>1. cache' = disk' /\ \A g \in Half : disk'[g] \in CrashRecords(g)
      BY <1>12, CrashImageTypes DEF PowerLoss
    <3>2. disk'[h] = disk[h]
      BY <2>1, <3>1 DEF CrashRecords, Steady
    <3>3. Other(h) \in Half
      BY Halves
    <3>4. disk'[Other(h)] \in {cache[Other(h)], disk[Other(h)], TornRecord}
      BY <3>1, <3>3 DEF CrashRecords
    <3>5. cache[h] = disk[h]
      BY <2>1 DEF Steady
    <3> QED BY <2>1, <3>1, <3>2, <3>4, <3>5, SteadyFrame
  <2>2. entry' = "journal" => entry = "journal"
    BY <1>12 DEF PowerLoss, EntryInv
  <2>3. \A p \in Proc : pc'[p] = "down"
    BY <1>12 DEF PowerLoss
  <2> QED BY <2>1, <2>2, <2>3 DEF SteadyInv
<1>13. ASSUME UNCHANGED vars PROVE SteadyInv'
  BY <1>0, <1>13, <1>a DEF vars, SteadyInv
<1>14. ASSUME NEW p \in Proc, Reserve(p) \/ \E r \in 0 .. MaxU32 : ReserveAt(p, r)
       PROVE  SteadyInv'
  <2>1. PICK slot \in Nat :
          /\ pc[p] = "ready" /\ slot >= mem[p].next /\ slot <= SlotEnd /\ PersistWrites(p, slot)
    BY <1>14, <1>a DEF Reserve, ReserveAt
  <2> QED BY <1>7, <2>1
<1>15. ASSUME NEW p \in Proc, CreateChecks(p) \/ OpenReads(p) \/ Leave(p) PROVE SteadyInv'
  BY <1>2, <1>3, <1>4, <1>15 DEF Leave
<1> QED
  BY <1>1, <1>5, <1>6, <1>8, <1>9, <1>10, <1>11, <1>12, <1>13, <1>14, <1>15 DEF Next

\* Every way a power loss can leave an installed journal, with torn records and
\* undone renames, open finds a usable generation in it: no crash locks the signer
\* out of its key, provided processes sync before they end (without that it is false).
THEOREM CrashesNeverLockOut ==
  ASSUME ~ProcessDeath
  PROVE  Spec => []Recoverable
<1>1. FaultsTolerated
  BY DEF FaultsTolerated
<1>2. Init => SteadyInv
  BY DEF Init, SteadyInv
<1>3. IInv /\ IInv' /\ SteadyInv /\ [Next]_vars => SteadyInv'
  BY SteadyInductive
<1>4. IInv /\ SteadyInv => Recoverable
  <2> SUFFICES ASSUME IInv, SteadyInv, durableEntry = "journal", NEW image \in CrashImages
               PROVE  \E h \in Half : Recovers(image, image[h])
    BY DEF Recoverable
  <2> USE DEF IInv
  <2>1. PICK h \in Half : Steady(h)
    BY DEF SteadyInv, EntryInv
  <2>2. PICK k \in Half : k = Other(h) /\ k # h /\ \A q \in Half : q = h \/ q = k
    BY Halves
  <2>3. image[h] = cache[h] /\ image[k] \in {disk[k], cache[k], TornRecord}
    BY <2>1, CrashImageTypes DEF CrashRecords, Steady
  <2>4. /\ image[h].kind = "valid" /\ HalfOf(image[h].gen) = h /\ image[h].next <= SlotEnd + 1
        /\ image[h].gen \in Nat /\ image[h].next \in Nat
    BY <2>1, <2>3, RecordTypes DEF Steady, RecordInv
  <2>5. TornRecord.kind # "valid"
    BY DEF TornRecord
  <2>6. image[k].kind = "valid" =>
          /\ HalfOf(image[k].gen) = k /\ image[k].gen \in Nat /\ image[k].next \in Nat
          /\ \/ image[k].gen = image[h].gen + 1 /\ image[h].next < image[k].next
                /\ image[k].next <= SlotEnd + 1
             \/ image[h].gen = image[k].gen + 1 /\ image[k].next < image[h].next
    BY <2>1, <2>2, <2>3, <2>5, RecordTypes DEF Steady, Beside, RecordInv
  <2>7. CASE image[k].kind = "valid" /\ image[k].gen = image[h].gen + 1
    <3>1. Recovers(image, image[k])
      BY <2>2, <2>4, <2>6, <2>7 DEF Recovers, Decodes
    <3> QED BY <3>1
  <2>8. CASE ~(image[k].kind = "valid" /\ image[k].gen = image[h].gen + 1)
    <3>1. Recovers(image, image[h])
      BY <2>2, <2>4, <2>6, <2>8 DEF Recovers, Decodes
    <3> QED BY <3>1
  <2> QED BY <2>7, <2>8
<1> QED BY <1>1, <1>2, <1>3, <1>4, InvariantHolds, PTL DEF Spec
=============================================================================
