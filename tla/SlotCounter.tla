----------------------------- MODULE SlotCounter -----------------------------
(***************************************************************************)
(* AtomicSlotCounter (src/state/slot_counter.rs): the durable counter that *)
(* decides which one-time slot of an XMSS key may be signed with next.     *)
(*                                                                         *)
(* The counter lives in one file, so the model keeps what a process sees   *)
(* (the directory entry and the page cache) apart from what a power loss   *)
(* leaves behind (the durable entry and the blocks on disk).  Several      *)
(* processes may try to hold the counter of one key; each call of create,  *)
(* open and reserve_at is split at the points where a crash, an I/O error  *)
(* or another process can come in between.                                 *)
(*                                                                         *)
(* Left out: the bytes of a record (magic, reserved bytes, checksum: a     *)
(* record is valid, torn or never written), and the .tmp and .lock         *)
(* siblings as files of their own (nobody reads .tmp, .lock is the lock).  *)
(***************************************************************************)
EXTENDS Integers

CONSTANTS
  Proc, NoProc,         \* processes that run a signer for this key
  SlotStart, SlotEnd,   \* the key's inclusive slot window
  MaxU32,               \* largest u32, the type of a slot
  MaxGeneration,        \* largest u64, the type of a journal generation
  ProcessDeath,         \* may a process end while its writes are only cached?
  TornRecords,          \* may a power loss tear a record being written?
  LostRenames           \* may a power loss undo a rename not yet synced?

ASSUME ProcAssumption == NoProc \notin Proc
ASSUME SlotAssumption ==
  /\ SlotStart \in Nat /\ SlotEnd \in Nat /\ MaxU32 \in Nat
  /\ SlotStart <= SlotEnd /\ SlotEnd <= MaxU32
ASSUME GenerationAssumption == MaxGeneration \in Nat
ASSUME FaultAssumption ==
  /\ ProcessDeath \in BOOLEAN /\ TornRecords \in BOOLEAN /\ LostRenames \in BOOLEAN

VARIABLES
  lock,           \* the process that holds the exclusive lock, or NoProc
  pc,             \* where each process is in create, open or reserve
  mem,            \* the counter each process has in memory
  req,            \* the slot each process is reserving
  entry,          \* what the path names, as processes see it
  durableEntry,   \* what the path names after a power loss
  legacy,         \* the textual state file of an earlier release
  cache,          \* the two journal records as read() returns them
  disk,           \* the two journal records on the device
  uses            \* history: how often each slot was handed out

vars == <<lock, pc, mem, req, entry, durableEntry, legacy, cache, disk, uses>>
fileVars == <<entry, durableEntry, legacy, cache, disk>>

Slot == SlotStart .. SlotEnd
Slots == INSTANCE OneTimeSlots    \* the abstract specification, same uses
Fresh(n) == Slots!Fresh(n)

Half == 0 .. 1                    \* the journal's two 4 KiB record slots
HalfOfSingleRecord(gen) == 0      \* mutant: the journal has one record only
HalfOf(gen) == gen % 2            \* the one that holds a generation

Record == [kind : {"empty", "torn", "valid"}, gen : Nat, next : Nat]
EmptyRecord == [kind |-> "empty", gen |-> 0, next |-> 0]
TornRecord  == [kind |-> "torn",  gen |-> 0, next |-> 0]
ValidRecord(g, n) == [kind |-> "valid", gen |-> g, next |-> n]

NoCounter == [gen |-> 0, next |-> 0]    \* memory of a process without a counter

PCs == {"down", "create", "open", "image", "rename", "dirsync", "ready", "sync"}

TypeOK ==
  /\ lock \in Proc \cup {NoProc}
  /\ pc \in [Proc -> PCs]
  /\ mem \in [Proc -> [gen : Nat, next : Nat]]
  /\ req \in [Proc -> Nat]
  /\ entry \in {"absent", "legacy", "foreign", "journal"}
  /\ durableEntry \in {"absent", "legacy", "foreign", "journal"}
  /\ legacy \in [next : Nat, unversioned : BOOLEAN]
  /\ cache \in [Half -> Record]
  /\ disk \in [Half -> Record]
  /\ uses \in [Slot -> Nat]

-----------------------------------------------------------------------------
(* What a file says.                                                       *)

\* decode_record: a record counts only in the slot its generation belongs in.
Decodes(image, h) == image[h].kind = "valid" /\ HalfOf(image[h].gen) = h

\* recover_journal returns r: the newer of the valid records, which must be
\* one monotonic generation apart and inside the key's window.  A journal for
\* which no r qualifies is refused.
Recovers(image, r) ==
  /\ \E h \in Half : Decodes(image, h) /\ r = image[h]
  /\ \A h \in Half : Decodes(image, h) /\ image[h] # r =>
       r.gen = image[h].gen + 1 /\ image[h].next < r.next
  /\ r.next <= SlotEnd + 1

\* The checks of open on a textual counter of this key: inside the window, and
\* not the one value that an unversioned text could not represent.
LegacyUsable ==
  /\ legacy.next <= SlotEnd + 1
  /\ ~(legacy.unversioned /\ SlotEnd = MaxU32 /\ legacy.next = MaxU32)

\* Mutant: the second record slot is not allocated up front.
JournalImageOneRecord(n) == [h \in {0} |-> ValidRecord(0, n)]

\* The image install_journal writes: generation 0 first, second slot empty.
JournalImage(n) == [h \in Half |-> IF h = 0 THEN ValidRecord(0, n) ELSE EmptyRecord]

\* Nothing would be lost if the power failed now.
Synced == cache = disk /\ entry = durableEntry

-----------------------------------------------------------------------------
(* The state file exists from an earlier release, belongs to another key   *)
(* or is unreadable ("foreign"), or has never been created.  A text that   *)
(* is already there records what the earlier release handed out; the       *)
(* unversioned text kept the counter in a u32, which saturates.            *)

Init ==
  /\ lock = NoProc
  /\ pc = [p \in Proc |-> "down"]
  /\ mem = [p \in Proc |-> NoCounter]
  /\ req = [p \in Proc |-> 0]
  /\ cache = [h \in Half |-> EmptyRecord]
  /\ disk = [h \in Half |-> EmptyRecord]
  /\ \/ /\ entry \in {"absent", "foreign"}
        /\ legacy = [next |-> 0, unversioned |-> FALSE]
        /\ uses = [s \in Slot |-> 0]
     \/ /\ entry = "legacy"
        /\ \E frontier \in SlotStart .. SlotEnd + 2, u \in BOOLEAN :
             /\ legacy = [next |-> IF u /\ frontier > MaxU32 THEN MaxU32 ELSE frontier,
                          unversioned |-> u]
             /\ uses = [s \in Slot |-> IF s < frontier THEN 1 ELSE 0]
  /\ durableEntry = entry

-----------------------------------------------------------------------------
(* create and open                                                         *)

\* acquire_lock is the first thing create and open do.  A process that finds
\* the lock taken gets Busy and nothing changes.
AcquireLock(p, op) ==
  /\ pc[p] = "down"
  /\ lock = NoProc
  /\ lock' = p
  /\ pc' = [pc EXCEPT ![p] = op]
  /\ UNCHANGED <<mem, req, uses, fileVars>>

\* The call returns an error: the lock and the counter are dropped on the way out.
Refuse(p) ==
  /\ lock' = NoProc
  /\ pc' = [pc EXCEPT ![p] = "down"]
  /\ mem' = [mem EXCEPT ![p] = NoCounter]
  /\ req' = [req EXCEPT ![p] = 0]
  /\ UNCHANGED <<uses, fileVars>>

\* Mutant: create replaces whatever is there.
CreateOverwrites(p) ==
  /\ pc[p] = "create"
  /\ mem' = [mem EXCEPT ![p] = [gen |-> 0, next |-> SlotStart]]
  /\ pc' = [pc EXCEPT ![p] = "image"]
  /\ UNCHANGED <<lock, req, uses, fileVars>>

\* create looks for the file only now, under the lock.
CreateChecks(p) ==
  /\ pc[p] = "create"
  /\ \/ entry # "absent" /\ Refuse(p)
     \/ /\ entry = "absent"
        /\ mem' = [mem EXCEPT ![p] = [gen |-> 0, next |-> SlotStart]]
        /\ pc' = [pc EXCEPT ![p] = "image"]
        /\ UNCHANGED <<lock, req, uses, fileVars>>

\* open reads the file: a journal is recovered, a text is migrated, and
\* everything else (missing, foreign, unrecoverable) is refused.
OpenReads(p) ==
  /\ pc[p] = "open"
  /\ \/ /\ entry = "journal"
        /\ \E h \in Half :
             /\ Recovers(cache, cache[h])
             /\ mem' = [mem EXCEPT ![p] = [gen |-> cache[h].gen, next |-> cache[h].next]]
        /\ pc' = [pc EXCEPT ![p] = "ready"]
        /\ UNCHANGED <<lock, req, uses, fileVars>>
     \/ /\ entry = "legacy" /\ LegacyUsable
        /\ mem' = [mem EXCEPT ![p] = [gen |-> 0, next |-> legacy.next]]
        /\ pc' = [pc EXCEPT ![p] = "image"]
        /\ UNCHANGED <<lock, req, uses, fileVars>>
     \/ /\ \/ entry \in {"absent", "foreign"}
           \/ entry = "legacy" /\ ~LegacyUsable
           \/ entry = "journal" /\ \A h \in Half : ~Recovers(cache, cache[h])
        /\ Refuse(p)

\* install_journal writes the whole image to the .tmp sibling and syncs it ...
InstallImage(p) ==
  /\ pc[p] = "image"
  /\ cache' = JournalImage(mem[p].next)
  /\ disk' = cache'
  /\ pc' = [pc EXCEPT ![p] = "rename"]
  /\ UNCHANGED <<lock, mem, req, entry, durableEntry, legacy, uses>>

\* ... renames it over the path ...
InstallRename(p) ==
  /\ pc[p] = "rename"
  /\ entry' = "journal"
  /\ durableEntry' = IF LostRenames THEN durableEntry ELSE "journal"
  /\ pc' = [pc EXCEPT ![p] = "dirsync"]
  /\ UNCHANGED <<lock, mem, req, legacy, cache, disk, uses>>

\* ... and syncs the directory.  Only then is the counter returned.
InstallDirSync(p) ==
  /\ pc[p] = "dirsync"
  /\ durableEntry' = entry
  /\ pc' = [pc EXCEPT ![p] = "ready"]
  /\ UNCHANGED <<lock, mem, req, entry, legacy, cache, disk, uses>>

-----------------------------------------------------------------------------
(* reserve and reserve_at                                                  *)

\* The half of persist_next before the barrier: the next generation goes into
\* the slot that does not hold the current one.
PersistWrites(p, slot) ==
  LET gen == mem[p].gen + 1 IN
  /\ gen <= MaxGeneration
  /\ cache' = [cache EXCEPT ![HalfOf(gen)] = ValidRecord(gen, slot + 1)]
  /\ req' = [req EXCEPT ![p] = slot]
  /\ pc' = [pc EXCEPT ![p] = "sync"]
  /\ UNCHANGED <<lock, mem, entry, durableEntry, legacy, disk, uses>>

\* reserve: the next local slot.
Reserve(p) ==
  /\ pc[p] = "ready"
  /\ mem[p].next <= SlotEnd
  /\ PersistWrites(p, mem[p].next)

\* Mutant: reserve_at does not refuse a slot below the frontier.
ReserveAtAnySlot(p, requested) ==
  /\ pc[p] = "ready"
  /\ mem[p].next <= SlotEnd /\ requested \in Slot
  /\ PersistWrites(p, requested)

\* reserve_at: the slot the protocol chose.  Exhausted and AlreadySpent leave
\* everything as it is.
ReserveAt(p, requested) ==
  /\ pc[p] = "ready"
  /\ mem[p].next <= SlotEnd /\ requested <= SlotEnd
  /\ requested >= mem[p].next
  /\ PersistWrites(p, requested)

\* Mutant: the slot is handed out before the record is durable.
SyncDataSkipped(p) ==
  /\ pc[p] = "sync"
  /\ mem' = [mem EXCEPT ![p] = [gen |-> mem[p].gen + 1, next |-> req[p] + 1]]
  /\ uses' = [uses EXCEPT ![req[p]] = @ + 1]
  /\ pc' = [pc EXCEPT ![p] = "ready"]
  /\ UNCHANGED <<lock, req, entry, durableEntry, legacy, cache, disk>>

\* sync_data returns: the record is durable, memory follows and the slot is
\* handed to the caller.
SyncData(p) ==
  /\ pc[p] = "sync"
  /\ disk' = cache
  /\ mem' = [mem EXCEPT ![p] = [gen |-> mem[p].gen + 1, next |-> req[p] + 1]]
  /\ uses' = [uses EXCEPT ![req[p]] = @ + 1]
  /\ pc' = [pc EXCEPT ![p] = "ready"]
  /\ UNCHANGED <<lock, req, entry, durableEntry, legacy, cache>>

\* sync_data fails: the caller gets an error, memory keeps the old generation,
\* and the record stays in the page cache.
SyncFails(p) ==
  /\ pc[p] = "sync"
  /\ pc' = [pc EXCEPT ![p] = "ready"]
  /\ UNCHANGED <<lock, mem, req, uses, fileVars>>

-----------------------------------------------------------------------------
(* The environment                                                         *)

\* A process ends wherever it is: it is killed, create or open returns an I/O
\* error, or the counter is dropped.  The kernel releases the lock and keeps
\* the page cache.
Leave(p) ==
  /\ pc[p] # "down"
  /\ ProcessDeath \/ Synced
  /\ Refuse(p)

\* The kernel writes a cached record, or the directory, back on its own.
Writeback(h) ==
  /\ disk[h] # cache[h]
  /\ disk' = [disk EXCEPT ![h] = cache[h]]
  /\ UNCHANGED <<lock, pc, mem, req, entry, durableEntry, legacy, cache, uses>>

WritebackEntry ==
  /\ durableEntry # entry
  /\ durableEntry' = entry
  /\ UNCHANGED <<lock, pc, mem, req, entry, legacy, cache, disk, uses>>

\* What a power loss may leave in each record slot: the old record, the new one
\* or, while they differ, a torn mixture that fails its checksum.
CrashRecords(h) ==
  {disk[h], cache[h]} \cup
    (IF TornRecords /\ disk[h] # cache[h] THEN {TornRecord} ELSE {})
CrashImages == {image \in [Half -> UNION {CrashRecords(h) : h \in Half}] :
                  \A h \in Half : image[h] \in CrashRecords(h)}

PowerLoss ==
  /\ lock' = NoProc
  /\ pc' = [p \in Proc |-> "down"]
  /\ disk' \in CrashImages
  /\ cache' = disk'
  /\ mem' = [p \in Proc |-> NoCounter]
  /\ req' = [p \in Proc |-> 0]
  /\ entry' = durableEntry
  /\ UNCHANGED <<durableEntry, legacy, uses>>

-----------------------------------------------------------------------------
Next ==
  \/ \E p \in Proc :
       \/ AcquireLock(p, "create") \/ AcquireLock(p, "open")
       \/ CreateChecks(p) \/ OpenReads(p)
       \/ InstallImage(p) \/ InstallRename(p) \/ InstallDirSync(p)
       \/ Reserve(p)
       \/ \E requested \in 0 .. MaxU32 : ReserveAt(p, requested)
       \/ SyncData(p) \/ SyncFails(p)
       \/ Leave(p)
  \/ \E h \in Half : Writeback(h)
  \/ WritebackEntry
  \/ PowerLoss

Spec == Init /\ [][Next]_vars

-----------------------------------------------------------------------------
(* Properties                                                              *)

\* No slot is handed out twice, whatever crashes, restarts and competing
\* processes come in between (the promise of reserve and reserve_at).
NoSlotReuse == \A s \in Slot : uses[s] <= 1

\* Every way a power loss can leave an installed journal, open still finds a
\* usable generation in it: a crash never locks the signer out of its key.
Recoverable ==
  durableEntry = "journal" =>
    \A image \in CrashImages : \E h \in Half : Recovers(image, image[h])

\* create and open never replace a state file they cannot vouch for: one that
\* belongs to another key, or a text whose frontier is out of the window or
\* ambiguous.
RefusedStateUntouched ==
  [][entry = "foreign" \/ (entry = "legacy" /\ ~LegacyUsable)
       => UNCHANGED <<entry, durableEntry>>]_vars

\* The counter implements the abstract allocator: slots are handed out in
\* strictly increasing order, through every crash and restart.
ImplementsOneTimeSlots == Slots!Spec
=============================================================================
